----------------------------- MODULE PeerConfig -----------------------------
(***************************************************************************)
(* The data the reconciler computes with: live WireGuard configurations,   *)
(* expected-peer files, the check that loads such a file                   *)
(* (load_expected_state) and the merge of the file into the live           *)
(* configuration (merge_peer_state), both of wg_manager/reconciler.py.     *)
(*                                                                         *)
(* A configuration maps the public keys of the peers it holds to the       *)
(* addresses their AllowedIPs cover.  An expected-peer file is the set of  *)
(* its peers; its SHA-256 digest is the set itself, so that two files have *)
(* the same digest exactly when they have the same content.                *)
(***************************************************************************)
EXTENDS Naturals, FiniteSets

CONSTANTS
    ManagedKeys,  \* keys the manager generates for devices
    ForeignKeys,  \* keys of peers the manager knows nothing about
    Addresses,    \* tunnel addresses
    ForeignNets,  \* ForeignNets[k]: the addresses the AllowedIPs of k cover
    BootPeers,    \* foreign peers of /etc/wireguard/wg0.conf
    MaxPeers      \* reconciler.py MAX_PEERS

Keys == ManagedKeys \cup ForeignKeys

(* Key generation never repeats a key that is already on the interface.    *)
ASSUME KeysAssumption == ManagedKeys \cap ForeignKeys = {}

ASSUME NetsAssumption == /\ BootPeers \subseteq ForeignKeys
                         /\ ForeignNets \in [ForeignKeys -> SUBSET Addresses]

ASSUME MaxPeersAssumption == MaxPeers \in Nat

(* One entry of the expected-peer file: a key with a single /32.           *)
Peer == [key : ManagedKeys, ip : Addresses]

KeysOf(S) == {p.key : p \in S}

IpsOf(S, k) == {p.ip : p \in {q \in S : q.key = k}}

IsConf(c) == /\ DOMAIN c \subseteq Keys
             /\ c \in [DOMAIN c -> SUBSET Addresses]

NoConf == [k \in {} |-> {}]

(* What wg-quick loads: the peers of wg0.conf, which the manager never     *)
(* rewrites.                                                               *)
Boot == [k \in BootPeers |-> ForeignNets[k]]

(* The peers of a configuration that carry managed keys.                   *)
ManagedPart(c) == [k \in DOMAIN c \cap ManagedKeys |-> c[k]]

(* The interface serves exactly the peers of S to managed keys.            *)
Serves(c, S) == ManagedPart(c) = [k \in KeysOf(S) |-> IpsOf(S, k)]

(* No address of a managed peer is routed to another peer as well.         *)
Disjoint(c) == \A j \in DOMAIN c \cap ManagedKeys, k \in DOMAIN c :
                   j # k => c[j] \cap c[k] = {}

(* The peers of wg0.conf are on the interface, with their networks.        *)
KeepsBoot(c) == \A k \in BootPeers : k \in DOMAIN c /\ c[k] = ForeignNets[k]

-----------------------------------------------------------------------------
(* Mutation of WellFormed: only keys are compared.                         *)
WellFormedKeys(S) ==
    /\ Cardinality(S) <= MaxPeers
    /\ \A p, q \in S : p # q => p.key # q.key

(* load_expected_state: a bounded number of peers, no key and no address   *)
(* twice.                                                                  *)
WellFormed(S) ==
    /\ Cardinality(S) <= MaxPeers
    /\ \A p, q \in S : p # q => p.key # q.key /\ p.ip # q.ip

(* The peers of conf the file says nothing about and the manifest does not *)
(* own.                                                                    *)
Unmanaged(conf, desired, owned) == DOMAIN conf \ (owned \cup KeysOf(desired))

(* No desired address lies inside the networks of an unmanaged peer.       *)
NoOverlap(conf, desired, owned) ==
    \A p \in desired, k \in Unmanaged(conf, desired, owned) : p.ip \notin conf[k]

(* A desired key that is live and unowned may be taken over only at the    *)
(* first apply (no manifest yet) and only with the routes it already has.  *)
Adoptable(conf, desired, owned, adopt) ==
    \A p \in desired :
        p.key \in DOMAIN conf \ owned => adopt /\ conf[p.key] = {p.ip}

(* Mutation: only adoption is checked, not overlap.                        *)
MergeableUnchecked(conf, desired, owned, adopt) == Adoptable(conf, desired, owned, adopt)

Mergeable(conf, desired, owned, adopt) ==
    /\ NoOverlap(conf, desired, owned)
    /\ Adoptable(conf, desired, owned, adopt)

(* Mutation of Merge: the candidate holds the file's peers and no other.   *)
MergeManagedOnly(conf, desired, owned) ==
    [k \in KeysOf(desired) |-> IpsOf(desired, k)]

(* Owned peers the file no longer names are dropped, the file's peers get  *)
(* their address, every other peer stays as it is.                         *)
Merge(conf, desired, owned) ==
    [k \in (DOMAIN conf \ (owned \ KeysOf(desired))) \cup KeysOf(desired) |->
        IF k \in KeysOf(desired) THEN IpsOf(desired, k) ELSE conf[k]]

(* Mutation of Matches: nothing is verified.                               *)
MatchesAlways(conf, candidate, desired, removed) == TRUE

(* _verify_live_state: the peers are the candidate's, the desired peers    *)
(* have their address, and no revoked key is left.                         *)
Matches(conf, candidate, desired, removed) ==
    /\ DOMAIN conf = DOMAIN candidate
    /\ \A p \in desired : conf[p.key] = {p.ip}
    /\ removed \cap DOMAIN conf = {}
=============================================================================
