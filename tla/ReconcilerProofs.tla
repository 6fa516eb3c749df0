-------------------------- MODULE ReconcilerProofs --------------------------
(***************************************************************************)
(* What holds of the reconciler for every set of keys, addresses, clients  *)
(* and payloads, and whatever fails: the types, that no managed address is *)
(* shared, and that the peers of wg0.conf stay.                            *)
(***************************************************************************)
EXTENDS Reconciler, SequenceTheorems, TLAPS

(* The merge of a configuration is a configuration.                        *)
LEMMA MergeConf ==
    ASSUME NEW c, IsConf(c), NEW S \in SUBSET Peer, NEW o
    PROVE  IsConf(Merge(c, S, o))
<1> DEFINE D == (DOMAIN c \ (o \ KeysOf(S))) \cup KeysOf(S)
           m == Merge(c, S, o)
<1>1. KeysOf(S) \subseteq ManagedKeys
  BY DEF KeysOf, Peer
<1>2. \A k \in D : m[k] \in SUBSET Addresses
  <2> SUFFICES ASSUME NEW k \in D PROVE m[k] \in SUBSET Addresses
    OBVIOUS
  <2>1. CASE k \in KeysOf(S)
    <3>1. m[k] = IpsOf(S, k)
      BY <2>1 DEF Merge
    <3> QED
      BY <3>1 DEF IpsOf, Peer
  <2>2. CASE k \notin KeysOf(S)
    <3>1. k \in DOMAIN c /\ m[k] = c[k]
      BY <2>2 DEF Merge
    <3> QED
      BY <3>1 DEF IsConf
  <2> QED
    BY <2>1, <2>2
<1>3. DOMAIN m = D /\ m = [k \in D |-> m[k]]
  BY DEF Merge
<1>4. D \subseteq Keys
  BY <1>1 DEF IsConf, Keys
<1> QED
  BY <1>2, <1>3, <1>4 DEF IsConf

(* merge_peer_state never makes two peers share a managed address.         *)
LEMMA MergeDisjoint ==
    ASSUME NEW c, IsConf(c), Disjoint(c), NEW S \in SUBSET Peer, NEW o, NEW a,
           WellFormed(S), Mergeable(c, S, o, a)
    PROVE  Disjoint(Merge(c, S, o))
<1> DEFINE m == Merge(c, S, o)
<1> SUFFICES ASSUME NEW j \in DOMAIN m \cap ManagedKeys, NEW k \in DOMAIN m,
                    j # k, NEW x \in m[j], x \in m[k]
             PROVE  FALSE
  BY DEF Disjoint
<1>1. \A i \in DOMAIN m : i \in KeysOf(S) => \A y \in m[i] :
          \E p \in S : p.key = i /\ p.ip = y
  BY DEF Merge, IpsOf
<1>2. \A i \in DOMAIN m : i \notin KeysOf(S) =>
          i \in Unmanaged(c, S, o) /\ m[i] = c[i]
  BY DEF Merge, Unmanaged
<1>3. \A p \in S, i \in Unmanaged(c, S, o) : p.ip \notin c[i]
  BY DEF Mergeable, NoOverlap
<1>4. CASE j \in KeysOf(S) /\ k \in KeysOf(S)
  <2>1. PICK p \in S : p.key = j /\ p.ip = x
    BY <1>1, <1>4
  <2>2. PICK q \in S : q.key = k /\ q.ip = x
    BY <1>1, <1>4
  <2> QED
    BY <2>1, <2>2 DEF WellFormed
<1>5. CASE j \in KeysOf(S) /\ k \notin KeysOf(S)
  BY <1>1, <1>2, <1>3, <1>5
<1>6. CASE j \notin KeysOf(S) /\ k \in KeysOf(S)
  BY <1>1, <1>2, <1>3, <1>6
<1>7. CASE j \notin KeysOf(S) /\ k \notin KeysOf(S)
  <2>1. j \in DOMAIN c \cap ManagedKeys /\ k \in DOMAIN c /\ m[j] = c[j] /\ m[k] = c[k]
    BY <1>2, <1>7 DEF Unmanaged
  <2> QED
    BY <2>1 DEF Disjoint
<1> QED
  BY <1>4, <1>5, <1>6, <1>7

(* merge_peer_state keeps the foreign peers, if the manifest owns none.    *)
LEMMA MergeKeepsBoot ==
    ASSUME NEW c, KeepsBoot(c), NEW S \in SUBSET Peer, NEW o \in SUBSET ManagedKeys
    PROVE  KeepsBoot(Merge(c, S, o))
<1> SUFFICES ASSUME NEW k \in BootPeers
             PROVE  k \in DOMAIN Merge(c, S, o) /\ Merge(c, S, o)[k] = ForeignNets[k]
  BY DEF KeepsBoot
<1>1. k \notin ManagedKeys
  BY KeysAssumption, NetsAssumption
<1>2. k \notin KeysOf(S) /\ k \notin o
  BY <1>1 DEF KeysOf, Peer
<1>3. k \in DOMAIN c /\ c[k] = ForeignNets[k]
  BY DEF KeepsBoot
<1> QED
  BY <1>2, <1>3 DEF Merge

LEMMA BootConf == IsConf(Boot) /\ Disjoint(Boot) /\ KeepsBoot(Boot)
<1>1. BootPeers \subseteq Keys
  BY NetsAssumption DEF Keys
<1>2. \A k \in BootPeers : ForeignNets[k] \in SUBSET Addresses
  BY NetsAssumption
<1>3. DOMAIN Boot \cap ManagedKeys = {}
  BY KeysAssumption, NetsAssumption DEF Boot
<1>4. DOMAIN Boot = BootPeers
  BY DEF Boot
<1>5. IsConf(Boot)
  BY <1>1, <1>2, <1>4 DEF IsConf, Boot
<1>6. Disjoint(Boot)
  BY <1>3 DEF Disjoint
<1>7. KeepsBoot(Boot)
  BY <1>4 DEF KeepsBoot, Boot
<1> QED
  BY <1>5, <1>6, <1>7

LEMMA EmptyConf == IsConf(NoConf) /\ Disjoint(NoConf)
  BY DEF NoConf, IsConf, Disjoint, Keys

(* Adding a foreign peer to a configuration.                               *)
LEMMA AddConf ==
    ASSUME NEW c, IsConf(c), NEW k \in ForeignKeys
    PROVE  IsConf([j \in DOMAIN c \cup {k} |-> IF j = k THEN ForeignNets[k] ELSE c[j]])
<1>1. \A j \in DOMAIN c : c[j] \in SUBSET Addresses
  BY DEF IsConf
<1>2. ForeignNets[k] \in SUBSET Addresses
  BY NetsAssumption
<1> QED
  BY <1>1, <1>2 DEF IsConf, Keys

LEMMA OwnedManaged == \A m \in Manifests : Owned(m) \subseteq ManagedKeys
  BY DEF Manifests, Owned

-----------------------------------------------------------------------------
LEMMA PayloadType == \A S \in Payloads \cup {Absent} : S \in Payload
  BY PayloadsAssumption DEF Payload

LEMMA KeysType == \A S \in SUBSET Peer : KeysOf(S) \in SUBSET ManagedKeys
  BY DEF KeysOf, Peer

(* Emptied registers are well typed.                                       *)
LEMMA ResetType == /\ NoRequest \in Requests
                   /\ NoFiles \in [manifest : Manifests, status : Statuses]
  BY DEF NoRequest, Requests, NoFiles, Manifests, Statuses

LEMMA InitType == Init => TypeOK
<1> SUFFICES ASSUME Init PROVE TypeOK
  OBVIOUS
<1>1. IsConf(live) /\ IsConf(base) /\ IsConf(cand)
  BY BootConf, EmptyConf DEF Init
<1>2. req \in Requests /\ prior \in [manifest : Manifests, status : Statuses]
  BY ResetType DEF Init
<1>3. queue \in Seq(Requests)
  BY DEF Init
<1> QED
  BY <1>1, <1>2, <1>3 DEF Init, TypeOK, Payload, Manifests, Statuses, Phases

(* One step of the reconciler's own work keeps the types.                  *)
LEMMA WorkType == TypeOK /\ Work => TypeOK'
<1> SUFFICES ASSUME TypeOK, Work PROVE TypeOK'
  OBVIOUS
<1> USE DEF TypeOK
<1>1. CASE Accept
  <2>1. req' \in Requests /\ queue' \in Seq(Requests)
    BY <1>1, HeadTailProperties DEF Accept
  <2> QED
    BY <1>1, <2>1 DEF Accept, Phases, IsConf
<1>2. CASE Load
  <2>1. IsConf(base') /\ prior' \in [manifest : Manifests, status : Statuses]
    BY <1>2 DEF Load
  <2>2. IsConf(cand')
    <3>1. CASE Acceptable /\ cand' = Merge(live, expected, Owned(manifest))
      <4>1. expected \in SUBSET Peer
        BY <3>1 DEF Acceptable, Payload
      <4> QED
        BY <3>1, <4>1, MergeConf
    <3>2. CASE UNCHANGED cand
      BY <3>2
    <3> QED
      BY <1>2, <3>1, <3>2 DEF Load
  <2>3. phase' \in Phases
        /\ answer' \in IF phase' = "replying" THEN {"applied", "failed"} ELSE {"none"}
    BY <1>2 DEF Load, Fails, Answers, Phases
  <2> QED
    BY <1>2, <2>1, <2>2, <2>3 DEF Load, IsConf
<1>3. CASE SyncConf
  <2>1. IsConf(live')
    BY <1>3 DEF SyncConf
  <2>2. phase' \in Phases
        /\ answer' \in IF phase' = "replying" THEN {"applied", "failed"} ELSE {"none"}
    BY <1>3 DEF SyncConf, Fails, Answers, Phases
  <2> QED
    BY <1>3, <2>1, <2>2 DEF SyncConf, IsConf
<1>4. CASE Verify
  BY <1>4 DEF Verify, Fails, Answers, Phases, IsConf
<1>5. CASE Undo
  <2>1. IsConf(live')
    BY <1>5 DEF Undo, RollbackLive
  <2> QED
    BY <1>5, <2>1 DEF Undo, Fails, Answers, Phases, IsConf
<1>6. CASE RecordManifest
  <2>1. KeysOf(req.digest) \in Manifests
    BY KeysType DEF Requests, Manifests
  <2>2. manifest' \in Manifests /\ phase' \in Phases
    BY <1>6, <2>1 DEF RecordManifest, WriteFails, Phases
  <2> QED
    BY <1>6, <2>2 DEF RecordManifest, IsConf
<1>7. CASE RecordStatus
  <2>1. [digest |-> req.digest, id |-> req.id] \in Statuses
    BY DEF Requests, Statuses
  <2>2. status' \in Statuses
    BY <1>7, <2>1 DEF RecordStatus, WriteFails
  <2>3. phase' \in Phases
        /\ answer' \in IF phase' = "replying" THEN {"applied", "failed"} ELSE {"none"}
    BY <1>7 DEF RecordStatus, Answers, Phases
  <2> QED
    BY <1>7, <2>2, <2>3 DEF RecordStatus, IsConf
<1>8. CASE Unwind
  <2>1. IsConf(live')
    BY <1>8 DEF Unwind, RollbackLive
  <2> QED
    BY <1>8, <2>1 DEF Unwind, Phases, IsConf
<1>9. CASE RestoreManifest
  BY <1>9 DEF RestoreManifest, Fails, Answers, Phases, IsConf
<1>10. CASE RestoreStatus
  BY <1>10 DEF RestoreStatus, Fails, Answers, Phases, IsConf
<1>11. CASE Reply
  <2>1. IsConf(base') /\ IsConf(cand') /\ req' \in Requests
        /\ prior' \in [manifest : Manifests, status : Statuses]
    BY <1>11, EmptyConf, ResetType DEF Reply
  <2>2. ASSUME NEW c \in Clients
        PROVE  conn'[c] \in [id : Nat, state : {"closed", "open", "applied", "failed", "eof"}]
    <3>1. answer \in {"applied", "failed"}
      BY <1>11 DEF Reply
    <3>2. conn'[c] \in {conn[c], [conn[c] EXCEPT !.state = answer]}
      BY <1>11 DEF Reply
    <3> QED
      BY <3>1, <3>2
  <2> QED
    BY <1>11, <2>1, <2>2 DEF Reply, Phases, IsConf
<1> QED
  BY <1>1, <1>2, <1>3, <1>4, <1>5, <1>6, <1>7, <1>8, <1>9, <1>10, <1>11 DEF Work

(* A step of what surrounds it keeps the types.                            *)
LEMMA WorldType == TypeOK /\ World => TypeOK'
<1> SUFFICES ASSUME TypeOK, World PROVE TypeOK'
  OBVIOUS
<1> USE DEF TypeOK
<1>1. CASE Crash
  <2>1. IsConf(base') /\ IsConf(cand') /\ req' \in Requests
        /\ prior' \in [manifest : Manifests, status : Statuses]
    BY <1>1, EmptyConf, ResetType DEF Crash
  <2>2. queue' \in Seq(Requests)
    BY <1>1 DEF Crash
  <2> QED
    BY <1>1, <2>1, <2>2 DEF Crash, Phases, IsConf
<1>2. CASE Restart
  BY <1>2 DEF Restart, Phases, IsConf
<1>3. CASE InterfaceRestarts
  BY <1>3, BootConf DEF InterfaceRestarts, IsConf
<1>4. ASSUME NEW k \in ForeignKeys, OperatorAdds(k) PROVE TypeOK'
  <2>1. IsConf(live')
    <3>1. live' = [j \in DOMAIN live \cup {k} |-> IF j = k THEN ForeignNets[k] ELSE live[j]]
      BY <1>4 DEF OperatorAdds
    <3>2. IsConf([j \in DOMAIN live \cup {k} |-> IF j = k THEN ForeignNets[k] ELSE live[j]])
      BY AddConf
    <3> QED
      BY <3>1, <3>2
  <2> QED
    BY <1>4, <2>1 DEF OperatorAdds, IsConf
<1> QED
  BY <1>1, <1>2, <1>3, <1>4 DEF World

LEMMA EnvironmentType == TypeOK /\ Environment => TypeOK'
<1> SUFFICES ASSUME TypeOK, Environment PROVE TypeOK'
  OBVIOUS
<1> USE DEF TypeOK
<1>1. ASSUME NEW e \in Payloads \cup {Absent}, ClientWrites(e) PROVE TypeOK'
  BY <1>1, PayloadType DEF ClientWrites, IsConf
<1>2. ASSUME NEW c \in Clients, NEW d \in Payloads, ClientConnects(c, d) PROVE TypeOK'
  <2>1. issued' \in Nat
    BY <1>2 DEF ClientConnects
  <2>2. [client |-> c, id |-> issued', digest |-> d] \in Requests
    BY <2>1, PayloadsAssumption DEF Requests
  <2>3. queue' \in Seq(Requests)
    BY <1>2, <2>2, AppendProperties DEF ClientConnects
  <2>4. conn' \in [Clients -> [id : Nat, state : {"closed", "open", "applied", "failed", "eof"}]]
    BY <1>2, <2>1 DEF ClientConnects
  <2> QED
    BY <1>2, <2>1, <2>3, <2>4 DEF ClientConnects, IsConf
<1>3. ASSUME NEW c \in Clients, ClientCloses(c) PROVE TypeOK'
  BY <1>3 DEF ClientCloses, IsConf
<1> QED
  BY <1>1, <1>2, <1>3 DEF Environment

LEMMA NextType == TypeOK /\ [Next]_vars => TypeOK'
<1>1. TypeOK /\ UNCHANGED vars => TypeOK'
  BY DEF TypeOK, vars, IsConf
<1> QED
  BY <1>1, WorkType, WorldType, EnvironmentType DEF Next

(* Every variable keeps its type, whatever fails.                          *)
THEOREM TypeCorrect == Spec => []TypeOK
<1> QED
  BY InitType, NextType, PTL DEF Spec

-----------------------------------------------------------------------------
LEMMA InitSafe == Init => SafeRegisters
  BY BootConf, EmptyConf DEF Init, SafeRegisters

(* Only Load makes a new candidate; syncconf and the rollback put on the   *)
(* interface what the registers hold.                                      *)
LEMMA WorkSafe == TypeOK /\ SafeRegisters /\ Work => SafeRegisters'
<1> SUFFICES ASSUME TypeOK, SafeRegisters, Work PROVE SafeRegisters'
  OBVIOUS
<1> USE DEF SafeRegisters
<1>1. CASE Accept
  BY <1>1 DEF Accept, Disjoint, KeepsBoot
<1>2. CASE Load
  <2>1. CASE Acceptable /\ cand' = Merge(live, expected, Owned(manifest)) /\ phase' = "syncing"
    <3>1. /\ expected \in SUBSET Peer
          /\ WellFormed(expected)
          /\ Mergeable(live, expected, Owned(manifest), manifest = Absent)
      BY <2>1 DEF Acceptable, TypeOK, Payload
    <3>2. Owned(manifest) \in SUBSET ManagedKeys
      BY OwnedManaged DEF TypeOK
    <3>3. IsConf(live)
      BY DEF TypeOK
    <3>4. Disjoint(Merge(live, expected, Owned(manifest)))
      BY <3>1, <3>3, MergeDisjoint
    <3>5. KeepsBoot(Merge(live, expected, Owned(manifest)))
      BY <3>1, <3>2, MergeKeepsBoot
    <3> QED
      BY <1>2, <2>1, <3>4, <3>5 DEF Load
  <2>2. CASE phase' = "replying" /\ UNCHANGED cand
    BY <1>2, <2>2 DEF Load
  <2> QED
    BY <1>2, <2>1, <2>2 DEF Load, Fails, Answers
<1>3. CASE SyncConf
  BY <1>3 DEF SyncConf, Fails, Answers
<1>4. CASE Verify
  BY <1>4 DEF Verify, Fails, Answers
<1>5. CASE Undo
  BY <1>5 DEF Undo, RollbackLive, Fails, Answers
<1>6. CASE RecordManifest
  BY <1>6 DEF RecordManifest
<1>7. CASE RecordStatus
  BY <1>7 DEF RecordStatus, Answers
<1>8. CASE Unwind
  BY <1>8 DEF Unwind, RollbackLive
<1>9. CASE RestoreManifest
  BY <1>9 DEF RestoreManifest, Fails, Answers
<1>10. CASE RestoreStatus
  BY <1>10 DEF RestoreStatus, Fails, Answers
<1>11. CASE Reply
  BY <1>11, EmptyConf DEF Reply
<1> QED
  BY <1>1, <1>2, <1>3, <1>4, <1>5, <1>6, <1>7, <1>8, <1>9, <1>10, <1>11 DEF Work

(* The surroundings change the interface only by reloading wg0.conf or by  *)
(* adding a peer apart from the managed ones.                              *)
LEMMA WorldSafe == TypeOK /\ SafeRegisters /\ World => SafeRegisters'
<1> SUFFICES ASSUME TypeOK, SafeRegisters, World PROVE SafeRegisters'
  OBVIOUS
<1> USE DEF SafeRegisters
<1>1. CASE Crash
  BY <1>1, EmptyConf DEF Crash
<1>2. CASE Restart
  BY <1>2 DEF Restart
<1>3. CASE InterfaceRestarts
  BY <1>3, BootConf DEF InterfaceRestarts
<1>4. ASSUME NEW k \in ForeignKeys, OperatorAdds(k) PROVE SafeRegisters'
  <2>1. k \notin ManagedKeys
    BY KeysAssumption
  <2>2. /\ DOMAIN live' = DOMAIN live \cup {k}
        /\ live'[k] = ForeignNets[k]
        /\ \A j \in DOMAIN live : live'[j] = live[j]
    BY <1>4 DEF OperatorAdds
  <2>3. Disjoint(live')
    BY <1>4, <2>1, <2>2 DEF OperatorAdds, Disjoint
  <2>4. KeepsBoot(live')
    BY <2>2 DEF KeepsBoot
  <2> QED
    BY <1>4, <2>3, <2>4 DEF OperatorAdds
<1> QED
  BY <1>1, <1>2, <1>3, <1>4 DEF World

(* Clients do not touch the interface or the registers.                    *)
LEMMA EnvironmentSafe == SafeRegisters /\ Environment => SafeRegisters'
<1> SUFFICES ASSUME SafeRegisters, Environment PROVE SafeRegisters'
  OBVIOUS
<1>1. UNCHANGED <<live, base, cand, phase>>
  BY DEF Environment, ClientWrites, ClientConnects, ClientCloses
<1> QED
  BY <1>1 DEF SafeRegisters

LEMMA NextSafe == TypeOK /\ SafeRegisters /\ [Next]_vars => SafeRegisters'
<1>1. SafeRegisters /\ UNCHANGED vars => SafeRegisters'
  BY DEF SafeRegisters, vars
<1> QED
  BY <1>1, WorkSafe, WorldSafe, EnvironmentSafe DEF Next

(* The snapshot and the candidate are safe to put on the interface.        *)
THEOREM RegistersSafe == Spec => []SafeRegisters
<1> QED
  BY TypeCorrect, InitSafe, NextSafe, PTL DEF Spec

(* No managed address is ever routed to two peers, whatever fails.         *)
THEOREM AddressesNotShared == Spec => []NoAddressSharing
<1>1. SafeRegisters => NoAddressSharing
  BY DEF SafeRegisters, NoAddressSharing
<1> QED
  BY <1>1, RegistersSafe, PTL

(* The peers of wg0.conf never leave the interface, whatever fails.        *)
THEOREM BootPeersStay == Spec => []BootPeersKept
<1>1. SafeRegisters => BootPeersKept
  BY DEF SafeRegisters, BootPeersKept
<1> QED
  BY <1>1, RegistersSafe, PTL

-----------------------------------------------------------------------------
(* The keys of a payload, written to the manifest, are the keys it owns.   *)
LEMMA OwnedKeys == \A S \in SUBSET Peer : Owned(KeysOf(S)) = KeysOf(S)
  BY KeysType, AbsentAssumption DEF Owned

(* When every live managed key is owned, the candidate holds the desired   *)
(* managed keys only.                                                      *)
LEMMA MergeOwned ==
    ASSUME NEW c, NEW S \in SUBSET Peer, NEW m, OwnedBy(c, m)
    PROVE  OwnedBy(Merge(c, S, Owned(m)), KeysOf(S))
<1>1. DOMAIN Merge(c, S, Owned(m)) = (DOMAIN c \ (Owned(m) \ KeysOf(S))) \cup KeysOf(S)
  BY DEF Merge
<1>2. Owned(KeysOf(S)) = KeysOf(S)
  BY OwnedKeys
<1> QED
  BY <1>1, <1>2 DEF OwnedBy

LEMMA InitOwned == Init => Ownership
<1>1. DOMAIN Boot \cap ManagedKeys = {}
  BY KeysAssumption, NetsAssumption DEF Boot
<1> QED
  BY <1>1 DEF Init, Ownership, OwnedBy

LEMMA WorkOwned ==
    ASSUME Faults \cap Disowning = {}
    PROVE  TypeOK /\ Ownership /\ Work => Ownership'
<1> SUFFICES ASSUME TypeOK, Ownership, Work PROVE Ownership'
  OBVIOUS
<1> USE DEF Ownership
<1>0. /\ "wg_rollback" \notin Faults /\ "wg_spawn" \notin Faults
      /\ "disk_restore" \notin Faults
  BY DEF Disowning
<1>1. CASE Accept
  BY <1>1 DEF Accept, OwnedBy
<1>2. CASE Load
  <2>1. CASE Acceptable /\ cand' = Merge(live, expected, Owned(manifest)) /\ phase' = "syncing"
    <3>1. expected \in SUBSET Peer /\ expected = req.digest
      BY <2>1 DEF Acceptable, TypeOK, Payload
    <3>2. OwnedBy(live, manifest)
      BY <1>2 DEF Load
    <3>3. OwnedBy(cand', KeysOf(req.digest))
      BY <2>1, <3>1, <3>2, MergeOwned
    <3> QED
      BY <1>2, <2>1, <3>2, <3>3 DEF Load, OwnedBy
  <2>2. CASE phase' = "replying"
    BY <1>2, <2>2 DEF Load, OwnedBy
  <2> QED
    BY <1>2, <2>1, <2>2 DEF Load, Fails, Answers
<1>3. CASE SyncConf
  BY <1>0, <1>3 DEF SyncConf, OwnedBy
<1>4. CASE Verify
  <2>1. CASE Verified /\ phase' = "recording"
    <3>1. DOMAIN live = DOMAIN cand
      BY <2>1 DEF Verified, Matches
    <3> QED
      BY <1>4, <2>1, <3>1 DEF Verify, OwnedBy
  <2>2. CASE phase' = "undoing"
    BY <1>4, <2>2 DEF Verify, OwnedBy
  <2> QED
    BY <1>0, <1>4, <2>1, <2>2 DEF Verify
<1>5. CASE Undo
  BY <1>0, <1>5 DEF Undo, RollbackLive, Fails, Answers, OwnedBy
<1>6. CASE RecordManifest
  BY <1>6 DEF RecordManifest, OwnedBy
<1>7. CASE RecordStatus
  BY <1>7 DEF RecordStatus, Answers, OwnedBy
<1>8. CASE Unwind
  BY <1>0, <1>8 DEF Unwind, RollbackLive, OwnedBy
<1>9. CASE RestoreManifest
  BY <1>0, <1>9 DEF RestoreManifest, OwnedBy
<1>10. CASE RestoreStatus
  BY <1>10 DEF RestoreStatus, Fails, Answers, OwnedBy
<1>11. CASE Reply
  BY <1>11 DEF Reply, OwnedBy
<1> QED
  BY <1>1, <1>2, <1>3, <1>4, <1>5, <1>6, <1>7, <1>8, <1>9, <1>10, <1>11 DEF Work

(* Neither wg-quick nor an operator puts a managed key on the interface.   *)
LEMMA WorldOwned ==
    ASSUME Faults \cap Disowning = {}
    PROVE  Ownership /\ World => Ownership'
<1> SUFFICES ASSUME Ownership, World PROVE Ownership'
  OBVIOUS
<1>1. "reconciler_crash" \notin Faults
  BY DEF Disowning
<1>2. DOMAIN live' \cap ManagedKeys \subseteq DOMAIN live
  <2>1. CASE InterfaceRestarts
    <3>1. DOMAIN Boot \cap ManagedKeys = {}
      BY KeysAssumption, NetsAssumption DEF Boot
    <3> QED
      BY <2>1, <3>1 DEF InterfaceRestarts
  <2>2. ASSUME NEW k \in ForeignKeys, OperatorAdds(k)
        PROVE  DOMAIN live' \cap ManagedKeys \subseteq DOMAIN live
    BY <2>2, KeysAssumption DEF OperatorAdds
  <2> QED
    BY <1>1, <2>1, <2>2 DEF World, Crash, Restart, Ownership
<1>3. UNCHANGED <<manifest, phase, req, base, cand, prior>>
  BY <1>1 DEF World, Crash, Restart, InterfaceRestarts, OperatorAdds, Ownership
<1> QED
  BY <1>2, <1>3 DEF Ownership, OwnedBy

LEMMA EnvironmentOwned == Ownership /\ Environment => Ownership'
<1> SUFFICES ASSUME Ownership, Environment PROVE Ownership'
  OBVIOUS
<1>1. UNCHANGED <<live, manifest, phase, req, base, cand, prior>>
  BY DEF Environment, ClientWrites, ClientConnects, ClientCloses
<1> QED
  BY <1>1 DEF Ownership, OwnedBy

(* The manifest that is or will be in place owns every managed key that is *)
(* or may get on the interface.                                            *)
THEOREM OwnershipKept ==
    ASSUME Faults \cap Disowning = {}
    PROVE  Spec => []Ownership
<1>1. Ownership /\ UNCHANGED vars => Ownership'
  BY DEF Ownership, OwnedBy, vars
<1>2. TypeOK /\ Ownership /\ [Next]_vars => Ownership'
  BY <1>1, WorkOwned, WorldOwned, EnvironmentOwned DEF Next
<1> QED
  BY <1>2, InitOwned, TypeCorrect, PTL DEF Spec

(* As long as the process neither dies nor fails to roll back, every       *)
(* managed key on the interface can still be revoked.                      *)
THEOREM NoKeyOrphaned ==
    ASSUME Faults \cap Disowning = {}
    PROVE  Spec => []NoOrphans
<1>1. Ownership => NoOrphans
  BY DEF Ownership, OwnedBy, NoOrphans
<1>2. Spec => []Ownership
  BY OwnershipKept
<1> QED
  BY <1>1, <1>2, PTL

-----------------------------------------------------------------------------
(* A request in the queue that is not its head stays there at Accept.      *)
LEMMA TailKeeps ==
    ASSUME NEW q \in Seq(Requests), q # <<>>, NEW n
    PROVE  (\E i \in 1 .. Len(q) : q[i].id = n) =>
               \/ Head(q).id = n
               \/ \E i \in 1 .. Len(Tail(q)) : Tail(q)[i].id = n
<1> SUFFICES ASSUME NEW i \in 1 .. Len(q), q[i].id = n, Head(q).id # n
             PROVE  \E k \in 1 .. Len(Tail(q)) : Tail(q)[k].id = n
  OBVIOUS
<1>1. i - 1 \in 1 .. Len(Tail(q)) /\ Tail(q)[i - 1] = q[i]
  BY HeadTailProperties
<1> QED
  BY <1>1

LEMMA WorkHeld == TypeOK /\ OpenIsHeld /\ Work => OpenIsHeld'
<1> SUFFICES ASSUME TypeOK, OpenIsHeld, Work,
                    NEW c \in Clients, conn'[c].state = "open"
             PROVE  \/ phase' \notin {"idle", "down"} /\ req'.id = conn'[c].id
                    \/ \E i \in 1 .. Len(queue') : queue'[i].id = conn'[c].id
  BY DEF OpenIsHeld
<1>1. CASE Accept
  <2>1. \E i \in 1 .. Len(queue) : queue[i].id = conn[c].id
    BY <1>1 DEF Accept, OpenIsHeld
  <2>2. queue \in Seq(Requests) /\ queue # <<>>
    BY <1>1 DEF Accept, TypeOK
  <2> QED
    BY <1>1, <2>1, <2>2, TailKeeps DEF Accept
<1>2. CASE Reply
  <2>1. answer # "open" /\ c \in DOMAIN conn
    BY DEF TypeOK
  <2>2. /\ conn[c].state = "open" /\ conn[c].id # req.id
        /\ conn'[c] = conn[c]
    BY <1>2, <2>1 DEF Reply, TypeOK
  <2> QED
    BY <1>2, <2>2 DEF Reply, OpenIsHeld
<1>3. CASE ~Accept /\ ~Reply
  <2>1. /\ UNCHANGED <<queue, conn, req>>
        /\ phase' \notin {"idle", "down"} /\ phase \notin {"idle", "down"}
    BY <1>3 DEF Work, Load, SyncConf, Verify, Undo, RecordManifest, RecordStatus,
                Unwind, RestoreManifest, RestoreStatus, RollbackLive, Fails, Answers
  <2> QED
    BY <2>1 DEF OpenIsHeld
<1> QED
  BY <1>1, <1>2, <1>3

LEMMA WorldHeld == TypeOK /\ OpenIsHeld /\ World => OpenIsHeld'
<1> SUFFICES ASSUME TypeOK, OpenIsHeld, World PROVE OpenIsHeld'
  OBVIOUS
<1>1. CASE Crash
  <2>1. \A c \in Clients : conn'[c].state # "open"
    BY <1>1 DEF Crash, TypeOK
  <2> QED
    BY <2>1 DEF OpenIsHeld
<1>2. CASE Restart
  BY <1>2 DEF Restart, OpenIsHeld
<1>3. CASE InterfaceRestarts \/ \E k \in ForeignKeys : OperatorAdds(k)
  BY <1>3 DEF InterfaceRestarts, OperatorAdds, OpenIsHeld
<1> QED
  BY <1>1, <1>2, <1>3 DEF World

LEMMA EnvironmentHeld == TypeOK /\ OpenIsHeld /\ Environment => OpenIsHeld'
<1> SUFFICES ASSUME TypeOK, OpenIsHeld, Environment PROVE OpenIsHeld'
  OBVIOUS
<1>1. ASSUME NEW e \in Payloads \cup {Absent}, ClientWrites(e) PROVE OpenIsHeld'
  BY <1>1 DEF ClientWrites, OpenIsHeld
<1>2. ASSUME NEW c \in Clients, NEW d \in Payloads, ClientConnects(c, d) PROVE OpenIsHeld'
  <2> DEFINE r == [client |-> c, id |-> issued', digest |-> d]
  <2>1. queue \in Seq(Requests) /\ queue' = Append(queue, r)
    BY <1>2 DEF ClientConnects, TypeOK
  <2>2. r \in Requests
    BY <1>2, PayloadsAssumption DEF ClientConnects, TypeOK, Requests
  <2>3. /\ Len(queue') = Len(queue) + 1 /\ Len(queue) \in Nat
        /\ queue'[Len(queue) + 1] = r
        /\ \A i \in 1 .. Len(queue) : queue'[i] = queue[i]
    BY <2>1, <2>2, AppendProperties
  <2>4. \A d2 \in Clients \ {c} : conn'[d2] = conn[d2]
    BY <1>2 DEF ClientConnects, TypeOK
  <2>5. conn'[c].id = r.id
    BY <1>2 DEF ClientConnects, TypeOK
  <2>6. UNCHANGED <<phase, req>>
    BY <1>2 DEF ClientConnects
  <2>7. ASSUME NEW b \in Clients, conn'[b].state = "open"
        PROVE  \/ phase' \notin {"idle", "down"} /\ req'.id = conn'[b].id
               \/ \E i \in 1 .. Len(queue') : queue'[i].id = conn'[b].id
    <3>1. CASE b = c
      BY <2>3, <2>5, <3>1
    <3>2. CASE b # c
      BY <2>3, <2>4, <2>6, <2>7, <3>2 DEF OpenIsHeld
    <3> QED
      BY <3>1, <3>2
  <2> QED
    BY <2>7 DEF OpenIsHeld
<1>3. ASSUME NEW c \in Clients, ClientCloses(c) PROVE OpenIsHeld'
  <2>1. \A b \in Clients : conn'[b].state = "open" => conn'[b] = conn[b]
    BY <1>3 DEF ClientCloses, TypeOK
  <2> QED
    BY <1>3, <2>1 DEF ClientCloses, OpenIsHeld
<1> QED
  BY <1>1, <1>2, <1>3 DEF Environment

(* Whoever waits for an answer is in hand or in the queue, whatever fails. *)
THEOREM NobodyForgotten == Spec => []OpenIsHeld
<1>1. Init => OpenIsHeld
  BY DEF Init, OpenIsHeld
<1>2. TypeOK /\ OpenIsHeld /\ [Next]_vars => OpenIsHeld'
  <2>1. OpenIsHeld /\ UNCHANGED vars => OpenIsHeld'
    BY DEF OpenIsHeld, vars
  <2> QED
    BY <2>1, WorkHeld, WorldHeld, EnvironmentHeld DEF Next
<1> QED
  BY <1>1, <1>2, TypeCorrect, PTL DEF Spec

(* How many steps the process still takes at most for what it has.         *)
ToAnswer ==
    CASE phase \in {"idle", "down"} -> 0
      [] phase = "replying" -> 1
      [] phase = "restoring_status" -> 2
      [] phase = "restoring" -> 3
      [] phase = "unwinding" -> 4
      [] phase \in {"reporting", "undoing"} -> 5
      [] phase = "recording" -> 6
      [] phase = "verifying" -> 7
      [] phase = "syncing" -> 8
      [] phase = "loading" -> 9

StepsLeft == 10 * Len(queue) + ToAnswer

(* The process takes no step twice for one request, whatever fails: there  *)
(* is no retry between accept() and sendall().  With NobodyForgotten, every *)
(* client is answered as long as the process makes its steps at all.       *)
THEOREM WorkRunsOut == Spec => [][Work => StepsLeft' < StepsLeft]_vars
<1>1. TypeOK /\ Work => StepsLeft' < StepsLeft
  <2> SUFFICES ASSUME TypeOK, Work PROVE StepsLeft' < StepsLeft
    OBVIOUS
  <2>1. Len(queue) \in Nat
    BY DEF TypeOK
  <2>2. CASE Accept
    <3>1. Len(queue') = Len(queue) - 1
      BY <2>2, HeadTailProperties DEF Accept, TypeOK
    <3>2. ToAnswer = 0 /\ ToAnswer' = 9
      BY <2>2 DEF Accept, ToAnswer
    <3> QED
      BY <2>1, <3>1, <3>2 DEF StepsLeft
  <2>3. CASE ~Accept
    <3>1. Len(queue') = Len(queue)
      BY <2>3 DEF Work, Load, SyncConf, Verify, Undo, RecordManifest, RecordStatus,
                  Unwind, RestoreManifest, RestoreStatus, Reply
    <3>2. ToAnswer \in Nat /\ ToAnswer' \in Nat /\ ToAnswer' < ToAnswer
      BY <2>3 DEF Work, Load, SyncConf, Verify, Undo, RecordManifest, RecordStatus,
                  Unwind, RestoreManifest, RestoreStatus, Reply, Fails, Answers, ToAnswer
    <3> QED
      BY <2>1, <3>1, <3>2 DEF StepsLeft
  <2> QED
    BY <2>2, <2>3
<1>2. TypeOK /\ [Next]_vars => [Work => StepsLeft' < StepsLeft]_vars
  BY <1>1
<1> QED
  BY <1>2, TypeCorrect, PTL DEF Spec
=============================================================================
