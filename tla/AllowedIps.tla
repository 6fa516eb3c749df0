------------------------------ MODULE AllowedIps ------------------------------
(***************************************************************************)
(* The client routes an administrator may give a device, the AllowedIPs    *)
(* line of its configuration (wg_manager/policy.py), over addresses of     *)
(* Width bits, the first bit the most significant one.  The text is a set  *)
(* of parts and its result a set of networks: splitting, sorting and       *)
(* printing are left out.                                                  *)
(***************************************************************************)
EXTENDS Naturals, FiniteSets

CONSTANTS
    Width,    \* bits of an address
    MaxRoutes \* MAX_CLIENT_ROUTES

ASSUME AllowedIpsAssumption == Width \in Nat /\ MaxRoutes \in Nat \ {0}

Address == [1 .. Width -> {0, 1}]

(* What the text may say; it is a network if no host bit is set.           *)
Part == [base : Address, len : 0 .. Width]

Network == {p \in Part : \A i \in p.len + 1 .. Width : p.base[i] = 0}

(* The addresses with the prefix of n.                                     *)
AddressesOf(n) == {a \in Address : \A i \in 1 .. n.len : a[i] = n.base[i]}

Covered(N) == UNION {AddressesOf(n) : n \in N}

(* IPv4Network.subnet_of.                                                  *)
SubnetOf(m, n) == AddressesOf(m) \subseteq AddressesOf(n)

(* normalize_client_allowed_ips does not raise.                            *)
Acceptable(parts) == /\ parts # {}
                     /\ Cardinality(parts) <= MaxRoutes
                     /\ parts \subseteq Network

FullTunnel == {[base |-> [i \in 1 .. Width |-> 0], len |-> 0]}

(* Networks that a larger one of the list covers are dropped; neighbours   *)
(* are not merged.                                                         *)
Normalize(N) == {n \in N : ~\E other \in N : n # other /\ SubnetOf(n, other)}

(* No network of N covers another.                                         *)
Irredundant(N) == \A m, n \in N : SubnetOf(m, n) => m = n
=============================================================================
