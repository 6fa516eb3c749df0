--------------------------- MODULE MCDeviceReset ---------------------------
(* Constants of the DeviceReset runs: one device, whose rows no other      *)
(* device's operations read or write, and several tabs on it; addresses of *)
(* two bits.                                                               *)
EXTENDS DeviceReset, TLC

CONSTANTS d1, t1, t2

Net(base, len) == [base |-> base, len |-> len]

(* A full tunnel with a route it covers, the two halves of it, a list with *)
(* a host bit set and one that is too long.                                *)
MCRequests == {{Net(<<0, 0>>, 0), Net(<<1, 0>>, 1)},
               {Net(<<0, 0>>, 1), Net(<<1, 0>>, 1)},
               {Net(<<0, 1>>, 1)},
               {Net(<<0, 0>>, 2), Net(<<0, 1>>, 2), Net(<<1, 0>>, 2)}}

(* Two lists that are as good as any others.                               *)
MCTwoRequests == {{Net(<<0, 0>>, 1)}, {Net(<<1, 0>>, 1)}}

(* Normalize against what it is for, over every list of networks: it keeps *)
(* the addresses, drops exactly what is redundant, and adds nothing.       *)
ASSUME MCNormalize ==
    \A N \in SUBSET Network :
        LET R == Normalize(N) IN
        /\ R \subseteq N /\ Covered(R) = Covered(N) /\ Irredundant(R)
        /\ \A M \in SUBSET N : Covered(M) = Covered(N) /\ Irredundant(M)
                                  /\ (\A n \in N : \E m \in M : SubnetOf(n, m)) => M = R

MCSymmetry == Permutations(Tabs)
=============================================================================
