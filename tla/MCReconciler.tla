---------------------------- MODULE MCReconciler ----------------------------
(* Constants of the Reconciler runs: two managed keys, one peer of         *)
(* wg0.conf, one an operator may add, three addresses.                     *)
EXTENDS Reconciler, TLC

CONSTANTS k1, k2, boot, added, c1, c2

MCManagedKeys == {k1, k2}
MCForeignKeys == {boot, added}
MCForeignNets == (boot :> {4}) @@ (added :> {3})

P(k, a) == [key |-> k, ip |-> a]

(* Nothing, one key, the other key at the same address (a reset), at an    *)
(* address an operator may use or at the one of wg0.conf, and a file that  *)
(* gives one address twice.                                                *)
MCPayloads == {{}, {P(k1, 2)}, {P(k2, 2)}, {P(k1, 2), P(k2, 3)},
               {P(k1, 4)}, {P(k1, 2), P(k2, 2)}}

FewPayloads == {{}, {P(k1, 2)}, {P(k2, 2)}, {P(k1, 2), P(k2, 3)}}

AllFaults == FaultKinds

(* Failures the reconciler recovers from by itself.                        *)
Recoverable == {"wg_reject", "wg_silent", "disk_write", "disk_sync"}
=============================================================================
