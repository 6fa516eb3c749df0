---------------------------- MODULE MCLivePeers -----------------------------
(* Constants of the LivePeers runs.                                        *)
EXTENDS LivePeers, TLC

CONSTANTS k1, k2, k3, boot, added, m1, m2, root, user

MCForeignKeys == {boot, added}
MCForeignNets == (boot :> {4}) @@ (added :> {3})

(* Everything the managers may render.                                     *)
MCPayloads == SUBSET Peer

(* Failures both processes see and undo.                                   *)
Undone == {"wg_reject", "wg_silent", "disk_write", "disk_sync"}

(* Lost answers and dead managers on top of refused applies.               *)
Lossy == {"wg_reject", "disk_write", "timeout", "manager_crash", "expected_write"}

Late == {"timeout"}

Commits == {"commit"}

(* Every way an answer may be missing.                                     *)
Endings == {"wg_reject", "reconciler_crash", "timeout", "commit"}

(* Keys are interchangeable; the runs that use it check invariants only.   *)
MCSymmetry == Permutations(ManagedKeys)
=============================================================================
