---------------------------- MODULE PeerPromise -----------------------------
(***************************************************************************)
(* What the manager and the reconciler promise together: the interface     *)
(* follows the committed device table through one proposed change at a     *)
(* time.  A change is installed before it is accepted, and one that is not *)
(* accepted is taken off the interface before the next is proposed.        *)
(***************************************************************************)
CONSTANTS Tables,    \* the tables of peers
          NoProposal

VARIABLES table,     \* the peers of the committed devices
          iface,     \* the managed peers of the interface
          proposal   \* the peers of the uncommitted change

pvars == <<table, iface, proposal>>

Init == table = {} /\ iface = {} /\ proposal = NoProposal

(* A write transaction opens and changes rows.                             *)
Propose == /\ proposal = NoProposal
           /\ proposal' # NoProposal
           /\ proposal' \in Tables
           /\ UNCHANGED <<table, iface>>

(* The reconciler puts the change on the interface, whole ...              *)
Install == /\ proposal # NoProposal
           /\ iface' = proposal
           /\ UNCHANGED <<table, proposal>>

(* ... or takes it off again.                                              *)
Revert == /\ proposal # NoProposal
          /\ iface' = table
          /\ UNCHANGED <<table, proposal>>

(* COMMIT: only of what is live.                                           *)
Accept == /\ proposal # NoProposal
          /\ iface = proposal
          /\ table' = proposal
          /\ proposal' = NoProposal
          /\ UNCHANGED iface

(* ROLLBACK: only when the interface is back at the committed table.       *)
Withdraw == /\ proposal # NoProposal
            /\ iface = table
            /\ proposal' = NoProposal
            /\ UNCHANGED <<table, iface>>

Next == Propose \/ Install \/ Revert \/ Accept \/ Withdraw

Spec == Init /\ [][Next]_pvars
=============================================================================
