----------------------------- MODULE MCAccounts -----------------------------
(* Constants of the Accounts run: two administrators, two threads of the   *)
(* Web process and one command.                                            *)
EXTENDS Accounts, TLC

CONSTANTS a1, a2, w1, w2, c1

(* Many logins, or some logins among changes to the users, or with         *)
(* statements that fail.                                                   *)
MCBudgets == {[tries |-> 10, changes |-> 0, faults |-> 0],
              [tries |-> 4, changes |-> 0, faults |-> 2],
              [tries |-> 2, changes |-> 3, faults |-> 0]}

MCSymmetry == Permutations(Web) \cup Permutations(Admins)
=============================================================================
