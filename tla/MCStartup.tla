------------------------------ MODULE MCStartup ------------------------------
(* Constants of the Startup run: the Web manager and one command, which    *)
(* is enough for every race of two first starts.                           *)
EXTENDS Startup

CONSTANTS web, c1, k1, k2
=============================================================================
