-------------------------- MODULE MCInstallerStore --------------------------
(* Constants of the InstallerStore run: two uploads and a download at a    *)
(* time, and a third id for what an earlier one leaves behind.             *)
EXTENDS InstallerStore, TLC

CONSTANTS i1, i2, i3, u1, u2, d1, p1

MCSymmetry == Permutations(Ids) \cup Permutations(Uploads)
=============================================================================
