--------------------------- MODULE MCLockService ---------------------------
(* Instances of LockService for TLC.                                       *)
EXTENDS LockService, TLC

CONSTANTS l1, h1, h2, nameA

Symmetry == Permutations(Holders)
=============================================================================
