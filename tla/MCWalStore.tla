----------------------------- MODULE MCWalStore -----------------------------
(* Instances of WalStore for TLC.                                          *)
EXTENDS WalStore, TLC

CONSTANTS l1, h1, h2, nameA

Symmetry == Permutations(Holders)
=============================================================================
