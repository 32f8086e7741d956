--------------------------- MODULE MCBuildStorage ---------------------------
(* A small instance of BuildStorage for TLC: up to three callers on one    *)
(* name, two of them savers, and as many files as they can have open and   *)
(* linked at one time.                                                     *)
EXTENDS BuildStorage, TLC

CONSTANTS i1, i2, i3, i4, x, y, a, b

Symmetry == Permutations(Inodes) \cup Permutations(Builds) \cup Permutations(Savers)
=============================================================================
