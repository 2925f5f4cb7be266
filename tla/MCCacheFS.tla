------------------------------ MODULE MCCacheFS ------------------------------
(* CacheFS on small instances.                                              *)
EXTENDS CacheFS

\* Names are compared, never ordered: any permutation of them is a symmetry.
NameSymmetry == Permutations(Names)

\* Leftovers on the heap: nothing, a plausible count, a negative int.
SomeInts == {-1, 0, 1}
==============================================================================
