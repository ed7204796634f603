---------------------------- MODULE MCCacheStore ----------------------------
(* Instances of CacheStore for TLC.                                        *)
EXTENDS CacheStore, TLC

Symmetry == Permutations(Workers)
=============================================================================
