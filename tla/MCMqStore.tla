----------------------------- MODULE MCMqStore -----------------------------
(* Instances of MqStore for TLC.                                           *)
EXTENDS MqStore, TLC

Symmetry == Permutations(Workers)
=============================================================================
