----------------------------- MODULE MCAdminUi -----------------------------
(* An instance of AdminUi for TLC.                                         *)
EXTENDS AdminUi

CONSTANTS s1, s2, q1, v1

MCScopes == <<s1, s2>>
MCQueues == <<q1>>
MCItems == <<[key |-> "k0", value |-> v1, deleted |-> TRUE], [key |-> "k1", value |-> v1, deleted |-> FALSE]>>
MCValues == {v1}
=============================================================================
