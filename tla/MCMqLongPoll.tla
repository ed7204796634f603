---------------------------- MODULE MCMqLongPoll ----------------------------
(* Instances of MqLongPoll for TLC.                                        *)
EXTENDS MqLongPoll
=============================================================================
