---------------------------- MODULE MCClientAuth ----------------------------
(* Instances of ClientAuth for TLC.                                        *)
EXTENDS ClientAuth
=============================================================================
