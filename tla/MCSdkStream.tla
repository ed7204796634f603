---------------------------- MODULE MCSdkStream ----------------------------
(* An instance of SdkStream for TLC.                                       *)
EXTENDS SdkStream
=============================================================================
