--------------------------- MODULE MCConfigStore ---------------------------
(* Instances of ConfigStore for TLC.                                       *)
EXTENDS ConfigStore

CONSTANTS v1, v2
MCSchemas == {{v1}}
=============================================================================
