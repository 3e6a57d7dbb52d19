---------------------------- MODULE MCConfigLoad ----------------------------
(* ConfigLoad with the steps of the code, for TLC.                         *)
EXTENDS ConfigLoad, ConfigFields
=============================================================================
