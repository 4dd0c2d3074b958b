-------------------------- MODULE MCNetstatsAttach --------------------------
(* NetstatsAttach for TLC: its constants are given by the configurations.   *)
EXTENDS NetstatsAttach
=============================================================================
