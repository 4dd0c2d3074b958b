-------------------------- MODULE MCBootstrapTrace --------------------------
(* BootstrapTrace for TLC: its constants are given by the configuration.    *)
EXTENDS BootstrapTrace
=============================================================================
