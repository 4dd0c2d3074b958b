----------------------------- MODULE MCApplier -----------------------------
(* Applier for TLC: its constants are given by the configuration.           *)
EXTENDS Applier
=============================================================================
