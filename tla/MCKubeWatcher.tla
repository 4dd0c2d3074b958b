--------------------------- MODULE MCKubeWatcher ---------------------------
(* KubeWatcher for TLC: its constants are given by the configurations.     *)
EXTENDS KubeWatcher
=============================================================================
