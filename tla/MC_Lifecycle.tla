----------------------------- MODULE MC_Lifecycle -----------------------------
(* A small server for TLC: its constants are in Lifecycle.cfg, in seconds.  *)
EXTENDS Lifecycle
=============================================================================
