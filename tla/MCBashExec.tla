----------------------------- MODULE MCBashExec -----------------------------
(* The instance of BashExec for TLC: two calls of two sessions.            *)
EXTENDS BashExec
=============================================================================
