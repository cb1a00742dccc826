-------------------------- MODULE MCUpdateManager --------------------------
(* Small instances of the update manager for TLC. *)
EXTENDS UpdateManager
=============================================================================
