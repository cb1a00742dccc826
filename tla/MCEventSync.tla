---------------------------- MODULE MCEventSync ----------------------------
(* Small instances of the node queue and the receiver for TLC. *)
EXTENDS EventSync

\* The first two events fit one request, the last two do not.
MCSize == <<1, 2, 2>>
=============================================================================
