-------------------------- MODULE MCCommunityAlert --------------------------
(* Small instances of the community alerts for TLC. *)
EXTENDS CommunityAlert

\* Two peers are configured, the table takes one.
MCPeerLines == <<"10.0.0.1", "10.0.0.2">>
=============================================================================
