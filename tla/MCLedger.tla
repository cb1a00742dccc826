------------------------------ MODULE MCLedger ------------------------------
(* Small instances of the ledger for TLC. *)
EXTENDS Ledger
=============================================================================
