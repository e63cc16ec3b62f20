------------------------------ MODULE MCLedger ------------------------------
(***************************************************************************)
(* Small instances of Ledger.                                              *)
(***************************************************************************)
EXTENDS Ledger

MCTypes     == {"replaced", "other"}
MCProtected == {"replaced"}
=============================================================================
