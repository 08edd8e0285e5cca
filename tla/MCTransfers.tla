---------------------------- MODULE MCTransfers ----------------------------
(* An instance of Transfers for TLC: one application that pastes.              *)
EXTENDS Transfers

CONSTANTS editor

OneApp == {editor}
=============================================================================
