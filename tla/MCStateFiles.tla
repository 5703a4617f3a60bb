----------------------------- MODULE MCStateFiles -----------------------------
(* Small instances of StateFiles for TLC. *)
EXTENDS StateFiles

CONSTANTS eth, vpn
=============================================================================
