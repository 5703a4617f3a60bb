----------------------------- MODULE MCDfaTables -----------------------------
(* Small instances of DfaTables for TLC. *)
EXTENDS DfaTables

MCMatch == [direction : {"redirect", "bypass"}, uid : {0, 1}, path : BOOLEAN]
MCLists == [1 .. 3 -> MCMatch]
=============================================================================
