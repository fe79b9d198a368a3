--------------------------- MODULE MCStackTables ---------------------------
(* Two UDP destinations, so that a handle can come back for the other one. *)
EXTENDS StackTables
=============================================================================
