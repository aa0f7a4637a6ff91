------------------------------- MODULE MCPsql -------------------------------
(***************************************************************************)
(* Three threads over a table of five rows, in chunks of two: two full     *)
(* chunks and a short one, loaded, evicted and loaded again.               *)
(***************************************************************************)
EXTENDS Psql
=============================================================================
