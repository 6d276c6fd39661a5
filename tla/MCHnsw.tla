------------------------------- MODULE MCHnsw -------------------------------
(***************************************************************************)
(* Nodes on a line, the closer the better.                                *)
(***************************************************************************)
EXTENDS Hnsw

MCScore(x, y) == IF x < y THEN x - y ELSE y - x
=============================================================================
