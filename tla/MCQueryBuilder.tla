--------------------------- MODULE MCQueryBuilder ---------------------------
(* An instance of QueryBuilder for TLC. *)
EXTENDS QueryBuilder

MCColumn == {"id", " id", "name", "*", ""}

MCTrimSpace == [c \in MCColumn |-> IF c = " id" THEN "id" ELSE c]
=============================================================================
