------------------------------ MODULE MCPaging -------------------------------
(* Six keys, pages of two: up to three pages, the last one full or not.  *)
EXTENDS Paging

MCKeys == 1..6
=============================================================================
