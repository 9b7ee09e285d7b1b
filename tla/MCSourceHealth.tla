--------------------------- MODULE MCSourceHealth ---------------------------
(* Two collections and two scanners of one source. *)
EXTENDS SourceHealth, TLC

CONSTANTS r1, r2, s1, s2

Interchangeable == Permutations({r1, r2}) \cup Permutations({s1, s2})
=============================================================================
