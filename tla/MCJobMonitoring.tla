--------------------------- MODULE MCJobMonitoring ---------------------------
(***************************************************************************)
(* Two sources.  The first lists two postings of key k and one of key x,   *)
(* the last two without an external id; the second a closed one of key k   *)
(* and one that names no company.                                          *)
(***************************************************************************)
EXTENDS JobMonitoring

CONSTANTS a1, a2, a3, b1, b2, A, B, k, x, ja, jb

MCSourceOf == [p \in Postings |-> IF p \in {a1, a2, a3} THEN A ELSE B]
MCKeyOf    == [p \in Postings |-> IF p = a3 THEN x ELSE k]
MCCollects == [j \in Jobs |-> IF j = ja THEN A ELSE B]
==============================================================================
