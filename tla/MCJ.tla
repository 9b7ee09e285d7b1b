---- MODULE MCJ ----
EXTENDS JobMonitoring
CONSTANTS a1, a2, b1, b2, b3, A, B, k, x, ja, jb
MCSourceOf == [p \in Postings |-> IF p \in {a1, a2} THEN A ELSE B]
MCKeyOf    == [p \in Postings |-> IF p = a2 THEN x ELSE k]
MCCollects == [j \in Jobs |-> IF j = ja THEN A ELSE B]
MCKeyOfK    == [p \in Postings |-> k]
====
