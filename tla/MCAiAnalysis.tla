---------------------------- MODULE MCAiAnalysis ----------------------------
(***************************************************************************)
(* One analysis at a time, or two that overlap, of a subject whose records *)
(* change between two states; the breaker opens after Threshold failures.  *)
(***************************************************************************)
EXTENDS AiAnalysis, TLC

CONSTANTS a1, a2, before, after

\* The two sessions are interchangeable, and so are the two contexts.
Symmetric == Permutations({a1, a2}) \cup Permutations({before, after})
============================================================================
