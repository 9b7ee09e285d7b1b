----------------------------- MODULE MCOutreach -----------------------------
(***************************************************************************)
(* Two requests at a time, which are interchangeable, and two drafts.      *)
(***************************************************************************)
EXTENDS Outreach, TLC

CONSTANTS d1, d2, s1, s2

Symmetric == Permutations({s1, s2})
=============================================================================
