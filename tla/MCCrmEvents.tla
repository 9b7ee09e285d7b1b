---------------------------- MODULE MCCrmEvents ----------------------------
(***************************************************************************)
(* One lead with one email, and two people.  Two events report one reply,  *)
(* one by its thread and one by the lead's id; two report a bounce.         *)
(***************************************************************************)
EXTENDS CrmEvents, TLC

CONSTANTS l1, d1, m1, e1, e2, e3, e4, s1, s2

MCKind      == [e \in Events |-> IF e \in {e3, e4} THEN "FAILED" ELSE "reply"]
MCMessageOf == [e \in Events |-> m1]
MCDraftOf   == [e \in Events |-> IF e = e2 THEN NoDraft ELSE d1]
MCHint      == [e \in Events |-> IF e = e2 THEN l1 ELSE NoLead]
MCLeadOf    == [d \in Drafts |-> l1]

\* People are interchangeable, and so are the two bounces.
Interchangeable == Permutations({s1, s2}) \cup Permutations({e3, e4})
============================================================================
