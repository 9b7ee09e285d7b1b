-------------------------- MODULE MCLeadMonitoring --------------------------
(* A hot lead and another one; a posting on a career page, and another in   *)
(* an aggregator that appears while the first one ages.  Weighed: copies of *)
(* the first, also undated and newer ones, and an unknown source's posting. *)
(* A signal of hiring, or one that ages slowly.                             *)
EXTENDS LeadMonitoring

MCPool == {[tier |-> 1, content |-> 1, day |-> 0], [tier |-> 2, content |-> 2, day |-> 100]}

MCKinds == {Window(30, 120, 365)}

MCOffers == {[tier |-> t, content |-> 1, day |-> d] : t \in {1, 3}, d \in {NoDate, 0, 120}}
            \cup {[tier |-> 4, content |-> 3, day |-> NoDate]}
=============================================================================
