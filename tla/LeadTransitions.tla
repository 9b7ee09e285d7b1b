-------------------------- MODULE LeadTransitions --------------------------
(***************************************************************************)
(* crm/lifecycle.py: which changes of a lead's status are legal.  Some     *)
(* statuses claim that something really happened; without a human, only    *)
(* the event that proves it may set them.                                  *)
(***************************************************************************)
LeadStatus ==
    {"NEW", "RESEARCHED", "OUTREACH_READY", "CONTACTED", "REPLIED", "MEETING",
     "QUALIFIED", "PROPOSAL", "WON", "LOST", "NURTURE", "DISQUALIFIED"}

Allowed(old) ==
    CASE old = "NEW"            -> {"RESEARCHED", "OUTREACH_READY", "NURTURE", "DISQUALIFIED"}
      [] old = "RESEARCHED"     -> {"OUTREACH_READY", "NURTURE", "DISQUALIFIED"}
      [] old = "OUTREACH_READY" -> {"CONTACTED", "RESEARCHED", "NURTURE", "DISQUALIFIED"}
      [] old = "CONTACTED"      -> {"REPLIED", "MEETING", "NURTURE", "LOST", "DISQUALIFIED"}
      [] old = "REPLIED"        -> {"MEETING", "QUALIFIED", "NURTURE", "LOST", "DISQUALIFIED"}
      [] old = "MEETING"        -> {"QUALIFIED", "PROPOSAL", "NURTURE", "LOST"}
      [] old = "QUALIFIED"      -> {"PROPOSAL", "NURTURE", "LOST"}
      [] old = "PROPOSAL"       -> {"WON", "LOST", "NURTURE"}
      [] old \in {"WON", "LOST", "DISQUALIFIED"} -> {"NURTURE"}
      [] old = "NURTURE"        -> {"RESEARCHED", "OUTREACH_READY", "DISQUALIFIED"}

EventGate == [CONTACTED |-> "SEND_CONFIRMED", REPLIED |-> "PROVIDER_REPLY",
              MEETING |-> "MEETING_RECORDED"]

\* A change by the system, on the strength of an event.
SystemMay(old, new, source) ==
    /\ new \in Allowed(old)
    /\ new \in DOMAIN EventGate => source = EventGate[new]
    /\ new # "DISQUALIFIED"

\* Where transition leaves a lead; its callers swallow the ValidationError.
AfterEvent(old, new, source) == IF SystemMay(old, new, source) THEN new ELSE old
=============================================================================
