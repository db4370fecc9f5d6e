-------------------------- MODULE RemediationGate --------------------------
(***************************************************************************)
(* What the human-in-the-loop gate promises, with nothing of how the code  *)
(* keeps it: a fix for an incident is first proposed, an operator then     *)
(* grants one of its options, and only a granted option is ever performed  *)
(* (Governance Rule 11 of core/hitl.py and api/routes/incidents.py).       *)
(* IncidentLifecycle is shown to implement this specification.             *)
(***************************************************************************)
CONSTANTS
  Threads,          \* incidents an agent can raise
  Options           \* remediation options an incident offers

VARIABLES
  proposed,         \* incidents whose fix has been put to the operators
  granted,          \* <<incident, option>> pairs an operator approved
  performed         \* <<incident, option>> pairs a tool has carried out

vars == <<proposed, granted, performed>>

Init ==
  /\ proposed  = {}
  /\ granted   = {}
  /\ performed = {}

Propose(t) ==
  /\ proposed' = proposed \union {t}
  /\ UNCHANGED <<granted, performed>>

\* Only what was proposed can be granted.
Grant(t, opt) ==
  /\ t \in proposed
  /\ granted' = granted \union {<<t, opt>>}
  /\ UNCHANGED <<proposed, performed>>

\* Only what was granted can be performed.
Perform(t, opt) ==
  /\ <<t, opt>> \in granted
  /\ performed' = performed \union {<<t, opt>>}
  /\ UNCHANGED <<proposed, granted>>

Next ==
  \E t \in Threads :
     \/ Propose(t)
     \/ \E opt \in Options : Grant(t, opt) \/ Perform(t, opt)

Spec == Init /\ [][Next]_vars
=============================================================================
