--------------------------- MODULE AlertIngestion ---------------------------
(***************************************************************************)
(* From a webhook delivery to incidents, for agent 11 (resource health): the *)
(* route logs the delivery (core/ingestion_log.py) before it answers 202,  *)
(* a background task waits for a slot of its process's semaphore           *)
(* (core/execution_semaphore.py) and runs the workflow once per alert of   *)
(* the delivery (agents/agent_11_resource_health/workflow.py): a resolved  *)
(* alert is noted on the open incident it matches, a firing one is dropped *)
(* if its resource is exempted, counted on the open incident it matches,   *)
(* or diagnosed and opened as an incident of its own.                      *)
(*                                                                         *)
(* Every SQL statement is a step of its own; the runs of all workers, and  *)
(* operators who settle incidents (IncidentLifecycle) or exempt resources  *)
(* (api/routes/policies.py), interleave between them.                      *)
(***************************************************************************)
EXTENDS Naturals, Sequences, FiniteSets

CONSTANTS
  Deliveries,   \* webhook deliveries; a sender's retry is one of its own
  Workers,      \* worker processes, each with a semaphore of its own
  Capacity,     \* slots of a semaphore: the size of the process's pool
  Keys,         \* <<resource_id, alert_name>> pairs, one alert per resource
  Payloads      \* what a delivery may carry: sequences of alerts

\* The key of an alert whose resource did not parse, and the key of an incident
\* that has no resource at all (its columns are NULL).
Unknown    == "unknown"
NoResource == "none"

Alert == [key : Keys \union {Unknown}, status : {"firing", "resolved"}]

ASSUME CapacityIsPositive == Capacity \in Nat \ {0}
ASSUME WorkersAreFinite   == IsFiniteSet(Workers)
ASSUME UnknownIsNoKey     == Unknown \notin Keys /\ NoResource \notin Keys
ASSUME PayloadsAreAlerts  == Payloads \subseteq Seq(Alert) \ {<<>>}

VARIABLES
  alerts,         \* the alerts each delivery carries
  ingestion_log,  \* alert_ingestion_log: received, then processed
  task,           \* the request and background task that serve a delivery
  incidents,      \* the rows of the incidents table, oldest first
  exempted,       \* resources with an exemption that is not revoked
  handled         \* history: what became of each alert of a delivery

vars == <<alerts, ingestion_log, task, incidents, exempted, handled>>

-----------------------------------------------------------------------------
(* Types *)

\* The nodes of the workflow, and the statement after a lookup that found a row.
Node == {"resolution_check", "note_resolution", "exemption_check", "dedup_check",
         "bump", "diagnose", "hitl_gate", "rest"}

\* Where a task holds a slot of the semaphore, and where it lives in memory only.
Running  == Node \union {"finally"}
InMemory == Running \union {"logged", "queued"}

\* Without a mark its row stays unprocessed: a task that died with its worker is
\* lost, one that got no connection for the mark is unmarked.
Task == [at       : InMemory \union {"new", "ignored", "over", "lost", "unmarked"},
         worker   : Workers,
         alert    : Nat,      \* which of its alerts it serves
         existing : Nat,      \* the row its last lookup found, 0 for none
         error    : BOOLEAN,  \* the diagnosis did not parse
         raised   : BOOLEAN]  \* history: an exception ended the run

Open     == {"pending_approval", "executing"}
Incident == [key               : Keys \union {Unknown, NoResource},
             execution_status  : Open \union {"settled"},
             occurrence_count  : Nat,
             source_resolved   : BOOLEAN]

Outcome == [how      : {"opened", "failed", "bumped", "suppressed", "noted", "unmatched"},
            incident : Nat]

TypeOK ==
  /\ alerts \in [Deliveries -> Payloads \union {<<>>}]
  /\ ingestion_log \in [Deliveries -> {"absent", "received", "processed"}]
  /\ task \in [Deliveries -> Task]
  /\ incidents \in Seq(Incident)
  /\ exempted \subseteq Keys \union {Unknown}
  /\ handled \in [Deliveries -> Seq(Outcome)]

-----------------------------------------------------------------------------
Init ==
  /\ alerts = [d \in Deliveries |-> <<>>]
  /\ ingestion_log = [d \in Deliveries |-> "absent"]
  /\ task \in [Deliveries -> {[at |-> "new", worker |-> w, alert |-> 1,
                               existing |-> 0, error |-> FALSE,
                               raised |-> FALSE] : w \in Workers}]
  /\ incidents = <<>>
  /\ exempted = {}
  /\ handled = [d \in Deliveries |-> <<>>]

-----------------------------------------------------------------------------
(* Steps shared by several handlers *)

\* The alert a delivery's task serves, and its deduplication key.
Served(d) == alerts[d][task[d].alert]
Key(d)    == Served(d).key

\* The open incidents of a key.
OpenFor(k) == {j \in DOMAIN incidents : /\ incidents[j].key = k
                                        /\ incidents[j].execution_status \in Open}

\* "unknown" looked up like any other resource.
BadFindOpenIncident(k) ==
  IF OpenFor(k) = {} THEN 0
  ELSE CHOOSE j \in OpenFor(k) : \A i \in OpenFor(k) : i <= j

\* find_open_incident: the newest open incident of the key, 0 when there is
\* none; an alert whose resource or name did not parse matches nothing.
FindOpenIncident(k) ==
  IF k = Unknown \/ OpenFor(k) = {} THEN 0
  ELSE CHOOSE j \in OpenFor(k) : \A i \in OpenFor(k) : i <= j

Goto(d, node) == task' = [task EXCEPT ![d] = [@ EXCEPT !.at = node]]

\* A lookup is over: its answer is kept for the statement that follows.
Found(d, node, j) ==
  task' = [task EXCEPT ![d] = [@ EXCEPT !.at = node, !.existing = j]]

\* What became of the alert (history).
Record(d, how, j) ==
  handled' = [handled EXCEPT ![d] = Append(@, [how |-> how, incident |-> j])]

\* The graph run of this alert is over: the next alert's begins, or none is left.
NextAlert(d) ==
  task' = [task EXCEPT ![d] =
    [@ EXCEPT !.at = IF task[d].alert < Len(alerts[d])
                     THEN "resolution_check" ELSE "finally",
              !.alert = task[d].alert + 1]]

Finish(d, how, j) == Record(d, how, j) /\ NextAlert(d)

\* INSERT INTO incidents
Insert(k, status) ==
  incidents' = Append(incidents, [key |-> k, execution_status |-> status,
                                  occurrence_count |-> 1, source_resolved |-> FALSE])

-----------------------------------------------------------------------------
(* The webhook route *)

IsFiring(alert) == alert.status = "firing"

\* A delivery with no firing alert in it is answered and forgotten.
IgnoreDelivery(d, payload) ==
  /\ task[d].at = "new"
  /\ \A i \in DOMAIN payload : ~IsFiring(payload[i])
  /\ Goto(d, "ignored")
  /\ UNCHANGED <<alerts, ingestion_log, incidents, exempted, handled>>

\* The background task added before the delivery is logged.
BadLogDelivery(d, payload) ==
  /\ task[d].at = "new"
  /\ \E i \in DOMAIN payload : IsFiring(payload[i])
  /\ alerts' = [alerts EXCEPT ![d] = payload]
  /\ Goto(d, "queued")
  /\ UNCHANGED <<ingestion_log, incidents, exempted, handled>>

\* log_alert_received
LogDelivery(d, payload) ==
  /\ task[d].at = "new"
  /\ \E i \in DOMAIN payload : IsFiring(payload[i])
  /\ alerts' = [alerts EXCEPT ![d] = payload]
  /\ ingestion_log' = [ingestion_log EXCEPT ![d] = "received"]
  /\ Goto(d, "logged")
  /\ UNCHANGED <<incidents, exempted, handled>>

\* The 202 goes out and the background task starts.
Accept(d) ==
  /\ task[d].at = "logged"
  /\ Goto(d, "queued")
  /\ UNCHANGED <<alerts, ingestion_log, incidents, exempted, handled>>

-----------------------------------------------------------------------------
(* The background task *)

\* The tasks of a worker that hold a slot of its semaphore.
Holding(w) == {d \in Deliveries : task[d].worker = w /\ task[d].at \in Running}

\* No semaphore.
BadEnter(d) ==
  /\ task[d].at = "queued"
  /\ Goto(d, "resolution_check")
  /\ UNCHANGED <<alerts, ingestion_log, incidents, exempted, handled>>

\* bounded_execution: the task starts when a slot is free.
Enter(d) ==
  /\ task[d].at = "queued"
  /\ Cardinality(Holding(task[d].worker)) < Capacity
  /\ Goto(d, "resolution_check")
  /\ UNCHANGED <<alerts, ingestion_log, incidents, exempted, handled>>

\* _resolution_check_node: a firing alert goes on to deduplication.
PassFiring(d) ==
  /\ task[d].at = "resolution_check"
  /\ IsFiring(Served(d))
  /\ Goto(d, "exemption_check")
  /\ UNCHANGED <<alerts, ingestion_log, incidents, exempted, handled>>

\* _resolution_check_node, for a resolved alert: the lookup ...
ResolutionCheck(d) ==
  LET j == FindOpenIncident(Key(d))
  IN  /\ task[d].at = "resolution_check"
      /\ ~IsFiring(Served(d))
      /\ \/ /\ j = 0
            /\ Finish(d, "unmatched", 0)
         \/ /\ j # 0
            /\ Found(d, "note_resolution", j)
            /\ UNCHANGED handled
      /\ UNCHANGED <<alerts, ingestion_log, incidents, exempted>>

\* ... and note_source_resolution.
NoteResolution(d) ==
  /\ task[d].at = "note_resolution"
  /\ incidents' = [incidents EXCEPT ![task[d].existing].source_resolved = TRUE]
  /\ Finish(d, "noted", task[d].existing)
  /\ UNCHANGED <<alerts, ingestion_log, exempted>>

\* _dedup_check_node: check_and_suppress ...
ExemptionCheck(d) ==
  /\ task[d].at = "exemption_check"
  /\ \/ /\ Key(d) \in exempted
        /\ Finish(d, "suppressed", 0)
     \/ /\ Key(d) \notin exempted
        /\ Goto(d, "dedup_check")
        /\ UNCHANGED handled
  /\ UNCHANGED <<alerts, ingestion_log, incidents, exempted>>

\* ... the lookup ...
DedupCheck(d) ==
  LET j == FindOpenIncident(Key(d))
  IN  /\ task[d].at = "dedup_check"
      /\ Found(d, IF j = 0 THEN "diagnose" ELSE "bump", j)
      /\ UNCHANGED <<alerts, ingestion_log, incidents, exempted, handled>>

\* ... and bump_occurrence, one UPDATE with no condition on the status.
BumpOccurrence(d) ==
  /\ task[d].at = "bump"
  /\ incidents' = [incidents EXCEPT ![task[d].existing].occurrence_count = @ + 1]
  /\ Finish(d, "bumped", task[d].existing)
  /\ UNCHANGED <<alerts, ingestion_log, exempted>>

\* _diagnose_node: the model's answer parses, or no model answers (an incident
\* is opened all the same), or the answer does not parse.
Diagnose(d) ==
  /\ task[d].at = "diagnose"
  /\ \E failed \in BOOLEAN :
       task' = [task EXCEPT ![d] = [@ EXCEPT !.at = "hitl_gate", !.error = failed]]
  /\ UNCHANGED <<alerts, ingestion_log, incidents, exempted, handled>>

\* _hitl_gate_node: create_incident.
OpenIncident(d) ==
  /\ task[d].at = "hitl_gate"
  /\ ~task[d].error
  /\ Insert(Key(d), "pending_approval")
  /\ Record(d, "opened", Len(incidents) + 1)
  /\ Goto(d, "rest")
  /\ UNCHANGED <<alerts, ingestion_log, exempted>>

\* _hitl_gate_node after a failed diagnosis: create_failed_incident, with no
\* resource and no alert name.
OpenFailedIncident(d) ==
  /\ task[d].at = "hitl_gate"
  /\ task[d].error
  /\ Insert(NoResource, "settled")
  /\ Record(d, "failed", Len(incidents) + 1)
  /\ Goto(d, "rest")
  /\ UNCHANGED <<alerts, ingestion_log, exempted>>

\* The rest of the run: record_token_usage and interrupt(), or, for a failed
\* diagnosis, the execute and complete nodes.
EndRun(d) ==
  /\ task[d].at = "rest"
  /\ NextAlert(d)
  /\ UNCHANGED <<alerts, ingestion_log, incidents, exempted, handled>>

\* mark_alert_processed only on the way through, not in a finally.
BadTaskRaises(d) ==
  /\ task[d].at \in Node
  /\ task' = [task EXCEPT ![d] = [@ EXCEPT !.at = "over", !.raised = TRUE]]
  /\ UNCHANGED <<alerts, ingestion_log, incidents, exempted, handled>>

\* An exception anywhere in the task (subscription, budget, database, a node):
\* it is logged, and the alerts that are left are not served.
TaskRaises(d) ==
  /\ task[d].at \in Node
  /\ task' = [task EXCEPT ![d] = [@ EXCEPT !.at = "finally", !.raised = TRUE]]
  /\ UNCHANGED <<alerts, ingestion_log, incidents, exempted, handled>>

\* The finally block: mark_alert_processed, which gives the slot back ...
MarkProcessed(d) ==
  /\ task[d].at = "finally"
  /\ ingestion_log' = [ingestion_log EXCEPT ![d] = "processed"]
  /\ Goto(d, "over")
  /\ UNCHANGED <<alerts, incidents, exempted, handled>>

\* ... or gets no connection within the pool's timeout, and raises: the worker
\* lives, the run is over, and its row stays as it is.
MarkTimesOut(d) ==
  /\ task[d].at = "finally"
  /\ Goto(d, "unmarked")
  /\ UNCHANGED <<alerts, ingestion_log, incidents, exempted, handled>>

\* A worker process dies with everything it has in memory.
CrashWorker(w) ==
  /\ \E d \in Deliveries : task[d].worker = w /\ task[d].at \in InMemory
  /\ task' = [d \in Deliveries |->
                IF task[d].worker = w /\ task[d].at \in InMemory
                THEN [task[d] EXCEPT !.at = "lost"] ELSE task[d]]
  /\ UNCHANGED <<alerts, ingestion_log, incidents, exempted, handled>>

-----------------------------------------------------------------------------
(* Operators *)

SetIncidentStatus(j, status) ==
  /\ incidents' = [incidents EXCEPT ![j].execution_status = status]
  /\ UNCHANGED <<alerts, ingestion_log, task, exempted, handled>>

\* approve_incident checks the row in one statement and writes it in another:
\* by the time of the second, the incident may have been settled.
Approve(j) ==
  /\ \/ incidents[j].execution_status = "pending_approval"
     \/ incidents[j].execution_status = "settled" /\ incidents[j].key # NoResource
  /\ SetIncidentStatus(j, "executing")

\* Rejected, held or resolved by hand, executed or failed.
Settle(j) ==
  /\ incidents[j].execution_status \in Open
  /\ SetIncidentStatus(j, "settled")

\* exempt_resource_from_incident takes the resource from an incident.
ExemptResource(j) ==
  /\ incidents[j].key # NoResource
  /\ exempted' = exempted \union {incidents[j].key}
  /\ UNCHANGED <<alerts, ingestion_log, task, incidents, handled>>

RevokeExemption(k) ==
  /\ k \in exempted
  /\ exempted' = exempted \ {k}
  /\ UNCHANGED <<alerts, ingestion_log, task, incidents, handled>>

-----------------------------------------------------------------------------
(* Next-state relation *)

DeliveryStep(d) ==
  \E payload \in Payloads : IgnoreDelivery(d, payload) \/ LogDelivery(d, payload)

TaskStep(d) ==
  \/ Accept(d)
  \/ Enter(d)
  \/ PassFiring(d)
  \/ ResolutionCheck(d)
  \/ NoteResolution(d)
  \/ ExemptionCheck(d)
  \/ DedupCheck(d)
  \/ BumpOccurrence(d)
  \/ Diagnose(d)
  \/ OpenIncident(d)
  \/ OpenFailedIncident(d)
  \/ EndRun(d)
  \/ MarkProcessed(d)

Fault == \/ \E d \in Deliveries : TaskRaises(d) \/ MarkTimesOut(d)
         \/ \E w \in Workers : CrashWorker(w)

OperatorStep ==
  \/ \E j \in DOMAIN incidents : Approve(j) \/ Settle(j) \/ ExemptResource(j)
  \/ \E k \in Keys \union {Unknown} : RevokeExemption(k)

Next ==
  \/ \E d \in Deliveries : DeliveryStep(d) \/ TaskStep(d)
  \/ Fault
  \/ OperatorStep

Spec == Init /\ [][Next]_vars

\* The event loop resumes every task that is ready, the semaphore serves its
\* waiters in turn, and every call of a run carries a timeout.
FairSpec == Spec /\ \A d \in Deliveries : WF_vars(TaskStep(d))

-----------------------------------------------------------------------------
(* Properties *)

PendingFor(k) ==
  {j \in OpenFor(k) : incidents[j].execution_status = "pending_approval"}

\* The workers that deliveries arrive at.
Serving == {task[d].worker : d \in Deliveries}

\* A burst of deliveries of one alert opens no more incidents for operators to
\* decide on than the workers it arrives at have slots, however many deliveries
\* there are: between the lookup and the INSERT a run holds its slot, and a run
\* that starts later finds the incident.
PendingIncidentsBounded ==
  \A k \in Keys : Cardinality(PendingFor(k)) <= Cardinality(Serving) * Capacity

\* An alert is opened as, counted or noted on an incident of its own resource
\* and name, never one an earlier alert of the delivery was about; what could
\* not be identified merges with nothing.
AlertsReachTheirIncident ==
  \A d \in Deliveries : \A i \in DOMAIN handled[d] :
    LET outcome == handled[d][i]
    IN  /\ outcome.how \in {"opened", "bumped", "noted"} =>
              incidents[outcome.incident].key = alerts[d][i].key
        /\ outcome.how \in {"bumped", "noted"} => alerts[d][i].key # Unknown
        /\ outcome.how \in {"noted", "unmatched"} <=> ~IsFiring(alerts[d][i])

\* What find_unprocessed_older_than returns is what is still being worked on, what
\* a dead worker left, and what was dealt with but not marked; and all that it
\* does not return was dealt with, alert by alert, unless an exception cut it short.
RecoverySetExact ==
  \A d \in Deliveries :
    /\ ingestion_log[d] = "received" <=> task[d].at \in InMemory \union {"lost", "unmarked"}
    /\ task[d].at \in {"over", "unmarked"} =>
         task[d].raised \/ Len(handled[d]) = Len(alerts[d])

\* What the ingestion log and the finally block say of that set: that only the
\* death of a process leaves a row unprocessed.
OnlyDeathLeavesUnprocessed ==
  \A d \in Deliveries :
    ingestion_log[d] = "received" => task[d].at \in InMemory \union {"lost"}

\* A delivery in the log is taken to completion, whatever its run raises,
\* unless its task is lost or cannot mark it.
DeliveriesEnd ==
  \A d \in Deliveries :
    ingestion_log[d] = "received" ~>
      (ingestion_log[d] = "processed" \/ task[d].at \in {"lost", "unmarked"})

\* bump_occurrence promises one incident for an alert that repeats.
OnePendingIncidentPerAlert == \A k \in Keys : Cardinality(PendingFor(k)) <= 1
-----------------------------------------------------------------------------
(* The inductive invariant behind AlertsReachTheirIncident *)

\* The alerts of a delivery are dealt with one after the other: as many are as
\* come before the one its task serves, and that one too once it is opened.
InTurn(d) ==
  /\ task[d].at \in (Node \ {"rest"}) \union {"new", "logged", "queued"} =>
       Len(handled[d]) = task[d].alert - 1
  /\ task[d].at = "rest" => Len(handled[d]) = task[d].alert
  /\ task[d].at \in {"finally", "over", "unmarked"} =>
       task[d].raised \/ Len(handled[d]) = Len(alerts[d])

\* What a lookup found is still what the alert is about when the statement that
\* follows it runs, whatever ran in between.
LookupStands(d) ==
  /\ task[d].at \in {"bump", "note_resolution"} =>
       /\ task[d].existing \in DOMAIN incidents
       /\ incidents[task[d].existing].key = Key(d)
       /\ Key(d) # Unknown
  /\ task[d].at = "note_resolution" => ~IsFiring(Served(d))
  /\ task[d].at \in Node \ {"resolution_check", "note_resolution", "rest"} =>
       IsFiring(Served(d))

\* One outcome of a delivery is one of its alerts'.
IsOutcomeOf(outcome, alert) ==
  /\ outcome.how \in {"opened", "bumped", "noted"} =>
       /\ outcome.incident \in DOMAIN incidents
       /\ incidents[outcome.incident].key = alert.key
  /\ outcome.how \in {"bumped", "noted"} => alert.key # Unknown
  /\ outcome.how \in {"noted", "unmatched"} <=> ~IsFiring(alert)

OutcomesStand(d) ==
  \A i \in DOMAIN handled[d] : IsOutcomeOf(handled[d][i], alerts[d][i])

\* Every outcome so far is the alert's own and the one being worked on will be:
\* inductive, and it implies AlertsReachTheirIncident.
FollowsItsAlerts(d) == InTurn(d) /\ LookupStands(d) /\ OutcomesStand(d)
AllFollowTheirAlerts == \A d \in Deliveries : FollowsItsAlerts(d)
=============================================================================
