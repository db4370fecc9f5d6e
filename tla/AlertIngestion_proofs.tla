------------------------ MODULE AlertIngestion_proofs ------------------------
(***************************************************************************)
(* What holds of alert ingestion for any number of deliveries, workers,    *)
(* slots and keys: type correctness, that the ingestion log tells exactly  *)
(* what is left to recover, that a burst of deliveries of one alert opens  *)
(* at most one pending incident per slot, and that every alert reaches an  *)
(* incident of its own.                                                    *)
(***************************************************************************)
EXTENDS AlertIngestion, FiniteSetTheorems, SequenceTheorems,
        WellFoundedInduction, TLAPS

Places == InMemory \union {"new", "ignored", "over", "lost", "unmarked"}

-----------------------------------------------------------------------------
(* Type correctness *)

\* A non-empty set of positions has a last one: an open incident of a key that
\* has any is the newest (ORDER BY created_at DESC LIMIT 1).
LEMMA LastExists ==
  ASSUME NEW n \in Nat, NEW S \in SUBSET (1..n), S # {}
  PROVE  \E j \in S : \A i \in S : i <= j
<1> DEFINE T == {n - j : j \in S}
<1>1. T \subseteq Nat /\ T # {}
  <2>1. \A j \in S : j \in Int /\ j <= n
    OBVIOUS
  <2>2. \A j \in S : n - j \in Nat
    BY <2>1
  <2>3. PICK j \in S : TRUE
    OBVIOUS
  <2>4. n - j \in T
    BY <2>3
  <2> QED
    BY <2>2, <2>4
<1>2. PICK t \in T : \A u \in T : ~ (<<u, t>> \in OpToRel(<, Nat))
  BY <1>1, WFMin, NatLessThanWellFounded
<1>3. \A u, v \in Nat : u < v => <<u, v>> \in OpToRel(<, Nat)
  BY DEF OpToRel
<1>6. \A u \in T : t <= u
  <2> SUFFICES ASSUME NEW u \in T  PROVE t <= u
    OBVIOUS
  <2>1. t \in Nat /\ u \in Nat
    BY <1>1
  <2>2. ~(u < t)
    BY <1>2, <1>3, <2>1
  <2> QED
    BY <2>1, <2>2
<1>4. PICK j \in S : t = n - j
  OBVIOUS
<1>5. \A i \in S : i <= j
  BY <1>4, <1>6
<1> QED
  BY <1>5

\* A lookup answers with no row or with an open incident of its key.
LEMMA LookupFinds ==
  ASSUME TypeOK, NEW k
  PROVE  /\ FindOpenIncident(k) \in Nat
         /\ FindOpenIncident(k) # 0 => FindOpenIncident(k) \in OpenFor(k)
         /\ FindOpenIncident(k) = 0 => k = Unknown \/ OpenFor(k) = {}
<1>1. Len(incidents) \in Nat /\ DOMAIN incidents = 1..Len(incidents)
  BY LenProperties DEF TypeOK
<1>2. OpenFor(k) \in SUBSET (1..Len(incidents))
  BY <1>1 DEF OpenFor
<1>3. CASE k = Unknown \/ OpenFor(k) = {}
  BY <1>3 DEF FindOpenIncident
<1>4. CASE ~(k = Unknown \/ OpenFor(k) = {})
  <2>1. \E j \in OpenFor(k) : \A i \in OpenFor(k) : i <= j
    BY <1>1, <1>2, <1>4, LastExists
  <2>2. FindOpenIncident(k) \in OpenFor(k)
    BY <1>4, <2>1 DEF FindOpenIncident
  <2> QED
    BY <1>2, <2>2
<1> QED
  BY <1>3, <1>4

\* Moving a task keeps it a task.
LEMMA GotoType ==
  ASSUME TypeOK, NEW d \in Deliveries, NEW node \in Places, Goto(d, node)
  PROVE  task' \in [Deliveries -> Task]
BY ZenonT(40) DEF TypeOK, Goto, Places, Task

\* So does keeping a lookup's answer with it ...
LEMMA FoundType ==
  ASSUME TypeOK, NEW d \in Deliveries, NEW node \in Places, NEW j \in Nat,
         Found(d, node, j)
  PROVE  task' \in [Deliveries -> Task]
BY ZenonT(40) DEF TypeOK, Found, Places, Task

\* A task turned to another alert is one again ...
LEMMA TurnedTask ==
  ASSUME NEW r \in Task, NEW place \in Places, NEW n \in Nat
  PROVE  [r EXCEPT !.at = place, !.alert = n] \in Task
BY DEF Task, Places

\* ... and turning to the next alert.
LEMMA NextAlertType ==
  ASSUME TypeOK, NEW d \in Deliveries, NextAlert(d)
  PROVE  task' \in [Deliveries -> Task]
<1> DEFINE next == IF task[d].alert < Len(alerts[d]) THEN "resolution_check" ELSE "finally"
           n    == task[d].alert + 1
<1>1. next \in Places
  BY DEF Places, InMemory, Running, Node
<1>2. task[d] \in Task /\ n \in Nat
  BY DEF TypeOK, Task
<1>3. task' = [task EXCEPT ![d] = [task[d] EXCEPT !.at = next, !.alert = n]]
  BY DEF NextAlert, TypeOK
<1> HIDE DEF next, n
<1>4. [task[d] EXCEPT !.at = next, !.alert = n] \in Task
  BY <1>1, <1>2, TurnedTask
<1> HIDE DEF Task
<1> QED
  BY <1>3, <1>4 DEF TypeOK

\* The history stays a history.
LEMMA RecordType ==
  ASSUME TypeOK, NEW d \in Deliveries, NEW j \in Nat,
         NEW how \in {"opened", "failed", "bumped", "suppressed", "noted", "unmatched"},
         Record(d, how, j)
  PROVE  handled' \in [Deliveries -> Seq(Outcome)]
<1>1. [how |-> how, incident |-> j] \in Outcome
  BY DEF Outcome
<1>2. Append(handled[d], [how |-> how, incident |-> j]) \in Seq(Outcome)
  BY <1>1 DEF TypeOK
<1> QED
  BY <1>2 DEF TypeOK, Record

\* A row inserted is an incident.
LEMMA InsertType ==
  ASSUME TypeOK, NEW k \in Keys \union {Unknown, NoResource},
         NEW status \in Open \union {"settled"}, Insert(k, status)
  PROVE  /\ incidents' \in Seq(Incident)
         /\ Len(incidents) + 1 \in Nat
<1>1. [key |-> k, execution_status |-> status,
       occurrence_count |-> 1, source_resolved |-> FALSE] \in Incident
  BY DEF Incident
<1> QED
  BY <1>1 DEF TypeOK, Insert

\* A row updated, or not found, leaves the table well-typed.
LEMMA UpdateType ==
  ASSUME NEW S, NEW s \in Seq(S), NEW j, NEW e, j \in DOMAIN s => e \in S
  PROVE  [s EXCEPT ![j] = e] \in Seq(S)
<1>1. CASE j \in DOMAIN s
  BY <1>1, ExceptSeq, LenProperties
<1>2. CASE j \notin DOMAIN s
  <2>1. [s EXCEPT ![j] = e] = s
    BY <1>2, LenProperties
  <2> QED
    BY <2>1
<1> QED
  BY <1>1, <1>2

\* The key of a running task's alert is one of the keys.
LEMMA ServedType ==
  ASSUME TypeOK, NEW d \in Deliveries, task[d].alert \in DOMAIN alerts[d]
  PROVE  Key(d) \in Keys \union {Unknown}
<1>1. alerts[d] \in Seq(Alert)
  BY PayloadsAreAlerts, EmptySeq DEF TypeOK
<1>2. alerts[d][task[d].alert] \in Alert
  BY <1>1, LenProperties
<1> QED
  BY <1>2 DEF Key, Served, Alert

\* A task that has an alert to serve serves one of its delivery's.
ServesAnAlert ==
  \A d \in Deliveries :
    /\ task[d].at = "new" => task[d].alert = 1
    /\ task[d].at \in Node \union {"logged", "queued"} =>
         task[d].alert \in 1..Len(alerts[d])

TypeInv == TypeOK /\ ServesAnAlert

\* The places a step can move a task to are places of a task.
LEMMA PlacesListed ==
  /\ {"new", "ignored", "logged", "queued", "finally", "over", "lost", "unmarked"} \subseteq Places
  /\ {"resolution_check", "note_resolution", "exemption_check", "dedup_check",
       "bump", "diagnose", "hitl_gate", "rest"} \subseteq Places
BY DEF Places, InMemory, Running, Node

\* A task at a node serves an alert whose key is one of the keys.
LEMMA ServedKey ==
  ASSUME TypeInv, NEW d \in Deliveries, task[d].at \in Node
  PROVE  Key(d) \in Keys \union {Unknown}
<1>1. task[d].alert \in 1..Len(alerts[d]) /\ alerts[d] \in Seq(Alert)
  BY PayloadsAreAlerts, EmptySeq DEF TypeInv, ServesAnAlert, TypeOK
<1> QED
  BY <1>1, LenProperties, ServedType DEF TypeInv

\* The route keeps the types.
LEMMA RouteTypeStep ==
  ASSUME TypeInv, NEW d \in Deliveries, DeliveryStep(d) \/ Accept(d) \/ Enter(d)
  PROVE  TypeOK'
<1>1. ASSUME NEW payload \in Payloads, IgnoreDelivery(d, payload)  PROVE TypeOK'
  BY <1>1, PlacesListed, GotoType DEF IgnoreDelivery, TypeInv, TypeOK
<1>2. ASSUME NEW payload \in Payloads, LogDelivery(d, payload)  PROVE TypeOK'
  BY <1>2, PlacesListed, GotoType DEF LogDelivery, TypeInv, TypeOK
<1>3. CASE Accept(d)
  BY <1>3, PlacesListed, GotoType DEF Accept, TypeInv, TypeOK
<1>4. CASE Enter(d)
  BY <1>4, PlacesListed, GotoType DEF Enter, TypeInv, TypeOK
<1> QED
  BY <1>1, <1>2, <1>3, <1>4 DEF DeliveryStep

\* So do the nodes of the workflow that only read ...
LEMMA LookupTypeStep ==
  ASSUME TypeInv, NEW d \in Deliveries,
         PassFiring(d) \/ ResolutionCheck(d) \/ ExemptionCheck(d) \/ DedupCheck(d)
  PROVE  TypeOK'
<1>1. FindOpenIncident(Key(d)) \in Nat
  BY LookupFinds DEF TypeInv
<1>2. CASE PassFiring(d)
  BY <1>2, PlacesListed, GotoType DEF PassFiring, TypeInv, TypeOK
<1>3. CASE ResolutionCheck(d)
  <2>1. task' \in [Deliveries -> Task] /\ handled' \in [Deliveries -> Seq(Outcome)]
    <3>1. CASE Finish(d, "unmatched", 0)
      BY <3>1, NextAlertType, RecordType DEF Finish, TypeInv
    <3>2. CASE Found(d, "note_resolution", FindOpenIncident(Key(d))) /\ UNCHANGED handled
      BY <1>1, <3>2, PlacesListed, FoundType DEF TypeInv, TypeOK
    <3> QED
      BY <1>3, <3>1, <3>2 DEF ResolutionCheck
  <2> QED
    BY <1>3, <2>1 DEF ResolutionCheck, TypeInv, TypeOK
<1>4. CASE ExemptionCheck(d)
  <2>1. task' \in [Deliveries -> Task] /\ handled' \in [Deliveries -> Seq(Outcome)]
    <3>1. CASE Finish(d, "suppressed", 0)
      BY <3>1, NextAlertType, RecordType DEF Finish, TypeInv
    <3>2. CASE Goto(d, "dedup_check") /\ UNCHANGED handled
      BY <3>2, PlacesListed, GotoType DEF TypeInv, TypeOK
    <3> QED
      BY <1>4, <3>1, <3>2 DEF ExemptionCheck
  <2> QED
    BY <1>4, <2>1 DEF ExemptionCheck, TypeInv, TypeOK
<1>5. CASE DedupCheck(d)
  <2>1. task' \in [Deliveries -> Task]
    BY <1>1, <1>5, PlacesListed, FoundType DEF DedupCheck, TypeInv
  <2> QED
    BY <1>5, <2>1 DEF DedupCheck, TypeInv, TypeOK
<1> QED
  BY <1>2, <1>3, <1>4, <1>5

\* ... those that write an incident ...
LEMMA WriteTypeStep ==
  ASSUME TypeInv, NEW d \in Deliveries,
         \/ NoteResolution(d) \/ BumpOccurrence(d)
         \/ OpenIncident(d) \/ OpenFailedIncident(d)
  PROVE  TypeOK'
<1> DEFINE j == task[d].existing
<1>1. j \in Nat
  BY DEF TypeInv, TypeOK, Task
<1>2. /\ DOMAIN incidents = 1..Len(incidents) /\ Len(incidents) \in Nat
      /\ \A i \in DOMAIN incidents : incidents[i] \in Incident
  BY LenProperties DEF TypeInv, TypeOK
<1>3. CASE NoteResolution(d)
  <2>1. incidents' \in Seq(Incident)
    <3> DEFINE row == [incidents[j] EXCEPT !.source_resolved = TRUE]
    <3>1. j \in DOMAIN incidents => row \in Incident
      BY <1>2 DEF Incident
    <3>2. incidents' = [incidents EXCEPT ![j] = row]
      BY <1>3 DEF NoteResolution
    <3> HIDE DEF row, j
    <3> QED
      BY <3>1, <3>2, UpdateType DEF TypeInv, TypeOK
  <2>2. task' \in [Deliveries -> Task] /\ handled' \in [Deliveries -> Seq(Outcome)]
    BY <1>1, <1>3, NextAlertType, RecordType DEF NoteResolution, Finish, TypeInv
  <2> QED
    BY <1>3, <2>1, <2>2 DEF NoteResolution, TypeInv, TypeOK
<1>4. CASE BumpOccurrence(d)
  <2>1. incidents' \in Seq(Incident)
    <3> DEFINE row == [incidents[j] EXCEPT !.occurrence_count = @ + 1]
    <3>1. j \in DOMAIN incidents => row \in Incident
      BY <1>2 DEF Incident
    <3>2. incidents' = [incidents EXCEPT ![j] = row]
      BY <1>4 DEF BumpOccurrence
    <3> HIDE DEF row, j
    <3> QED
      BY <3>1, <3>2, UpdateType DEF TypeInv, TypeOK
  <2>2. task' \in [Deliveries -> Task] /\ handled' \in [Deliveries -> Seq(Outcome)]
    BY <1>1, <1>4, NextAlertType, RecordType DEF BumpOccurrence, Finish, TypeInv
  <2> QED
    BY <1>4, <2>1, <2>2 DEF BumpOccurrence, TypeInv, TypeOK
<1>5. CASE OpenIncident(d)
  <2>1. Key(d) \in Keys \union {Unknown}
    BY <1>5, ServedKey DEF OpenIncident, Node
  <2>2. incidents' \in Seq(Incident)
    BY <1>5, <2>1, InsertType DEF OpenIncident, Open, TypeInv
  <2>3. task' \in [Deliveries -> Task] /\ handled' \in [Deliveries -> Seq(Outcome)]
    BY <1>2, <1>5, PlacesListed, GotoType, RecordType DEF OpenIncident, TypeInv
  <2> QED
    BY <1>5, <2>2, <2>3 DEF OpenIncident, TypeInv, TypeOK
<1>6. CASE OpenFailedIncident(d)
  <2>1. incidents' \in Seq(Incident)
    BY <1>6, InsertType DEF OpenFailedIncident, TypeInv
  <2>2. task' \in [Deliveries -> Task] /\ handled' \in [Deliveries -> Seq(Outcome)]
    BY <1>2, <1>6, PlacesListed, GotoType, RecordType DEF OpenFailedIncident, TypeInv
  <2> QED
    BY <1>6, <2>1, <2>2 DEF OpenFailedIncident, TypeInv, TypeOK
<1> QED
  BY <1>3, <1>4, <1>5, <1>6

\* ... and those that move the task or end it, whatever happens to it.
LEMMA MoveTypeStep ==
  ASSUME TypeInv, NEW d \in Deliveries,
         Diagnose(d) \/ EndRun(d) \/ MarkProcessed(d) \/ TaskRaises(d) \/ MarkTimesOut(d)
  PROVE  TypeOK'
<1>1. CASE Diagnose(d)
  <2>1. PICK failed \in BOOLEAN :
          task' = [task EXCEPT ![d] = [task[d] EXCEPT !.at = "hitl_gate", !.error = failed]]
    BY <1>1 DEF Diagnose
  <2>2. [task[d] EXCEPT !.at = "hitl_gate", !.error = failed] \in Task
    <3>1. "hitl_gate" \in Places
      BY PlacesListed
    <3> QED
      BY <3>1 DEF TypeInv, TypeOK, Task, Places
  <2>3. task' \in [Deliveries -> Task]
    BY <2>1, <2>2 DEF TypeInv, TypeOK
  <2> QED
    BY <1>1, <2>3 DEF Diagnose, TypeInv, TypeOK
<1>2. CASE EndRun(d)
  BY <1>2, NextAlertType DEF EndRun, TypeInv, TypeOK
<1>3. CASE MarkProcessed(d)
  BY <1>3, PlacesListed, GotoType DEF MarkProcessed, TypeInv, TypeOK
<1>4. CASE TaskRaises(d)
  <2>1. [task[d] EXCEPT !.at = "finally", !.raised = TRUE] \in Task
    <3>1. "finally" \in Places
      BY PlacesListed
    <3> QED
      BY <3>1 DEF TypeInv, TypeOK, Task, Places
  <2>2. task' \in [Deliveries -> Task]
    BY <1>4, <2>1 DEF TaskRaises, TypeInv, TypeOK
  <2> QED
    BY <1>4, <2>2 DEF TaskRaises, TypeInv, TypeOK
<1>5. CASE MarkTimesOut(d)
  BY <1>5, PlacesListed, GotoType DEF MarkTimesOut, TypeInv, TypeOK
<1> QED
  BY <1>1, <1>2, <1>3, <1>4, <1>5

\* The death of a worker keeps the types.
LEMMA CrashTypeStep ==
  ASSUME TypeInv, NEW w \in Workers, CrashWorker(w)
  PROVE  TypeOK'
<1>1. \A d \in Deliveries : [task[d] EXCEPT !.at = "lost"] \in Task
  BY DEF TypeInv, TypeOK, Task
<1>2. task' \in [Deliveries -> Task]
  BY <1>1 DEF CrashWorker, TypeInv, TypeOK
<1> QED
  BY <1>2 DEF CrashWorker, TypeInv, TypeOK

\* So do the operators.
LEMMA OperatorTypeStep ==
  ASSUME TypeInv, OperatorStep
  PROVE  TypeOK'
<1>1. /\ DOMAIN incidents = 1..Len(incidents)
      /\ \A i \in DOMAIN incidents : incidents[i] \in Incident
  BY LenProperties DEF TypeInv, TypeOK
<1>2. ASSUME NEW j \in DOMAIN incidents, NEW status \in Open \union {"settled"},
             SetIncidentStatus(j, status)
      PROVE  TypeOK'
  <2> DEFINE row == [incidents[j] EXCEPT !.execution_status = status]
  <2>1. row \in Incident
    BY <1>1, <1>2 DEF Incident
  <2>2. incidents' = [incidents EXCEPT ![j] = row]
    BY <1>2 DEF SetIncidentStatus
  <2> HIDE DEF row
  <2>3. incidents' \in Seq(Incident)
    BY <2>1, <2>2, UpdateType DEF TypeInv, TypeOK
  <2> QED
    BY <1>2, <2>3 DEF SetIncidentStatus, TypeInv, TypeOK
<1>3. ASSUME NEW j \in DOMAIN incidents, ExemptResource(j)  PROVE TypeOK'
  <2>1. incidents[j].key \in Keys \union {Unknown}
    BY <1>1, <1>3 DEF ExemptResource, Incident
  <2> QED
    BY <1>3, <2>1 DEF ExemptResource, TypeInv, TypeOK
<1>4. ASSUME NEW k \in Keys \union {Unknown}, RevokeExemption(k)  PROVE TypeOK'
  BY <1>4 DEF RevokeExemption, TypeInv, TypeOK
<1> QED
  BY <1>2, <1>3, <1>4 DEF OperatorStep, Approve, Settle, Open

-----------------------------------------------------------------------------
(* How a step may move a task *)

\* A move that leaves alone what is known of the delivery.
Keeps(e) == alerts'[e] = alerts[e] /\ ingestion_log'[e] = ingestion_log[e]

\* From one place to another, at the same alert.
Moves(e, from, to) ==
  /\ task[e].at \in from /\ task'[e].at \in to
  /\ task'[e].alert = task[e].alert

Untouched(e) == task'[e] = task[e] /\ Keeps(e)
Ignored(e)   == Moves(e, {"new"}, {"ignored"}) /\ Keeps(e)
Logged(e)    == /\ Moves(e, {"new"}, {"logged"})
                /\ alerts'[e] \in Payloads /\ ingestion_log'[e] = "received"
Accepted(e)  == Moves(e, {"logged"}, {"queued"}) /\ Keeps(e)
Entered(e)   == Moves(e, {"queued"}, {"resolution_check"}) /\ Keeps(e) /\ Enter(e)
Advanced(e)  == /\ Moves(e, Node, Node) /\ Keeps(e)
                /\ task'[e].at = "diagnose"  => DedupCheck(e)
                /\ task'[e].at = "hitl_gate" => task[e].at = "diagnose"
Turned(e)    == /\ task[e].at \in Node /\ task'[e].at = "resolution_check" /\ Keeps(e)
                /\ task[e].alert < Len(alerts[e]) /\ task'[e].alert = task[e].alert + 1
Ended(e)     == task[e].at \in Node /\ task'[e].at = "finally" /\ Keeps(e)
Processed(e) == /\ Moves(e, {"finally"}, {"over"})
                /\ alerts'[e] = alerts[e] /\ ingestion_log'[e] = "processed"
Unmarked(e)  == Moves(e, {"finally"}, {"unmarked"}) /\ Keeps(e)
Lost(e)      == Moves(e, InMemory, {"lost"}) /\ Keeps(e)

Moved(e) == \/ Untouched(e) \/ Ignored(e) \/ Logged(e) \/ Accepted(e) \/ Entered(e)
            \/ Advanced(e) \/ Turned(e) \/ Ended(e) \/ Processed(e)
            \/ Unmarked(e) \/ Lost(e)

\* Goto moves one task and keeps its worker.
LEMMA GotoMoves ==
  ASSUME TypeOK, NEW d \in Deliveries, NEW node \in Places, Goto(d, node)
  PROVE  /\ \A e \in Deliveries : task'[e].worker = task[e].worker
         /\ \A e \in Deliveries \ {d} : task'[e] = task[e]
         /\ task'[d].at = node /\ task'[d].alert = task[d].alert
         /\ task'[d].raised = task[d].raised
BY DEF TypeOK, Goto, Task

\* An exception moves one task to its finally block.
LEMMA RaiseMoves ==
  ASSUME TypeOK, NEW d \in Deliveries, TaskRaises(d)
  PROVE  /\ \A e \in Deliveries : task'[e].worker = task[e].worker
         /\ \A e \in Deliveries \ {d} : task'[e] = task[e]
         /\ task'[d].at = "finally" /\ task'[d].alert = task[d].alert
         /\ task'[d].raised
BY DEF TypeOK, TaskRaises, Task

\* So does Found.
LEMMA FoundMoves ==
  ASSUME TypeOK, NEW d \in Deliveries, NEW node \in Places, NEW j \in Nat, Found(d, node, j)
  PROVE  /\ \A e \in Deliveries : task'[e].worker = task[e].worker
         /\ \A e \in Deliveries \ {d} : task'[e] = task[e]
         /\ task'[d].at = node /\ task'[d].alert = task[d].alert
BY DEF TypeOK, Found, Task

\* NextAlert turns it to the next alert or ends it.
LEMMA NextAlertMoves ==
  ASSUME TypeOK, NEW d \in Deliveries, NextAlert(d)
  PROVE  /\ \A e \in Deliveries : task'[e].worker = task[e].worker
         /\ \A e \in Deliveries \ {d} : task'[e] = task[e]
         /\ \/ /\ task'[d].at = "resolution_check"
               /\ task[d].alert < Len(alerts[d]) /\ task'[d].alert = task[d].alert + 1
            \/ task'[d].at = "finally" /\ ~(task[d].alert < Len(alerts[d]))
<1> DEFINE next == IF task[d].alert < Len(alerts[d]) THEN "resolution_check" ELSE "finally"
           n    == task[d].alert + 1
           new  == [task[d] EXCEPT !.at = next, !.alert = n]
<1>1. next \in Places
  BY PlacesListed
<1>2. task \in [Deliveries -> Task] /\ task[d] \in Task /\ n \in Nat
  BY DEF TypeOK, Task
<1>3. task' = [task EXCEPT ![d] = new]
  BY DEF NextAlert, TypeOK
<1>4. \/ next = "resolution_check" /\ task[d].alert < Len(alerts[d])
      \/ next = "finally" /\ ~(task[d].alert < Len(alerts[d]))
  OBVIOUS
<1>5. n = task[d].alert + 1
  OBVIOUS
<1> HIDE DEF next, n
<1>6. new.at = next /\ new.worker = task[d].worker /\ new.alert = n
  <2> DEFINE r == task[d]
  <2>1. r \in Task /\ n \in Nat
    BY <1>2
  <2> HIDE DEF r
  <2>2. LET nr == [r EXCEPT !.at = next, !.alert = n]
        IN  nr.at = next /\ nr.worker = r.worker /\ nr.alert = n
    BY <1>1, <2>1 DEF Task, Places
  <2> QED
    BY <2>2 DEF r
<1> HIDE DEF new
<1>7. task'[d] = new /\ \A e \in Deliveries \ {d} : task'[e] = task[e]
  BY <1>2, <1>3
<1> QED
  BY <1>4, <1>5, <1>6, <1>7

\* Every step of Next moves every task in one of the ways above, and no step
\* moves a task to another worker.
LEMMA StepMoves ==
  ASSUME TypeOK, Next, NEW e \in Deliveries
  PROVE  Moved(e) /\ task'[e].worker = task[e].worker
<1>a. /\ alerts \in [Deliveries -> Payloads \union {<<>>}]
      /\ ingestion_log \in [Deliveries -> {"absent", "received", "processed"}]
  BY DEF TypeOK
<1>b. {"resolution_check", "note_resolution", "exemption_check", "dedup_check",
       "bump", "diagnose", "hitl_gate", "rest"} = Node
  BY DEF Node
<1>c. Node \subseteq InMemory /\ "finally" \in InMemory
  BY DEF InMemory, Running
<1>1. ASSUME NEW d \in Deliveries, DeliveryStep(d)
      PROVE  Moved(e) /\ task'[e].worker = task[e].worker
  <2>1. ASSUME NEW payload \in Payloads, IgnoreDelivery(d, payload)
        PROVE  Moved(e) /\ task'[e].worker = task[e].worker
    BY <2>1, GotoMoves, PlacesListed
    DEF IgnoreDelivery, Moved, Untouched, Ignored, Moves, Keeps
  <2>2. ASSUME NEW payload \in Payloads, LogDelivery(d, payload)
        PROVE  Moved(e) /\ task'[e].worker = task[e].worker
    BY <1>a, <2>2, GotoMoves, PlacesListed
    DEF LogDelivery, Moved, Untouched, Logged, Moves, Keeps
  <2> QED
    BY <1>1, <2>1, <2>2 DEF DeliveryStep
<1>2. ASSUME NEW d \in Deliveries, TaskStep(d)
      PROVE  Moved(e) /\ task'[e].worker = task[e].worker
  <2>0. FindOpenIncident(Key(d)) \in Nat
    BY LookupFinds
  <2>1. CASE Accept(d)
    BY <2>1, GotoMoves, PlacesListed DEF Accept, Moved, Untouched, Accepted, Moves, Keeps
  <2>2. CASE Enter(d)
    BY <2>2, GotoMoves, PlacesListed
    DEF Enter, Moved, Untouched, Entered, Moves, Keeps
  <2>3. CASE PassFiring(d)
    BY <1>b, <2>3, GotoMoves, PlacesListed
    DEF PassFiring, Moved, Untouched, Advanced, Moves, Keeps
  <2>4. CASE ResolutionCheck(d)
    BY <1>b, <2>0, <2>4, FoundMoves, NextAlertMoves, PlacesListed
    DEF ResolutionCheck, Finish, Moved, Untouched, Advanced, Turned, Ended, Moves, Keeps
  <2>5. CASE NoteResolution(d)
    BY <1>b, <2>5, NextAlertMoves
    DEF NoteResolution, Finish, Moved, Untouched, Turned, Ended, Keeps
  <2>6. CASE ExemptionCheck(d)
    BY <1>b, <2>6, GotoMoves, NextAlertMoves, PlacesListed
    DEF ExemptionCheck, Finish, Moved, Untouched, Advanced, Turned, Ended, Moves, Keeps
  <2>7. CASE DedupCheck(d)
    BY <1>b, <2>0, <2>7, FoundMoves, PlacesListed
    DEF DedupCheck, Moved, Untouched, Advanced, Moves, Keeps
  <2>8. CASE BumpOccurrence(d)
    BY <1>b, <2>8, NextAlertMoves
    DEF BumpOccurrence, Finish, Moved, Untouched, Turned, Ended, Keeps
  <2>9. CASE Diagnose(d)
    BY <1>b, <2>9 DEF TypeOK, Task, Diagnose, Moved, Untouched, Advanced, Moves, Keeps
  <2>10. CASE OpenIncident(d)
    BY <1>b, <2>10, GotoMoves, PlacesListed
    DEF OpenIncident, Moved, Untouched, Advanced, Moves, Keeps
  <2>11. CASE OpenFailedIncident(d)
    BY <1>b, <2>11, GotoMoves, PlacesListed
    DEF OpenFailedIncident, Moved, Untouched, Advanced, Moves, Keeps
  <2>12. CASE EndRun(d)
    BY <1>b, <2>12, NextAlertMoves DEF EndRun, Moved, Untouched, Turned, Ended, Keeps
  <2>13. CASE MarkProcessed(d)
    BY <1>a, <2>13, GotoMoves, PlacesListed
    DEF MarkProcessed, Moved, Untouched, Processed, Moves, Keeps
  <2> QED
    BY <1>2, <2>1, <2>2, <2>3, <2>4, <2>5, <2>6, <2>7, <2>8, <2>9, <2>10, <2>11, <2>12, <2>13
    DEF TaskStep
<1>3. CASE Fault
  <2>1. ASSUME NEW d \in Deliveries, TaskRaises(d)
        PROVE  Moved(e) /\ task'[e].worker = task[e].worker
    BY <2>1, RaiseMoves DEF TaskRaises, Moved, Untouched, Ended, Keeps
  <2>2. ASSUME NEW d \in Deliveries, MarkTimesOut(d)
        PROVE  Moved(e) /\ task'[e].worker = task[e].worker
    BY <2>2, GotoMoves, PlacesListed
    DEF MarkTimesOut, Moved, Untouched, Unmarked, Moves, Keeps
  <2>3. ASSUME NEW w \in Workers, CrashWorker(w)
        PROVE  Moved(e) /\ task'[e].worker = task[e].worker
    <3>1. CASE task[e].worker = w /\ task[e].at \in InMemory
      <4>1. task'[e] = [task[e] EXCEPT !.at = "lost"]
        BY <2>3, <3>1 DEF CrashWorker
      <4>2. task'[e].at = "lost" /\ task'[e].alert = task[e].alert /\ task'[e].worker = task[e].worker
        BY <4>1 DEF TypeOK, Task
      <4> QED
        BY <2>3, <3>1, <4>2 DEF CrashWorker, Moved, Lost, Moves, Keeps
    <3>2. CASE ~(task[e].worker = w /\ task[e].at \in InMemory)
      BY <2>3, <3>2 DEF CrashWorker, Moved, Untouched, Keeps
    <3> QED
      BY <3>1, <3>2
  <2> QED
    BY <1>3, <2>1, <2>2, <2>3 DEF Fault
<1>4. CASE OperatorStep
  BY <1>4 DEF OperatorStep, Approve, Settle, SetIncidentStatus, ExemptResource, RevokeExemption,
              Moved, Untouched, Keeps
<1> QED
  BY <1>1, <1>2, <1>3, <1>4 DEF Next

-----------------------------------------------------------------------------
(* Type correctness, and which rows are unprocessed *)

\* The first half of RecoverySetExact: which deliveries' rows are unprocessed.
UnprocessedExact ==
  \A d \in Deliveries :
    ingestion_log[d] = "received" <=> task[d].at \in InMemory \union {"lost", "unmarked"}

\* The first state is well-typed, and no delivery has arrived.
LEMMA InitFacts ==
  Init => TypeInv /\ UnprocessedExact
<1> SUFFICES ASSUME Init  PROVE TypeInv /\ UnprocessedExact
  OBVIOUS
<1>1. \A d \in Deliveries : task[d].at = "new" /\ task[d].alert = 1
  BY DEF Init
<1>2. task \in [Deliveries -> Task]
  <2>1. \A w \in Workers : [at |-> "new", worker |-> w, alert |-> 1,
                            existing |-> 0, error |-> FALSE, raised |-> FALSE] \in Task
    BY DEF Task
  <2> QED
    BY <2>1 DEF Init
<1>3. TypeOK
  BY <1>2, EmptySeq DEF Init, TypeOK
<1>4. ServesAnAlert
  BY <1>1 DEF ServesAnAlert, Node
<1>5. UnprocessedExact
  BY <1>1 DEF Init, UnprocessedExact, InMemory, Running, Node
<1> QED
  BY <1>3, <1>4, <1>5 DEF TypeInv

\* Every step keeps the types, and gives every task an alert of its delivery.
LEMMA TypeInvStep ==
  TypeInv /\ [Next]_vars => TypeInv'
<1> SUFFICES ASSUME TypeInv, [Next]_vars  PROVE TypeInv'
  OBVIOUS
<1>1. CASE UNCHANGED vars
  BY <1>1 DEF vars, TypeInv, TypeOK, ServesAnAlert
<1>2. CASE Next
  <2>1. TypeOK'
    BY <1>2, RouteTypeStep, LookupTypeStep, WriteTypeStep, MoveTypeStep, CrashTypeStep,
       OperatorTypeStep DEF Next, TaskStep, Fault
  <2>2. ASSUME NEW e \in Deliveries
        PROVE  /\ task'[e].at = "new" => task'[e].alert = 1
               /\ task'[e].at \in Node \union {"logged", "queued"} =>
                    task'[e].alert \in 1..Len(alerts'[e])
    <3>1. Moved(e)
      BY <1>2, StepMoves DEF TypeInv
    <3>2. /\ task[e].at = "new" => task[e].alert = 1
          /\ task[e].at \in Node \union {"logged", "queued"} =>
               task[e].alert \in 1..Len(alerts[e])
      BY DEF TypeInv, ServesAnAlert
    <3>3. \A payload \in Payloads : Len(payload) \in Nat \ {0}
      BY PayloadsAreAlerts, EmptySeq
    <3>4. CASE Logged(e)
      BY <3>2, <3>3, <3>4 DEF Logged, Moves, Node
    <3>5. CASE Turned(e)
      <4>1. Len(alerts[e]) \in Nat
        BY PayloadsAreAlerts, EmptySeq DEF TypeInv, TypeOK
      <4> QED
        BY <3>2, <3>5, <4>1 DEF Turned, Keeps, Node
    <3>6. CASE Untouched(e) \/ Advanced(e)
      BY <3>2, <3>6 DEF Untouched, Advanced, Moves, Keeps, Node
    <3>7. CASE Accepted(e) \/ Entered(e)
      BY <3>2, <3>7 DEF Accepted, Entered, Moves, Keeps, Node
    <3>8. CASE Ignored(e) \/ Ended(e) \/ Processed(e) \/ Unmarked(e) \/ Lost(e)
      BY <3>8 DEF Ignored, Ended, Processed, Unmarked, Lost, Moves, Node
    <3> QED
      BY <3>1, <3>4, <3>5, <3>6, <3>7, <3>8 DEF Moved
  <2>3. ServesAnAlert'
    BY <2>2 DEF ServesAnAlert
  <2> QED
    BY <2>1, <2>3 DEF TypeInv
<1> QED
  BY <1>1, <1>2

\* Type correctness of the intake, for every value of the constants.
THEOREM TypeCorrect == Spec => []TypeOK
<1>1. Spec => []TypeInv
  BY InitFacts, TypeInvStep, PTL DEF Spec
<1>2. TypeInv => TypeOK
  BY DEF TypeInv
<1> QED
  BY <1>1, <1>2, PTL

\* No step leaves a delivery out of the recovery set that is not over, nor one
\* in it that is.
LEMMA UnprocessedStep ==
  TypeInv /\ UnprocessedExact /\ [Next]_vars => UnprocessedExact'
<1> SUFFICES ASSUME TypeInv, UnprocessedExact, [Next]_vars  PROVE UnprocessedExact'
  OBVIOUS
<1>1. CASE UNCHANGED vars
  BY <1>1 DEF vars, UnprocessedExact
<1>2. CASE Next
  <2>1. ASSUME NEW e \in Deliveries
        PROVE  ingestion_log'[e] = "received" <=> task'[e].at \in InMemory \union {"lost", "unmarked"}
    <3>1. Moved(e)
      BY <1>2, StepMoves DEF TypeInv
    <3>2. ingestion_log[e] = "received" <=> task[e].at \in InMemory \union {"lost", "unmarked"}
      BY DEF UnprocessedExact
    <3>3. /\ Node \union {"logged", "queued", "finally"} = InMemory
          /\ "resolution_check" \in Node
          /\ {"new", "ignored", "over"} \intersect (InMemory \union {"lost", "unmarked"}) = {}
      BY DEF InMemory, Running, Node
    <3>4. CASE Untouched(e) \/ Advanced(e) \/ Turned(e) \/ Ended(e)
      BY <3>2, <3>3, <3>4 DEF Untouched, Advanced, Turned, Ended, Moves, Keeps
    <3>5. CASE Accepted(e) \/ Entered(e) \/ Unmarked(e) \/ Lost(e)
      BY <3>2, <3>3, <3>5 DEF Accepted, Entered, Unmarked, Lost, Moves, Keeps
    <3>6. CASE Ignored(e) \/ Logged(e) \/ Processed(e)
      BY <3>2, <3>3, <3>6 DEF Ignored, Logged, Processed, Moves, Keeps
    <3> QED
      BY <3>1, <3>4, <3>5, <3>6 DEF Moved
  <2> QED
    BY <2>1 DEF UnprocessedExact
<1> QED
  BY <1>1, <1>2

-----------------------------------------------------------------------------
(* Bursts                                                                  *)
(* A run between its lookup and its INSERT stands for an incident that may *)
(* still appear.  Such runs hold their slots, so they are never more than  *)
(* the slots; and when a run's lookup finds nothing, no incident of the    *)
(* key is pending.  Pending incidents and such runs, together, therefore   *)
(* never exceed the slots: that sum, not the number of incidents alone, is *)
(* what every step preserves.                                              *)

Slots == Cardinality(Serving) * Capacity

\* Deliveries stay where they arrived.
LEMMA SlotsStay ==
  ASSUME TypeOK, [Next]_vars
  PROVE  Serving' = Serving /\ Slots' = Slots
<1>1. \A d \in Deliveries : task'[d].worker = task[d].worker
  BY StepMoves DEF vars
<1>2. Serving' = Serving
  BY <1>1 DEF Serving
<1> QED
  BY <1>2 DEF Slots

\* There are finitely many slots.
LEMMA SlotsAreFinite ==
  ASSUME TypeOK
  PROVE  IsFiniteSet(Serving) /\ Slots \in Nat
<1>1. Serving \subseteq Workers
  BY DEF TypeOK, Task, Serving
<1>2. IsFiniteSet(Serving)
  BY <1>1, WorkersAreFinite, FS_Subset
<1>3. Cardinality(Serving) \in Nat /\ Capacity \in Nat
  BY <1>2, CapacityIsPositive, FS_CardinalityType
<1> QED
  BY <1>2, <1>3 DEF Slots

\* No worker runs more agents than its semaphore has slots.
SlotsHeld ==
  \A w \in Workers : IsFiniteSet(Holding(w)) /\ Cardinality(Holding(w)) <= Capacity

\* The runs whose lookup found nothing and whose INSERT is to come.
PastLookup(k) == {d \in Deliveries : /\ task[d].at \in {"diagnose", "hitl_gate"}
                                     /\ Key(d) = k}

BurstBound ==
  \A k \in Keys : Cardinality(PendingFor(k)) + Cardinality(PastLookup(k)) <= Slots

BurstInv == TypeInv /\ SlotsHeld /\ BurstBound

-----------------------------------------------------------------------------
(* Slots *)

\* Only Enter gives a task a slot.
LEMMA OnlyEnterTakes ==
  ASSUME TypeOK, Next, NEW w \in Workers, NEW e \in Holding(w)'
  PROVE  e \in Holding(w) \/ Entered(e)
<1>1. e \in Deliveries /\ task'[e].worker = w /\ task'[e].at \in Running
  BY DEF Holding
<1>2. Moved(e) /\ task'[e].worker = task[e].worker
  BY <1>1, StepMoves
<1>3. Node \subseteq Running /\ "finally" \in Running
      /\ {"new", "ignored", "logged", "queued", "over", "lost", "unmarked"} \intersect Running = {}
  BY DEF Running, Node
<1>4. task[e].at \in Running \/ Entered(e)
  BY <1>1, <1>2, <1>3
  DEF Moved, Untouched, Ignored, Logged, Accepted, Advanced, Turned, Ended, Processed, Unmarked, Lost,
      Moves
<1> QED
  BY <1>1, <1>2, <1>4 DEF Holding

\* Enter moves no other task.
LEMMA EnterAlone ==
  ASSUME TypeOK, NEW d \in Deliveries, Enter(d)
  PROVE  \A e \in Deliveries : task'[e].at # task[e].at => e = d
BY GotoMoves, PlacesListed DEF Enter

\* No step makes a worker run more agents than it has slots.
LEMMA SlotsStep ==
  ASSUME TypeInv, SlotsHeld, [Next]_vars
  PROVE  SlotsHeld'
<1>1. CASE UNCHANGED vars
  BY <1>1 DEF vars, SlotsHeld, Holding
<1>2. ASSUME Next, NEW w \in Workers
      PROVE  (IsFiniteSet(Holding(w)) /\ Cardinality(Holding(w)) <= Capacity)'
  <2>1. IsFiniteSet(Holding(w)) /\ Cardinality(Holding(w)) <= Capacity
    BY DEF SlotsHeld
  <2>2. Cardinality(Holding(w)) \in Nat /\ Capacity \in Nat
    BY <2>1, FS_CardinalityType, CapacityIsPositive
  <2>3. CASE \E d \in Holding(w)' : Entered(d)
    <3>1. PICK d \in Holding(w)' : Entered(d)
      BY <2>3
    <3>2. d \in Deliveries /\ task'[d].worker = w
      BY <3>1 DEF Holding
    <3>3. Enter(d) /\ task[d].worker = w
      BY <1>2, <3>1, <3>2, StepMoves DEF Entered, TypeInv
    <3>4. Cardinality(Holding(w)) < Capacity
      BY <3>3 DEF Enter
    <3>5. Holding(w)' \subseteq Holding(w) \union {d}
      <4>1. ASSUME NEW e \in Holding(w)', Entered(e)  PROVE e = d
        <5>1. e \in Deliveries /\ task'[e].at # task[e].at
          BY <4>1 DEF Holding, Entered, Moves
        <5> QED
          BY <3>2, <3>3, <5>1, EnterAlone DEF TypeInv
      <4> QED
        BY <1>2, <4>1, OnlyEnterTakes DEF TypeInv
    <3>6. /\ IsFiniteSet(Holding(w) \union {d})
          /\ Cardinality(Holding(w) \union {d}) <= Cardinality(Holding(w)) + 1
      <4>1. /\ IsFiniteSet(Holding(w) \union {d})
            /\ Cardinality(Holding(w) \union {d}) =
                 IF d \in Holding(w) THEN Cardinality(Holding(w)) ELSE Cardinality(Holding(w)) + 1
        BY <2>1, FS_AddElement
      <4> HIDE DEF Holding
      <4> QED
        BY <2>2, <4>1
    <3>7. /\ IsFiniteSet(Holding(w)')
          /\ Cardinality(Holding(w)') <= Cardinality(Holding(w) \union {d})
      BY <3>5, <3>6, FS_Subset
    <3>8. /\ Cardinality(Holding(w)') \in Nat
          /\ Cardinality(Holding(w) \union {d}) \in Nat
      BY <3>6, <3>7, FS_CardinalityType
    <3> QED
      BY <2>2, <3>4, <3>6, <3>7, <3>8
  <2>4. CASE ~\E d \in Holding(w)' : Entered(d)
    <3>1. Holding(w)' \subseteq Holding(w)
      BY <1>2, <2>4, OnlyEnterTakes DEF TypeInv
    <3>2. /\ IsFiniteSet(Holding(w)')
          /\ Cardinality(Holding(w)') <= Cardinality(Holding(w))
      BY <2>1, <3>1, FS_Subset
    <3>3. Cardinality(Holding(w)') \in Nat
      BY <3>2, FS_CardinalityType
    <3> QED
      BY <2>1, <2>2, <3>2, <3>3
  <2> QED
    BY <2>3, <2>4
<1> QED
  BY <1>1, <1>2 DEF SlotsHeld

\* Each worker's running tasks can be given different slots of it ...
LEMMA SlotsOfWorker ==
  ASSUME SlotsHeld, NEW w \in Workers
  PROVE  \E h \in [Holding(w) -> 1..Capacity] :
           \A a, b \in Holding(w) : h[a] = h[b] => a = b
<1> DEFINE n == Cardinality(Holding(w))
<1>1. IsFiniteSet(Holding(w)) /\ n <= Capacity
  BY DEF SlotsHeld
<1>2. n \in Nat /\ Capacity \in Nat
  BY <1>1, FS_CardinalityType, CapacityIsPositive
<1>3. IsFiniteSet(1..n) /\ Cardinality(1..n) = n
  BY <1>2, FS_Interval
<1>4. ExistsBijection(Holding(w), 1..n)
  BY <1>1, <1>3, FS_SameCardinalityBij
<1>5. PICK h \in Injection(Holding(w), 1..n) : TRUE
  BY <1>4 DEF ExistsBijection, Bijection
<1>6. /\ h \in [Holding(w) -> 1..n]
      /\ \A a, b \in Holding(w) : h[a] = h[b] => a = b
  BY <1>5 DEF Injection, IsInjective
<1>7. 1..n \subseteq 1..Capacity
  BY <1>1, <1>2
<1> HIDE DEF n
<1>8. h \in [Holding(w) -> 1..Capacity]
  BY <1>6, <1>7
<1> QED
  BY <1>6, <1>8

\* ... so running tasks are at most as many as the slots of all workers.
LEMMA RunningBounded ==
  ASSUME TypeOK, SlotsHeld, NEW S \in SUBSET Deliveries,
         \A d \in S : task[d].at \in Running
  PROVE  IsFiniteSet(S) /\ Cardinality(S) <= Slots
<1> DEFINE T    == Serving \X (1..Capacity)
           good(w, h) == /\ h \in [Holding(w) -> 1..Capacity]
                         /\ \A a, b \in Holding(w) : h[a] = h[b] => a = b
           slot == [w \in Workers |-> CHOOSE h : good(w, h)]
           f    == [d \in S |-> <<task[d].worker, slot[task[d].worker][d]>>]
<1>1. Capacity \in Nat
  BY CapacityIsPositive
<1>2. IsFiniteSet(1..Capacity) /\ Cardinality(1..Capacity) = Capacity
  BY <1>1, FS_Interval
<1>3. IsFiniteSet(T) /\ Cardinality(T) = Slots
  BY <1>2, SlotsAreFinite, FS_Product DEF Slots
<1>4. \A w \in Workers : good(w, slot[w])
  <2> TAKE w \in Workers
  <2>1. \E h : good(w, h)
    BY SlotsOfWorker
  <2>2. good(w, CHOOSE h : good(w, h))
    BY <2>1
  <2>3. slot[w] = CHOOSE h : good(w, h)
    OBVIOUS
  <2> QED
    BY <2>2, <2>3
<1> HIDE DEF slot
<1>5. \A d \in S : /\ task[d].worker \in Workers /\ d \in Holding(task[d].worker)
                   /\ task[d].worker \in Serving
  BY DEF TypeOK, Task, Holding, Serving
<1>6. \A d \in S : slot[task[d].worker][d] \in 1..Capacity
  BY <1>4, <1>5
<1>7. f \in [S -> T]
  BY <1>5, <1>6
<1>8. \A a, b \in S : f[a] = f[b] => a = b
  BY <1>4, <1>5
<1>9. f \in Injection(S, T)
  BY <1>7, <1>8 DEF Injection, IsInjective
<1> QED
  BY <1>3, <1>9, FS_Injection

-----------------------------------------------------------------------------
(* Pending incidents and runs about to open one *)

\* A run comes to stand past the lookup only by a lookup that found nothing.
LEMMA OnlyDedupAdds ==
  ASSUME TypeInv, Next, NEW k \in Keys, NEW e \in PastLookup(k)'
  PROVE  \/ e \in PastLookup(k)
         \/ DedupCheck(e) /\ FindOpenIncident(k) = 0
<1>1. e \in Deliveries /\ task'[e].at \in {"diagnose", "hitl_gate"}
  BY DEF PastLookup
<1>2. Moved(e)
  BY <1>1, StepMoves DEF TypeInv
<1>3. Untouched(e) \/ Advanced(e)
  BY <1>1, <1>2
  DEF Moved, Ignored, Logged, Accepted, Entered, Turned, Ended, Processed, Unmarked, Lost,
      Moves
<1>4. Key(e) = k
  <2>1. alerts'[e][task'[e].alert].key = k
    BY DEF PastLookup, Key, Served
  <2>2. alerts'[e] = alerts[e] /\ task'[e].alert = task[e].alert
    BY <1>3 DEF Untouched, Advanced, Moves, Keeps
  <2> QED
    BY <2>1, <2>2 DEF Key, Served
<1>5. CASE Untouched(e)
  BY <1>1, <1>4, <1>5 DEF Untouched, PastLookup
<1>6. CASE Advanced(e) /\ task'[e].at = "hitl_gate"
  BY <1>1, <1>4, <1>6 DEF Advanced, PastLookup
<1>7. CASE Advanced(e) /\ task'[e].at = "diagnose"
  <2>1. DedupCheck(e)
    BY <1>7 DEF Advanced
  <2>2. FindOpenIncident(k) \in Nat
    BY LookupFinds DEF TypeInv
  <2>3. task'[e].at = IF FindOpenIncident(k) = 0 THEN "diagnose" ELSE "bump"
    BY <1>1, <1>4, <2>1, <2>2, FoundMoves, PlacesListed DEF DedupCheck, TypeInv
  <2> QED
    BY <1>7, <2>1, <2>3
<1> QED
  BY <1>1, <1>3, <1>5, <1>6, <1>7

\* An incident of a key becomes pending only by being opened.
LEMMA OnlyOpenAdds ==
  ASSUME TypeInv, Next, NEW k \in Keys, NEW j \in PendingFor(k)'
  PROVE  \/ j \in PendingFor(k)
         \/ \E d \in Deliveries : OpenIncident(d) /\ Key(d) = k /\ j = Len(incidents) + 1
<1>1. /\ incidents \in Seq(Incident) /\ Len(incidents) \in Nat
      /\ DOMAIN incidents = 1..Len(incidents)
  BY LenProperties DEF TypeInv, TypeOK
<1>2. /\ j \in DOMAIN incidents' /\ incidents'[j].key = k
      /\ incidents'[j].execution_status = "pending_approval"
  BY DEF PendingFor, OpenFor
<1>3. ASSUME /\ j \in DOMAIN incidents /\ incidents[j].key = k
             /\ incidents[j].execution_status = "pending_approval"
      PROVE  j \in PendingFor(k)
  BY <1>3 DEF PendingFor, OpenFor, Open
<1>4. ASSUME UNCHANGED incidents  PROVE j \in PendingFor(k)
  BY <1>2, <1>3, <1>4
<1>5. ASSUME NEW d \in Deliveries, NoteResolution(d) \/ BumpOccurrence(d)
      PROVE  j \in PendingFor(k)
  <2> DEFINE i == task[d].existing
  <2>1. DOMAIN incidents' = DOMAIN incidents
    BY <1>5 DEF NoteResolution, BumpOccurrence
  <2>2. /\ incidents'[j].key = incidents[j].key
        /\ incidents'[j].execution_status = incidents[j].execution_status
    <3>1. incidents[j] \in Incident
      BY <1>1, <1>2, <2>1
    <3>2. CASE j = i /\ NoteResolution(d)
      <4>1. incidents'[j] = [incidents[j] EXCEPT !.source_resolved = TRUE]
        BY <1>2, <2>1, <3>2 DEF NoteResolution
      <4> QED
        BY <3>1, <4>1 DEF Incident
    <3>3. CASE j = i /\ BumpOccurrence(d)
      <4>1. incidents'[j] = [incidents[j] EXCEPT !.occurrence_count = @ + 1]
        BY <1>2, <2>1, <3>3 DEF BumpOccurrence
      <4> QED
        BY <3>1, <4>1 DEF Incident
    <3>4. CASE j # i
      BY <1>2, <1>5, <2>1, <3>4 DEF NoteResolution, BumpOccurrence
    <3> QED
      BY <1>5, <3>2, <3>3, <3>4
  <2> QED
    BY <1>2, <1>3, <2>1, <2>2
<1>6. ASSUME NEW i \in DOMAIN incidents, NEW status \in {"executing", "settled"},
             SetIncidentStatus(i, status)
      PROVE  j \in PendingFor(k)
  <2>1. DOMAIN incidents' = DOMAIN incidents
    BY <1>6 DEF SetIncidentStatus
  <2>2. incidents[j] \in Incident
    BY <1>1, <1>2, <2>1
  <2>3. CASE j = i
    <3>1. incidents'[j] = [incidents[j] EXCEPT !.execution_status = status]
      BY <1>6, <2>3 DEF SetIncidentStatus
    <3>2. incidents'[j].execution_status = status
      BY <2>2, <3>1 DEF Incident
    <3> QED
      BY <1>2, <1>6, <3>2
  <2>4. CASE j # i
    <3>1. incidents'[j] = incidents[j]
      BY <1>2, <1>6, <2>1, <2>4 DEF SetIncidentStatus
    <3> QED
      BY <1>2, <1>3, <2>1, <3>1
  <2> QED
    BY <2>3, <2>4
<1>7. ASSUME NEW l, NEW status, Insert(l, status)
      PROVE  j \in PendingFor(k) \/ (j = Len(incidents) + 1 /\ l = k /\ status = "pending_approval")
  <2> DEFINE row == [key |-> l, execution_status |-> status,
                     occurrence_count |-> 1, source_resolved |-> FALSE]
  <2>1. incidents' = Append(incidents, row)
    BY <1>7 DEF Insert
  <2>2. row.key = l /\ row.execution_status = status
    OBVIOUS
  <2> HIDE DEF row
  <2>3. /\ DOMAIN incidents' = 1..Len(incidents) + 1
        /\ \A i \in 1..Len(incidents) : incidents'[i] = incidents[i]
        /\ incidents'[Len(incidents) + 1] = row
    BY <1>1, <2>1
  <2>4. CASE j \in DOMAIN incidents
    BY <1>1, <1>2, <1>3, <2>3, <2>4
  <2>5. CASE j \notin DOMAIN incidents
    <3>1. j = Len(incidents) + 1
      BY <1>1, <1>2, <2>3, <2>5
    <3> QED
      BY <1>2, <2>2, <2>3, <3>1
  <2> QED
    BY <2>4, <2>5
<1>8. ASSUME NEW d \in Deliveries, TaskStep(d)
      PROVE  \/ j \in PendingFor(k)
             \/ OpenIncident(d) /\ Key(d) = k /\ j = Len(incidents) + 1
  <2>1. CASE OpenIncident(d)
    BY <1>7, <2>1 DEF OpenIncident
  <2>2. CASE OpenFailedIncident(d)
    BY <1>7, <2>2 DEF OpenFailedIncident
  <2>3. CASE ~OpenIncident(d) /\ ~OpenFailedIncident(d) /\ ~NoteResolution(d) /\ ~BumpOccurrence(d)
    <3>1. CASE Accept(d) \/ Enter(d) \/ PassFiring(d) \/ Diagnose(d) \/ EndRun(d) \/ MarkProcessed(d)
      BY <1>4, <3>1 DEF Accept, Enter, PassFiring, Diagnose, EndRun, MarkProcessed
    <3>2. CASE ResolutionCheck(d)
      BY <1>4, <3>2 DEF ResolutionCheck
    <3>3. CASE ExemptionCheck(d)
      BY <1>4, <3>3 DEF ExemptionCheck
    <3>4. CASE DedupCheck(d)
      BY <1>4, <3>4 DEF DedupCheck
    <3> QED
      BY <1>8, <2>3, <3>1, <3>2, <3>3, <3>4 DEF TaskStep
  <2> QED
    BY <1>5, <2>1, <2>2, <2>3
<1>9. CASE Fault \/ \E d \in Deliveries : DeliveryStep(d)
  BY <1>4, <1>9 DEF Fault, TaskRaises, MarkTimesOut, CrashWorker,
                    DeliveryStep, IgnoreDelivery, LogDelivery
<1>10. CASE OperatorStep
  BY <1>4, <1>6, <1>10 DEF OperatorStep, Approve, Settle, ExemptResource, RevokeExemption
<1> QED
  BY <1>8, <1>9, <1>10 DEF Next

-----------------------------------------------------------------------------
(* The bound *)

\* Pending incidents and runs past the lookup are finitely many.
LEMMA BurstFinite ==
  ASSUME TypeOK, SlotsHeld, NEW k \in Keys
  PROVE  /\ IsFiniteSet(PendingFor(k)) /\ Cardinality(PendingFor(k)) \in Nat
         /\ IsFiniteSet(PastLookup(k)) /\ Cardinality(PastLookup(k)) \in Nat
         /\ Cardinality(PastLookup(k)) <= Slots
         /\ Slots \in Nat
<1>1. DOMAIN incidents = 1..Len(incidents) /\ Len(incidents) \in Nat
  BY LenProperties DEF TypeOK
<1>2. IsFiniteSet(1..Len(incidents))
  BY <1>1, FS_Interval
<1>3. PendingFor(k) \subseteq 1..Len(incidents)
  BY <1>1 DEF PendingFor, OpenFor
<1>4. IsFiniteSet(PendingFor(k))
  BY <1>2, <1>3, FS_Subset
<1>5. PastLookup(k) \in SUBSET Deliveries /\ \A d \in PastLookup(k) : task[d].at \in Running
  BY DEF PastLookup, Running, Node
<1>6. IsFiniteSet(PastLookup(k)) /\ Cardinality(PastLookup(k)) <= Slots
  BY <1>5, RunningBounded
<1>7. Slots \in Nat
  BY SlotsAreFinite
<1> QED
  BY <1>4, <1>6, <1>7, FS_CardinalityType

PastInBounds ==
  \A k \in Keys : /\ Cardinality(PastLookup(k)) \in Nat
                  /\ Cardinality(PastLookup(k)) <= Slots

\* In particular runs past the lookup are at most as many as the slots.
LEMMA PastBounded ==
  TypeOK /\ SlotsHeld => PastInBounds
  BY BurstFinite DEF PastInBounds

\* A smaller set of pending incidents and a smaller set of runs are in bounds.
LEMMA SmallerIsBounded ==
  ASSUME NEW P, NEW Q, NEW P1 \in SUBSET P, NEW Q1 \in SUBSET Q, NEW n \in Nat,
         IsFiniteSet(P), IsFiniteSet(Q), Cardinality(P) + Cardinality(Q) <= n
  PROVE  Cardinality(P1) + Cardinality(Q1) <= n
<1>1. IsFiniteSet(P1) /\ Cardinality(P1) <= Cardinality(P)
  BY FS_Subset
<1>2. IsFiniteSet(Q1) /\ Cardinality(Q1) <= Cardinality(Q)
  BY FS_Subset
<1>3. /\ Cardinality(P) \in Nat /\ Cardinality(Q) \in Nat
      /\ Cardinality(P1) \in Nat /\ Cardinality(Q1) \in Nat
  BY <1>1, <1>2, FS_CardinalityType
<1> QED
  BY <1>1, <1>2, <1>3

\* One more pending incident and one run fewer are in bounds.
LEMMA TradeIsBounded ==
  ASSUME NEW P, NEW Q, NEW j, NEW d \in Q, NEW P1 \in SUBSET (P \union {j}),
         NEW Q1 \in SUBSET (Q \ {d}), NEW n \in Nat,
         IsFiniteSet(P), IsFiniteSet(Q), Cardinality(P) + Cardinality(Q) <= n
  PROVE  Cardinality(P1) + Cardinality(Q1) <= n
<1>1. /\ IsFiniteSet(P \union {j})
      /\ Cardinality(P \union {j}) = IF j \in P THEN Cardinality(P) ELSE Cardinality(P) + 1
  BY FS_AddElement
<1>2. IsFiniteSet(Q \ {d}) /\ Cardinality(Q \ {d}) = Cardinality(Q) - 1
  BY FS_RemoveElement
<1>3. Cardinality(P) \in Nat /\ Cardinality(Q) \in Nat
  BY FS_CardinalityType
<1>4. Cardinality(P \union {j}) + Cardinality(Q \ {d}) <= n
  BY <1>1, <1>2, <1>3
<1> QED
  BY <1>1, <1>2, <1>4, SmallerIsBounded

\* No step makes pending incidents and runs past the lookup exceed the slots.
LEMMA BurstStep ==
  ASSUME BurstInv, [Next]_vars
  PROVE  BurstInv'
<1>1. TypeInv' /\ SlotsHeld'
  BY TypeInvStep, SlotsStep DEF BurstInv
<1>2. CASE UNCHANGED vars
  <2>1. BurstBound'
    BY <1>2 DEF vars, BurstInv, BurstBound, Slots, Serving,
                PendingFor, OpenFor, PastLookup, Key, Served
  <2> QED
    BY <1>1, <2>1 DEF BurstInv
<1>3. ASSUME Next, NEW k \in Keys
      PROVE  Cardinality(PendingFor(k)') + Cardinality(PastLookup(k)') <= Slots
  <2> DEFINE P  == PendingFor(k)
             Q  == PastLookup(k)
             P1 == PendingFor(k)'
             Q1 == PastLookup(k)'
  <2> SUFFICES Cardinality(P1) + Cardinality(Q1) <= Slots
    OBVIOUS
  <2>1. /\ IsFiniteSet(P) /\ IsFiniteSet(Q) /\ Slots \in Nat
        /\ Cardinality(P) + Cardinality(Q) <= Slots
    BY BurstFinite DEF BurstInv, TypeInv, BurstBound
  <2>2. Cardinality(Q1) \in Nat /\ Cardinality(Q1) <= Slots
    <3>1. TypeOK' /\ SlotsHeld' => PastInBounds'
      BY PastBounded, PTL
    <3>2. PastInBounds'
      BY <1>1, <3>1 DEF TypeInv
    <3>3. Slots' = Slots
      BY <1>3, SlotsStay DEF BurstInv, TypeInv
    <3> QED
      BY <3>2, <3>3 DEF PastInBounds
  <2>3. CASE \E e \in Q1 : DedupCheck(e) /\ FindOpenIncident(k) = 0
    <3>1. UNCHANGED incidents
      BY <2>3 DEF DedupCheck
    <3>2. k # Unknown
      BY UnknownIsNoKey
    <3>3. OpenFor(k) = {}
      BY <2>3, <3>2, LookupFinds DEF BurstInv, TypeInv
    <3>4. P1 = {}
      BY <3>1, <3>3 DEF PendingFor, OpenFor
    <3>5. Cardinality(P1) = 0
      BY <3>4, FS_EmptySet
    <3> QED
      BY <2>2, <3>5
  <2>4. CASE ~\E e \in Q1 : DedupCheck(e) /\ FindOpenIncident(k) = 0
    <3>1. Q1 \subseteq Q
      BY <1>3, <2>4, OnlyDedupAdds DEF BurstInv
    <3>2. CASE \E d \in Deliveries : OpenIncident(d) /\ Key(d) = k
      <4>1. PICK d \in Deliveries : OpenIncident(d) /\ Key(d) = k
        BY <3>2
      <4>2. d \in Q
        BY <4>1 DEF OpenIncident, PastLookup
      <4>3. task'[d].at = "rest"
        BY <4>1, GotoMoves, PlacesListed DEF OpenIncident, BurstInv, TypeInv
      <4>4. Q1 \subseteq Q \ {d}
        BY <3>1, <4>3 DEF PastLookup
      <4>5. P1 \subseteq P \union {Len(incidents) + 1}
        BY <1>3, OnlyOpenAdds DEF BurstInv
      <4> DEFINE j == Len(incidents) + 1
      <4>6. P1 \in SUBSET (P \union {j}) /\ Q1 \in SUBSET (Q \ {d})
        BY <4>4, <4>5
      <4> HIDE DEF P, Q, P1, Q1, j
      <4> QED
        BY <2>1, <4>2, <4>6, TradeIsBounded
    <3>3. CASE ~\E d \in Deliveries : OpenIncident(d) /\ Key(d) = k
      <4>1. P1 \subseteq P
        BY <1>3, <3>3, OnlyOpenAdds DEF BurstInv
      <4> HIDE DEF P, Q, P1, Q1
      <4> QED
        BY <2>1, <3>1, <4>1, SmallerIsBounded
    <3> QED
      BY <3>2, <3>3
  <2> QED
    BY <2>3, <2>4
<1>4. CASE Next
  <2>1. Slots' = Slots
    BY SlotsStay DEF BurstInv, TypeInv
  <2>2. BurstBound'
    BY <1>3, <1>4, <2>1 DEF BurstBound
  <2> QED
    BY <1>1, <2>2 DEF BurstInv
<1> QED
  BY <1>2, <1>4

\* At first nothing is pending and nothing runs.
LEMMA BurstInit == Init => BurstInv
<1> SUFFICES ASSUME Init  PROVE BurstInv
  OBVIOUS
<1>1. TypeInv
  BY InitFacts
<1>2. \A w \in Workers : Holding(w) = {}
  BY DEF Init, Holding, Running, Node
<1>3. SlotsHeld
  BY <1>2, FS_EmptySet, CapacityIsPositive DEF SlotsHeld
<1>4. \A k \in Keys : PendingFor(k) = {} /\ PastLookup(k) = {}
  BY DEF Init, PendingFor, OpenFor, PastLookup
<1>5. Slots \in Nat
  BY <1>1, SlotsAreFinite DEF TypeInv
<1>6. BurstBound
  BY <1>4, <1>5, FS_EmptySet DEF BurstBound
<1> QED
  BY <1>1, <1>3, <1>6 DEF BurstInv

\* The pending incidents and the runs past their lookup, of any alert, never
\* exceed the slots.
THEOREM BurstAlways == Spec => []BurstInv
  BY BurstInit, BurstStep, PTL DEF Spec

\* A burst of deliveries of one alert opens at most one pending incident per
\* slot, for any number of deliveries, workers and slots.
THEOREM BurstIsBounded == Spec => []PendingIncidentsBounded
<1>1. BurstInv => PendingIncidentsBounded
  <2> SUFFICES ASSUME BurstInv, NEW k \in Keys
               PROVE  Cardinality(PendingFor(k)) <= Slots
    BY DEF PendingIncidentsBounded, Slots
  <2>1. /\ Cardinality(PendingFor(k)) \in Nat /\ Cardinality(PastLookup(k)) \in Nat
        /\ Slots \in Nat
    BY BurstFinite DEF BurstInv, TypeInv
  <2>2. Cardinality(PendingFor(k)) + Cardinality(PastLookup(k)) <= Slots
    BY DEF BurstInv, BurstBound
  <2> QED
    BY <2>1, <2>2
<1> QED
  BY <1>1, BurstAlways, PTL

-----------------------------------------------------------------------------
(* Alerts reach their incident                                             *)
(* A lookup and the statement that uses its answer are two steps, and so   *)
(* are an alert's statements and the next alert's; what carries over is    *)
(* that a row keeps its key for good, and that outcomes and alerts are     *)
(* numbered alike.                                                         *)

\* A row keeps its key and its place.
KeepsKeys ==
  \A j \in DOMAIN incidents : j \in DOMAIN incidents' /\ incidents'[j].key = incidents[j].key

\* An update of another column keeps the keys ...
LEMMA UpdateKeeps ==
  ASSUME TypeOK, NEW i,
         \/ incidents' = [incidents EXCEPT ![i].source_resolved = TRUE]
         \/ incidents' = [incidents EXCEPT ![i].occurrence_count = @ + 1]
         \/ \E status : incidents' = [incidents EXCEPT ![i].execution_status = status]
  PROVE  KeepsKeys
<1> SUFFICES ASSUME NEW j \in DOMAIN incidents
             PROVE  j \in DOMAIN incidents' /\ incidents'[j].key = incidents[j].key
  BY DEF KeepsKeys
<1>1. incidents[j] \in Incident
  BY LenProperties DEF TypeOK
<1>2. CASE i = j
  <2>1. \/ incidents'[j] = [incidents[j] EXCEPT !.source_resolved = TRUE]
        \/ incidents'[j] = [incidents[j] EXCEPT !.occurrence_count = @ + 1]
        \/ \E status : incidents'[j] = [incidents[j] EXCEPT !.execution_status = status]
    BY <1>2
  <2>2. incidents'[j].key = incidents[j].key
    BY <1>1, <2>1 DEF Incident
  <2>3. j \in DOMAIN incidents'
    OBVIOUS
  <2> QED
    BY <2>2, <2>3
<1>3. CASE i # j
  BY <1>3
<1> QED
  BY <1>2, <1>3

\* ... and so does a new row, which is the last.
LEMMA InsertKeeps ==
  ASSUME TypeOK, NEW k, NEW status, Insert(k, status)
  PROVE  /\ KeepsKeys
         /\ Len(incidents) + 1 \in DOMAIN incidents'
         /\ incidents'[Len(incidents) + 1].key = k
<1> DEFINE row == [key |-> k, execution_status |-> status,
                   occurrence_count |-> 1, source_resolved |-> FALSE]
<1>1. incidents \in Seq(Incident) /\ incidents' = Append(incidents, row)
  BY DEF TypeOK, Insert
<1>2. row.key = k
  OBVIOUS
<1> HIDE DEF row
<1>3. /\ Len(incidents) \in Nat /\ DOMAIN incidents = 1..Len(incidents)
      /\ DOMAIN incidents' = 1..Len(incidents) + 1
      /\ \A j \in 1..Len(incidents) : incidents'[j] = incidents[j]
      /\ incidents'[Len(incidents) + 1] = row
  BY <1>1, LenProperties
<1> QED
  BY <1>2, <1>3 DEF KeepsKeys

\* No step takes a row away or makes it an incident of something else.
LEMMA StepKeepsKeys ==
  ASSUME TypeOK, Next
  PROVE  KeepsKeys
<1>1. CASE UNCHANGED incidents
  BY <1>1 DEF KeepsKeys
<1>2. ASSUME NEW d \in Deliveries, TaskStep(d)  PROVE KeepsKeys
  <2>1. CASE NoteResolution(d) \/ BumpOccurrence(d)
    BY <2>1, UpdateKeeps DEF NoteResolution, BumpOccurrence
  <2>2. CASE OpenIncident(d) \/ OpenFailedIncident(d)
    BY <2>2, InsertKeeps DEF OpenIncident, OpenFailedIncident
  <2>3. CASE Accept(d) \/ Enter(d) \/ PassFiring(d) \/ Diagnose(d) \/ EndRun(d) \/ MarkProcessed(d)
    BY <1>1, <2>3 DEF Accept, Enter, PassFiring, Diagnose, EndRun, MarkProcessed
  <2>4. CASE ResolutionCheck(d) \/ ExemptionCheck(d) \/ DedupCheck(d)
    BY <1>1, <2>4 DEF ResolutionCheck, ExemptionCheck, DedupCheck
  <2> QED
    BY <1>2, <2>1, <2>2, <2>3, <2>4 DEF TaskStep
<1>3. CASE Fault \/ \E d \in Deliveries : DeliveryStep(d)
  BY <1>1, <1>3 DEF Fault, TaskRaises, MarkTimesOut, CrashWorker,
                    DeliveryStep, IgnoreDelivery, LogDelivery
<1>4. CASE OperatorStep
  BY <1>1, <1>4, UpdateKeeps
  DEF OperatorStep, Approve, Settle, SetIncidentStatus, ExemptResource, RevokeExemption
<1> QED
  BY <1>2, <1>3, <1>4 DEF Next

\* What is known of a delivery's outcomes survives a step that adds none.
LEMMA OutcomesKept ==
  ASSUME NEW e \in Deliveries, OutcomesStand(e), KeepsKeys,
         alerts'[e] = alerts[e], handled'[e] = handled[e]
  PROVE  OutcomesStand(e)'
BY DEF OutcomesStand, IsOutcomeOf, KeepsKeys

\* A step that leaves a delivery alone leaves it in order.
LEMMA FollowsKept ==
  ASSUME NEW e \in Deliveries, FollowsItsAlerts(e), KeepsKeys,
         alerts'[e] = alerts[e], task'[e] = task[e], handled'[e] = handled[e]
  PROVE  FollowsItsAlerts(e)'
<1>1. OutcomesStand(e)'
  BY OutcomesKept DEF FollowsItsAlerts
<1>2. InTurn(e)'
  BY DEF FollowsItsAlerts, InTurn
<1>3. LookupStands(e)'
  BY DEF FollowsItsAlerts, LookupStands, KeepsKeys, Key, Served
<1> QED
  BY <1>1, <1>2, <1>3 DEF FollowsItsAlerts

\* The outcome of the alert served is recorded at the alert's own place.
LEMMA RecordStands ==
  ASSUME TypeOK, NEW d \in Deliveries, OutcomesStand(d), KeepsKeys, NEW how, NEW j,
         Len(handled[d]) = task[d].alert - 1, Record(d, how, j), alerts' = alerts,
         how \in {"opened", "bumped", "noted"} =>
           j \in DOMAIN incidents' /\ incidents'[j].key = Key(d),
         how \in {"bumped", "noted"} => Key(d) # Unknown,
         how \in {"noted", "unmatched"} <=> ~IsFiring(Served(d))
  PROVE  OutcomesStand(d)' /\ Len(handled'[d]) = task[d].alert
<1> DEFINE outcome == [how |-> how, incident |-> j]
           h == handled[d]
           n == task[d].alert
<1>1. h \in Seq(Outcome) /\ n \in Nat /\ Len(h) \in Nat
  BY DEF TypeOK, Task
<1>2. handled'[d] = Append(h, outcome) /\ n = Len(h) + 1
  BY <1>1 DEF Record, TypeOK
<1>3. outcome.how = how /\ outcome.incident = j
  OBVIOUS
<1> HIDE DEF outcome, h
<1>4. /\ DOMAIN handled'[d] = 1..Len(h) + 1 /\ Len(handled'[d]) = Len(h) + 1
      /\ DOMAIN h = 1..Len(h)
      /\ \A i \in 1..Len(h) : handled'[d][i] = h[i]
      /\ handled'[d][Len(h) + 1] = outcome
  BY <1>1, <1>2, LenProperties
<1>5. ASSUME NEW i \in 1..Len(h)
      PROVE  IsOutcomeOf(handled[d][i], alerts[d][i])'
  <2>1. IsOutcomeOf(h[i], alerts[d][i])
    BY <1>4 DEF OutcomesStand, h
  <2>2. handled'[d][i] = h[i] /\ handled[d][i] = h[i]
    BY <1>4 DEF h
  <2> QED
    BY <2>1, <2>2 DEF IsOutcomeOf, KeepsKeys
<1>6. ASSUME NEW i \in Nat, i = Len(h) + 1
      PROVE  IsOutcomeOf(handled[d][i], alerts[d][i])'
  <2>1. handled'[d][i] = outcome /\ alerts'[d][i] = Served(d)
    BY <1>2, <1>4, <1>6 DEF Served
  <2> QED
    BY <1>3, <2>1 DEF IsOutcomeOf, Key
<1>7. OutcomesStand(d)'
  <2> SUFFICES ASSUME NEW i \in DOMAIN handled'[d]
               PROVE  IsOutcomeOf(handled[d][i], alerts[d][i])'
    BY DEF OutcomesStand
  <2>1. i \in Nat /\ (i \in 1..Len(h) \/ i = Len(h) + 1)
    BY <1>1, <1>4
  <2> QED
    BY <1>5, <1>6, <2>1
<1> QED
  BY <1>2, <1>4, <1>7

\* A lookup's answer is kept as it was given.
LEMMA FoundKeeps ==
  ASSUME TypeOK, NEW d \in Deliveries, NEW node \in Places, NEW j \in Nat, Found(d, node, j)
  PROVE  task'[d].existing = j
BY DEF TypeOK, Found, Task

\* A task at a node serves one of its delivery's alerts.
LEMMA AlertsCounted ==
  ASSUME TypeInv, NEW d \in Deliveries, task[d].at \in Node
  PROVE  task[d].alert \in 1..Len(alerts[d]) /\ Len(alerts[d]) \in Nat
BY PayloadsAreAlerts, EmptySeq DEF TypeInv, ServesAnAlert, TypeOK

\* A delivery whose alert is dealt with is in order for the next one.
LEMMA FinishFollows ==
  ASSUME TypeInv, NEW d \in Deliveries, FollowsItsAlerts(d), KeepsKeys, NEW how, NEW j,
         task[d].at \in Node \ {"rest"}, Finish(d, how, j), alerts' = alerts,
         how \in {"opened", "bumped", "noted"} =>
           j \in DOMAIN incidents' /\ incidents'[j].key = Key(d),
         how \in {"bumped", "noted"} => Key(d) # Unknown,
         how \in {"noted", "unmatched"} <=> ~IsFiring(Served(d))
  PROVE  FollowsItsAlerts(d)'
<1>1. Len(handled[d]) = task[d].alert - 1 /\ task[d].alert \in Nat
  BY DEF FollowsItsAlerts, InTurn, TypeInv, TypeOK, Task
<1>2. OutcomesStand(d)' /\ Len(handled'[d]) = task[d].alert
  BY <1>1, RecordStands DEF FollowsItsAlerts, Finish, TypeInv
<1>3. \/ task'[d].at = "resolution_check" /\ task'[d].alert = task[d].alert + 1
      \/ task'[d].at = "finally" /\ task[d].alert = Len(alerts[d])
  <2>1. task[d].alert \in 1..Len(alerts[d]) /\ Len(alerts[d]) \in Nat
    BY AlertsCounted
  <2> QED
    BY <2>1, NextAlertMoves DEF Finish, TypeInv
<1>4. InTurn(d)'
  BY <1>1, <1>2, <1>3 DEF InTurn, Node
<1>5. LookupStands(d)'
  BY <1>3 DEF LookupStands, Node
<1> QED
  BY <1>2, <1>4, <1>5 DEF FollowsItsAlerts

\* A move that deals with no alert keeps the delivery in order, if the lookup
\* it was decided on stands.
LEMMA MoveFollows ==
  ASSUME TypeInv, NEW d \in Deliveries, FollowsItsAlerts(d), KeepsKeys,
         alerts'[d] = alerts[d], handled'[d] = handled[d],
         task'[d].alert = task[d].alert,
         task[d].at \in (Node \ {"rest"}) \union {"new", "logged", "queued"}
           \/ task'[d].at \in {"finally", "over", "unmarked"},
         task'[d].at \in {"finally", "over", "unmarked"} =>
           task'[d].raised \/ Len(handled[d]) = Len(alerts[d]),
         task'[d].at # "rest",
         LookupStands(d)'
  PROVE  FollowsItsAlerts(d)'
<1>1. OutcomesStand(d)'
  BY OutcomesKept DEF FollowsItsAlerts
<1>2. InTurn(d)'
  BY DEF FollowsItsAlerts, InTurn, Node
<1> QED
  BY <1>1, <1>2 DEF FollowsItsAlerts

\* The steps of a delivery's own task keep it in order.
LEMMA OwnStepFollows ==
  ASSUME TypeInv, NEW d \in Deliveries, FollowsItsAlerts(d), KeepsKeys,
         DeliveryStep(d) \/ TaskStep(d) \/ TaskRaises(d) \/ MarkTimesOut(d)
  PROVE  FollowsItsAlerts(d)'
<1> DEFINE j == FindOpenIncident(Key(d))
<1>a. /\ InTurn(d) /\ LookupStands(d) /\ OutcomesStand(d) /\ TypeOK
      /\ alerts \in [Deliveries -> Payloads \union {<<>>}]
      /\ task[d].at \in Node => task[d].alert \in Nat
  BY DEF FollowsItsAlerts, TypeInv, TypeOK, Task
<1>b. j \in Nat /\ (j # 0 => j \in DOMAIN incidents /\ incidents[j].key = Key(d))
  BY <1>a, LookupFinds DEF OpenFor
<1>c. j # 0 => Key(d) # Unknown
  BY DEF FindOpenIncident
<1> HIDE DEF j
<1>1. ASSUME NEW payload \in Payloads, IgnoreDelivery(d, payload)  PROVE FollowsItsAlerts(d)'
  <2>1. task'[d].at = "ignored" /\ task'[d].alert = task[d].alert
    BY <1>1, <1>a, GotoMoves, PlacesListed DEF IgnoreDelivery
  <2>2. LookupStands(d)' /\ InTurn(d)'
    BY <2>1 DEF LookupStands, InTurn, Node
  <2>3. OutcomesStand(d)'
    BY <1>1, <1>a, OutcomesKept DEF IgnoreDelivery
  <2> QED
    BY <2>2, <2>3 DEF FollowsItsAlerts
<1>2. ASSUME NEW payload \in Payloads, LogDelivery(d, payload)  PROVE FollowsItsAlerts(d)'
  <2>1. /\ task'[d].at = "logged" /\ task'[d].alert = task[d].alert
        /\ task[d].at = "new" /\ task[d].alert = 1 /\ handled' = handled
    BY <1>2, <1>a, GotoMoves, PlacesListed DEF LogDelivery, TypeInv, ServesAnAlert
  <2>2. LookupStands(d)' /\ InTurn(d)'
    BY <1>a, <2>1 DEF LookupStands, InTurn, Node
  <2>3. handled[d] \in Seq(Outcome) /\ Len(handled[d]) = 0
    BY <1>a, <2>1 DEF InTurn, TypeOK
  <2>4. OutcomesStand(d)'
    BY <2>1, <2>3, LenProperties DEF OutcomesStand
  <2> QED
    BY <2>2, <2>4 DEF FollowsItsAlerts
<1>3. CASE Accept(d) \/ Enter(d)
  <2>1. /\ task'[d].at \in {"queued", "resolution_check"}
        /\ task[d].at \in {"logged", "queued"} /\ task'[d].alert = task[d].alert
    BY <1>3, <1>a, GotoMoves, PlacesListed DEF Accept, Enter
  <2>2. LookupStands(d)'
    BY <2>1 DEF LookupStands, Node
  <2> QED
    BY <1>3, <2>1, <2>2, MoveFollows DEF Accept, Enter
<1>4. CASE PassFiring(d)
  <2>1. /\ task'[d].at = "exemption_check" /\ task'[d].alert = task[d].alert
        /\ IsFiring(Served(d)) /\ alerts' = alerts
    BY <1>4, <1>a, GotoMoves, PlacesListed DEF PassFiring
  <2>2. LookupStands(d)'
    BY <2>1 DEF LookupStands, Served
  <2> QED
    BY <1>4, <2>1, <2>2, MoveFollows DEF PassFiring, Node
<1>5. CASE ResolutionCheck(d)
  <2>1. CASE Finish(d, "unmatched", 0)
    BY <1>5, <2>1, FinishFollows DEF ResolutionCheck, Node
  <2>2. CASE j # 0 /\ Found(d, "note_resolution", j) /\ UNCHANGED handled
    <3>1. /\ task'[d].at = "note_resolution" /\ task'[d].alert = task[d].alert
          /\ task'[d].existing = j
      BY <1>a, <1>b, <2>2, FoundMoves, FoundKeeps, PlacesListed
    <3>2. /\ ~IsFiring(Served(d)) /\ alerts' = alerts /\ incidents' = incidents
          /\ task[d].at = "resolution_check"
      BY <1>5 DEF ResolutionCheck
    <3>3. LookupStands(d)'
      BY <1>b, <1>c, <2>2, <3>1, <3>2 DEF LookupStands, Key, Served
    <3> QED
      BY <2>2, <3>1, <3>2, <3>3, MoveFollows DEF Node
  <2> QED
    BY <1>5, <2>1, <2>2 DEF ResolutionCheck, j
<1>6. CASE NoteResolution(d)
  <2>1. /\ task[d].existing \in DOMAIN incidents' /\ incidents'[task[d].existing].key = Key(d)
        /\ Key(d) # Unknown /\ ~IsFiring(Served(d))
    BY <1>6, <1>a DEF NoteResolution, LookupStands, KeepsKeys
  <2> QED
    BY <1>6, <2>1, FinishFollows DEF NoteResolution, Node
<1>7. CASE ExemptionCheck(d)
  <2>0. IsFiring(Served(d))
    BY <1>7, <1>a DEF ExemptionCheck, LookupStands, Node
  <2>1. CASE Finish(d, "suppressed", 0)
    BY <1>7, <2>0, <2>1, FinishFollows DEF ExemptionCheck, Node
  <2>2. CASE Goto(d, "dedup_check") /\ UNCHANGED handled
    <3>1. /\ task'[d].at = "dedup_check" /\ task'[d].alert = task[d].alert
          /\ alerts' = alerts /\ task[d].at = "exemption_check"
      BY <1>7, <1>a, <2>2, GotoMoves, PlacesListed DEF ExemptionCheck
    <3>2. LookupStands(d)'
      BY <2>0, <3>1 DEF LookupStands, Served
    <3> QED
      BY <2>2, <3>1, <3>2, MoveFollows DEF Node
  <2> QED
    BY <1>7, <2>1, <2>2 DEF ExemptionCheck
<1>8. CASE DedupCheck(d)
  <2>0. IsFiring(Served(d)) /\ task[d].at = "dedup_check"
    BY <1>8, <1>a DEF DedupCheck, LookupStands, Node
  <2>1. Found(d, IF j = 0 THEN "diagnose" ELSE "bump", j)
    BY <1>8 DEF DedupCheck, j
  <2>2. /\ task'[d].at = IF j = 0 THEN "diagnose" ELSE "bump"
        /\ task'[d].alert = task[d].alert /\ task'[d].existing = j
        /\ alerts' = alerts /\ incidents' = incidents /\ handled' = handled
    BY <1>8, <1>a, <1>b, <2>1, FoundMoves, FoundKeeps, PlacesListed DEF DedupCheck
  <2>3. LookupStands(d)'
    BY <1>b, <1>c, <2>0, <2>2 DEF LookupStands, Key, Served
  <2> QED
    BY <2>0, <2>2, <2>3, MoveFollows DEF Node
<1>9. CASE BumpOccurrence(d)
  <2>1. /\ task[d].existing \in DOMAIN incidents' /\ incidents'[task[d].existing].key = Key(d)
        /\ Key(d) # Unknown /\ IsFiring(Served(d))
    BY <1>9, <1>a DEF BumpOccurrence, LookupStands, KeepsKeys, Node
  <2> QED
    BY <1>9, <2>1, FinishFollows DEF BumpOccurrence, Node
<1>10. CASE Diagnose(d)
  <2>1. /\ task'[d].at = "hitl_gate" /\ task'[d].alert = task[d].alert
        /\ alerts' = alerts /\ handled' = handled /\ task[d].at = "diagnose"
    BY <1>10 DEF Diagnose, TypeInv, TypeOK, Task
  <2>2. IsFiring(Served(d))
    BY <1>a, <2>1 DEF LookupStands, Node
  <2>3. LookupStands(d)'
    BY <2>1, <2>2 DEF LookupStands, Served
  <2> QED
    BY <2>1, <2>3, MoveFollows DEF Node
<1>11. CASE OpenIncident(d) \/ OpenFailedIncident(d)
  <2>1. /\ task[d].at = "hitl_gate" /\ task'[d].at = "rest" /\ task'[d].alert = task[d].alert
        /\ alerts' = alerts
    BY <1>11, <1>a, GotoMoves, PlacesListed DEF OpenIncident, OpenFailedIncident
  <2>2. IsFiring(Served(d)) /\ Len(handled[d]) = task[d].alert - 1
    BY <1>a, <2>1 DEF LookupStands, InTurn, Node
  <2>3. OutcomesStand(d)' /\ Len(handled'[d]) = task[d].alert
    <3>1. CASE OpenIncident(d)
      <4>1. Insert(Key(d), "pending_approval") /\ Record(d, "opened", Len(incidents) + 1)
        BY <3>1 DEF OpenIncident
      <4>2. Len(incidents) + 1 \in DOMAIN incidents' /\ incidents'[Len(incidents) + 1].key = Key(d)
        BY <1>a, <4>1, InsertKeeps
      <4> QED
        BY <1>a, <2>1, <2>2, <4>1, <4>2, RecordStands
    <3>2. CASE OpenFailedIncident(d)
      <4>1. Record(d, "failed", Len(incidents) + 1)
        BY <3>2 DEF OpenFailedIncident
      <4> QED
        BY <1>a, <2>1, <2>2, <4>1, RecordStands
    <3> QED
      BY <1>11, <3>1, <3>2
  <2>4. InTurn(d)' /\ LookupStands(d)'
    BY <2>1, <2>3 DEF InTurn, LookupStands
  <2> QED
    BY <2>3, <2>4 DEF FollowsItsAlerts
<1>12. CASE EndRun(d)
  <2>1. /\ alerts' = alerts /\ handled' = handled /\ Len(handled[d]) = task[d].alert
        /\ task[d].alert \in Nat
    BY <1>12, <1>a DEF EndRun, InTurn, Node
  <2>2. \/ task'[d].at = "resolution_check" /\ task'[d].alert = task[d].alert + 1
        \/ task'[d].at = "finally" /\ task[d].alert = Len(alerts[d])
    <3>1. task[d].alert \in 1..Len(alerts[d]) /\ Len(alerts[d]) \in Nat
      BY <1>12, AlertsCounted DEF EndRun, Node
    <3> QED
      BY <1>12, <1>a, <3>1, NextAlertMoves DEF EndRun
  <2>3. InTurn(d)' /\ LookupStands(d)'
    BY <2>1, <2>2 DEF InTurn, LookupStands, Node
  <2>4. OutcomesStand(d)'
    BY <1>a, <2>1, OutcomesKept
  <2> QED
    BY <2>3, <2>4 DEF FollowsItsAlerts
<1>13. CASE TaskRaises(d)
  <2>1. /\ task'[d].at = "finally" /\ task'[d].alert = task[d].alert /\ task'[d].raised
        /\ alerts' = alerts /\ handled' = handled
    BY <1>13, <1>a, RaiseMoves DEF TaskRaises
  <2>2. LookupStands(d)'
    BY <2>1 DEF LookupStands, Node
  <2> QED
    BY <2>1, <2>2, MoveFollows
<1>14. CASE MarkProcessed(d) \/ MarkTimesOut(d)
  <2>1. /\ task'[d].at \in {"over", "unmarked"} /\ task'[d].alert = task[d].alert
        /\ task'[d].raised = task[d].raised /\ task[d].at = "finally"
        /\ alerts' = alerts /\ handled' = handled
    BY <1>14, <1>a, GotoMoves, PlacesListed DEF MarkProcessed, MarkTimesOut
  <2>2. LookupStands(d)'
    BY <2>1 DEF LookupStands, Node
  <2>3. task[d].raised \/ Len(handled[d]) = Len(alerts[d])
    BY <1>a, <2>1 DEF InTurn
  <2> QED
    BY <2>1, <2>2, <2>3, MoveFollows
<1> QED
  BY <1>1, <1>2, <1>3, <1>4, <1>5, <1>6, <1>7, <1>8, <1>9, <1>10, <1>11, <1>12, <1>13, <1>14
  DEF DeliveryStep, TaskStep

\* A step is of a delivery's own task, loses it, or leaves it alone.
LEMMA OthersUntouched ==
  ASSUME TypeOK, Next, NEW e \in Deliveries
  PROVE  \/ DeliveryStep(e) \/ TaskStep(e) \/ TaskRaises(e) \/ MarkTimesOut(e)
         \/ /\ alerts'[e] = alerts[e] /\ handled'[e] = handled[e]
            /\ task'[e] = task[e] \/ task'[e].at = "lost"
<1> DEFINE Alone == alerts'[e] = alerts[e] /\ handled'[e] = handled[e] /\ task'[e] = task[e]
<1>a. /\ alerts \in [Deliveries -> Payloads \union {<<>>}]
      /\ handled \in [Deliveries -> Seq(Outcome)] /\ task \in [Deliveries -> Task]
  BY DEF TypeOK
<1>1. ASSUME NEW d \in Deliveries, d # e, DeliveryStep(d)  PROVE Alone
  BY <1>1, <1>a DEF DeliveryStep, IgnoreDelivery, LogDelivery, Goto
<1>2. ASSUME NEW d \in Deliveries, d # e, TaskStep(d)  PROVE Alone
  <2>1. /\ alerts' = alerts
        /\ handled' = handled \/ \E how, j : Record(d, how, j)
    BY <1>2 DEF TaskStep, Accept, Enter, PassFiring, ResolutionCheck, NoteResolution,
       ExemptionCheck, DedupCheck, BumpOccurrence, Diagnose, OpenIncident, OpenFailedIncident,
       EndRun, MarkProcessed, Finish
  <2>2. \E new : task' = [task EXCEPT ![d] = new]
    BY <1>2, <1>a DEF TaskStep, Accept, Enter, PassFiring, ResolutionCheck, NoteResolution,
       ExemptionCheck, DedupCheck, BumpOccurrence, Diagnose, OpenIncident, OpenFailedIncident,
       EndRun, MarkProcessed, Finish, Goto, Found, NextAlert
  <2> QED
    BY <1>2, <1>a, <2>1, <2>2 DEF Record
<1>3. ASSUME NEW d \in Deliveries, d # e, TaskRaises(d) \/ MarkTimesOut(d)  PROVE Alone
  BY <1>3, <1>a DEF TaskRaises, MarkTimesOut, Goto
<1>4. ASSUME NEW w \in Workers, CrashWorker(w)
      PROVE  /\ alerts'[e] = alerts[e] /\ handled'[e] = handled[e]
             /\ task'[e] = task[e] \/ task'[e].at = "lost"
  <2>1. CASE task[e].worker = w /\ task[e].at \in InMemory
    <3>1. task'[e] = [task[e] EXCEPT !.at = "lost"]
      BY <1>4, <2>1 DEF CrashWorker
    <3>2. task'[e].at = "lost"
      BY <1>a, <3>1 DEF Task
    <3> QED
      BY <1>4, <3>2 DEF CrashWorker
  <2>2. CASE ~(task[e].worker = w /\ task[e].at \in InMemory)
    BY <1>4, <2>2 DEF CrashWorker
  <2> QED
    BY <2>1, <2>2
<1>5. CASE OperatorStep
  BY <1>5 DEF OperatorStep, Approve, Settle, SetIncidentStatus, ExemptResource, RevokeExemption
<1> QED
  BY <1>1, <1>2, <1>3, <1>4, <1>5 DEF Next, Fault

\* Every step keeps every delivery in order.
LEMMA FollowsStep ==
  TypeInv /\ AllFollowTheirAlerts /\ [Next]_vars => AllFollowTheirAlerts'
<1> SUFFICES ASSUME TypeInv, AllFollowTheirAlerts, [Next]_vars, NEW e \in Deliveries
             PROVE  FollowsItsAlerts(e)'
  BY DEF AllFollowTheirAlerts
<1>0. FollowsItsAlerts(e)
  BY DEF AllFollowTheirAlerts
<1>1. CASE UNCHANGED vars
  <2>1. KeepsKeys
    BY <1>1 DEF vars, KeepsKeys
  <2> QED
    BY <1>0, <1>1, <2>1, FollowsKept DEF vars
<1>2. CASE Next
  <2>0. KeepsKeys
    BY <1>2, StepKeepsKeys DEF TypeInv
  <2>1. CASE DeliveryStep(e) \/ TaskStep(e) \/ TaskRaises(e) \/ MarkTimesOut(e)
    BY <1>0, <2>0, <2>1, OwnStepFollows
  <2>2. CASE alerts'[e] = alerts[e] /\ handled'[e] = handled[e] /\ task'[e] = task[e]
    BY <1>0, <2>0, <2>2, FollowsKept
  <2>3. CASE alerts'[e] = alerts[e] /\ handled'[e] = handled[e] /\ task'[e].at = "lost"
    <3>1. InTurn(e)' /\ LookupStands(e)'
      BY <2>3 DEF InTurn, LookupStands, Node
    <3>2. OutcomesStand(e)'
      BY <1>0, <2>0, <2>3, OutcomesKept DEF FollowsItsAlerts
    <3> QED
      BY <3>1, <3>2 DEF FollowsItsAlerts
  <2> QED
    BY <1>2, <2>1, <2>2, <2>3, OthersUntouched DEF TypeInv
<1> QED
  BY <1>1, <1>2

\* Every delivery is always in order: outcomes and alerts are numbered alike,
\* and a lookup's answer is good until the statement that uses it.
THEOREM FollowsAlways == Spec => []AllFollowTheirAlerts
<1>1. Init => AllFollowTheirAlerts
  <2> SUFFICES ASSUME Init, NEW d \in Deliveries  PROVE FollowsItsAlerts(d)
    BY DEF AllFollowTheirAlerts
  <2>1. task[d].at = "new" /\ task[d].alert = 1 /\ handled[d] = <<>>
    BY DEF Init
  <2>2. InTurn(d) /\ LookupStands(d)
    BY <2>1, EmptySeq DEF InTurn, LookupStands, Node
  <2>3. OutcomesStand(d)
    BY <2>1, EmptySeq DEF OutcomesStand
  <2> QED
    BY <2>2, <2>3 DEF FollowsItsAlerts
<1>2. Spec => [](TypeInv /\ AllFollowTheirAlerts)
  BY <1>1, InitFacts, TypeInvStep, FollowsStep, PTL DEF Spec
<1> QED
  BY <1>2, PTL

\* The unprocessed rows of the ingestion log are the deliveries still worked on,
\* those of dead workers and those that could not be marked, and every other
\* accepted delivery was dealt with to its last alert unless its run raised.
THEOREM RecoverySetHolds == Spec => []RecoverySetExact
<1>1. Spec => [](TypeInv /\ UnprocessedExact)
  BY InitFacts, TypeInvStep, UnprocessedStep, PTL DEF Spec
<1>2. UnprocessedExact /\ AllFollowTheirAlerts => RecoverySetExact
  BY DEF UnprocessedExact, AllFollowTheirAlerts, FollowsItsAlerts, InTurn, RecoverySetExact
<1> QED
  BY <1>1, <1>2, FollowsAlways, PTL

\* An alert is opened as, counted or noted on an incident of its own resource
\* and name, and one that did not parse merges with nothing, for any number of
\* deliveries, alerts in a delivery, workers and keys.
THEOREM OutcomesAreTheAlerts == Spec => []AlertsReachTheirIncident
<1>1. AllFollowTheirAlerts => AlertsReachTheirIncident
  BY DEF AllFollowTheirAlerts, FollowsItsAlerts, OutcomesStand, IsOutcomeOf,
         AlertsReachTheirIncident
<1> QED
  BY <1>1, FollowsAlways, PTL
=============================================================================
