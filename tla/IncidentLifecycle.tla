-------------------------- MODULE IncidentLifecycle --------------------------
(***************************************************************************)
(* The life of an incident: a webhook task runs the agent's LangGraph      *)
(* workflow up to the approval gate (agents/agent_*/workflow.py, read from *)
(* agent 01: every agent has these nodes and edges), the gate writes the   *)
(* incident row (core/hitl.py), operators decide on it through the HTTP    *)
(* routes (api/routes/incidents.py), and an approval resumes the workflow  *)
(* from its checkpoint in a fire-and-forget task.                          *)
(*                                                                         *)
(* Every handler runs one autocommitted SQL statement at a time and holds  *)
(* no row lock between them, so each statement is an action of its own and *)
(* any two handlers interleave between statements.  LangGraph is external: *)
(* it saves a checkpoint as each node completes, the last save wins, and   *)
(* resuming a thread re-runs the node its checkpoint names from the top.   *)
(***************************************************************************)
EXTENDS Naturals

CONSTANTS
  Threads,            \* LangGraph thread ids, also the ids of agent incidents
  FailedIds,          \* ids the database generates for failed incidents
  Probes,             \* ids of connection-test incidents
  Operators,          \* request slots: one decision request in flight each
  Options,            \* option ids an incident offers, "custom" included
  WorkersMayCrash,    \* whether worker processes may die
  SetupMayFail        \* whether setting up a resume may raise

Webhook  == "webhook"
Invokers == Operators \union {Webhook}
Rows     == Threads \union FailedIds \union Probes
Hold     == "hold"
None     == "none"

ASSUME IdsAreDisjoint ==
  /\ Threads \cap FailedIds = {}
  /\ Threads \cap Probes = {}
  /\ FailedIds \cap Probes = {}

ASSUME NamesAreDistinct ==
  /\ Webhook \notin Operators
  /\ Hold \notin Options
  /\ None \notin Options

ASSUME SwitchesAreBoolean ==
  /\ WorkersMayCrash \in BOOLEAN
  /\ SetupMayFail \in BOOLEAN

VARIABLES
  execution_status,   \* incidents.execution_status, "absent" before the row
  selected_option_id, \* incidents.selected_option_id
  is_test,            \* rows whose is_test column has been set
  audit_events,       \* rows with an audit_events row for their decision
  request,            \* the decision request each operator slot is serving
  task,               \* each invocation of a workflow, by who started it
  checkpoint,         \* what the checkpointer holds for each thread
  approvals,          \* history: <<thread, option>> of approvals written
  tool_calls          \* history: how often each option's tool was called

vars == <<execution_status, selected_option_id, is_test, audit_events,
          request, task, checkpoint, approvals, tool_calls>>

rowVars == <<execution_status, selected_option_id, is_test, audit_events>>

-----------------------------------------------------------------------------
(* Types *)

Status   == {"absent", "pending_approval", "executing", "executed", "held",
             "failed", "rejected", "resolved_manually", "deleted"}
Node     == {"diagnose", "hitl_gate", "record_usage", "execute", "complete"}
Choice   == Options \union {Hold, None}

\* What an operator can ask of an incident: <<endpoint or action, option>>.
Decision == ({"approve"} \X Options) \union {<<"hold", Hold>>}
              \union ({"reject", "dismiss", "resolve_manually"} \X {None})

NoRequest == [at |-> "idle"]
Request ==
  {NoRequest} \union
  [at : {"checked", "written"}, decision : Decision, row : Rows, test : BOOLEAN]

\* The part of the workflow's state that its later nodes read.
GraphState == [selected : Choice, incident : Rows, error : BOOLEAN]

\* An invocation: the node it runs, the value it resumes with, its state.
Task == [at : Node \union {"idle", "load", "raised", "over", "lost"},
         value : Choice, state : GraphState]

Checkpoint == [next : {"absent", "diagnose", "hitl_gate", "execute",
                       "complete", "end"},
               state : GraphState]

TypeOK ==
  /\ execution_status \in [Rows -> Status]
  /\ selected_option_id \in [Rows -> Choice]
  /\ is_test \subseteq Probes
  /\ audit_events \subseteq Rows
  /\ request \in [Operators -> Request]
  /\ task \in [Invokers -> [Threads -> Task]]
  /\ checkpoint \in [Threads -> Checkpoint]
  /\ approvals \subseteq Threads \X Options
  /\ tool_calls \in [Threads -> [Options -> Nat]]

-----------------------------------------------------------------------------
(* Initial state: no alert has arrived yet. *)

\* run() generates the thread id before the graph starts and puts it in the
\* state as the incident's id.
InitialState(t) == [selected |-> None, incident |-> t, error |-> FALSE]

Init ==
  /\ execution_status = [r \in Rows |-> "absent"]
  /\ selected_option_id = [r \in Rows |-> None]
  /\ is_test = {}
  /\ audit_events = {}
  /\ request = [o \in Operators |-> NoRequest]
  /\ task = [p \in Invokers |-> [t \in Threads |->
               [at |-> "idle", value |-> None, state |-> InitialState(t)]]]
  /\ checkpoint = [t \in Threads |->
                     [next |-> "absent", state |-> InitialState(t)]]
  /\ approvals = {}
  /\ tool_calls = [t \in Threads |-> [opt \in Options |-> 0]]

-----------------------------------------------------------------------------
(* Statements and steps shared by several handlers *)

\* UPDATE incidents SET execution_status = s WHERE id = r: nothing for a row
\* that is not there, and no condition on the status it overwrites.
SetStatus(r, s) ==
  execution_status' =
    [execution_status EXCEPT ![r] = IF @ \in {"absent", "deleted"} THEN @ ELSE s]

\* Mutants (the operators named Bad...) are what the code must not be: each is a
\* plausible slip in the definition after it, and breaks one of the properties.

\* ON CONFLICT DO UPDATE.
BadInsertUpsert(t) ==
  execution_status' = [execution_status EXCEPT ![t] = "pending_approval"]

\* INSERT ... VALUES (t, ..., 'pending_approval') ON CONFLICT (id) DO NOTHING
InsertPending(t) ==
  execution_status' =
    [execution_status EXCEPT ![t] = IF @ = "absent" THEN "pending_approval" ELSE @]

\* A checkpoint write that is swallowed.
BadSaveCheckpoint(t, next, state) == UNCHANGED checkpoint

SaveCheckpoint(t, next, state) ==
  checkpoint' = [checkpoint EXCEPT ![t] = [next |-> next, state |-> state]]

Goto(p, t, node) == task' = [task EXCEPT ![p][t] = [@ EXCEPT !.at = node]]

\* The node at ends with this state: the state is checkpointed and the
\* invocation goes on with the next node.
NodeDone(p, t, next, state) ==
  /\ SaveCheckpoint(t, next, state)
  /\ task' = [task EXCEPT ![p][t] =
                [@ EXCEPT !.at = IF next = "end" THEN "over" ELSE next,
                          !.state = state]]

CallTool(t, opt) == tool_calls' = [tool_calls EXCEPT ![t][opt] = @ + 1]

-----------------------------------------------------------------------------
(* The workflow, run by a webhook task or by an operator's resume *)

\* run() and the ingest node.
StartRun(t) ==
  /\ task[Webhook][t].at = "idle"
  /\ NodeDone(Webhook, t, "diagnose", InitialState(t))
  /\ UNCHANGED <<rowVars, request, approvals, tool_calls>>

\* _diagnose_node: the answer parses, or it sets state["error"].
Diagnose(p, t) ==
  /\ task[p][t].at = "diagnose"
  /\ \E failed \in BOOLEAN :
       NodeDone(p, t, "hitl_gate", [task[p][t].state EXCEPT !.error = failed])
  /\ UNCHANGED <<rowVars, request, approvals, tool_calls>>

\* _hitl_gate_node up to create_incident.
CreateIncident(p, t) ==
  /\ task[p][t].at = "hitl_gate"
  /\ ~task[p][t].state.error
  /\ InsertPending(t)
  /\ Goto(p, t, "record_usage")
  /\ UNCHANGED <<selected_option_id, is_test, audit_events, request,
                 checkpoint, approvals, tool_calls>>

\* interrupt() in an invocation with no resume value pauses it: the thread's
\* checkpoint still names the gate.
Pause(p, t) ==
  /\ task[p][t].at = "record_usage"
  /\ task[p][t].value = None
  /\ Goto(p, t, "over")
  /\ UNCHANGED <<rowVars, request, checkpoint, approvals, tool_calls>>

\* The gate passes on some option of the incident, not the operator's.
BadPassGate(p, t) ==
  /\ task[p][t].at = "record_usage"
  /\ task[p][t].value # None
  /\ \E opt \in Options :
       NodeDone(p, t, "execute", [task[p][t].state EXCEPT !.incident = t,
                                                          !.selected = opt])
  /\ UNCHANGED <<rowVars, request, approvals, tool_calls>>

\* interrupt() in a resumed invocation returns the operator's option.
PassGate(p, t) ==
  /\ task[p][t].at = "record_usage"
  /\ task[p][t].value # None
  /\ NodeDone(p, t, "execute", [task[p][t].state EXCEPT !.incident = t,
                                        !.selected = task[p][t].value])
  /\ UNCHANGED <<rowVars, request, approvals, tool_calls>>

\* _hitl_gate_node after a failed diagnosis: create_failed_incident inserts a
\* row under an id of the database's own, and the graph goes on.
CreateFailedIncident(p, t) ==
  /\ task[p][t].at = "hitl_gate"
  /\ task[p][t].state.error
  /\ \E f \in FailedIds :
       /\ execution_status[f] = "absent"
       /\ execution_status' = [execution_status EXCEPT ![f] = "failed"]
       /\ NodeDone(p, t, "execute", [task[p][t].state EXCEPT !.incident = f])
  /\ UNCHANGED <<selected_option_id, is_test, audit_events, request,
                 approvals, tool_calls>>

\* No "if not selected" in _execute_node.
BadSkipExecution(p, t) ==
  /\ task[p][t].at = "execute"
  /\ task[p][t].state.selected = None
  /\ \E opt \in Options : CallTool(t, opt)
  /\ NodeDone(p, t, "complete", task[p][t].state)
  /\ UNCHANGED <<rowVars, request, approvals>>

\* _execute_node with no option selected.
SkipExecution(p, t) ==
  /\ task[p][t].at = "execute"
  /\ task[p][t].state.selected = None
  /\ NodeDone(p, t, "complete", task[p][t].state)
  /\ UNCHANGED <<rowVars, request, approvals, tool_calls>>

\* _execute_node: the selected option's tool is called, and it returns, or
\* raises after its effect.
ExecuteOption(p, t) ==
  /\ task[p][t].at = "execute"
  /\ \E opt \in Options :
       /\ task[p][t].state.selected = opt
       /\ CallTool(t, opt)
  /\ \/ NodeDone(p, t, "complete", task[p][t].state)
     \/ /\ Goto(p, t, "raised")
        /\ UNCHANGED checkpoint
  /\ UNCHANGED <<rowVars, request, approvals>>

\* _complete_node: mark_executed, or held when the tool answered "held", which
\* it does for the hold option alone.
Complete(p, t) ==
  /\ task[p][t].at = "complete"
  /\ SetStatus(task[p][t].state.incident,
               IF task[p][t].state.selected = Hold THEN "held" ELSE "executed")
  /\ NodeDone(p, t, "end", task[p][t].state)
  /\ UNCHANGED <<selected_option_id, is_test, audit_events, request,
                 approvals, tool_calls>>

\* A resume's invocation of the graph begins where the thread's checkpoint
\* says; a thread that ran to its end has nothing left to run.
LoadCheckpoint(o, t) ==
  /\ task[o][t].at = "load"
  /\ task' = [task EXCEPT ![o][t] =
                [@ EXCEPT !.at = IF checkpoint[t].next \in {"absent", "end"}
                                 THEN "over" ELSE checkpoint[t].next,
                          !.state = checkpoint[t].state]]
  /\ UNCHANGED <<rowVars, request, checkpoint, approvals, tool_calls>>

\* An exception inside a node (budget, LLM, credentials of a tool, database,
\* checkpointer).  A webhook task logs it and ends; its budget handler's UPDATE
\* is no valid PostgreSQL statement and changes nothing.  A resume goes to its
\* exception handler.
TaskRaises(p, t) ==
  /\ task[p][t].at \in Node \union (IF p = Webhook THEN {} ELSE {"load"})
  /\ Goto(p, t, IF p = Webhook THEN "over" ELSE "raised")
  /\ UNCHANGED <<rowVars, request, checkpoint, approvals, tool_calls>>

\* The exception is logged only.
BadMarkFailed(o, t) ==
  /\ task[o][t].at = "raised"
  /\ Goto(o, t, "over")
  /\ UNCHANGED <<rowVars, request, checkpoint, approvals, tool_calls>>

\* The except branches of _resume(): mark_failed.
MarkFailed(o, t) ==
  /\ task[o][t].at = "raised"
  /\ SetStatus(t, "failed")
  /\ Goto(o, t, "over")
  /\ UNCHANGED <<selected_option_id, is_test, audit_events, request,
                 checkpoint, approvals, tool_calls>>

\* The part of _resume() before its try: acquiring a connection, building the
\* credentials, constructing the workflow.
SetupFails(o, t) ==
  /\ SetupMayFail
  /\ task[o][t].at = "load"
  /\ Goto(o, t, "lost")
  /\ UNCHANGED <<rowVars, request, checkpoint, approvals, tool_calls>>

\* The process running an invocation dies, or its own mark_failed raises.
LoseTask(p, t) ==
  /\ WorkersMayCrash
  /\ task[p][t].at \in Node \union {"load", "raised"}
  /\ Goto(p, t, "lost")
  /\ UNCHANGED <<rowVars, request, checkpoint, approvals, tool_calls>>

-----------------------------------------------------------------------------
(* Decision requests.  A caller without the role, or with a read-only cloud
   connection, is refused on entry and changes nothing: those requests are not
   represented. *)

\* The 409 answer dropped, or given only for the statuses in a list of no-gos.
BadCheck(o, decision, r) ==
  /\ request[o] = NoRequest
  /\ request' = [request EXCEPT ![o] = [at |-> "checked", decision |-> decision,
                                        row |-> r, test |-> r \in is_test]]
  /\ UNCHANGED <<rowVars, task, checkpoint, approvals, tool_calls>>

\* The SELECT that opens every decision handler, and its 404 and 409 answers.
Check(o, decision, r) ==
  /\ request[o] = NoRequest
  /\ execution_status[r] = "pending_approval"
  /\ request' = [request EXCEPT ![o] = [at |-> "checked", decision |-> decision,
                                        row |-> r, test |-> r \in is_test]]
  /\ UNCHANGED <<rowVars, task, checkpoint, approvals, tool_calls>>

\* Operator slot o is about to write a decision of this kind.
Deciding(o, kinds) ==
  /\ request[o].at = "checked"
  /\ request[o].decision[1] \in kinds

Answer(o) == request' = [request EXCEPT ![o] = NoRequest]

\* The request has one more statement to run.
GoOn(o) == request' = [request EXCEPT ![o].at = "written"]

\* The choice is stored and the status forgotten.
BadRecordChoice(r, status, opt) ==
  /\ selected_option_id' = [selected_option_id EXCEPT ![r] = opt]
  /\ UNCHANGED execution_status

\* The UPDATE of approve_incident.
RecordChoice(r, status, opt) ==
  /\ SetStatus(r, status)
  /\ selected_option_id' =
       [selected_option_id EXCEPT
          ![r] = IF execution_status[r] \in {"absent", "deleted"} THEN @ ELSE opt]

\* approve_incident on an agent's incident: the resume is started.
ApproveAgentIncident(o) ==
  LET t   == request[o].row
      opt == request[o].decision[2]
  IN  /\ Deciding(o, {"approve"})
      /\ t \in Threads
      /\ RecordChoice(t, "executing", opt)
      /\ approvals' = approvals \union {<<t, opt>>}
      /\ task' = [task EXCEPT ![o][t] = [@ EXCEPT !.at = "load", !.value = opt]]
      /\ Answer(o)
      /\ UNCHANGED <<is_test, audit_events, checkpoint, tool_calls>>

\* approve_incident on a connection-test incident: nothing is resumed.  When
\* the SELECT ran before the row was flagged as a test, the answer is a 500,
\* "No workflow class registered".
ApproveProbe(o) ==
  /\ Deciding(o, {"approve"})
  /\ request[o].row \in Probes
  /\ RecordChoice(request[o].row, "executing", request[o].decision[2])
  /\ IF request[o].test THEN GoOn(o) ELSE Answer(o)
  /\ UNCHANGED <<is_test, audit_events, task, checkpoint, approvals, tool_calls>>

SimulateSuccess(o) ==
  /\ request[o].at = "written"
  /\ request[o].decision[1] = "approve"
  /\ SetStatus(request[o].row, "executed")
  /\ Answer(o)
  /\ UNCHANGED <<selected_option_id, is_test, audit_events, task, checkpoint,
                 approvals, tool_calls>>

\* A held incident is resumed like an approved one.
BadHoldIncident(o) ==
  LET t == request[o].row
  IN  /\ Deciding(o, {"hold"})
      /\ t \in Threads
      /\ RecordChoice(t, "held", Hold)
      /\ task' = [task EXCEPT ![o][t] = [@ EXCEPT !.at = "load", !.value = Hold]]
      /\ Answer(o)
      /\ UNCHANGED <<is_test, audit_events, checkpoint, approvals, tool_calls>>

\* approve_incident with the option "hold": no workflow is resumed.
HoldIncident(o) ==
  /\ Deciding(o, {"hold"})
  /\ RecordChoice(request[o].row, "held", Hold)
  /\ Answer(o)
  /\ UNCHANGED <<is_test, audit_events, task, checkpoint, approvals, tool_calls>>

RejectIncident(o) ==
  /\ Deciding(o, {"reject"})
  /\ SetStatus(request[o].row, "rejected")
  /\ Answer(o)
  /\ UNCHANGED <<selected_option_id, is_test, audit_events, task, checkpoint,
                 approvals, tool_calls>>

\* resolve_incident_manually and bulk_incident_action: the UPDATE ...
CloseIncident(o) ==
  /\ Deciding(o, {"dismiss", "resolve_manually"})
  /\ SetStatus(request[o].row, IF request[o].decision[1] = "dismiss"
                               THEN "rejected" ELSE "resolved_manually")
  /\ GoOn(o)
  /\ UNCHANGED <<selected_option_id, is_test, audit_events, task, checkpoint,
                 approvals, tool_calls>>

\* ... and, in a statement of its own, the audit row, which the foreign key
\* refuses when the incident is gone.
RecordAudit(o) ==
  /\ request[o].at = "written"
  /\ request[o].decision[1] # "approve"
  /\ audit_events' = audit_events \union
       {r \in {request[o].row} : execution_status[r] # "deleted"}
  /\ Answer(o)
  /\ UNCHANGED <<execution_status, selected_option_id, is_test, task,
                 checkpoint, approvals, tool_calls>>

LoseRequest(o) ==
  /\ WorkersMayCrash
  /\ request[o] # NoRequest
  /\ Answer(o)
  /\ UNCHANGED <<rowVars, task, checkpoint, approvals, tool_calls>>

-----------------------------------------------------------------------------
(* The setup checklist's connection test *)

CreateProbe(r) ==
  /\ execution_status[r] = "absent"
  /\ execution_status' = [execution_status EXCEPT ![r] = "pending_approval"]
  /\ UNCHANGED <<selected_option_id, is_test, audit_events, request, task,
                 checkpoint, approvals, tool_calls>>

\* The second statement of run_connection_test.
FlagProbe(r) ==
  /\ execution_status[r] # "absent"
  /\ r \notin is_test
  /\ is_test' = is_test \union {r}
  /\ UNCHANGED <<execution_status, selected_option_id, audit_events, request,
                 task, checkpoint, approvals, tool_calls>>

\* ON DELETE SET NULL: audit rows stay but no longer name the incident.
CleanupProbe(r) ==
  /\ execution_status[r] # "deleted"
  /\ r \in is_test
  /\ execution_status' = [execution_status EXCEPT ![r] = "deleted"]
  /\ audit_events' = audit_events \ {r}
  /\ UNCHANGED <<selected_option_id, is_test, request, task, checkpoint,
                 approvals, tool_calls>>

-----------------------------------------------------------------------------
(* Next-state relation *)

\* The steps of an invocation that its own program takes.
TaskStep(p, t) ==
  \/ Diagnose(p, t)
  \/ CreateIncident(p, t)
  \/ Pause(p, t)
  \/ PassGate(p, t)
  \/ CreateFailedIncident(p, t)
  \/ SkipExecution(p, t)
  \/ ExecuteOption(p, t)
  \/ Complete(p, t)

ResumeStep(o, t) ==
  \/ LoadCheckpoint(o, t)
  \/ MarkFailed(o, t)
  \/ TaskStep(o, t)

WorkflowFault(p, t) == TaskRaises(p, t) \/ LoseTask(p, t)

RequestStep(o) ==
  \/ ApproveAgentIncident(o)
  \/ ApproveProbe(o)
  \/ SimulateSuccess(o)
  \/ HoldIncident(o)
  \/ RejectIncident(o)
  \/ CloseIncident(o)
  \/ RecordAudit(o)

ProbeStep(r) == CreateProbe(r) \/ FlagProbe(r) \/ CleanupProbe(r)

Next ==
  \/ \E t \in Threads : StartRun(t) \/ TaskStep(Webhook, t)
  \/ \E p \in Invokers, t \in Threads : WorkflowFault(p, t)
  \/ \E o \in Operators, t \in Threads : ResumeStep(o, t) \/ SetupFails(o, t)
  \/ \E o \in Operators, decision \in Decision, r \in Rows : Check(o, decision, r)
  \/ \E o \in Operators : RequestStep(o) \/ LoseRequest(o)
  \/ \E r \in Probes : ProbeStep(r)

Spec == Init /\ [][Next]_vars

\* The event loop runs every coroutine that is ready, and every call a node
\* makes (LLM, HTTP, SQL) carries a timeout: an invocation never stops for
\* ever between two steps.  Nothing makes an operator send a request.
FairSpec ==
  /\ Spec
  /\ \A t \in Threads : WF_vars(TaskStep(Webhook, t))
  /\ \A o \in Operators, t \in Threads : WF_vars(ResumeStep(o, t))
  /\ \A o \in Operators : WF_vars(RequestStep(o))

-----------------------------------------------------------------------------
(* Properties that hold whatever operators and workers do *)

\* Governance Rule 11, "No fix executes without this endpoint being called":
\* an option's tool is called for an incident only if an operator's approval
\* of that very option was written for that very incident.
NoAutonomousRemediation ==
  \A t \in Threads, opt \in Options :
    tool_calls[t][opt] > 0 => <<t, opt>> \in approvals

\* An incident that operators see as open has a checkpoint at the gate or
\* later, so the approval that follows finds the paused run and does not start
\* the graph afresh (the bug create_incident's docstring describes).
PendingIsResumable ==
  \A t \in Threads :
    execution_status[t] \in {"pending_approval", "executing"} =>
      checkpoint[t].next \in {"hitl_gate", "execute", "complete", "end"}

\* An incident once decided is never put back before the operators, though the
\* gate's INSERT runs again in every resume.
NeverReopened ==
  [][\A r \in Rows :
       execution_status[r] \notin {"absent", "pending_approval"} =>
         execution_status'[r] # "pending_approval"]_vars

\* The abstract gate, with the incident rows of the agents as what is proposed.
Gate == INSTANCE RemediationGate WITH
  proposed  <- {t \in Threads : execution_status[t] # "absent"},
  granted   <- approvals,
  performed <- {c \in Threads \X Options : tool_calls[c[1]][c[2]] > 0}

\* The incident pipeline implements the remediation gate: nothing is granted
\* before its incident exists, nothing performed before it is granted, and no
\* proposal, grant or deed is ever taken back.
RefinesGate == Gate!Spec

-----------------------------------------------------------------------------
(* Inductive invariants behind them *)

\* v is no option, or one an operator granted for t.
Granted(t, v) == v # None => <<t, v>> \in approvals

\* Every place an option can reach a tool from holds a granted one.
TasksGranted ==
  \A p \in Invokers, t \in Threads : /\ Granted(t, task[p][t].value)
                                     /\ Granted(t, task[p][t].state.selected)

CheckpointsGranted == \A t \in Threads : Granted(t, checkpoint[t].state.selected)

GateInv == TasksGranted /\ CheckpointsGranted /\ NoAutonomousRemediation

PastDiagnosis == {"hitl_gate", "execute", "complete", "end"}

\* A thread's row appears after its diagnosis has been checkpointed, and nothing
\* starts the thread over once there is a row: only then do operators get at it.
RowsAreDiagnosed ==
  \A t \in Threads :
    execution_status[t] # "absent" => checkpoint[t].next \in PastDiagnosis

TasksAreDiagnosed ==
  \A p \in Invokers, t \in Threads :
    task[p][t].at \in Node \ {"diagnose"} => checkpoint[t].next \in PastDiagnosis

UnstartedHaveNoRow ==
  \A t \in Threads :
    task[Webhook][t].at = "idle" => execution_status[t] = "absent"

ResumedHaveRows ==
  \A o \in Operators, t \in Threads :
    task[o][t].at # "idle" => execution_status[t] # "absent"

RequestsHaveRows ==
  \A o \in Operators :
    request[o] # NoRequest => execution_status[request[o].row] # "absent"

ResumableInv ==
  /\ RowsAreDiagnosed
  /\ TasksAreDiagnosed
  /\ UnstartedHaveNoRow
  /\ ResumedHaveRows
  /\ RequestsHaveRows

-----------------------------------------------------------------------------
(* Properties of one operator at a time, on workers that stay up *)

\* A fix is carried out at most once per incident.
AtMostOneExecution ==
  \A t \in Threads, opt1, opt2 \in Options :
    /\ tool_calls[t][opt1] <= 1
    /\ tool_calls[t][opt1] > 0 /\ tool_calls[t][opt2] > 0 => opt1 = opt2

\* An incident that reads rejected, held or resolved by hand was not touched by
\* any tool, and no resume is about to touch it; a decision in the audit trail is
\* what the row reads.
DecisionStands ==
  /\ \A t \in Threads :
       execution_status[t] \in {"held", "rejected", "resolved_manually"} =>
         /\ \A opt \in Options : tool_calls[t][opt] = 0
         /\ \A o \in Operators : task[o][t].at = "idle"
  /\ \A r \in audit_events : execution_status[r] \in {"rejected", "resolved_manually"}

\* What the row says was selected is what was carried out.
RecordMatchesEffect ==
  \A t \in Threads, opt \in Options :
    tool_calls[t][opt] > 0 => selected_option_id[t] = opt

\* An approved incident does not stay at 'executing' for ever: it ends executed
\* or failed, also when the resume raises.
ExecutingSettles ==
  \A t \in Threads :
    execution_status[t] = "executing" ~> execution_status[t] \in {"executed", "failed"}

-----------------------------------------------------------------------------
(* The inductive invariant behind them *)

\* There is one decision request at a time.
OneSlot == \A o1, o2 \in Operators : o1 = o2

\* The webhook's invocation never holds an option.  Up to the gate the checkpoint
\* is its own and the row is not there; after a failed diagnosis it goes on with a
\* failed incident, and after the INSERT it has only the pause to come.
WebhookRun(t) ==
  LET run == task[Webhook][t]
  IN  /\ run.value = None
      /\ run.state.selected = None
      /\ run.at \in {"diagnose", "hitl_gate"} => run.state.incident = t
      /\ run.at = "hitl_gate" =>
           checkpoint[t] = [next |-> "hitl_gate", state |-> run.state]
      /\ run.at \in {"execute", "complete"} => run.state.incident \in FailedIds
      /\ execution_status[t] # "absent" => run.at \in {"record_usage", "over", "lost"}

\* The thread of an open or decided incident is paused at its gate until a resume
\* has loaded it, and its state is that of a good diagnosis.
PausedAtGate(t) ==
  execution_status[t] # "absent" =>
    /\ ~checkpoint[t].state.error
    /\ checkpoint[t].state.incident = t
    /\ (\A o \in Operators : task[o][t].at \in {"idle", "load"}) =>
         checkpoint[t].next = "hitl_gate"

BeforeTool == {"load", "hitl_gate", "record_usage", "execute"}

\* A resume carries the option its row reads, about its own row; until it comes to
\* the tool, no tool was called.
ResumedOnce(o, t) ==
  LET run == task[o][t]
  IN  run.at # "idle" =>
        /\ execution_status[t] \in {"executing", "executed", "failed"}
        /\ run.value \in Options
        /\ run.value = selected_option_id[t]
        /\ run.at \in Node => /\ run.at # "diagnose"
                              /\ ~run.state.error
                              /\ run.state.incident = t
        /\ run.at \in {"execute", "complete"} => run.state.selected = run.value
        /\ run.at \in BeforeTool => \A opt \in Options : tool_calls[t][opt] = 0

\* A tool called was called once, by a resume, and is the one the row reads.
CalledOnce(t) ==
  /\ execution_status[t] # "deleted"
  /\ \A opt \in Options :
       /\ tool_calls[t][opt] <= 1
       /\ tool_calls[t][opt] > 0 => /\ opt = selected_option_id[t]
                                    /\ \E o \in Operators : task[o][t].at # "idle"

ThreadInv(t) ==
  /\ WebhookRun(t)
  /\ PausedAtGate(t)
  /\ CalledOnce(t)
  /\ \A o \in Operators : ResumedOnce(o, t)

\* What a request found pending is so when it writes, or is a connection test's
\* row that was cleaned up; what it closed stays closed until it is in the audit
\* trail.
RequestInv(o) ==
  LET r == request[o].row
  IN  /\ request[o].at = "checked" =>
           /\ r \in Threads \union Probes
           /\ \/ execution_status[r] = "pending_approval"
              \/ execution_status[r] = "deleted" /\ r \in Probes
      /\ request[o].at = "written" /\ request[o].decision[1] = "approve" =>
           /\ r \in Probes
           /\ execution_status[r] \in {"executing", "deleted"}
      /\ request[o].at = "written" /\ request[o].decision[1] # "approve" =>
           execution_status[r] \in {"rejected", "resolved_manually", "deleted"}

\* Nobody decides on a failed incident.
FailedInv == \A f \in FailedIds : execution_status[f] \in {"absent", "failed", "executed"}

AuditInv == \A r \in audit_events : execution_status[r] \in {"rejected", "resolved_manually"}

SerialInv ==
  /\ \A t \in Threads : ThreadInv(t)
  /\ \A o \in Operators : RequestInv(o)
  /\ FailedInv
  /\ AuditInv

-----------------------------------------------------------------------------
(* Statements of the repository that the code does not keep *)

\* create_failed_incident, "what makes all failed runs ... a single query (WHERE
\* execution_status = 'failed')": a run whose diagnosis failed stays 'failed'.
FailedRunsStayFailed ==
  \A f \in FailedIds : execution_status[f] \in {"absent", "failed"}

\* run_connection_test, "approving it is short-circuited there to simulate
\* success rather than 500ing": an approved connection test is at 'executing'
\* only while its approval is being served.
ProbeApprovalSimulated ==
  \A r \in Probes :
    execution_status[r] = "executing" =>
      \E o \in Operators : /\ request[o].at = "written"
                           /\ request[o].row = r

=============================================================================
