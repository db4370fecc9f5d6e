----------------------- MODULE IncidentLifecycle_proofs -----------------------
(***************************************************************************)
(* What TLAPS proves of IncidentLifecycle, for any number of threads,      *)
(* operators, options and probes, crashes and failing resumes included: no *)
(* tool is called without an approval, no decided incident is reopened, an *)
(* open one can be resumed, the pipeline implements RemediationGate; and,  *)
(* for one decision request at a time, that a fix is carried out once, as  *)
(* recorded, and that other decisions are left alone.                      *)
(***************************************************************************)
EXTENDS IncidentLifecycle, TLAPS

-----------------------------------------------------------------------------
(* Lemmas on the steps several handlers share *)

\* An invocation moved to another node, with another state, is one again.
LEMMA MovedTask ==
  ASSUME NEW r \in Task, NEW state \in GraphState,
         NEW node \in Node \union {"idle", "load", "raised", "over", "lost"}
  PROVE  [r EXCEPT !.at = node, !.state = state] \in Task
  BY DEF Task

\* Its fields are the new ones and the value it had.
LEMMA MovedTaskFields ==
  ASSUME NEW r \in Task, NEW node, NEW state
  PROVE  LET new == [r EXCEPT !.at = node, !.state = state]
         IN  new.at = node /\ new.state = state /\ new.value = r.value
  BY DEF Task

\* An invocation given a value and told to load its checkpoint is one again.
LEMMA ResumedTask ==
  ASSUME NEW r \in Task, NEW value \in Choice
  PROVE  [r EXCEPT !.at = "load", !.value = value] \in Task
  BY DEF Task

\* Its fields are the new ones and the state it had.
LEMMA ResumedTaskFields ==
  ASSUME NEW r \in Task, NEW value
  PROVE  LET new == [r EXCEPT !.at = "load", !.value = value]
         IN  new.at = "load" /\ new.value = value /\ new.state = r.state
  BY DEF Task

\* The node an invocation is at and the state it holds are well typed after a
\* node completes, and so is the checkpoint saved.
LEMMA NodeDoneType ==
  ASSUME TypeOK, NEW p \in Invokers, NEW t \in Threads,
         NEW next \in {"diagnose", "hitl_gate", "execute", "complete", "end"},
         NEW state \in GraphState, NodeDone(p, t, next, state)
  PROVE  /\ task' \in [Invokers -> [Threads -> Task]]
         /\ checkpoint' \in [Threads -> Checkpoint]
<1>1. checkpoint' \in [Threads -> Checkpoint]
  BY DEF NodeDone, SaveCheckpoint, TypeOK, Checkpoint
<1>2. task' \in [Invokers -> [Threads -> Task]]
  <2> DEFINE node == IF next = "end" THEN "over" ELSE next
             new  == [task[p][t] EXCEPT !.at = node, !.state = state]
  <2>1. task \in [Invokers -> [Threads -> Task]]
    BY DEF TypeOK
  <2>2. node \in Node \union {"over"}
    BY DEF Node
  <2>3. task' = [task EXCEPT ![p][t] = new]
    BY DEF NodeDone
  <2> HIDE DEF node
  <2>4. new \in Task
    BY <2>1, <2>2, MovedTask
  <2> HIDE DEF new
  <2> QED
    BY <2>1, <2>3, <2>4
<1> QED
  BY <1>1, <1>2

\* Moving an invocation to another node keeps its type.
LEMMA GotoType ==
  ASSUME TypeOK, NEW p \in Invokers, NEW t \in Threads,
         NEW node \in Node \union {"idle", "load", "raised", "over", "lost"},
         Goto(p, t, node)
  PROVE  task' \in [Invokers -> [Threads -> Task]]
<1> DEFINE new == [task[p][t] EXCEPT !.at = node]
<1>1. task \in [Invokers -> [Threads -> Task]]
  BY DEF TypeOK
<1>2. new \in Task
  BY <1>1 DEF Task
<1>3. task' = [task EXCEPT ![p][t] = new]
  BY DEF Goto
<1> HIDE DEF new
<1> QED
  BY <1>1, <1>2, <1>3

\* An UPDATE leaves a well-typed status in every row.
LEMMA SetStatusType ==
  ASSUME TypeOK, NEW r \in Rows, NEW s \in Status, SetStatus(r, s)
  PROVE  execution_status' \in [Rows -> Status]
  BY DEF SetStatus, TypeOK

\* Closing a request, or going on to its second statement, keeps its type.
LEMMA RequestType ==
  ASSUME TypeOK, NEW o \in Operators,
         \/ Answer(o)
         \/ request[o] # NoRequest /\ GoOn(o)
  PROVE  request' \in [Operators -> Request]
<1>1. NoRequest \in Request
  BY DEF Request
<1>2. CASE Answer(o)
  BY <1>1, <1>2 DEF Answer, TypeOK
<1>3. CASE request[o] # NoRequest /\ GoOn(o)
  <2> DEFINE new == [request[o] EXCEPT !.at = "written"]
  <2>1. request[o] \in Request
    BY DEF TypeOK
  <2>2. new \in Request
    BY <1>3, <2>1 DEF Request
  <2>3. request' = [request EXCEPT ![o] = new]
    BY <1>3 DEF GoOn
  <2> HIDE DEF new
  <2> QED
    BY <2>2, <2>3 DEF TypeOK
<1> QED
  BY <1>2, <1>3

\* A request that is being served is about a row and carries a decision.
LEMMA ServedRequest ==
  ASSUME TypeOK, NEW o \in Operators, request[o] # NoRequest
  PROVE  /\ request[o].row \in Rows
         /\ request[o].decision \in Decision
  BY DEF TypeOK, Request

\* A request at one of its statements is being served.
LEMMA AtStatement ==
  ASSUME NEW o \in Operators, request[o].at \in {"checked", "written"}
  PROVE  request[o] # NoRequest
  BY DEF NoRequest

-----------------------------------------------------------------------------
(* Types *)

\* The initial state is well typed.
LEMMA InitTypeOK == Init => TypeOK
<1> SUFFICES ASSUME Init
             PROVE  TypeOK
  OBVIOUS
<1>1. \A t \in Threads : InitialState(t) \in GraphState
  BY DEF InitialState, GraphState, Choice, Rows
<1>2. task \in [Invokers -> [Threads -> Task]]
  BY <1>1 DEF Init, Task, Choice
<1>3. checkpoint \in [Threads -> Checkpoint]
  BY <1>1 DEF Init, Checkpoint
<1> QED
  BY <1>2, <1>3 DEF Init, TypeOK, Status, Choice, Request

\* Every step of a workflow invocation keeps the types.
LEMMA TaskStepType ==
  ASSUME TypeOK, NEW p \in Invokers, NEW t \in Threads, TaskStep(p, t)
  PROVE  TypeOK'
<1> DEFINE state == task[p][t].state
<1>1. state \in GraphState /\ task[p][t].value \in Choice
  BY DEF TypeOK, Task
<1>2. t \in Rows
  BY DEF Rows
<1>3. CASE Diagnose(p, t)
  <2>1. PICK failed \in BOOLEAN : NodeDone(p, t, "hitl_gate", [state EXCEPT !.error = failed])
    BY <1>3 DEF Diagnose
  <2>2. [state EXCEPT !.error = failed] \in GraphState
    BY <1>1 DEF GraphState
  <2> QED
    BY <1>3, <2>1, <2>2, NodeDoneType DEF Diagnose, TypeOK, rowVars
<1>4. CASE CreateIncident(p, t)
  <2>1. execution_status' \in [Rows -> Status]
    BY <1>2, <1>4 DEF CreateIncident, InsertPending, TypeOK, Status
  <2> QED
    BY <1>4, <2>1, GotoType DEF CreateIncident, TypeOK, Node
<1>5. CASE Pause(p, t)
  BY <1>5, GotoType DEF Pause, TypeOK, rowVars
<1>6. CASE PassGate(p, t)
  <2>1. [state EXCEPT !.incident = t, !.selected = task[p][t].value] \in GraphState
    BY <1>1, <1>2 DEF GraphState
  <2> QED
    BY <1>6, <2>1, NodeDoneType DEF PassGate, TypeOK, rowVars
<1>7. CASE CreateFailedIncident(p, t)
  <2>1. PICK f \in FailedIds :
          /\ execution_status' = [execution_status EXCEPT ![f] = "failed"]
          /\ NodeDone(p, t, "execute", [state EXCEPT !.incident = f])
    BY <1>7 DEF CreateFailedIncident
  <2>2. f \in Rows /\ "failed" \in Status
    BY DEF Rows, Status
  <2>3. [state EXCEPT !.incident = f] \in GraphState
    BY <1>1, <2>2 DEF GraphState
  <2> QED
    BY <1>7, <2>1, <2>2, <2>3, NodeDoneType DEF CreateFailedIncident, TypeOK
<1>8. CASE SkipExecution(p, t)
  <2>1. "complete" \in {"diagnose", "hitl_gate", "execute", "complete", "end"}
    OBVIOUS
  <2> QED
    BY <1>1, <1>8, <2>1, NodeDoneType DEF SkipExecution, TypeOK, rowVars
<1>9. CASE ExecuteOption(p, t)
  <2>1. tool_calls' \in [Threads -> [Options -> Nat]]
    BY <1>9 DEF ExecuteOption, CallTool, TypeOK
  <2>2. task' \in [Invokers -> [Threads -> Task]] /\ checkpoint' \in [Threads -> Checkpoint]
    BY <1>1, <1>9, NodeDoneType, GotoType DEF ExecuteOption, TypeOK
  <2> QED
    BY <1>9, <2>1, <2>2 DEF ExecuteOption, TypeOK, rowVars
<1>10. CASE Complete(p, t)
  <2>1. state.incident \in Rows
    BY <1>1 DEF GraphState
  <2>2. execution_status' \in [Rows -> Status]
    BY <1>10, <2>1, SetStatusType DEF Complete, Status
  <2> QED
    BY <1>1, <1>10, <2>2, NodeDoneType DEF Complete, TypeOK
<1> QED
  BY <1>3, <1>4, <1>5, <1>6, <1>7, <1>8, <1>9, <1>10 DEF TaskStep
\* Every step outside the workflow's nodes keeps the types.
LEMMA OtherStepType ==
  ASSUME TypeOK
  PROVE  /\ \A t \in Threads : StartRun(t) => TypeOK'
         /\ \A p \in Invokers, t \in Threads : WorkflowFault(p, t) => TypeOK'
         /\ \A o \in Operators, t \in Threads :
              LoadCheckpoint(o, t) \/ MarkFailed(o, t) \/ SetupFails(o, t) => TypeOK'
         /\ \A r \in Probes : ProbeStep(r) => TypeOK'
<1>1. ASSUME NEW t \in Threads, StartRun(t) PROVE TypeOK'
  <2>1. InitialState(t) \in GraphState
    BY DEF InitialState, GraphState, Choice, Rows
  <2> QED
    BY <1>1, <2>1, NodeDoneType DEF StartRun, TypeOK, rowVars, Invokers
<1>2. ASSUME NEW p \in Invokers, NEW t \in Threads, WorkflowFault(p, t) PROVE TypeOK'
  BY <1>2, GotoType DEF WorkflowFault, TaskRaises, LoseTask, TypeOK, rowVars
<1>3. ASSUME NEW o \in Operators, NEW t \in Threads,
             LoadCheckpoint(o, t) \/ MarkFailed(o, t) \/ SetupFails(o, t)
      PROVE  TypeOK'
  <2>1. o \in Invokers /\ t \in Rows
    BY DEF Invokers, Rows
  <2>2. CASE LoadCheckpoint(o, t)
    <3> DEFINE next == checkpoint[t].next
               node == IF next \in {"absent", "end"} THEN "over" ELSE next
               new  == [task[o][t] EXCEPT !.at = node, !.state = checkpoint[t].state]
    <3>1. /\ task \in [Invokers -> [Threads -> Task]]
          /\ checkpoint[t].state \in GraphState
          /\ node \in Node \union {"over"}
      BY DEF TypeOK, Checkpoint, Node
    <3>2. task' = [task EXCEPT ![o][t] = new]
      BY <2>2 DEF LoadCheckpoint
    <3> HIDE DEF node
    <3>3. new \in Task
      BY <2>1, <3>1, MovedTask
    <3> HIDE DEF new
    <3>4. task' \in [Invokers -> [Threads -> Task]]
      BY <2>1, <3>1, <3>2, <3>3
    <3> QED
      BY <2>2, <3>4 DEF LoadCheckpoint, TypeOK, rowVars
  <2>3. CASE MarkFailed(o, t)
    BY <2>1, <2>3, GotoType, SetStatusType DEF MarkFailed, TypeOK, Status
  <2>4. CASE SetupFails(o, t)
    BY <2>1, <2>4, GotoType DEF SetupFails, TypeOK, rowVars
  <2> QED
    BY <1>3, <2>2, <2>3, <2>4
<1>4. ASSUME NEW r \in Probes, ProbeStep(r) PROVE TypeOK'
  <2>1. r \in Rows
    BY DEF Rows
  <2> QED
    BY <1>4, <2>1 DEF ProbeStep, CreateProbe, FlagProbe, CleanupProbe, TypeOK, Status
<1> QED
  BY <1>1, <1>2, <1>3, <1>4

\* Every statement of a decision request keeps the types.
LEMMA RequestStepType ==
  ASSUME TypeOK, NEW o \in Operators
  PROVE  /\ \A decision \in Decision, r \in Rows : Check(o, decision, r) => TypeOK'
         /\ RequestStep(o) \/ LoseRequest(o) => TypeOK'
<1>1. ASSUME NEW decision \in Decision, NEW r \in Rows, Check(o, decision, r)
      PROVE  TypeOK'
  <2>1. [at |-> "checked", decision |-> decision, row |-> r, test |-> r \in is_test]
          \in Request
    BY DEF Request
  <2> QED
    BY <1>1, <2>1 DEF Check, TypeOK, rowVars
<1>2. CASE LoseRequest(o)
  BY <1>2, RequestType DEF LoseRequest, TypeOK, rowVars
<1>3. CASE RequestStep(o)
  <2> DEFINE r   == request[o].row
             opt == request[o].decision[2]
  <2>1. request[o] # NoRequest
    BY <1>3, AtStatement DEF RequestStep, ApproveAgentIncident, ApproveProbe,
       SimulateSuccess, HoldIncident, RejectIncident, CloseIncident, RecordAudit,
       Deciding
  <2>2. r \in Rows /\ request[o].decision \in Decision
    BY <2>1, ServedRequest
  <2>3. opt \in Choice /\ (request[o].decision[1] = "approve" => opt \in Options)
    BY <2>2 DEF Decision, Choice
  <2>4. \A s \in Status, choice \in Choice : RecordChoice(r, s, choice) =>
          /\ execution_status' \in [Rows -> Status]
          /\ selected_option_id' \in [Rows -> Choice]
    BY <2>2, SetStatusType DEF RecordChoice, TypeOK
  <2>5. CASE ApproveAgentIncident(o)
    <3> DEFINE new == [task[o][r] EXCEPT !.at = "load", !.value = opt]
    <3>1. o \in Invokers /\ r \in Threads /\ opt \in Options
      BY <2>3, <2>5 DEF ApproveAgentIncident, Deciding, Invokers
    <3>2. task \in [Invokers -> [Threads -> Task]] /\ task[o][r] \in Task
      BY <3>1 DEF TypeOK
    <3>3. task' = [task EXCEPT ![o][r] = new]
      BY <2>5 DEF ApproveAgentIncident
    <3>4. new \in Task
      BY <2>3, <3>2, ResumedTask
    <3> HIDE DEF new
    <3>5. task' \in [Invokers -> [Threads -> Task]]
      BY <3>1, <3>2, <3>3, <3>4
    <3>6. approvals' \subseteq Threads \X Options
      BY <2>5, <3>1 DEF ApproveAgentIncident, TypeOK
    <3>7. execution_status' \in [Rows -> Status] /\ selected_option_id' \in [Rows -> Choice]
      BY <2>3, <2>4, <2>5 DEF ApproveAgentIncident, Status
    <3> QED
      BY <2>5, <3>5, <3>6, <3>7, RequestType DEF ApproveAgentIncident, TypeOK
  <2>6. CASE ApproveProbe(o)
    BY <2>1, <2>3, <2>4, <2>6, RequestType DEF ApproveProbe, TypeOK, Status
  <2>7. CASE SimulateSuccess(o)
    BY <2>2, <2>7, RequestType, SetStatusType DEF SimulateSuccess, TypeOK, Status
  <2>8. CASE HoldIncident(o)
    BY <2>4, <2>8, RequestType DEF HoldIncident, TypeOK, Status, Choice
  <2>9. CASE RejectIncident(o)
    BY <2>2, <2>9, RequestType, SetStatusType DEF RejectIncident, TypeOK, Status
  <2>10. CASE CloseIncident(o)
    BY <2>1, <2>2, <2>10, RequestType, SetStatusType DEF CloseIncident, TypeOK, Status
  <2>11. CASE RecordAudit(o)
    BY <2>2, <2>11, RequestType DEF RecordAudit, TypeOK
  <2> QED
    BY <1>3, <2>5, <2>6, <2>7, <2>8, <2>9, <2>10, <2>11 DEF RequestStep
<1> QED
  BY <1>1, <1>2, <1>3

\* Every state of every execution is well typed.
THEOREM TypeCorrect == Spec => []TypeOK
<1>1. TypeOK /\ [Next]_vars => TypeOK'
  <2> SUFFICES ASSUME TypeOK, [Next]_vars
               PROVE  TypeOK'
    OBVIOUS
  <2>1. CASE Next
    BY <2>1, TaskStepType, OtherStepType, RequestStepType
       DEF Next, ResumeStep, Invokers
  <2>2. CASE UNCHANGED vars
    BY <2>2 DEF vars, TypeOK
  <2> QED
    BY <2>1, <2>2
<1> QED
  BY InitTypeOK, <1>1, PTL DEF Spec

-----------------------------------------------------------------------------
(* What the shared steps change *)

\* A completed node changes one invocation and one checkpoint, and no value an
\* invocation was started with.
LEMMA NodeDoneEffect ==
  ASSUME TypeOK, NEW p \in Invokers, NEW t \in Threads,
         NEW next \in {"diagnose", "hitl_gate", "execute", "complete", "end"},
         NEW state \in GraphState, NodeDone(p, t, next, state)
  PROVE  /\ \A q \in Invokers, u \in Threads :
              q # p \/ u # t => task'[q][u] = task[q][u]
         /\ task'[p][t].at = IF next = "end" THEN "over" ELSE next
         /\ task'[p][t].value = task[p][t].value
         /\ task'[p][t].state = state
         /\ \A u \in Threads : u # t => checkpoint'[u] = checkpoint[u]
         /\ checkpoint'[t].next = next
         /\ checkpoint'[t].state = state
<1>1. checkpoint \in [Threads -> Checkpoint] /\ task \in [Invokers -> [Threads -> Task]]
  BY DEF TypeOK
<1>2. checkpoint' = [checkpoint EXCEPT ![t] = [next |-> next, state |-> state]]
  BY DEF NodeDone, SaveCheckpoint
<1> DEFINE node == IF next = "end" THEN "over" ELSE next
           new  == [task[p][t] EXCEPT !.at = node, !.state = state]
<1>3. task' = [task EXCEPT ![p][t] = new]
  BY DEF NodeDone
<1> HIDE DEF node
<1>4. task[p][t] \in Task
  BY <1>1
<1>5. new.value = task[p][t].value /\ new.at = node /\ new.state = state
  BY <1>4, MovedTaskFields
<1> HIDE DEF new
<1>6. task'[p][t] = new
  BY <1>1, <1>3
<1>7. \A q \in Invokers, u \in Threads : q # p \/ u # t => task'[q][u] = task[q][u]
  BY <1>1, <1>3
<1>8. /\ \A u \in Threads : u # t => checkpoint'[u] = checkpoint[u]
      /\ checkpoint'[t].next = next
      /\ checkpoint'[t].state = state
  BY <1>1, <1>2
<1> QED
  BY <1>5, <1>6, <1>7, <1>8 DEF node

\* Moving an invocation changes the node it is at and nothing else.
LEMMA GotoEffect ==
  ASSUME TypeOK, NEW p \in Invokers, NEW t \in Threads, NEW node, Goto(p, t, node)
  PROVE  /\ \A q \in Invokers, u \in Threads :
              q # p \/ u # t => task'[q][u] = task[q][u]
         /\ task'[p][t].at = node
         /\ task'[p][t].value = task[p][t].value
         /\ task'[p][t].state = task[p][t].state
<1> DEFINE new == [task[p][t] EXCEPT !.at = node]
<1>1. task \in [Invokers -> [Threads -> Task]] /\ task[p][t] \in Task
  BY DEF TypeOK
<1>2. new.value = task[p][t].value /\ new.at = node /\ new.state = task[p][t].state
  BY <1>1 DEF Task
<1>3. task' = [task EXCEPT ![p][t] = new]
  BY DEF Goto
<1> HIDE DEF new
<1>4. task'[p][t] = new
  BY <1>1, <1>3
<1>5. \A q \in Invokers, u \in Threads : q # p \/ u # t => task'[q][u] = task[q][u]
  BY <1>1, <1>3
<1> QED
  BY <1>2, <1>4, <1>5

\* An UPDATE neither creates nor removes a row.
LEMMA SetStatusEffect ==
  ASSUME TypeOK, NEW r \in Rows, NEW s \in Status \ {"absent"}, SetStatus(r, s)
  PROVE  \A u \in Rows :
           /\ execution_status'[u] = "absent" <=> execution_status[u] = "absent"
           /\ u # r => execution_status'[u] = execution_status[u]
           /\ execution_status'[u] \in {execution_status[u], s}
  BY DEF SetStatus, TypeOK

-----------------------------------------------------------------------------
(* No autonomous remediation *)

\* A node that completes without a new option leaves only granted ones.
LEMMA NodeDoneGranted ==
  ASSUME TypeOK, GateInv, NEW p \in Invokers, NEW t \in Threads,
         NEW next \in {"diagnose", "hitl_gate", "execute", "complete", "end"},
         NEW state \in GraphState, NodeDone(p, t, next, state),
         Granted(t, state.selected), approvals' = approvals
  PROVE  TasksGranted' /\ CheckpointsGranted'
<1>1. \A q \in Invokers, u \in Threads : q # p \/ u # t => task'[q][u] = task[q][u]
  BY NodeDoneEffect
<1>2. task'[p][t].value = task[p][t].value /\ task'[p][t].state = state
  BY NodeDoneEffect
<1>3. \A u \in Threads : u # t => checkpoint'[u] = checkpoint[u]
  BY NodeDoneEffect
<1>4. checkpoint'[t].state = state
  BY NodeDoneEffect
<1>5. TasksGranted'
  BY <1>1, <1>2, ZenonT(40) DEF GateInv, TasksGranted, Granted
<1>6. CheckpointsGranted'
  BY <1>3, <1>4 DEF GateInv, CheckpointsGranted, Granted
<1> QED
  BY <1>5, <1>6

\* So does an invocation that only moves.
LEMMA GotoGranted ==
  ASSUME TypeOK, GateInv, NEW p \in Invokers, NEW t \in Threads, NEW node,
         Goto(p, t, node), checkpoint' = checkpoint, approvals' = approvals
  PROVE  TasksGranted' /\ CheckpointsGranted'
<1>1. \A q \in Invokers, u \in Threads : q # p \/ u # t => task'[q][u] = task[q][u]
  BY GotoEffect
<1>2. task'[p][t].value = task[p][t].value /\ task'[p][t].state = task[p][t].state
  BY GotoEffect
<1> QED
  BY <1>1, <1>2 DEF GateInv, TasksGranted, CheckpointsGranted, Granted

\* Before any alert arrives no option is held anywhere and no tool was called.
LEMMA InitGateInv == Init => GateInv
  BY DEF Init, GateInv, TasksGranted, CheckpointsGranted, Granted, InitialState,
         NoAutonomousRemediation

\* A workflow's nodes pass on granted options and call granted tools.
LEMMA TaskStepGateInv ==
  ASSUME TypeOK, GateInv, NEW p \in Invokers, NEW t \in Threads, TaskStep(p, t)
  PROVE  GateInv'
<1> DEFINE state == task[p][t].state
<1>1. /\ state \in GraphState
      /\ Granted(t, state.selected)
      /\ Granted(t, task[p][t].value)
      /\ task[p][t].value \in Choice
      /\ t \in Rows
  BY DEF TypeOK, Task, GateInv, TasksGranted, Rows
<1>2. CASE Diagnose(p, t)
  <2>1. PICK failed \in BOOLEAN : NodeDone(p, t, "hitl_gate", [state EXCEPT !.error = failed])
    BY <1>2 DEF Diagnose
  <2>2. /\ [state EXCEPT !.error = failed] \in GraphState
        /\ [state EXCEPT !.error = failed].selected = state.selected
    BY <1>1 DEF GraphState
  <2>3. approvals' = approvals /\ tool_calls' = tool_calls
    BY <1>2 DEF Diagnose
  <2>4. TasksGranted' /\ CheckpointsGranted'
    BY <1>1, <2>1, <2>2, <2>3, NodeDoneGranted
  <2> QED
    BY <2>3, <2>4 DEF GateInv, NoAutonomousRemediation
<1>3. CASE CreateIncident(p, t)
  BY <1>3, GotoGranted DEF CreateIncident, GateInv, NoAutonomousRemediation
<1>4. CASE Pause(p, t)
  BY <1>4, GotoGranted DEF Pause, GateInv, NoAutonomousRemediation
<1>5. CASE PassGate(p, t)
  <2> DEFINE new == [state EXCEPT !.incident = t, !.selected = task[p][t].value]
  <2>1. new \in GraphState
    BY <1>1 DEF GraphState
  <2>2. new.selected = task[p][t].value
    BY <1>1 DEF GraphState
  <2>3. /\ NodeDone(p, t, "execute", new)
        /\ approvals' = approvals /\ tool_calls' = tool_calls
    BY <1>5 DEF PassGate
  <2> HIDE DEF new
  <2>4. TasksGranted' /\ CheckpointsGranted'
    BY <1>1, <2>1, <2>2, <2>3, NodeDoneGranted
  <2> QED
    BY <2>3, <2>4 DEF GateInv, NoAutonomousRemediation
<1>6. CASE CreateFailedIncident(p, t)
  <2>1. PICK f \in FailedIds : NodeDone(p, t, "execute", [state EXCEPT !.incident = f])
    BY <1>6 DEF CreateFailedIncident
  <2>2. /\ [state EXCEPT !.incident = f] \in GraphState
        /\ [state EXCEPT !.incident = f].selected = state.selected
    BY <1>1 DEF GraphState, Rows
  <2>3. approvals' = approvals /\ tool_calls' = tool_calls
    BY <1>6 DEF CreateFailedIncident
  <2>4. TasksGranted' /\ CheckpointsGranted'
    BY <1>1, <2>1, <2>2, <2>3, NodeDoneGranted
  <2> QED
    BY <2>3, <2>4 DEF GateInv, NoAutonomousRemediation
<1>7. CASE SkipExecution(p, t)
  BY <1>1, <1>7, NodeDoneGranted DEF SkipExecution, GateInv, NoAutonomousRemediation
<1>8. CASE ExecuteOption(p, t)
  <2>1. PICK opt \in Options : state.selected = opt /\ CallTool(t, opt)
    BY <1>8 DEF ExecuteOption
  <2>2. <<t, opt>> \in approvals
    BY <1>1, <2>1, NamesAreDistinct DEF Granted
  <2>3. approvals' = approvals
    BY <1>8 DEF ExecuteOption
  <2>4. NoAutonomousRemediation'
    BY <2>1, <2>2, <2>3 DEF CallTool, TypeOK, GateInv, NoAutonomousRemediation
  <2>5. TasksGranted' /\ CheckpointsGranted'
    BY <1>1, <1>8, <2>3, NodeDoneGranted, GotoGranted DEF ExecuteOption
  <2> QED
    BY <2>4, <2>5 DEF GateInv
<1>9. CASE Complete(p, t)
  BY <1>1, <1>9, NodeDoneGranted DEF Complete, GateInv, NoAutonomousRemediation
<1> QED
  BY <1>2, <1>3, <1>4, <1>5, <1>6, <1>7, <1>8, <1>9 DEF TaskStep

\* An approval grants the option with which it starts a resume.
LEMMA ApprovalGateInv ==
  ASSUME TypeOK, GateInv, NEW o \in Operators, ApproveAgentIncident(o)
  PROVE  GateInv'
<1> DEFINE t   == request[o].row
           opt == request[o].decision[2]
           new == [task[o][t] EXCEPT !.at = "load", !.value = opt]
<1>1. t \in Threads /\ o \in Invokers
  BY DEF ApproveAgentIncident, Invokers
<1>2. /\ task' = [task EXCEPT ![o][t] = new]
      /\ approvals' = approvals \union {<<t, opt>>}
      /\ checkpoint' = checkpoint /\ tool_calls' = tool_calls
  BY DEF ApproveAgentIncident
<1>3. task \in [Invokers -> [Threads -> Task]] /\ task[o][t] \in Task
  BY <1>1 DEF TypeOK
<1>4. new.value = opt /\ new.state = task[o][t].state
  BY <1>3, ResumedTaskFields
<1> HIDE DEF new
<1> HIDE DEF t, opt
<1>5. /\ task'[o][t].value = opt /\ task'[o][t].state = task[o][t].state
      /\ \A q \in Invokers, u \in Threads : q # o \/ u # t => task'[q][u] = task[q][u]
  BY <1>1, <1>2, <1>3, <1>4
<1>6. TasksGranted'
  <2>1. /\ task[o][t].state.selected # None => <<t, task[o][t].state.selected>> \in approvals
        /\ \A q \in Invokers, u \in Threads :
             /\ task[q][u].value # None => <<u, task[q][u].value>> \in approvals
             /\ task[q][u].state.selected # None
                  => <<u, task[q][u].state.selected>> \in approvals
    BY <1>1 DEF GateInv, TasksGranted, Granted
  <2> SUFFICES ASSUME NEW q \in Invokers, NEW u \in Threads
               PROVE  /\ task'[q][u].value # None => <<u, task'[q][u].value>> \in approvals'
                      /\ task'[q][u].state.selected # None
                           => <<u, task'[q][u].state.selected>> \in approvals'
    BY DEF TasksGranted, Granted
  <2>2. CASE q = o /\ u = t
    BY <1>2, <1>5, <2>1, <2>2
  <2>3. CASE q # o \/ u # t
    BY <1>2, <1>5, <2>1, <2>3
  <2> QED
    BY <2>2, <2>3
<1> QED
  BY <1>2, <1>6 DEF GateInv, CheckpointsGranted, NoAutonomousRemediation, Granted

\* Whatever can carry an option to a tool holds one that was granted.
THEOREM GrantedAlways == Spec => []GateInv
<1>1. TypeOK /\ GateInv /\ [Next]_vars => GateInv'
  <2> SUFFICES ASSUME TypeOK, GateInv, [Next]_vars
               PROVE  GateInv'
    OBVIOUS
  <2>1. ASSUME NEW t \in Threads, StartRun(t) PROVE GateInv'
    <3>1. /\ InitialState(t) \in GraphState
          /\ Granted(t, InitialState(t).selected)
          /\ Webhook \in Invokers
      BY DEF InitialState, GraphState, Choice, Rows, Granted, Invokers
    <3>2. TasksGranted' /\ CheckpointsGranted'
      BY <2>1, <3>1, NodeDoneGranted DEF StartRun
    <3> QED
      BY <2>1, <3>2 DEF StartRun, GateInv, NoAutonomousRemediation
  <2>2. ASSUME NEW p \in Invokers, NEW t \in Threads, WorkflowFault(p, t) PROVE GateInv'
    BY <2>2, GotoGranted DEF WorkflowFault, TaskRaises, LoseTask, GateInv,
       NoAutonomousRemediation
  <2>3. ASSUME NEW o \in Operators, NEW t \in Threads,
               MarkFailed(o, t) \/ SetupFails(o, t)
        PROVE  GateInv'
    BY <2>3, GotoGranted DEF MarkFailed, SetupFails, Invokers, GateInv,
       NoAutonomousRemediation
  <2>4. ASSUME NEW o \in Operators, NEW t \in Threads, LoadCheckpoint(o, t)
        PROVE  GateInv'
    <3> DEFINE node == IF checkpoint[t].next \in {"absent", "end"}
                       THEN "over" ELSE checkpoint[t].next
               new  == [task[o][t] EXCEPT !.at = node, !.state = checkpoint[t].state]
    <3>1. /\ task' = [task EXCEPT ![o][t] = new]
          /\ UNCHANGED <<checkpoint, approvals, tool_calls>>
      BY <2>4 DEF LoadCheckpoint
    <3>2. task \in [Invokers -> [Threads -> Task]] /\ o \in Invokers
      BY DEF TypeOK, Invokers
    <3> HIDE DEF node
    <3>3. new.value = task[o][t].value /\ new.state = checkpoint[t].state
      BY <3>2, MovedTaskFields
    <3> HIDE DEF new
    <3>4. \A q \in Invokers, u \in Threads :
            task'[q][u] = IF q = o /\ u = t THEN new ELSE task[q][u]
      BY <3>1, <3>2
    <3>5. TasksGranted'
      <4> SUFFICES ASSUME NEW q \in Invokers, NEW u \in Threads
                   PROVE  /\ Granted(u, task[q][u].value)'
                          /\ Granted(u, task[q][u].state.selected)'
        BY DEF TasksGranted
      <4>1. CASE q = o /\ u = t
        BY <3>1, <3>2, <3>3, <3>4, <4>1
           DEF GateInv, TasksGranted, CheckpointsGranted, Granted
      <4>2. CASE ~(q = o /\ u = t)
        BY <3>1, <3>4, <4>2 DEF GateInv, TasksGranted, Granted
      <4> QED
        BY <4>1, <4>2
    <3> QED
      BY <3>1, <3>5 DEF GateInv, CheckpointsGranted, Granted, NoAutonomousRemediation
  <2>5. ASSUME UNCHANGED <<task, checkpoint, approvals, tool_calls>> PROVE GateInv'
    BY <2>5 DEF GateInv, TasksGranted, CheckpointsGranted, Granted,
       NoAutonomousRemediation
  <2>6. ASSUME NEW o \in Operators, RequestStep(o) \/ LoseRequest(o) PROVE GateInv'
    BY <2>5, <2>6, ApprovalGateInv DEF RequestStep, ApproveProbe, SimulateSuccess,
       HoldIncident, RejectIncident, CloseIncident, RecordAudit, LoseRequest
  <2>7. ASSUME NEW o \in Operators, NEW decision \in Decision, NEW r \in Rows,
               Check(o, decision, r)
        PROVE  GateInv'
    BY <2>5, <2>7 DEF Check
  <2>8. ASSUME NEW r \in Probes, ProbeStep(r) PROVE GateInv'
    BY <2>5, <2>8 DEF ProbeStep, CreateProbe, FlagProbe, CleanupProbe
  <2>9. CASE UNCHANGED vars
    BY <2>5, <2>9 DEF vars
  <2>10. CASE Next
    BY <2>1, <2>2, <2>3, <2>4, <2>6, <2>7, <2>8, <2>10, TaskStepGateInv
       DEF Next, ResumeStep, Invokers
  <2> QED
    BY <2>9, <2>10
<1> QED
  BY InitGateInv, TypeCorrect, <1>1, PTL DEF Spec

\* Governance Rule 11, for every interleaving of any number of operators and
\* any crashes: no tool is called without an operator's approval of its option.
THEOREM GateHolds == Spec => []NoAutonomousRemediation
<1>1. GateInv => NoAutonomousRemediation
  BY DEF GateInv
<1> QED
  BY GrantedAlways, <1>1, PTL

-----------------------------------------------------------------------------
(* No incident is reopened *)

\* Row r is put up for decision only when it is new.
NotReopened(r) ==
  execution_status[r] \notin {"absent", "pending_approval"} =>
    execution_status'[r] # "pending_approval"

\* An UPDATE to any other status reopens nothing.
LEMMA SetStatusKeepsClosed ==
  ASSUME TypeOK, NEW r \in Rows, NEW s \in Status \ {"absent", "pending_approval"},
         SetStatus(r, s)
  PROVE  \A u \in Rows : NotReopened(u)
  BY SetStatusEffect DEF NotReopened

\* The gate's INSERT runs once more in every resume, and every other statement
\* on the table writes a decision or an outcome: no step of the system puts an
\* incident that left 'pending_approval' back before the operators.
THEOREM NoReopening == Spec => NeverReopened
<1>1. TypeOK /\ [Next]_vars => \A r \in Rows : NotReopened(r)
  <2> SUFFICES ASSUME TypeOK, [Next]_vars
               PROVE  \A r \in Rows : NotReopened(r)
    OBVIOUS
  <2>1. ASSUME UNCHANGED execution_status PROVE \A r \in Rows : NotReopened(r)
    BY <2>1 DEF NotReopened
  <2>2. ASSUME NEW p \in Invokers, NEW t \in Threads, TaskStep(p, t)
        PROVE  \A r \in Rows : NotReopened(r)
    <3>1. CASE CreateIncident(p, t)
      BY <3>1 DEF CreateIncident, InsertPending, NotReopened, TypeOK
    <3>2. CASE CreateFailedIncident(p, t)
      BY <3>2 DEF CreateFailedIncident, NotReopened, TypeOK
    <3>3. CASE Complete(p, t)
      <4>1. task[p][t].state.incident \in Rows
        BY DEF TypeOK, Task, GraphState
      <4> QED
        BY <3>3, <4>1, SetStatusKeepsClosed DEF Complete, Status
    <3> QED
      BY <2>1, <2>2, <3>1, <3>2, <3>3 DEF TaskStep, Diagnose, Pause, PassGate,
         SkipExecution, ExecuteOption, rowVars
  <2>3. ASSUME NEW o \in Operators, NEW t \in Threads, MarkFailed(o, t)
        PROVE  \A r \in Rows : NotReopened(r)
    BY <2>3, SetStatusKeepsClosed DEF MarkFailed, Status, Rows
  <2>4. ASSUME NEW o \in Operators, RequestStep(o)
        PROVE  \A r \in Rows : NotReopened(r)
    <3>1. CASE RecordAudit(o)
      BY <2>1, <3>1 DEF RecordAudit
    <3>2. ASSUME ~RecordAudit(o) PROVE \E s \in Status \ {"absent", "pending_approval"} :
                                         SetStatus(request[o].row, s)
      BY <2>4, <3>2 DEF RequestStep, ApproveAgentIncident, ApproveProbe, RecordChoice,
         SimulateSuccess, HoldIncident, RejectIncident, CloseIncident, Status
    <3>3. request[o].row \in Rows
      BY <2>4, AtStatement, ServedRequest DEF RequestStep, ApproveAgentIncident,
         ApproveProbe, SimulateSuccess, HoldIncident, RejectIncident, CloseIncident,
         RecordAudit, Deciding
    <3> QED
      BY <3>1, <3>2, <3>3, SetStatusKeepsClosed
  <2>5. ASSUME NEW r \in Probes, ProbeStep(r) PROVE \A u \in Rows : NotReopened(u)
    BY <2>5 DEF ProbeStep, CreateProbe, FlagProbe, CleanupProbe, NotReopened, TypeOK
  <2>6. ASSUME NEW t \in Threads, StartRun(t) PROVE \A r \in Rows : NotReopened(r)
    BY <2>1, <2>6 DEF StartRun, rowVars
  <2>7. ASSUME NEW p \in Invokers, NEW t \in Threads, WorkflowFault(p, t)
        PROVE  \A r \in Rows : NotReopened(r)
    BY <2>1, <2>7 DEF WorkflowFault, TaskRaises, LoseTask, rowVars
  <2>8. ASSUME NEW o \in Operators, NEW t \in Threads,
               LoadCheckpoint(o, t) \/ SetupFails(o, t)
        PROVE  \A r \in Rows : NotReopened(r)
    BY <2>1, <2>8 DEF LoadCheckpoint, SetupFails, rowVars
  <2>9. ASSUME NEW o \in Operators, NEW decision \in Decision, NEW u \in Rows,
               Check(o, decision, u) \/ LoseRequest(o)
        PROVE  \A r \in Rows : NotReopened(r)
    BY <2>1, <2>9 DEF Check, LoseRequest, rowVars
  <2>10. CASE UNCHANGED vars
    BY <2>1, <2>10 DEF vars
  <2>11. CASE Next
    <3>1. ASSUME NEW o \in Operators, LoseRequest(o) PROVE \A r \in Rows : NotReopened(r)
      BY <2>1, <3>1 DEF LoseRequest, rowVars
    <3> QED
      BY <2>2, <2>3, <2>4, <2>5, <2>6, <2>7, <2>8, <2>9, <2>11, <3>1
         DEF Next, ResumeStep, Invokers
  <2> QED
    BY <2>10, <2>11
<1>2. (\A r \in Rows : NotReopened(r)) =>
        [\A r \in Rows : execution_status[r] \notin {"absent", "pending_approval"} =>
                           execution_status'[r] # "pending_approval"]_vars
  BY DEF NotReopened
<1> QED
  BY TypeCorrect, <1>1, <1>2, PTL DEF Spec, NeverReopened

-----------------------------------------------------------------------------
(* Open incidents can be resumed *)

\* No thread's row appears, and no row goes.
NoThreadRowAppears ==
  /\ \A t \in Threads : execution_status'[t] = "absent" <=> execution_status[t] = "absent"
  /\ \A r \in Rows : execution_status[r] # "absent" => execution_status'[r] # "absent"

\* An UPDATE is such a step.
LEMMA SetStatusKeepsRows ==
  ASSUME TypeOK, NEW r \in Rows, NEW s \in Status \ {"absent"}, SetStatus(r, s)
  PROVE  NoThreadRowAppears
  BY SetStatusEffect DEF NoThreadRowAppears, Rows

\* A step that leaves every status alone makes no thread's row appear.
LEMMA SameStatusKeepsRows ==
  ASSUME UNCHANGED execution_status
  PROVE  NoThreadRowAppears
  BY DEF NoThreadRowAppears

\* A node that completes after the diagnosis keeps the invariant.
LEMMA NodeDoneResumable ==
  ASSUME TypeOK, ResumableInv, NoThreadRowAppears, request' = request,
         NEW p \in Invokers, NEW t \in Threads, task[p][t].at # "idle",
         NEW next \in PastDiagnosis, NEW state \in GraphState,
         NodeDone(p, t, next, state)
  PROVE  ResumableInv'
<1>1. next \in {"diagnose", "hitl_gate", "execute", "complete", "end"}
  BY DEF PastDiagnosis
<1>2. /\ \A q \in Invokers, u \in Threads : q # p \/ u # t => task'[q][u] = task[q][u]
      /\ task'[p][t].at = IF next = "end" THEN "over" ELSE next
  BY <1>1, NodeDoneEffect
<1>3. \A u \in Threads : u # t => checkpoint'[u] = checkpoint[u]
  BY <1>1, NodeDoneEffect
<1>4. checkpoint'[t].next = next
  BY <1>1, NodeDoneEffect
<1>5. RowsAreDiagnosed'
  BY <1>3, <1>4 DEF ResumableInv, RowsAreDiagnosed, NoThreadRowAppears, PastDiagnosis
<1>6. TasksAreDiagnosed'
  BY <1>2, <1>3, <1>4 DEF ResumableInv, TasksAreDiagnosed
<1>7. task'[p][t].at # "idle"
  BY <1>2 DEF PastDiagnosis
<1>8. UnstartedHaveNoRow'
  BY <1>2, <1>7 DEF ResumableInv, UnstartedHaveNoRow, NoThreadRowAppears, Invokers
<1>9. ResumedHaveRows'
  BY <1>2 DEF ResumableInv, ResumedHaveRows, NoThreadRowAppears, Invokers
<1>10. RequestsHaveRows'
  BY ServedRequest DEF ResumableInv, RequestsHaveRows, NoThreadRowAppears
<1> QED
  BY <1>5, <1>6, <1>8, <1>9, <1>10 DEF ResumableInv

\* So does an invocation that moves, when it was under way and the node it moves
\* to is one its checkpoint allows.
LEMMA GotoResumable ==
  ASSUME TypeOK, ResumableInv, NoThreadRowAppears, request' = request,
         checkpoint' = checkpoint,
         NEW p \in Invokers, NEW t \in Threads, task[p][t].at # "idle",
         NEW node \in {"record_usage", "raised", "over", "lost"}, Goto(p, t, node),
         node = "record_usage" => task[p][t].at = "hitl_gate"
  PROVE  ResumableInv'
<1>1. /\ \A q \in Invokers, u \in Threads : q # p \/ u # t => task'[q][u] = task[q][u]
      /\ task'[p][t].at = node
  BY GotoEffect
<1>2. RowsAreDiagnosed'
  BY DEF ResumableInv, RowsAreDiagnosed, NoThreadRowAppears
<1>3. TasksAreDiagnosed'
  BY <1>1 DEF ResumableInv, TasksAreDiagnosed, Node
<1>4. UnstartedHaveNoRow'
  BY <1>1 DEF ResumableInv, UnstartedHaveNoRow, NoThreadRowAppears, Invokers
<1>5. ResumedHaveRows'
  BY <1>1 DEF ResumableInv, ResumedHaveRows, NoThreadRowAppears, Invokers
<1>6. RequestsHaveRows'
  BY ServedRequest DEF ResumableInv, RequestsHaveRows, NoThreadRowAppears
<1> QED
  BY <1>2, <1>3, <1>4, <1>5, <1>6 DEF ResumableInv

\* A request about a row that exists is still about it after any statement that
\* creates no thread's row and starts no invocation.
LEMMA QuietStepResumable ==
  ASSUME TypeOK, ResumableInv, NoThreadRowAppears,
         task' = task, checkpoint' = checkpoint,
         \A o \in Operators :
           \/ request'[o] = NoRequest
           \/ /\ request[o] # NoRequest
              /\ request'[o].row = request[o].row
  PROVE  ResumableInv'
<1>1. RequestsHaveRows'
  BY ServedRequest DEF ResumableInv, RequestsHaveRows, NoThreadRowAppears
<1> QED
  BY <1>1 DEF ResumableInv, RowsAreDiagnosed, TasksAreDiagnosed, UnstartedHaveNoRow,
     ResumedHaveRows, NoThreadRowAppears

\* ResumableInv holds while there are no rows, no requests and no invocations.
LEMMA InitResumable == Init => ResumableInv
<1> SUFFICES ASSUME Init
             PROVE  ResumableInv
  OBVIOUS
<1>1. \A p \in Invokers, t \in Threads : task[p][t].at = "idle"
  BY DEF Init
<1>2. \A t \in Threads : execution_status[t] = "absent"
  BY DEF Init, Rows
<1>3. \A o \in Operators : request[o] = NoRequest
  BY DEF Init
<1> QED
  BY <1>1, <1>2, <1>3 DEF ResumableInv, RowsAreDiagnosed, TasksAreDiagnosed,
     UnstartedHaveNoRow, ResumedHaveRows, RequestsHaveRows, Node, Invokers

\* The gate's INSERT creates a thread's row when no resume of it exists and its
\* diagnosis is checkpointed.
LEMMA CreateIncidentResumable ==
  ASSUME TypeOK, ResumableInv, NEW p \in Invokers, NEW t \in Threads,
         CreateIncident(p, t)
  PROVE  ResumableInv'
<1>1. /\ task[p][t].at = "hitl_gate"
      /\ request' = request /\ checkpoint' = checkpoint
      /\ Goto(p, t, "record_usage")
  BY DEF CreateIncident
<1>2. CASE execution_status[t] # "absent"
  <2>1. NoThreadRowAppears
    BY <1>2 DEF CreateIncident, InsertPending, NoThreadRowAppears, TypeOK, Rows
  <2> QED
    BY <1>1, <2>1, GotoResumable
<1>3. CASE execution_status[t] = "absent"
  <2>1. p = Webhook
    BY <1>1, <1>3 DEF ResumableInv, ResumedHaveRows, Invokers
  <2>2. checkpoint[t].next \in PastDiagnosis
    BY <1>1 DEF ResumableInv, TasksAreDiagnosed, Node
  <2>3. \A r \in Rows : r # t => execution_status'[r] = execution_status[r]
    BY DEF CreateIncident, InsertPending, TypeOK
  <2>4. execution_status'[t] # "absent"
    BY <1>3 DEF CreateIncident, InsertPending, TypeOK, Rows
  <2>5. /\ \A q \in Invokers, u \in Threads : q # p \/ u # t => task'[q][u] = task[q][u]
        /\ task'[p][t].at = "record_usage"
    BY <1>1, GotoEffect
  <2>6. RowsAreDiagnosed'
    BY <1>1, <2>2, <2>3 DEF ResumableInv, RowsAreDiagnosed, Rows
  <2>7. TasksAreDiagnosed'
    BY <1>1, <2>2, <2>5 DEF ResumableInv, TasksAreDiagnosed
  <2>8. UnstartedHaveNoRow'
    BY <2>1, <2>3, <2>5 DEF ResumableInv, UnstartedHaveNoRow, Rows, Invokers
  <2>9. ResumedHaveRows'
    <3> SUFFICES ASSUME NEW o \in Operators, NEW u \in Threads, task'[o][u].at # "idle"
                 PROVE  execution_status'[u] # "absent"
      BY DEF ResumedHaveRows
    <3>1. CASE u = t
      BY <2>4, <3>1
    <3>2. CASE u # t
      BY <2>3, <2>5, <3>2 DEF ResumableInv, ResumedHaveRows, Rows, Invokers
    <3> QED
      BY <3>1, <3>2
  <2>10. RequestsHaveRows'
    BY <1>1, <2>3, <2>4, ServedRequest DEF ResumableInv, RequestsHaveRows
  <2> QED
    BY <2>6, <2>7, <2>8, <2>9, <2>10 DEF ResumableInv
<1> QED
  BY <1>2, <1>3

\* Every step of a workflow invocation keeps the invariant.
LEMMA TaskStepResumable ==
  ASSUME TypeOK, ResumableInv, NEW p \in Invokers, NEW t \in Threads, TaskStep(p, t)
  PROVE  ResumableInv'
<1> DEFINE state == task[p][t].state
<1>1. state \in GraphState /\ task[p][t].value \in Choice /\ t \in Rows
  BY DEF TypeOK, Task, Rows
<1>2. {"hitl_gate", "execute", "complete", "end"} = PastDiagnosis
  BY DEF PastDiagnosis
<1>3. CASE Diagnose(p, t)
  <2>1. PICK failed \in BOOLEAN : NodeDone(p, t, "hitl_gate", [state EXCEPT !.error = failed])
    BY <1>3 DEF Diagnose
  <2>2. [state EXCEPT !.error = failed] \in GraphState
    BY <1>1 DEF GraphState
  <2>3. NoThreadRowAppears
    BY <1>3, SameStatusKeepsRows DEF Diagnose, rowVars
  <2> QED
    BY <1>2, <1>3, <2>1, <2>2, <2>3, NodeDoneResumable DEF Diagnose
<1>4. CASE CreateIncident(p, t)
  BY <1>4, CreateIncidentResumable
<1>5. CASE Pause(p, t)
  <2>1. NoThreadRowAppears
    BY <1>5, SameStatusKeepsRows DEF Pause, rowVars
  <2> QED
    BY <1>5, <2>1, GotoResumable DEF Pause
<1>6. CASE PassGate(p, t)
  <2> DEFINE new == [state EXCEPT !.incident = t, !.selected = task[p][t].value]
  <2>1. new \in GraphState
    BY <1>1 DEF GraphState
  <2>2. NoThreadRowAppears
    BY <1>6, SameStatusKeepsRows DEF PassGate, rowVars
  <2>3. /\ NodeDone(p, t, "execute", new) /\ request' = request
        /\ task[p][t].at # "idle"
    BY <1>6 DEF PassGate
  <2> HIDE DEF new
  <2> QED
    BY <1>2, <2>1, <2>2, <2>3, NodeDoneResumable
<1>7. CASE CreateFailedIncident(p, t)
  <2>1. PICK f \in FailedIds :
          /\ execution_status' = [execution_status EXCEPT ![f] = "failed"]
          /\ NodeDone(p, t, "execute", [state EXCEPT !.incident = f])
    BY <1>7 DEF CreateFailedIncident
  <2>2. f \in Rows /\ f \notin Threads
    BY IdsAreDisjoint DEF Rows
  <2>3. [state EXCEPT !.incident = f] \in GraphState
    BY <1>1, <2>2 DEF GraphState
  <2>4. NoThreadRowAppears
    BY <2>1, <2>2 DEF NoThreadRowAppears, TypeOK, Rows
  <2>5. request' = request /\ task[p][t].at # "idle"
    BY <1>7 DEF CreateFailedIncident
  <2> QED
    BY <1>2, <2>1, <2>3, <2>4, <2>5, NodeDoneResumable
<1>8. CASE SkipExecution(p, t)
  <2>1. NoThreadRowAppears
    BY <1>8, SameStatusKeepsRows DEF SkipExecution, rowVars
  <2> QED
    BY <1>1, <1>2, <1>8, <2>1, NodeDoneResumable DEF SkipExecution
<1>9. CASE ExecuteOption(p, t)
  <2>1. NoThreadRowAppears
    BY <1>9, SameStatusKeepsRows DEF ExecuteOption, rowVars
  <2>2. request' = request /\ task[p][t].at # "idle"
    BY <1>9 DEF ExecuteOption
  <2>3. CASE NodeDone(p, t, "complete", state)
    BY <1>1, <1>2, <2>1, <2>2, <2>3, NodeDoneResumable
  <2>4. CASE Goto(p, t, "raised") /\ UNCHANGED checkpoint
    BY <2>1, <2>2, <2>4, GotoResumable
  <2> QED
    BY <1>9, <2>3, <2>4 DEF ExecuteOption
<1>10. CASE Complete(p, t)
  <2>1. state.incident \in Rows
    BY <1>1 DEF GraphState
  <2>2. NoThreadRowAppears
    BY <1>10, <2>1, SetStatusKeepsRows DEF Complete, Status
  <2> QED
    BY <1>1, <1>2, <1>10, <2>2, NodeDoneResumable DEF Complete
<1> QED
  BY <1>3, <1>4, <1>5, <1>6, <1>7, <1>8, <1>9, <1>10 DEF TaskStep

\* run() starts a thread that has no row and no resume.
LEMMA StartRunResumable ==
  ASSUME TypeOK, ResumableInv, NEW t \in Threads, StartRun(t)
  PROVE  ResumableInv'
<1>1. /\ NodeDone(Webhook, t, "diagnose", InitialState(t))
      /\ task[Webhook][t].at = "idle"
      /\ execution_status' = execution_status /\ request' = request
  BY DEF StartRun, rowVars
<1>2. InitialState(t) \in GraphState /\ Webhook \in Invokers
  BY DEF InitialState, GraphState, Choice, Rows, Invokers
<1>3. /\ \A q \in Invokers, u \in Threads : q # Webhook \/ u # t => task'[q][u] = task[q][u]
      /\ task'[Webhook][t].at = "diagnose"
      /\ \A u \in Threads : u # t => checkpoint'[u] = checkpoint[u]
  BY <1>1, <1>2, NodeDoneEffect
<1>4. execution_status[t] = "absent"
  BY <1>1 DEF ResumableInv, UnstartedHaveNoRow
<1>5. \A o \in Operators : task[o][t].at = "idle"
  BY <1>4 DEF ResumableInv, ResumedHaveRows
<1>6. RowsAreDiagnosed'
  BY <1>1, <1>3, <1>4 DEF ResumableInv, RowsAreDiagnosed
<1>7. TasksAreDiagnosed'
  <2> SUFFICES ASSUME NEW q \in Invokers, NEW u \in Threads,
                      task'[q][u].at \in Node \ {"diagnose"}
               PROVE  checkpoint'[u].next \in PastDiagnosis
    BY DEF TasksAreDiagnosed
  <2>1. CASE u = t
    BY <1>3, <1>5, <2>1 DEF Invokers, Node
  <2>2. CASE u # t
    BY <1>3, <2>2 DEF ResumableInv, TasksAreDiagnosed
  <2> QED
    BY <2>1, <2>2
<1>8. UnstartedHaveNoRow'
  BY <1>1, <1>2, <1>3 DEF ResumableInv, UnstartedHaveNoRow
<1>9. ResumedHaveRows'
  <2>1. \A o \in Operators : o \in Invokers /\ o # Webhook
    BY NamesAreDistinct DEF Invokers
  <2> QED
    BY <1>1, <1>3, <2>1 DEF ResumableInv, ResumedHaveRows
<1>10. RequestsHaveRows'
  BY <1>1 DEF ResumableInv, RequestsHaveRows
<1> QED
  BY <1>6, <1>7, <1>8, <1>9, <1>10 DEF ResumableInv

\* A resume begins at a node its thread's checkpoint names.
LEMMA LoadResumable ==
  ASSUME TypeOK, ResumableInv, NEW o \in Operators, NEW t \in Threads,
         LoadCheckpoint(o, t)
  PROVE  ResumableInv'
<1> DEFINE node == IF checkpoint[t].next \in {"absent", "end"}
                   THEN "over" ELSE checkpoint[t].next
           new  == [task[o][t] EXCEPT !.at = node, !.state = checkpoint[t].state]
<1>1. /\ task[o][t].at = "load"
      /\ task' = [task EXCEPT ![o][t] = new]
      /\ UNCHANGED <<execution_status, request, checkpoint>>
  BY DEF LoadCheckpoint, rowVars
<1>2. /\ task \in [Invokers -> [Threads -> Task]] /\ o \in Invokers
      /\ checkpoint[t].next # "idle" /\ o # Webhook
  BY NamesAreDistinct DEF TypeOK, Checkpoint, Invokers
<1>3. node # "idle" /\ (node \in Node \ {"diagnose"} => node \in PastDiagnosis)
  BY <1>2 DEF TypeOK, Checkpoint, PastDiagnosis, Node
<1>4. node # "over" => node = checkpoint[t].next
  OBVIOUS
<1> HIDE DEF node
<1>5. new.at = node
  BY <1>2, MovedTaskFields
<1> HIDE DEF new
<1>6. /\ task'[o][t].at = node
      /\ \A q \in Invokers, u \in Threads : q # o \/ u # t => task'[q][u] = task[q][u]
  BY <1>1, <1>2, <1>5
<1>7. TasksAreDiagnosed'
  BY <1>1, <1>3, <1>4, <1>6 DEF ResumableInv, TasksAreDiagnosed, Node
<1>8. UnstartedHaveNoRow'
  BY <1>1, <1>2, <1>6 DEF ResumableInv, UnstartedHaveNoRow, Invokers
<1>9. ResumedHaveRows'
  BY <1>1, <1>6 DEF ResumableInv, ResumedHaveRows, Invokers
<1> QED
  BY <1>1, <1>7, <1>8, <1>9 DEF ResumableInv, RowsAreDiagnosed, RequestsHaveRows

\* An approval starts a resume of a thread that has a row.
LEMMA ApprovalResumable ==
  ASSUME TypeOK, ResumableInv, NEW o \in Operators, ApproveAgentIncident(o)
  PROVE  ResumableInv'
<1> DEFINE t   == request[o].row
           opt == request[o].decision[2]
           new == [task[o][t] EXCEPT !.at = "load", !.value = opt]
<1>1. /\ t \in Threads /\ o \in Invokers /\ o # Webhook /\ t \in Rows
      /\ request[o] # NoRequest
  BY AtStatement, NamesAreDistinct DEF ApproveAgentIncident, Deciding, Invokers, Rows
<1>2. /\ task' = [task EXCEPT ![o][t] = new]
      /\ checkpoint' = checkpoint
      /\ request' = [request EXCEPT ![o] = NoRequest]
      /\ SetStatus(t, "executing")
  BY DEF ApproveAgentIncident, Answer, RecordChoice
<1>3. task \in [Invokers -> [Threads -> Task]] /\ task[o][t] \in Task
  BY <1>1 DEF TypeOK
<1>4. new.at = "load"
  BY <1>3, ResumedTaskFields
<1> HIDE DEF new
<1>5. execution_status[t] # "absent"
  BY <1>1 DEF ResumableInv, RequestsHaveRows
<1>6. NoThreadRowAppears
  BY <1>1, <1>2, SetStatusKeepsRows DEF Status
<1> HIDE DEF t, opt
<1>7. /\ task'[o][t].at = "load"
      /\ \A q \in Invokers, u \in Threads : q # o \/ u # t => task'[q][u] = task[q][u]
  BY <1>1, <1>2, <1>3, <1>4
<1>8. RowsAreDiagnosed'
  BY <1>2, <1>6 DEF ResumableInv, RowsAreDiagnosed, NoThreadRowAppears
<1>9. TasksAreDiagnosed'
  BY <1>2, <1>7 DEF ResumableInv, TasksAreDiagnosed, Node
<1>10. UnstartedHaveNoRow'
  BY <1>1, <1>6, <1>7 DEF ResumableInv, UnstartedHaveNoRow, NoThreadRowAppears, Invokers
<1>11. ResumedHaveRows'
  BY <1>5, <1>6, <1>7 DEF ResumableInv, ResumedHaveRows, NoThreadRowAppears, Invokers
<1>12. RequestsHaveRows'
  BY <1>2, <1>6, ServedRequest DEF ResumableInv, RequestsHaveRows, NoThreadRowAppears, TypeOK
<1> QED
  BY <1>8, <1>9, <1>10, <1>11, <1>12 DEF ResumableInv

\* Every other statement creates no thread's row and starts no invocation.
LEMMA RequestStepResumable ==
  ASSUME TypeOK, ResumableInv, NEW o \in Operators
  PROVE  /\ \A decision \in Decision, r \in Rows : Check(o, decision, r) => ResumableInv'
         /\ RequestStep(o) \/ LoseRequest(o) => ResumableInv'
<1>1. ASSUME NEW decision \in Decision, NEW r \in Rows, Check(o, decision, r)
      PROVE  ResumableInv'
  <2>1. /\ execution_status[r] # "absent" /\ execution_status' = execution_status
        /\ task' = task /\ checkpoint' = checkpoint
        /\ request' = [request EXCEPT ![o] = [at |-> "checked", decision |-> decision,
                                             row |-> r, test |-> r \in is_test]]
    BY <1>1 DEF Check, rowVars
  <2>2. request'[o].row = r /\ \A q \in Operators : q # o => request'[q] = request[q]
    BY <2>1 DEF TypeOK
  <2>3. RequestsHaveRows'
    BY <2>1, <2>2 DEF ResumableInv, RequestsHaveRows
  <2> QED
    BY <2>1, <2>3 DEF ResumableInv, RowsAreDiagnosed, TasksAreDiagnosed,
       UnstartedHaveNoRow, ResumedHaveRows
<1>2. ASSUME Answer(o) \/ (request[o] # NoRequest /\ GoOn(o))
      PROVE  \A q \in Operators : \/ request'[q] = NoRequest
                                  \/ /\ request[q] # NoRequest
                                     /\ request'[q].row = request[q].row
  <2>1. CASE Answer(o)
    BY <2>1 DEF Answer, TypeOK
  <2>2. CASE request[o] # NoRequest /\ GoOn(o)
    <3> DEFINE new == [request[o] EXCEPT !.at = "written"]
    <3>1. request[o] \in Request /\ request[o] # NoRequest
      BY <2>2 DEF TypeOK
    <3>2. new.row = request[o].row
      BY <3>1 DEF Request
    <3>3. request' = [request EXCEPT ![o] = new]
      BY <2>2 DEF GoOn
    <3> HIDE DEF new
    <3> QED
      BY <3>1, <3>2, <3>3 DEF TypeOK
  <2> QED
    BY <1>2, <2>1, <2>2
<1>3. CASE LoseRequest(o)
  <2>1. NoThreadRowAppears
    BY <1>3, SameStatusKeepsRows DEF LoseRequest, rowVars
  <2>2. Answer(o) /\ task' = task /\ checkpoint' = checkpoint
    BY <1>3 DEF LoseRequest
  <2>3. \A q \in Operators : \/ request'[q] = NoRequest
                             \/ /\ request[q] # NoRequest
                                /\ request'[q].row = request[q].row
    BY <1>2, <2>2
  <2> QED
    BY <2>1, <2>2, <2>3, QuietStepResumable
<1>4. CASE RequestStep(o)
  <2>1. request[o] # NoRequest
    BY <1>4, AtStatement DEF RequestStep, ApproveAgentIncident, ApproveProbe,
       SimulateSuccess, HoldIncident, RejectIncident, CloseIncident, RecordAudit,
       Deciding
  <2>2. request[o].row \in Rows
    BY <2>1, ServedRequest
  <2>3. CASE RecordAudit(o)
    <3>1. NoThreadRowAppears
      BY <2>3, SameStatusKeepsRows DEF RecordAudit
    <3>2. Answer(o) /\ task' = task /\ checkpoint' = checkpoint
      BY <2>3 DEF RecordAudit
    <3>3. \A q \in Operators : \/ request'[q] = NoRequest
                               \/ /\ request[q] # NoRequest
                                  /\ request'[q].row = request[q].row
      BY <1>2, <3>2
    <3> QED
      BY <3>1, <3>2, <3>3, QuietStepResumable
  <2>4. CASE \/ ApproveProbe(o) \/ SimulateSuccess(o) \/ HoldIncident(o)
             \/ RejectIncident(o) \/ CloseIncident(o)
    <3>1. PICK s \in Status \ {"absent"} : SetStatus(request[o].row, s)
      BY <2>4 DEF ApproveProbe, RecordChoice, SimulateSuccess, HoldIncident,
         RejectIncident, CloseIncident, Status
    <3>2. NoThreadRowAppears
      BY <2>2, <3>1, SetStatusKeepsRows
    <3>3. task' = task /\ checkpoint' = checkpoint
      BY <2>4 DEF ApproveProbe, SimulateSuccess, HoldIncident, RejectIncident,
         CloseIncident
    <3>4. Answer(o) \/ (request[o] # NoRequest /\ GoOn(o))
      BY <2>1, <2>4 DEF ApproveProbe, SimulateSuccess, HoldIncident, RejectIncident,
         CloseIncident
    <3> QED
      BY <1>2, <3>2, <3>3, <3>4, QuietStepResumable
  <2> QED
    BY <1>4, <2>3, <2>4, ApprovalResumable DEF RequestStep
<1> QED
  BY <1>1, <1>3, <1>4

\* Every step keeps the invariant.
LEMMA StepResumable ==
  ASSUME TypeOK, ResumableInv, [Next]_vars
  PROVE  ResumableInv'
<1>1. ASSUME NEW p \in Invokers, NEW t \in Threads, WorkflowFault(p, t)
      PROVE  ResumableInv'
  <2>1. NoThreadRowAppears
    BY <1>1, SameStatusKeepsRows DEF WorkflowFault, TaskRaises, LoseTask, rowVars
  <2> QED
    BY <1>1, <2>1, GotoResumable DEF WorkflowFault, TaskRaises, LoseTask, Node
<1>2. ASSUME NEW o \in Operators, NEW t \in Threads, SetupFails(o, t)
      PROVE  ResumableInv'
  <2>1. NoThreadRowAppears
    BY <1>2, SameStatusKeepsRows DEF SetupFails, rowVars
  <2> QED
    BY <1>2, <2>1, GotoResumable DEF SetupFails, Invokers
<1>3. ASSUME NEW o \in Operators, NEW t \in Threads, MarkFailed(o, t)
      PROVE  ResumableInv'
  <2>1. NoThreadRowAppears
    BY <1>3, SetStatusKeepsRows DEF MarkFailed, Status, Rows
  <2> QED
    BY <1>3, <2>1, GotoResumable DEF MarkFailed, Invokers
<1>4. ASSUME NEW r \in Probes, ProbeStep(r)
      PROVE  ResumableInv'
  <2>1. r \in Rows /\ r \notin Threads
    BY IdsAreDisjoint DEF Rows
  <2>2. NoThreadRowAppears
    BY <1>4, <2>1 DEF ProbeStep, CreateProbe, FlagProbe, CleanupProbe,
       NoThreadRowAppears, TypeOK, Rows
  <2>3. task' = task /\ checkpoint' = checkpoint /\ request' = request
    BY <1>4 DEF ProbeStep, CreateProbe, FlagProbe, CleanupProbe
  <2> QED
    BY <2>2, <2>3, QuietStepResumable
<1>5. CASE UNCHANGED vars
  BY <1>5 DEF vars, ResumableInv, RowsAreDiagnosed, TasksAreDiagnosed,
     UnstartedHaveNoRow, ResumedHaveRows, RequestsHaveRows
<1>6. CASE Next
  BY <1>1, <1>2, <1>3, <1>4, <1>6, TaskStepResumable, StartRunResumable, LoadResumable,
     RequestStepResumable DEF Next, ResumeStep, Invokers
<1> QED
  BY <1>5, <1>6

\* An incident's row appears only after the thread's diagnosis was checkpointed,
\* and no invocation takes that checkpoint back to before the gate.
THEOREM ResumableAlways == Spec => []ResumableInv
  BY InitResumable, StepResumable, TypeCorrect, PTL DEF Spec

\* An incident the operators see as open, or have approved, has a checkpoint at
\* the gate or later: an approval never starts the graph afresh.
THEOREM OpenIncidentsResume == Spec => []PendingIsResumable
<1>1. ResumableInv => PendingIsResumable
  BY DEF ResumableInv, RowsAreDiagnosed, PendingIsResumable, PastDiagnosis
<1> QED
  BY <1>1, ResumableAlways, PTL

-----------------------------------------------------------------------------
(* The pipeline implements the remediation gate *)

\* What the abstract gate sees of a step, when it is none of the three below.
Invisible ==
  /\ NoThreadRowAppears
  /\ approvals' = approvals
  /\ tool_calls' = tool_calls

\* Every step but three kinds is a stuttering step of the gate: the INSERT of a
\* pending incident, the approval of an agent's incident and a tool call.
LEMMA VisibleSteps ==
  ASSUME TypeOK, [Next]_vars
  PROVE  \/ Invisible
         \/ \E p \in Invokers, t \in Threads : CreateIncident(p, t) \/ ExecuteOption(p, t)
         \/ \E o \in Operators : ApproveAgentIncident(o)
<1>1. ASSUME NEW p \in Invokers, NEW t \in Threads, TaskStep(p, t),
             ~CreateIncident(p, t), ~ExecuteOption(p, t)
      PROVE  Invisible
  <2>1. approvals' = approvals /\ tool_calls' = tool_calls
    BY <1>1 DEF TaskStep, Diagnose, Pause, PassGate, CreateFailedIncident,
       SkipExecution, Complete
  <2>2. CASE CreateFailedIncident(p, t)
    <3>1. PICK f \in FailedIds :
            execution_status' = [execution_status EXCEPT ![f] = "failed"]
      BY <2>2 DEF CreateFailedIncident
    <3>2. f \in Rows /\ f \notin Threads
      BY IdsAreDisjoint DEF Rows
    <3>3. NoThreadRowAppears
      BY <3>1, <3>2 DEF NoThreadRowAppears, TypeOK, Rows
    <3> QED
      BY <2>1, <3>3 DEF Invisible
  <2>3. CASE Complete(p, t)
    <3>1. task[p][t].state.incident \in Rows
      BY DEF TypeOK, Task, GraphState
    <3>2. NoThreadRowAppears
      BY <2>3, <3>1, SetStatusKeepsRows DEF Complete, Status
    <3> QED
      BY <2>1, <3>2 DEF Invisible
  <2>4. ASSUME ~CreateFailedIncident(p, t), ~Complete(p, t)
        PROVE  NoThreadRowAppears
    BY <1>1, <2>4, SameStatusKeepsRows DEF TaskStep, Diagnose, Pause, PassGate,
       SkipExecution, rowVars
  <2> QED
    BY <2>1, <2>2, <2>3, <2>4 DEF Invisible
<1>2. ASSUME NEW t \in Threads, StartRun(t) PROVE Invisible
  BY <1>2, SameStatusKeepsRows DEF StartRun, rowVars, Invisible
<1>3. ASSUME NEW p \in Invokers, NEW t \in Threads, WorkflowFault(p, t)
      PROVE  Invisible
  BY <1>3, SameStatusKeepsRows DEF WorkflowFault, TaskRaises, LoseTask, rowVars, Invisible
<1>4. ASSUME NEW o \in Operators, NEW t \in Threads,
             LoadCheckpoint(o, t) \/ SetupFails(o, t)
      PROVE  Invisible
  BY <1>4, SameStatusKeepsRows DEF LoadCheckpoint, SetupFails, rowVars, Invisible
<1>5. ASSUME NEW o \in Operators, NEW t \in Threads, MarkFailed(o, t) PROVE Invisible
  BY <1>5, SetStatusKeepsRows DEF MarkFailed, Status, Rows, Invisible
<1>6. ASSUME NEW o \in Operators, NEW decision \in Decision, NEW r \in Rows,
             Check(o, decision, r)
      PROVE  Invisible
  BY <1>6, SameStatusKeepsRows DEF Check, rowVars, Invisible
<1>7. ASSUME NEW o \in Operators, LoseRequest(o) PROVE Invisible
  BY <1>7, SameStatusKeepsRows DEF LoseRequest, rowVars, Invisible
<1>8. ASSUME NEW o \in Operators, RequestStep(o), ~ApproveAgentIncident(o)
      PROVE  Invisible
  <2>1. approvals' = approvals /\ tool_calls' = tool_calls
    BY <1>8 DEF RequestStep, ApproveProbe, SimulateSuccess, HoldIncident,
       RejectIncident, CloseIncident, RecordAudit
  <2>2. request[o].row \in Rows
    BY <1>8, AtStatement, ServedRequest DEF RequestStep, ApproveProbe, SimulateSuccess,
       HoldIncident, RejectIncident, CloseIncident, RecordAudit, Deciding
  <2>3. CASE RecordAudit(o)
    BY <2>1, <2>3, SameStatusKeepsRows DEF RecordAudit, Invisible
  <2>4. ASSUME ~RecordAudit(o)
        PROVE  \E s \in Status \ {"absent"} : SetStatus(request[o].row, s)
    BY <1>8, <2>4 DEF RequestStep, ApproveProbe, RecordChoice, SimulateSuccess,
       HoldIncident, RejectIncident, CloseIncident, Status
  <2> QED
    BY <2>1, <2>2, <2>3, <2>4, SetStatusKeepsRows DEF Invisible
<1>9. ASSUME NEW r \in Probes, ProbeStep(r) PROVE Invisible
  <2>1. r \in Rows /\ r \notin Threads
    BY IdsAreDisjoint DEF Rows
  <2> QED
    BY <1>9, <2>1 DEF ProbeStep, CreateProbe, FlagProbe, CleanupProbe,
       NoThreadRowAppears, TypeOK, Rows, Invisible
<1>10. CASE UNCHANGED vars
  BY <1>10, SameStatusKeepsRows DEF vars, Invisible
<1>11. CASE Next
  BY <1>1, <1>2, <1>3, <1>4, <1>5, <1>6, <1>7, <1>8, <1>9, <1>11
     DEF Next, ResumeStep, Invokers
<1> QED
  BY <1>10, <1>11

\* The gate's view of the state.
Proposed  == {t \in Threads : execution_status[t] # "absent"}
Performed == {c \in Threads \X Options : tool_calls[c[1]][c[2]] > 0}

\* A step that changes neither the agents' rows, nor the approvals, nor the tool
\* calls is a stuttering step of the remediation gate.
LEMMA InvisibleStutters ==
  ASSUME Invisible
  PROVE  Proposed' = Proposed /\ Performed' = Performed /\ approvals' = approvals
  BY DEF Invisible, NoThreadRowAppears, Proposed, Performed

\* The pipeline of webhook tasks, incident rows, decision requests and resumed
\* workflows implements the abstract gate: each of its steps proposes an
\* incident, grants an option of a proposed incident, performs a granted option,
\* or is invisible to the gate.
THEOREM PipelineImplementsGate == Spec => RefinesGate
<1>1. Init => Gate!Init
  <2> SUFFICES ASSUME Init
               PROVE  Gate!Init
    OBVIOUS
  <2>1. Proposed = {}
    BY DEF Init, Proposed, Rows
  <2>2. \A t \in Threads, opt \in Options : tool_calls[t][opt] = 0
    BY DEF Init
  <2>3. Performed = {}
    BY <2>2 DEF Performed
  <2> QED
    BY <2>1, <2>3 DEF Gate!Init, Init, Proposed, Performed
<1>2. TypeOK /\ GateInv /\ ResumableInv /\ [Next]_vars => [Gate!Next]_(Gate!vars)
  <2> SUFFICES ASSUME TypeOK, GateInv, ResumableInv, [Next]_vars
               PROVE  [Gate!Next]_(Gate!vars)
    OBVIOUS
  <2>1. CASE Invisible
    BY <2>1, InvisibleStutters DEF Gate!vars, Proposed, Performed
  <2>2. ASSUME NEW p \in Invokers, NEW t \in Threads, CreateIncident(p, t)
        PROVE  Gate!Next
    <3>1. Proposed' = Proposed \union {t}
      BY <2>2 DEF CreateIncident, InsertPending, Proposed, TypeOK, Rows
    <3>2. approvals' = approvals /\ Performed' = Performed
      BY <2>2 DEF CreateIncident, Performed
    <3> QED
      BY <3>1, <3>2 DEF Gate!Next, Gate!Propose, Proposed, Performed
  <2>3. ASSUME NEW o \in Operators, ApproveAgentIncident(o)
        PROVE  Gate!Next
    <3> DEFINE t   == request[o].row
               opt == request[o].decision[2]
    <3>1. /\ t \in Threads /\ request[o] # NoRequest
          /\ approvals' = approvals \union {<<t, opt>>}
          /\ tool_calls' = tool_calls
          /\ SetStatus(t, "executing")
      BY <2>3, AtStatement DEF ApproveAgentIncident, Deciding, RecordChoice
    <3>2. opt \in Options
      BY <2>3, <3>1, ServedRequest DEF ApproveAgentIncident, Deciding, Decision
    <3>3. t \in Proposed
      BY <3>1 DEF ResumableInv, RequestsHaveRows, Proposed
    <3>4. NoThreadRowAppears
      BY <3>1, SetStatusKeepsRows DEF Status, Rows
    <3> HIDE DEF t, opt
    <3>5. Proposed' = Proposed /\ Performed' = Performed
      BY <3>1, <3>4 DEF NoThreadRowAppears, Proposed, Performed
    <3> QED
      BY <3>1, <3>2, <3>3, <3>5 DEF Gate!Next, Gate!Grant, Proposed, Performed
  <2>4. ASSUME NEW p \in Invokers, NEW t \in Threads, ExecuteOption(p, t)
        PROVE  Gate!Next
    <3>1. PICK opt \in Options : task[p][t].state.selected = opt /\ CallTool(t, opt)
      BY <2>4 DEF ExecuteOption
    <3>2. <<t, opt>> \in approvals
      BY <3>1, NamesAreDistinct DEF GateInv, TasksGranted, Granted
    <3>3. Proposed' = Proposed /\ approvals' = approvals
      BY <2>4 DEF ExecuteOption, rowVars, Proposed
    <3>4. Performed' = Performed \union {<<t, opt>>}
      <4>1. \A u \in Threads, x \in Options :
              tool_calls'[u][x] > 0 <=> tool_calls[u][x] > 0 \/ (u = t /\ x = opt)
        BY <3>1 DEF CallTool, TypeOK
      <4> QED
        BY <4>1 DEF Performed
    <3> QED
      BY <3>2, <3>3, <3>4 DEF Gate!Next, Gate!Perform, Proposed, Performed
  <2> QED
    BY <2>1, <2>2, <2>3, <2>4, VisibleSteps
<1> QED
  BY <1>1, <1>2, TypeCorrect, GrantedAlways, ResumableAlways, PTL
     DEF Spec, RefinesGate, Gate!Spec

-----------------------------------------------------------------------------
(* One decision at a time *)

\* What a step may do to the rows without disturbing a request or the audit trail:
\* it creates rows, settles a failed incident, or an approved one.
Undisturbed ==
  \A r \in Rows : \/ execution_status'[r] = execution_status[r]
                  \/ execution_status[r] = "absent"
                  \/ r \in FailedIds
                  \/ r \in Threads /\ execution_status[r] \in {"executing", "executed", "failed"}

\* The requests and the audit trail stay as they should be over such a step.
LEMMA RequestsKept ==
  ASSUME TypeOK, SerialInv, Undisturbed, request' = request, audit_events' = audit_events
  PROVE  (\A o \in Operators : RequestInv(o))' /\ AuditInv'
<1>1. audit_events \subseteq Rows
  BY DEF TypeOK
<1>2. \A r \in Threads : r \notin Probes /\ r \notin FailedIds
  BY IdsAreDisjoint
<1>3. \A r \in Probes : r \notin FailedIds
  BY IdsAreDisjoint
<1>4. AuditInv'
  BY <1>1 DEF SerialInv, AuditInv, FailedInv, Undisturbed
<1>5. ASSUME NEW o \in Operators PROVE RequestInv(o)'
  <2> DEFINE r == request[o].row
  <2>1. RequestInv(o)
    BY DEF SerialInv
  <2>2. CASE request[o].at = "checked"
    <3>1. r \in Threads \union Probes /\ r \in Rows
      BY <2>1, <2>2 DEF RequestInv, Rows
    <3>2. execution_status'[r] = execution_status[r]
      BY <1>2, <1>3, <2>1, <2>2, <3>1 DEF RequestInv, Undisturbed
    <3> QED
      BY <2>1, <2>2, <3>2 DEF RequestInv
  <2>3. CASE request[o].at = "written"
    <3>1. r \in Rows
      BY <2>3, AtStatement, ServedRequest
    <3>2. execution_status'[r] = execution_status[r]
      BY <1>2, <1>3, <2>1, <2>3, <3>1 DEF RequestInv, Undisturbed, SerialInv, FailedInv
    <3> QED
      BY <2>1, <2>3, <3>2 DEF RequestInv
  <2>4. CASE request[o].at \notin {"checked", "written"}
    BY <2>4 DEF RequestInv
  <2> QED
    BY <2>2, <2>3, <2>4
<1> QED
  BY <1>4, <1>5

\* All that ThreadInv speaks of is as it was for this thread.
Untouched(t) ==
  /\ execution_status'[t] = execution_status[t]
  /\ selected_option_id'[t] = selected_option_id[t]
  /\ tool_calls'[t] = tool_calls[t]
  /\ checkpoint'[t] = checkpoint[t]
  /\ \A p \in Invokers : task'[p][t] = task[p][t]

\* Then the thread keeps its invariant.
LEMMA UntouchedThread ==
  ASSUME NEW t \in Threads, ThreadInv(t), Untouched(t)
  PROVE  ThreadInv(t)'
<1>1. task'[Webhook][t] = task[Webhook][t] /\ \A o \in Operators : task'[o][t] = task[o][t]
  BY DEF Untouched, Invokers
<1>2. WebhookRun(t)'
  BY <1>1 DEF ThreadInv, WebhookRun, Untouched
<1>3. PausedAtGate(t)'
  BY <1>1 DEF ThreadInv, PausedAtGate, Untouched
<1>4. CalledOnce(t)'
  BY <1>1 DEF ThreadInv, CalledOnce, Untouched
<1>5. \A o \in Operators : ResumedOnce(o, t)'
  BY <1>1 DEF ThreadInv, ResumedOnce, Untouched
<1> QED
  BY <1>2, <1>3, <1>4, <1>5 DEF ThreadInv

\* A node that completes changes its own thread.
LEMMA NodeDoneUntouched ==
  ASSUME TypeOK, NEW p \in Invokers, NEW t \in Threads,
         NEW next \in {"diagnose", "hitl_gate", "execute", "complete", "end"},
         NEW state \in GraphState, NodeDone(p, t, next, state),
         NEW u \in Threads \ {t},
         execution_status'[u] = execution_status[u],
         selected_option_id' = selected_option_id,
         tool_calls'[u] = tool_calls[u]
  PROVE  Untouched(u)
  BY NodeDoneEffect DEF Untouched

\* So does an invocation that moves.
LEMMA GotoUntouched ==
  ASSUME TypeOK, NEW p \in Invokers, NEW t \in Threads, NEW node, Goto(p, t, node),
         checkpoint' = checkpoint, NEW u \in Threads \ {t},
         execution_status'[u] = execution_status[u],
         selected_option_id' = selected_option_id,
         tool_calls' = tool_calls
  PROVE  Untouched(u)
  BY GotoEffect DEF Untouched

\* An operator is not the webhook.
LEMMA OperatorInvokes ==
  ASSUME NEW o \in Operators
  PROVE  o \in Invokers /\ o # Webhook
  BY NamesAreDistinct DEF Invokers

\* The webhook's invocation at work finds no row and no resume.
LEMMA WebhookAlone ==
  ASSUME SerialInv, NEW t \in Threads,
         task[Webhook][t].at \notin {"record_usage", "over", "lost"}
  PROVE  /\ execution_status[t] = "absent"
         /\ \A o \in Operators : task[o][t].at = "idle"
  BY DEF SerialInv, ThreadInv, WebhookRun, ResumedOnce

\* A thread whose row is not there keeps its invariant over a node of the webhook's
\* run that opens no row.
LEMMA WebhookNodeDone ==
  ASSUME TypeOK, SerialInv, NEW t \in Threads,
         task[Webhook][t].at \notin {"record_usage", "over", "lost"},
         NEW next \in {"diagnose", "hitl_gate", "execute", "complete", "end"},
         NEW state \in GraphState, NodeDone(Webhook, t, next, state),
         state.selected = None,
         next \in {"diagnose", "hitl_gate"} => state.incident = t,
         next \in {"execute", "complete"} => state.incident \in FailedIds,
         execution_status'[t] = execution_status[t],
         selected_option_id' = selected_option_id,
         tool_calls' = tool_calls
  PROVE  ThreadInv(t)'
<1>1. /\ execution_status'[t] = "absent"
      /\ \A o \in Operators : task[o][t].at = "idle"
  BY WebhookAlone
<1>2. Webhook \in Invokers
  BY DEF Invokers
<1>3. /\ \A o \in Operators : task'[o][t] = task[o][t]
      /\ task'[Webhook][t].at = IF next = "end" THEN "over" ELSE next
      /\ task'[Webhook][t].value = task[Webhook][t].value
      /\ task'[Webhook][t].state = state
  BY <1>2, NodeDoneEffect, OperatorInvokes
<1>4. checkpoint'[t] = [next |-> next, state |-> state]
  BY DEF NodeDone, SaveCheckpoint, TypeOK
<1>5. ThreadInv(t)
  BY DEF SerialInv
<1>6. WebhookRun(t)'
  <2>1. WebhookRun(t)
    BY <1>5 DEF ThreadInv
  <2> QED
    BY <1>1, <1>3, <1>4, <2>1 DEF WebhookRun
<1>7. PausedAtGate(t)'
  BY <1>1 DEF PausedAtGate
<1>8. CalledOnce(t)'
  BY <1>1, <1>3, <1>5 DEF ThreadInv, CalledOnce
<1>9. \A o \in Operators : ResumedOnce(o, t)'
  BY <1>1, <1>3 DEF ResumedOnce
<1> QED
  BY <1>6, <1>7, <1>8, <1>9 DEF ThreadInv

\* The webhook's run stops, which changes nothing else.
LEMMA WebhookStops ==
  ASSUME TypeOK, SerialInv, NEW t \in Threads, NEW node \in {"over", "lost"},
         Goto(Webhook, t, node),
         UNCHANGED <<execution_status, selected_option_id, checkpoint, tool_calls>>
  PROVE  ThreadInv(t)'
<1>1. Webhook \in Invokers /\ ThreadInv(t)
  BY DEF Invokers, SerialInv
<1>2. /\ \A o \in Operators : task'[o][t] = task[o][t]
      /\ task'[Webhook][t].at = node
      /\ task'[Webhook][t].value = task[Webhook][t].value
      /\ task'[Webhook][t].state = task[Webhook][t].state
  BY <1>1, GotoEffect, OperatorInvokes
<1>3. WebhookRun(t)'
  BY <1>1, <1>2 DEF ThreadInv, WebhookRun
<1>4. PausedAtGate(t)' /\ CalledOnce(t)'
  BY <1>1, <1>2 DEF ThreadInv, PausedAtGate, CalledOnce
<1>5. \A o \in Operators : ResumedOnce(o, t)'
  BY <1>1, <1>2 DEF ThreadInv, ResumedOnce
<1> QED
  BY <1>3, <1>4, <1>5 DEF ThreadInv

\* Every node of the webhook's run keeps its thread's invariant and disturbs no
\* request.
LEMMA WebhookStepSerial ==
  ASSUME TypeOK, SerialInv, NEW t \in Threads, StartRun(t) \/ TaskStep(Webhook, t)
  PROVE  SerialInv'
<1> DEFINE run == task[Webhook][t]
<1>1. /\ ThreadInv(t) /\ WebhookRun(t) /\ Webhook \in Invokers
      /\ run.state \in GraphState /\ t \in Rows
  BY DEF SerialInv, ThreadInv, Invokers, TypeOK, Task, Rows
<1>2. ASSUME ThreadInv(t)', \A u \in Threads \ {t} : Untouched(u), Undisturbed,
             request' = request, audit_events' = audit_events,
             FailedInv'
      PROVE  SerialInv'
  <2>1. \A u \in Threads : ThreadInv(u)'
    BY <1>2, UntouchedThread DEF SerialInv
  <2> QED
    BY <1>2, <2>1, RequestsKept DEF SerialInv
<1>3. ASSUME execution_status' = execution_status
      PROVE  Undisturbed /\ FailedInv'
    BY <1>3 DEF Undisturbed, FailedInv, SerialInv
<1>4. CASE StartRun(t)
  <2>1. /\ InitialState(t) \in GraphState
        /\ InitialState(t).selected = None /\ InitialState(t).incident = t
    BY DEF InitialState, GraphState, Choice, Rows
  <2>2. NodeDone(Webhook, t, "diagnose", InitialState(t)) /\ run.at = "idle"
    BY <1>4 DEF StartRun
  <2>3. UNCHANGED <<execution_status, selected_option_id, audit_events, request, tool_calls>>
    BY <1>4 DEF StartRun, rowVars
  <2>4. ThreadInv(t)'
    BY <2>1, <2>2, <2>3, WebhookNodeDone
  <2>5. \A u \in Threads \ {t} : Untouched(u)
    BY <1>1, <2>1, <2>2, <2>3, NodeDoneUntouched
  <2> QED
    BY <1>2, <1>3, <2>3, <2>4, <2>5
<1>5. CASE Diagnose(Webhook, t)
  <2>1. PICK failed \in BOOLEAN :
          NodeDone(Webhook, t, "hitl_gate", [run.state EXCEPT !.error = failed])
    BY <1>5 DEF Diagnose
  <2> DEFINE new == [run.state EXCEPT !.error = failed]
  <2>2. /\ new \in GraphState
        /\ new.selected = run.state.selected /\ new.incident = run.state.incident
    BY <1>1 DEF GraphState
  <2>3. run.at = "diagnose"
        /\ UNCHANGED <<execution_status, selected_option_id, audit_events, request, tool_calls>>
    BY <1>5 DEF Diagnose, rowVars
  <2> HIDE DEF new
  <2>4. new.selected = None /\ new.incident = t
    BY <1>1, <2>2, <2>3 DEF WebhookRun
  <2>5. NodeDone(Webhook, t, "hitl_gate", new)
    BY <2>1 DEF new
  <2>6. ThreadInv(t)'
    BY <2>2, <2>3, <2>4, <2>5, WebhookNodeDone
  <2>7. \A u \in Threads \ {t} : Untouched(u)
    BY <1>1, <2>2, <2>3, <2>5, NodeDoneUntouched
  <2> QED
    BY <1>2, <1>3, <2>3, <2>6, <2>7
<1>6. CASE CreateIncident(Webhook, t)
  <2>1. /\ run.at = "hitl_gate" /\ ~run.state.error
        /\ Goto(Webhook, t, "record_usage") /\ InsertPending(t)
        /\ UNCHANGED <<selected_option_id, audit_events, request, checkpoint, tool_calls>>
    BY <1>6 DEF CreateIncident
  <2>2. /\ execution_status[t] = "absent"
        /\ \A o \in Operators : task[o][t].at = "idle"
    BY <2>1, WebhookAlone
  <2>3. /\ execution_status'[t] = "pending_approval"
        /\ \A r \in Rows : r # t => execution_status'[r] = execution_status[r]
    BY <1>1, <2>1, <2>2 DEF InsertPending, TypeOK
  <2>4. /\ \A o \in Operators : task'[o][t] = task[o][t]
        /\ task'[Webhook][t].at = "record_usage"
        /\ task'[Webhook][t].value = run.value
        /\ task'[Webhook][t].state = run.state
    BY <1>1, <2>1, GotoEffect, OperatorInvokes
  <2>5. WebhookRun(t)'
    BY <1>1, <2>4 DEF WebhookRun
  <2>6. PausedAtGate(t)'
    BY <1>1, <2>1, <2>4 DEF WebhookRun, PausedAtGate
  <2>7. CalledOnce(t)'
    BY <1>1, <2>1, <2>2, <2>3, <2>4 DEF ThreadInv, CalledOnce
  <2>8. \A o \in Operators : ResumedOnce(o, t)'
    BY <2>2, <2>4 DEF ResumedOnce
  <2>9. \A u \in Threads \ {t} : Untouched(u)
    BY <1>1, <2>1, <2>3, GotoUntouched DEF Rows
  <2>10. Undisturbed
    BY <2>2, <2>3 DEF Undisturbed
  <2>11. FailedInv'
    BY <2>3, IdsAreDisjoint DEF SerialInv, FailedInv, Rows
  <2> QED
    BY <1>2, <2>1, <2>5, <2>6, <2>7, <2>8, <2>9, <2>10, <2>11 DEF ThreadInv
<1>7. CASE Pause(Webhook, t)
  <2>1. /\ run.at = "record_usage" /\ Goto(Webhook, t, "over")
        /\ UNCHANGED <<execution_status, selected_option_id, audit_events, request,
                       checkpoint, tool_calls>>
    BY <1>7 DEF Pause, rowVars
  <2>2. ThreadInv(t)'
    BY <2>1, WebhookStops
  <2>3. \A u \in Threads \ {t} : Untouched(u)
    BY <1>1, <2>1, GotoUntouched
  <2> QED
    BY <1>2, <1>3, <2>1, <2>2, <2>3
<1>8. ~PassGate(Webhook, t)
  BY <1>1 DEF PassGate, WebhookRun
<1>9. CASE CreateFailedIncident(Webhook, t)
  <2>1. PICK f \in FailedIds :
          /\ execution_status[f] = "absent"
          /\ execution_status' = [execution_status EXCEPT ![f] = "failed"]
          /\ NodeDone(Webhook, t, "execute", [run.state EXCEPT !.incident = f])
    BY <1>9 DEF CreateFailedIncident
  <2> DEFINE new == [run.state EXCEPT !.incident = f]
  <2>2. f \in Rows /\ f \notin Threads
    BY IdsAreDisjoint DEF Rows
  <2>3. new \in GraphState /\ new.selected = run.state.selected /\ new.incident = f
    BY <1>1, <2>2 DEF GraphState
  <2>4. /\ run.at = "hitl_gate"
        /\ UNCHANGED <<selected_option_id, audit_events, request, tool_calls>>
    BY <1>9 DEF CreateFailedIncident
  <2>5. /\ execution_status'[f] = "failed"
        /\ \A r \in Rows : r # f => execution_status'[r] = execution_status[r]
        /\ \A u \in Threads : execution_status'[u] = execution_status[u]
    BY <2>1, <2>2 DEF TypeOK, Rows
  <2> HIDE DEF new
  <2>6. new.selected = None
    BY <1>1, <2>3 DEF WebhookRun
  <2>7. NodeDone(Webhook, t, "execute", new)
    BY <2>1 DEF new
  <2>8. ThreadInv(t)'
    BY <2>3, <2>4, <2>5, <2>6, <2>7, WebhookNodeDone
  <2>9. \A u \in Threads \ {t} : Untouched(u)
    BY <1>1, <2>3, <2>4, <2>5, <2>7, NodeDoneUntouched
  <2>10. Undisturbed
    BY <2>1, <2>5 DEF Undisturbed
  <2>11. FailedInv'
    BY <2>5 DEF SerialInv, FailedInv, Rows
  <2> QED
    BY <1>2, <2>4, <2>8, <2>9, <2>10, <2>11
<1>10. CASE SkipExecution(Webhook, t)
  <2>1. /\ run.at = "execute" /\ NodeDone(Webhook, t, "complete", run.state)
        /\ UNCHANGED <<execution_status, selected_option_id, audit_events, request, tool_calls>>
    BY <1>10 DEF SkipExecution, rowVars
  <2>2. run.state.selected = None /\ run.state.incident \in FailedIds
    BY <1>1, <2>1 DEF WebhookRun
  <2>3. ThreadInv(t)'
    BY <1>1, <2>1, <2>2, WebhookNodeDone
  <2>4. \A u \in Threads \ {t} : Untouched(u)
    BY <1>1, <2>1, NodeDoneUntouched
  <2> QED
    BY <1>2, <1>3, <2>1, <2>3, <2>4
<1>11. ~ExecuteOption(Webhook, t)
  BY <1>1, NamesAreDistinct DEF ExecuteOption, WebhookRun
<1>12. CASE Complete(Webhook, t)
  <2> DEFINE f == run.state.incident
  <2>1. /\ run.at = "complete" /\ NodeDone(Webhook, t, "end", run.state)
        /\ SetStatus(f, IF run.state.selected = Hold THEN "held" ELSE "executed")
        /\ UNCHANGED <<selected_option_id, audit_events, request, tool_calls>>
    BY <1>12 DEF Complete
  <2>2. run.state.selected = None /\ f \in FailedIds
    BY <1>1, <2>1 DEF WebhookRun
  <2>3. SetStatus(f, "executed") /\ f \in Rows /\ f \notin Threads
    BY <2>1, <2>2, IdsAreDisjoint DEF Rows, Hold, None
  <2>4. /\ \A r \in Rows : r # f => execution_status'[r] = execution_status[r]
        /\ execution_status'[f] \in {execution_status[f], "executed"}
    BY <2>3, SetStatusEffect DEF Status
  <2>5. \A u \in Threads : execution_status'[u] = execution_status[u]
    BY <2>3, <2>4 DEF Rows
  <2>6. ThreadInv(t)'
    BY <1>1, <2>1, <2>2, <2>5, WebhookNodeDone
  <2>7. \A u \in Threads \ {t} : Untouched(u)
    BY <1>1, <2>1, <2>5, NodeDoneUntouched
  <2>8. Undisturbed
    BY <2>2, <2>4 DEF Undisturbed
  <2>9. FailedInv'
    BY <2>4 DEF SerialInv, FailedInv, Rows
  <2> QED
    BY <1>2, <2>1, <2>6, <2>7, <2>8, <2>9
<1> QED
  BY <1>4, <1>5, <1>6, <1>7, <1>8, <1>9, <1>10, <1>11, <1>12 DEF TaskStep

\* A step that changes one thread, and disturbs no request, keeps the invariant
\* when that thread does.
LEMMA OneThreadSerial ==
  ASSUME TypeOK, SerialInv, NEW t \in Threads, ThreadInv(t)',
         \A u \in Threads \ {t} : Untouched(u), Undisturbed, FailedInv',
         request' = request, audit_events' = audit_events
  PROVE  SerialInv'
<1>1. \A u \in Threads : ThreadInv(u)'
  BY UntouchedThread DEF SerialInv
<1> QED
  BY <1>1, RequestsKept DEF SerialInv

\* What there is to show of a thread whose resume goes on.
LEMMA ResumeGoesOn ==
  ASSUME TypeOK, SerialInv, OneSlot, NEW o \in Operators, NEW t \in Threads,
         task[o][t].at # "idle",
         task'[Webhook][t] = task[Webhook][t],
         task'[o][t].at \notin {"idle", "load"},
         execution_status'[t] \in {"executing", "executed", "failed"},
         selected_option_id' = selected_option_id,
         ~checkpoint'[t].state.error, checkpoint'[t].state.incident = t,
         \A opt \in Options :
           /\ tool_calls'[t][opt] <= 1
           /\ tool_calls'[t][opt] > 0 => opt = selected_option_id[t],
         ResumedOnce(o, t)'
  PROVE  ThreadInv(t)'
<1>1. ThreadInv(t)
  BY DEF SerialInv
<1>2. execution_status[t] # "absent"
  BY <1>1 DEF ThreadInv, ResumedOnce
<1>3. WebhookRun(t)'
  BY <1>1, <1>2 DEF ThreadInv, WebhookRun
<1>4. PausedAtGate(t)'
  BY DEF PausedAtGate
<1>5. CalledOnce(t)'
  BY DEF CalledOnce
<1>6. \A q \in Operators : ResumedOnce(q, t)'
  BY DEF OneSlot
<1> QED
  BY <1>3, <1>4, <1>5, <1>6 DEF ThreadInv

\* Every step of a resume keeps the invariant, faults included.
LEMMA ResumeStepSerial ==
  ASSUME TypeOK, SerialInv, OneSlot, NEW o \in Operators, NEW t \in Threads,
         ResumeStep(o, t) \/ SetupFails(o, t) \/ WorkflowFault(o, t)
  PROVE  SerialInv'
<1> DEFINE run == task[o][t]
<1>1. /\ o \in Invokers /\ o # Webhook /\ t \in Rows /\ Webhook \in Invokers
      /\ run.state \in GraphState /\ run \in Task
      /\ task \in [Invokers -> [Threads -> Task]]
      /\ execution_status \in [Rows -> Status]
      /\ tool_calls \in [Threads -> [Options -> Nat]]
  BY OperatorInvokes DEF TypeOK, Task, Rows, Invokers
<1>2. run.at # "idle"
  BY DEF ResumeStep, SetupFails, WorkflowFault, TaskStep, LoadCheckpoint, MarkFailed,
     Diagnose, CreateIncident, Pause, PassGate, CreateFailedIncident, SkipExecution,
     ExecuteOption, Complete, TaskRaises, LoseTask, Node
<1>3. ResumedOnce(o, t) /\ PausedAtGate(t) /\ CalledOnce(t)
  BY DEF SerialInv, ThreadInv
<1>4. /\ execution_status[t] \in {"executing", "executed", "failed"}
      /\ run.value \in Options
      /\ run.value = selected_option_id[t]
      /\ run.at \in Node => /\ run.at # "diagnose"
                            /\ ~run.state.error
                            /\ run.state.incident = t
      /\ run.at \in {"execute", "complete"} => run.state.selected = run.value
      /\ run.at \in BeforeTool => \A opt \in Options : tool_calls[t][opt] = 0
  BY <1>2, <1>3 DEF ResumedOnce
<1>5. /\ ~checkpoint[t].state.error
      /\ checkpoint[t].state.incident = t
      /\ run.at = "load" => checkpoint[t].next = "hitl_gate"
  BY <1>3, <1>4 DEF PausedAtGate, OneSlot
<1>6. \A opt \in Options : /\ tool_calls[t][opt] <= 1
                           /\ tool_calls[t][opt] > 0 => opt = selected_option_id[t]
  BY <1>3 DEF CalledOnce
<1>7. ASSUME execution_status' = execution_status
      PROVE  Undisturbed /\ FailedInv'
    BY <1>7 DEF Undisturbed, FailedInv, SerialInv
<1>8. ASSUME SetStatus(t, "executed") \/ SetStatus(t, "failed")
      PROVE  /\ Undisturbed
             /\ FailedInv'
             /\ execution_status'[t] \in {"executing", "executed", "failed"}
             /\ \A u \in Threads \ {t} : execution_status'[u] = execution_status[u]
  <2>1. /\ \A r \in Rows : r # t => execution_status'[r] = execution_status[r]
        /\ execution_status'[t] \in {execution_status[t], "executed", "failed"}
    BY <1>1, <1>8, SetStatusEffect DEF Status
  <2>2. FailedInv'
    BY <2>1, IdsAreDisjoint DEF SerialInv, FailedInv, Rows
  <2> QED
    BY <1>4, <2>1, <2>2 DEF Undisturbed, Rows
<1>9. ASSUME NEW node \in {"raised", "over", "lost"}, Goto(o, t, node),
             UNCHANGED <<selected_option_id, audit_events, request, checkpoint, tool_calls>>,
             UNCHANGED execution_status \/ SetStatus(t, "failed")
      PROVE  SerialInv'
  <2>1. /\ task'[Webhook][t] = task[Webhook][t]
        /\ task'[o][t].at = node /\ task'[o][t].value = run.value
    BY <1>1, <1>9, GotoEffect
  <2>2. /\ Undisturbed /\ FailedInv'
        /\ execution_status'[t] \in {"executing", "executed", "failed"}
        /\ \A u \in Threads \ {t} : execution_status'[u] = execution_status[u]
    BY <1>4, <1>7, <1>8, <1>9
  <2>3. ResumedOnce(o, t)'
    BY <1>4, <1>9, <2>1, <2>2 DEF ResumedOnce, Node, BeforeTool
  <2>4. ThreadInv(t)'
    BY <1>2, <1>5, <1>6, <1>9, <2>1, <2>2, <2>3, ResumeGoesOn
  <2>5. \A u \in Threads \ {t} : Untouched(u)
    BY <1>1, <1>9, <2>2, GotoUntouched
  <2> QED
    BY <1>9, <2>2, <2>4, <2>5, OneThreadSerial
<1>10. ASSUME NEW next \in {"execute", "complete", "end"}, NEW state \in GraphState,
              NodeDone(o, t, next, state),
              ~state.error, state.incident = t,
              next \in {"execute", "complete"} => state.selected = run.value,
              next = "execute" => \A opt \in Options : tool_calls'[t][opt] = 0,
              \A opt \in Options : /\ tool_calls'[t][opt] <= 1
                                   /\ tool_calls'[t][opt] > 0 => opt = selected_option_id[t],
              \A u \in Threads \ {t} : tool_calls'[u] = tool_calls[u],
              UNCHANGED <<selected_option_id, audit_events, request>>,
              UNCHANGED execution_status \/ SetStatus(t, "executed")
       PROVE  SerialInv'
  <2>1. next \in {"diagnose", "hitl_gate", "execute", "complete", "end"}
    OBVIOUS
  <2>2. /\ task'[Webhook][t] = task[Webhook][t]
        /\ task'[o][t].at = IF next = "end" THEN "over" ELSE next
        /\ task'[o][t].value = run.value
        /\ task'[o][t].state = state
        /\ checkpoint'[t].state = state
    BY <1>1, <1>10, <2>1, NodeDoneEffect
  <2>3. /\ Undisturbed /\ FailedInv'
        /\ execution_status'[t] \in {"executing", "executed", "failed"}
        /\ \A u \in Threads \ {t} : execution_status'[u] = execution_status[u]
    BY <1>4, <1>7, <1>8, <1>10
  <2>4. ResumedOnce(o, t)'
    BY <1>4, <1>10, <2>2, <2>3 DEF ResumedOnce, Node, BeforeTool
  <2>5. ThreadInv(t)'
    BY <1>2, <1>10, <2>2, <2>3, <2>4, ResumeGoesOn
  <2>6. \A u \in Threads \ {t} : Untouched(u)
    BY <1>1, <1>10, <2>1, <2>3, NodeDoneUntouched
  <2> QED
    BY <1>10, <2>3, <2>5, <2>6, OneThreadSerial
<1>11. CASE LoadCheckpoint(o, t)
  <2> DEFINE new == [run EXCEPT !.at = "hitl_gate", !.state = checkpoint[t].state]
  <2>1. /\ run.at = "load" /\ checkpoint[t].next = "hitl_gate"
        /\ UNCHANGED <<execution_status, selected_option_id, audit_events, request,
                       checkpoint, tool_calls>>
    BY <1>5, <1>11 DEF LoadCheckpoint, rowVars
  <2>2. task' = [task EXCEPT ![o][t] = new]
    BY <1>11, <2>1 DEF LoadCheckpoint
  <2>3. /\ new.at = "hitl_gate" /\ new.state = checkpoint[t].state
        /\ new.value = run.value
    BY <1>1, MovedTaskFields
  <2> HIDE DEF new
  <2>4. /\ task'[o][t] = new
        /\ \A q \in Invokers, u \in Threads : q # o \/ u # t => task'[q][u] = task[q][u]
    BY <1>1, <2>2
  <2>5. ResumedOnce(o, t)'
    BY <1>4, <1>5, <2>1, <2>3, <2>4 DEF ResumedOnce, Node, BeforeTool
  <2>6. task'[Webhook][t] = task[Webhook][t]
    BY <1>1, <2>4
  <2>7. ThreadInv(t)'
    BY <1>2, <1>4, <1>5, <1>6, <2>1, <2>3, <2>4, <2>5, <2>6, ResumeGoesOn
  <2>8. \A u \in Threads \ {t} : Untouched(u)
    BY <2>1, <2>4 DEF Untouched
  <2> QED
    BY <1>7, <2>1, <2>7, <2>8, OneThreadSerial
<1>12. CASE MarkFailed(o, t)
  BY <1>9, <1>12 DEF MarkFailed
<1>13. CASE SetupFails(o, t) \/ WorkflowFault(o, t)
  BY <1>1, <1>9, <1>13 DEF SetupFails, WorkflowFault, TaskRaises, LoseTask, rowVars
<1>14. ~Diagnose(o, t)
  BY <1>4 DEF Diagnose, Node
<1>15. CASE CreateIncident(o, t)
  <2>1. /\ run.at = "hitl_gate" /\ Goto(o, t, "record_usage") /\ InsertPending(t)
        /\ UNCHANGED <<selected_option_id, audit_events, request, checkpoint, tool_calls>>
    BY <1>15 DEF CreateIncident
  <2>2. execution_status' = execution_status
    BY <1>1, <1>4, <2>1 DEF InsertPending
  <2>3. /\ task'[Webhook][t] = task[Webhook][t]
        /\ task'[o][t].at = "record_usage" /\ task'[o][t].value = run.value
        /\ task'[o][t].state = run.state
    BY <1>1, <2>1, GotoEffect
  <2>4. ResumedOnce(o, t)'
    BY <1>4, <2>1, <2>2, <2>3 DEF ResumedOnce, Node, BeforeTool
  <2>5. ThreadInv(t)'
    BY <1>2, <1>4, <1>5, <1>6, <2>1, <2>2, <2>3, <2>4, ResumeGoesOn
  <2>6. \A u \in Threads \ {t} : Untouched(u)
    BY <1>1, <2>1, <2>2, GotoUntouched
  <2> QED
    BY <1>7, <2>1, <2>2, <2>5, <2>6, OneThreadSerial
<1>16. ~Pause(o, t)
  BY <1>4, NamesAreDistinct DEF Pause
<1>17. CASE PassGate(o, t)
  <2> DEFINE new == [run.state EXCEPT !.incident = t, !.selected = run.value]
  <2>1. new \in GraphState
    BY <1>1, <1>4 DEF GraphState, Choice
  <2>2. new.selected = run.value /\ new.incident = t /\ new.error = run.state.error
    BY <1>1 DEF GraphState
  <2>3. run.at = "record_usage" /\ NodeDone(o, t, "execute", new)
        /\ UNCHANGED <<execution_status, selected_option_id, audit_events, request, tool_calls>>
    BY <1>17 DEF PassGate, rowVars
  <2> HIDE DEF new
  <2>4. ~new.error /\ \A opt \in Options : tool_calls[t][opt] = 0
    BY <1>4, <2>2, <2>3 DEF Node, BeforeTool
  <2> QED
    BY <1>6, <1>10, <2>1, <2>2, <2>3, <2>4
<1>18. ~CreateFailedIncident(o, t)
  BY <1>4 DEF CreateFailedIncident, Node
<1>19. ~SkipExecution(o, t)
  BY <1>4, NamesAreDistinct DEF SkipExecution
<1>20. CASE ExecuteOption(o, t)
  <2>1. PICK opt \in Options : run.state.selected = opt /\ CallTool(t, opt)
    BY <1>20 DEF ExecuteOption
  <2>2. /\ run.at = "execute"
        /\ UNCHANGED <<execution_status, selected_option_id, audit_events, request>>
    BY <1>20 DEF ExecuteOption, rowVars
  <2>3. /\ opt = selected_option_id[t] /\ run.state.selected = run.value
        /\ ~run.state.error /\ run.state.incident = t
        /\ \A opt2 \in Options : tool_calls[t][opt2] = 0
    BY <1>4, <2>1, <2>2 DEF Node, BeforeTool
  <2>4. /\ \A opt2 \in Options : /\ tool_calls'[t][opt2] <= 1
                                 /\ tool_calls'[t][opt2] > 0 => opt2 = opt
        /\ \A u \in Threads \ {t} : tool_calls'[u] = tool_calls[u]
    BY <1>1, <2>1, <2>3 DEF CallTool
  <2>5. CASE NodeDone(o, t, "complete", run.state)
    BY <1>1, <1>10, <2>2, <2>3, <2>4, <2>5
  <2>6. CASE Goto(o, t, "raised") /\ UNCHANGED checkpoint
    <3>1. /\ task'[Webhook][t] = task[Webhook][t]
          /\ task'[o][t].at = "raised" /\ task'[o][t].value = run.value
          /\ \A q \in Invokers, u \in Threads : q # o \/ u # t => task'[q][u] = task[q][u]
      BY <1>1, <2>6, GotoEffect
    <3>2. ResumedOnce(o, t)'
      BY <1>4, <2>2, <3>1 DEF ResumedOnce, Node, BeforeTool
    <3>3. ThreadInv(t)'
      BY <1>2, <1>4, <1>5, <2>2, <2>3, <2>4, <2>6, <3>1, <3>2, ResumeGoesOn
    <3>4. \A u \in Threads \ {t} : Untouched(u)
      BY <2>2, <2>4, <2>6, <3>1 DEF Untouched
    <3> QED
      BY <1>7, <2>2, <3>3, <3>4, OneThreadSerial
  <2> QED
    BY <1>20, <2>5, <2>6 DEF ExecuteOption
<1>21. CASE Complete(o, t)
  <2>1. /\ run.at = "complete" /\ NodeDone(o, t, "end", run.state)
        /\ SetStatus(run.state.incident,
                     IF run.state.selected = Hold THEN "held" ELSE "executed")
        /\ UNCHANGED <<selected_option_id, audit_events, request, tool_calls>>
    BY <1>21 DEF Complete
  <2>2. /\ run.state.incident = t /\ ~run.state.error
        /\ run.state.selected \in Options
    BY <1>4, <2>1 DEF Node
  <2>3. SetStatus(t, "executed")
    BY <2>1, <2>2, NamesAreDistinct
  <2> QED
    BY <1>1, <1>6, <1>10, <2>1, <2>2, <2>3
<1> QED
  BY <1>11, <1>12, <1>13, <1>14, <1>15, <1>16, <1>17, <1>18, <1>19, <1>20, <1>21
     DEF ResumeStep, TaskStep

\* A fault of the webhook's run keeps the invariant.
LEMMA WebhookFaultSerial ==
  ASSUME TypeOK, SerialInv, NEW t \in Threads, WorkflowFault(Webhook, t)
  PROVE  SerialInv'
<1>1. PICK node \in {"over", "lost"} : Goto(Webhook, t, node)
  BY DEF WorkflowFault, TaskRaises, LoseTask
<1>2. UNCHANGED <<execution_status, selected_option_id, audit_events, request,
                  checkpoint, tool_calls>>
  BY DEF WorkflowFault, TaskRaises, LoseTask, rowVars
<1>3. ThreadInv(t)'
  BY <1>1, <1>2, WebhookStops
<1>4. \A u \in Threads \ {t} : Untouched(u)
  BY <1>1, <1>2, GotoUntouched DEF Invokers
<1>5. Undisturbed /\ FailedInv'
  BY <1>2 DEF Undisturbed, FailedInv, SerialInv
<1> QED
  BY <1>2, <1>3, <1>4, <1>5, OneThreadSerial

\* A thread decided on without a resume, which was pending, keeps its invariant.
LEMMA ClosedThread ==
  ASSUME TypeOK, SerialInv, NEW t \in Threads, execution_status[t] = "pending_approval",
         execution_status'[t] \notin {"absent", "deleted"},
         UNCHANGED <<task, checkpoint, tool_calls>>
  PROVE  ThreadInv(t)'
<1>1. ThreadInv(t)
  BY DEF SerialInv
<1>2. \A o \in Operators : task[o][t].at = "idle"
  BY <1>1 DEF ThreadInv, ResumedOnce
<1>3. \A opt \in Options : tool_calls[t][opt] \in Nat /\ ~(tool_calls[t][opt] > 0)
  BY <1>1, <1>2 DEF ThreadInv, CalledOnce, TypeOK
<1>4. WebhookRun(t)' /\ PausedAtGate(t)'
  BY <1>1 DEF ThreadInv, WebhookRun, PausedAtGate
<1>5. CalledOnce(t)'
  BY <1>3 DEF CalledOnce
<1>6. \A o \in Operators : ResumedOnce(o, t)'
  BY <1>2 DEF ResumedOnce
<1> QED
  BY <1>4, <1>5, <1>6 DEF ThreadInv

\* An UPDATE of a row that is nobody's failed incident and in no audit trail, when
\* every thread keeps its invariant and the request is then as it should be.
LEMMA OneRowSerial ==
  ASSUME TypeOK, SerialInv, OneSlot, NEW o \in Operators, NEW r \in Threads \union Probes,
         \A u \in Rows \ {r} : execution_status'[u] = execution_status[u],
         r \notin audit_events, audit_events' = audit_events,
         \A t \in Threads : ThreadInv(t)',
         RequestInv(o)'
  PROVE  SerialInv'
<1>1. \A f \in FailedIds : f # r /\ f \in Rows
  BY IdsAreDisjoint DEF Rows
<1>2. FailedInv'
  BY <1>1 DEF SerialInv, FailedInv
<1>3. AuditInv'
  BY DEF SerialInv, AuditInv, TypeOK
<1>4. \A q \in Operators : RequestInv(q)'
  BY DEF OneSlot
<1> QED
  BY <1>2, <1>3, <1>4 DEF SerialInv

\* An UPDATE of a pending row, or of a connection test's that is gone, to a decision
\* that starts nothing.
LEMMA DecisionSerial ==
  ASSUME TypeOK, SerialInv, OneSlot, NEW o \in Operators, request[o].at = "checked",
         NEW s \in {"executing", "held", "rejected", "resolved_manually"},
         SetStatus(request[o].row, s),
         UNCHANGED <<audit_events, task, checkpoint, tool_calls>>,
         \A u \in Threads \ {request[o].row} :
           selected_option_id'[u] = selected_option_id[u],
         request'[o] = NoRequest \/ request'[o] = [request[o] EXCEPT !.at = "written"],
         request'[o] # NoRequest /\ request[o].decision[1] = "approve" =>
           s = "executing" /\ request[o].row \in Probes,
         request'[o] # NoRequest /\ request[o].decision[1] # "approve" =>
           s \in {"rejected", "resolved_manually"}
  PROVE  SerialInv'
<1> DEFINE r == request[o].row
<1>1. /\ r \in Threads \union Probes
      /\ \/ execution_status[r] = "pending_approval"
         \/ execution_status[r] = "deleted" /\ r \in Probes
  BY DEF SerialInv, RequestInv
<1>2. r \in Rows /\ request[o] \in Request
  BY <1>1 DEF Rows, TypeOK
<1>3. /\ \A u \in Rows : u # r => execution_status'[u] = execution_status[u]
      /\ execution_status[r] = "pending_approval" => execution_status'[r] = s
      /\ execution_status[r] = "deleted" => execution_status'[r] = "deleted"
  BY <1>2 DEF SetStatus, TypeOK
<1>4. r \notin audit_events
  BY <1>1 DEF SerialInv, AuditInv
<1>5. ASSUME NEW t \in Threads PROVE ThreadInv(t)'
  <2>1. CASE t = r
    <3>1. execution_status[t] = "pending_approval"
      BY <1>1, <2>1, IdsAreDisjoint
    <3> QED
      BY <1>3, <2>1, <3>1, ClosedThread
  <2>2. CASE t # r
    <3>1. Untouched(t)
      BY <1>3, <2>2 DEF Untouched, Rows
    <3> QED
      BY <3>1, UntouchedThread DEF SerialInv
  <2> QED
    BY <2>1, <2>2
<1>6. RequestInv(o)'
  <2>1. CASE request'[o] = NoRequest
    BY <2>1 DEF RequestInv, NoRequest
  <2>2. CASE request'[o] # NoRequest
    <3>1. request[o] # NoRequest
      BY AtStatement
    <3>2. /\ request'[o].at = "written" /\ request'[o].row = r
          /\ request'[o].decision = request[o].decision
      BY <1>2, <2>2, <3>1 DEF Request
    <3> QED
      BY <1>1, <1>3, <2>2, <3>2 DEF RequestInv
  <2> QED
    BY <2>1, <2>2
<1> QED
  BY <1>1, <1>3, <1>4, <1>5, <1>6, OneRowSerial

\* Every statement of a decision request keeps the invariant.
LEMMA RequestStepSerial ==
  ASSUME TypeOK, SerialInv, OneSlot, NEW o \in Operators
  PROVE  /\ \A decision \in Decision, r \in Rows : Check(o, decision, r) => SerialInv'
         /\ RequestStep(o) \/ LoseRequest(o) => SerialInv'
<1> DEFINE r == request[o].row
<1>1. request \in [Operators -> Request] /\ execution_status \in [Rows -> Status]
  BY DEF TypeOK
<1>2. Answer(o) => request'[o] = NoRequest
  BY <1>1 DEF Answer
<1>3. GoOn(o) => request'[o] = [request[o] EXCEPT !.at = "written"]
  BY <1>1 DEF GoOn
<1>4. request'[o] = NoRequest => RequestInv(o)'
  BY DEF RequestInv, NoRequest
<1>5. ASSUME UNCHANGED <<execution_status, selected_option_id, task, checkpoint, tool_calls>>
      PROVE  /\ \A t \in Threads : ThreadInv(t)'
             /\ FailedInv'
  BY <1>5, UntouchedThread DEF SerialInv, Untouched, FailedInv
<1>6. ASSUME NEW decision \in Decision, NEW u \in Rows, Check(o, decision, u)
      PROVE  SerialInv'
  <2>1. /\ execution_status[u] = "pending_approval"
        /\ request'[o] = [at |-> "checked", decision |-> decision,
                          row |-> u, test |-> u \in is_test]
        /\ UNCHANGED <<execution_status, selected_option_id, audit_events, task,
                       checkpoint, tool_calls>>
    BY <1>1, <1>6 DEF Check, rowVars
  <2>2. u \in Threads \union Probes
    BY <2>1 DEF SerialInv, FailedInv, Rows
  <2>3. RequestInv(o)'
    BY <2>1, <2>2 DEF RequestInv
  <2> QED
    BY <1>5, <2>1, <2>3 DEF SerialInv, AuditInv, OneSlot
<1>7. CASE LoseRequest(o)
  BY <1>2, <1>4, <1>5, <1>7 DEF LoseRequest, rowVars, SerialInv, AuditInv, OneSlot
<1>8. CASE ApproveAgentIncident(o)
  <2>0. PICK t \in Threads : t = r
    BY <1>8 DEF ApproveAgentIncident
  <2> DEFINE opt == request[o].decision[2]
             new == [task[o][t] EXCEPT !.at = "load", !.value = opt]
  <2>1. /\ request[o].at = "checked" /\ request[o].decision[1] = "approve"
        /\ t \in Threads /\ SetStatus(t, "executing")
        /\ task' = [task EXCEPT ![o][t] = new]
        /\ request'[o] = NoRequest
        /\ UNCHANGED <<audit_events, checkpoint, tool_calls>>
    BY <1>2, <1>8, <2>0 DEF ApproveAgentIncident, Deciding, RecordChoice
  <2>2. /\ execution_status[t] = "pending_approval"
        /\ t \in Rows /\ t \notin audit_events
    BY <2>0, <2>1, IdsAreDisjoint DEF SerialInv, RequestInv, AuditInv, Rows
  <2>3. opt \in Options
    BY <2>1, AtStatement, ServedRequest DEF Decision
  <2>4. /\ execution_status'[t] = "executing"
        /\ \A u \in Rows \ {t} : execution_status'[u] = execution_status[u]
    BY <1>1, <2>1, <2>2 DEF SetStatus
  <2>5. /\ selected_option_id'[t] = opt
        /\ \A u \in Rows \ {t} : selected_option_id'[u] = selected_option_id[u]
    BY <1>8, <2>0, <2>2 DEF ApproveAgentIncident, RecordChoice, TypeOK
  <2>6. /\ task \in [Invokers -> [Threads -> Task]] /\ task[o][t] \in Task
        /\ o \in Invokers /\ o # Webhook /\ Webhook \in Invokers
    BY <2>1, OperatorInvokes DEF TypeOK, Invokers
  <2>7. new.at = "load" /\ new.value = opt
    BY <2>6, ResumedTaskFields
  <2> HIDE DEF new, opt
  <2>8. /\ task'[o][t] = new
        /\ \A q \in Invokers, u \in Threads : q # o \/ u # t => task'[q][u] = task[q][u]
    BY <2>1, <2>6
  <2>9. /\ ThreadInv(t)
        /\ \A q \in Operators : task[q][t].at = "idle"
    BY <2>1, <2>2 DEF SerialInv, ThreadInv, ResumedOnce
  <2>10. \A p \in Options : tool_calls[t][p] \in Nat /\ tool_calls[t][p] = 0
    BY <2>1, <2>9 DEF ThreadInv, CalledOnce, TypeOK
  <2>11. WebhookRun(t)'
    BY <2>1, <2>2, <2>6, <2>8, <2>9 DEF ThreadInv, WebhookRun
  <2>12. PausedAtGate(t)'
    BY <2>1, <2>2, <2>9 DEF ThreadInv, PausedAtGate
  <2>13. CalledOnce(t)'
    BY <2>1, <2>4, <2>10 DEF CalledOnce
  <2>14. ResumedOnce(o, t)'
    BY <2>1, <2>3, <2>4, <2>5, <2>7, <2>8, <2>10 DEF ResumedOnce, Node
  <2>15. ASSUME NEW v \in Threads PROVE ThreadInv(v)'
    <3>1. CASE v = t
      BY <2>11, <2>12, <2>13, <2>14, <3>1 DEF ThreadInv, OneSlot
    <3>2. CASE v # t
      <4>1. Untouched(v)
        BY <2>1, <2>4, <2>5, <2>8, <3>2 DEF Untouched, Rows
      <4> QED
        BY <4>1, UntouchedThread DEF SerialInv
    <3> QED
      BY <3>1, <3>2
  <2> QED
    BY <1>4, <2>1, <2>2, <2>4, <2>15, OneRowSerial
<1>9. ASSUME NEW opt, NEW s, RecordChoice(r, s, opt)
      PROVE  SetStatus(r, s) /\ \A u \in Threads \ {r} :
                                  selected_option_id'[u] = selected_option_id[u]
  BY <1>9 DEF RecordChoice, TypeOK, Rows
<1>10. CASE ApproveProbe(o)
  <2>1. /\ request[o].at = "checked" /\ request[o].decision[1] = "approve"
        /\ r \in Probes
        /\ SetStatus(r, "executing")
        /\ \A u \in Threads \ {r} : selected_option_id'[u] = selected_option_id[u]
        /\ request'[o] = NoRequest \/ request'[o] = [request[o] EXCEPT !.at = "written"]
        /\ UNCHANGED <<audit_events, task, checkpoint, tool_calls>>
    BY <1>2, <1>3, <1>9, <1>10 DEF ApproveProbe, Deciding
  <2> QED
    BY <2>1, DecisionSerial
<1>11. CASE SimulateSuccess(o)
  <2>1. /\ request[o].at = "written" /\ request[o].decision[1] = "approve"
        /\ SetStatus(r, "executed") /\ request'[o] = NoRequest
        /\ UNCHANGED <<selected_option_id, audit_events, task, checkpoint, tool_calls>>
    BY <1>2, <1>11 DEF SimulateSuccess
  <2>2. r \in Probes /\ execution_status[r] \in {"executing", "deleted"}
    BY <2>1 DEF SerialInv, RequestInv
  <2>3. /\ r \in Rows /\ r \notin audit_events
        /\ \A t \in Threads : t # r /\ t \in Rows
    BY <2>2, IdsAreDisjoint DEF SerialInv, AuditInv, Rows
  <2>4. \A u \in Rows \ {r} : execution_status'[u] = execution_status[u]
    BY <1>1, <2>1, <2>3 DEF SetStatus
  <2>5. \A t \in Threads : ThreadInv(t)'
    BY <2>1, <2>3, <2>4, UntouchedThread DEF SerialInv, Untouched
  <2> QED
    BY <1>4, <2>1, <2>2, <2>3, <2>4, <2>5, OneRowSerial
<1>12. CASE HoldIncident(o)
  <2>1. /\ request[o].at = "checked"
        /\ SetStatus(r, "held")
        /\ \A u \in Threads \ {r} : selected_option_id'[u] = selected_option_id[u]
        /\ request'[o] = NoRequest
        /\ UNCHANGED <<audit_events, task, checkpoint, tool_calls>>
    BY <1>2, <1>9, <1>12 DEF HoldIncident, Deciding
  <2> QED
    BY <2>1, DecisionSerial
<1>13. CASE RejectIncident(o)
  <2>1. /\ request[o].at = "checked"
        /\ SetStatus(r, "rejected") /\ request'[o] = NoRequest
        /\ UNCHANGED <<selected_option_id, audit_events, task, checkpoint, tool_calls>>
    BY <1>2, <1>13 DEF RejectIncident, Deciding
  <2> QED
    BY <2>1, DecisionSerial
<1>14. CASE CloseIncident(o)
  <2>1. PICK s \in {"rejected", "resolved_manually"} : SetStatus(r, s)
    BY <1>14 DEF CloseIncident
  <2>2. /\ request[o].at = "checked" /\ request[o].decision[1] # "approve"
        /\ request'[o] = [request[o] EXCEPT !.at = "written"]
        /\ UNCHANGED <<selected_option_id, audit_events, task, checkpoint, tool_calls>>
    BY <1>3, <1>14 DEF CloseIncident, Deciding
  <2> QED
    BY <2>1, <2>2, DecisionSerial
<1>15. CASE RecordAudit(o)
  <2>1. /\ request[o].at = "written" /\ request[o].decision[1] # "approve"
        /\ audit_events' = audit_events \union {u \in {r} : execution_status[u] # "deleted"}
        /\ request'[o] = NoRequest
        /\ UNCHANGED <<execution_status, selected_option_id, task, checkpoint, tool_calls>>
    BY <1>2, <1>15 DEF RecordAudit
  <2>2. execution_status[r] \in {"rejected", "resolved_manually", "deleted"}
    BY <2>1 DEF SerialInv, RequestInv
  <2>3. AuditInv'
    BY <2>1, <2>2 DEF SerialInv, AuditInv
  <2> QED
    BY <1>4, <1>5, <2>1, <2>3 DEF SerialInv, OneSlot
<1> QED
  BY <1>6, <1>7, <1>8, <1>10, <1>11, <1>12, <1>13, <1>14, <1>15 DEF RequestStep

\* Every statement of the connection test keeps the invariant.
LEMMA ProbeStepSerial ==
  ASSUME TypeOK, SerialInv, NEW r \in Probes, ProbeStep(r)
  PROVE  SerialInv'
<1>1. /\ r \in Rows
      /\ \A t \in Threads : t # r /\ t \in Rows
      /\ \A f \in FailedIds : f # r /\ f \in Rows
  BY IdsAreDisjoint DEF Rows
<1>2. /\ UNCHANGED <<selected_option_id, request, task, checkpoint, tool_calls>>
      /\ \A u \in Rows \ {r} : execution_status'[u] = execution_status[u]
  BY DEF ProbeStep, CreateProbe, FlagProbe, CleanupProbe, TypeOK
<1>3. \A t \in Threads : ThreadInv(t)'
  BY <1>1, <1>2, UntouchedThread DEF SerialInv, Untouched
<1>4. FailedInv'
  BY <1>1, <1>2 DEF SerialInv, FailedInv
<1>5. CASE CreateProbe(r)
  <2>1. Undisturbed /\ audit_events' = audit_events
    BY <1>2, <1>5 DEF CreateProbe, Undisturbed
  <2> QED
    BY <1>2, <1>3, <1>4, <2>1, RequestsKept DEF SerialInv
<1>6. CASE FlagProbe(r)
  <2>1. Undisturbed /\ audit_events' = audit_events
    BY <1>6 DEF FlagProbe, Undisturbed
  <2> QED
    BY <1>2, <1>3, <1>4, <2>1, RequestsKept DEF SerialInv
<1>7. CASE CleanupProbe(r)
  <2>1. execution_status'[r] = "deleted" /\ audit_events' = audit_events \ {r}
    BY <1>1, <1>7 DEF CleanupProbe, TypeOK
  <2>2. AuditInv'
    BY <1>2, <2>1 DEF SerialInv, AuditInv, TypeOK
  <2>3. ASSUME NEW o \in Operators PROVE RequestInv(o)'
    <3>1. RequestInv(o) /\ request'[o] = request[o]
      BY <1>2 DEF SerialInv
    <3>2. request[o].at \in {"checked", "written"} => request[o].row \in Rows
      BY AtStatement, ServedRequest
    <3> QED
      BY <1>2, <2>1, <3>1, <3>2 DEF RequestInv
  <2> QED
    BY <1>3, <1>4, <2>2, <2>3 DEF SerialInv
<1> QED
  BY <1>5, <1>6, <1>7 DEF ProbeStep

\* The invariant holds before the first alert.
LEMMA InitSerial == Init => SerialInv
<1> SUFFICES ASSUME Init
             PROVE  SerialInv
  OBVIOUS
<1>1. /\ \A p \in Invokers, t \in Threads :
           /\ task[p][t].at = "idle" /\ task[p][t].value = None
           /\ task[p][t].state.selected = None
      /\ \A r \in Rows : execution_status[r] = "absent"
      /\ audit_events = {}
      /\ \A t \in Threads, opt \in Options : tool_calls[t][opt] = 0
      /\ \A o \in Operators : request[o].at = "idle"
  BY DEF Init, InitialState, NoRequest
<1>2. ASSUME NEW t \in Threads PROVE ThreadInv(t)
  <2>1. /\ Webhook \in Invokers /\ t \in Rows
        /\ \A o \in Operators : o \in Invokers
    BY DEF Invokers, Rows
  <2>2. WebhookRun(t)
    BY <1>1, <2>1 DEF WebhookRun
  <2>3. PausedAtGate(t) /\ CalledOnce(t)
    BY <1>1, <2>1 DEF PausedAtGate, CalledOnce
  <2>4. \A o \in Operators : ResumedOnce(o, t)
    BY <1>1, <2>1 DEF ResumedOnce
  <2> QED
    BY <2>2, <2>3, <2>4 DEF ThreadInv
<1> QED
  BY <1>1, <1>2 DEF SerialInv, RequestInv, FailedInv, AuditInv, Rows

\* With one decision request at a time, whatever the workers do and wherever a
\* resume fails.
THEOREM SerialAlways == OneSlot /\ Spec => []SerialInv
<1> SUFFICES ASSUME OneSlot
             PROVE  Spec => []SerialInv
  OBVIOUS
<1>1. TypeOK /\ SerialInv /\ [Next]_vars => SerialInv'
  <2> SUFFICES ASSUME TypeOK, SerialInv, [Next]_vars
               PROVE  SerialInv'
    OBVIOUS
  <2>1. ASSUME NEW p \in Invokers, NEW t \in Threads, WorkflowFault(p, t)
        PROVE  SerialInv'
    <3>1. CASE p = Webhook
      BY <2>1, <3>1, WebhookFaultSerial
    <3>2. CASE p \in Operators
      BY <2>1, <3>2, ResumeStepSerial
    <3> QED
      BY <3>1, <3>2 DEF Invokers
  <2>2. CASE Next
    BY <2>1, <2>2, WebhookStepSerial, ResumeStepSerial, RequestStepSerial, ProbeStepSerial
       DEF Next
  <2>3. CASE UNCHANGED vars
    <3>1. Undisturbed /\ FailedInv' /\ \A t \in Threads : Untouched(t)
      BY <2>3 DEF vars, Undisturbed, FailedInv, SerialInv, Untouched
    <3> QED
      BY <2>3, <3>1, UntouchedThread, RequestsKept DEF vars, SerialInv
  <2> QED
    BY <2>2, <2>3
<1> QED
  BY InitSerial, TypeCorrect, <1>1, PTL DEF Spec

\* No approval is carried out twice, and no second option is, when decisions do not
\* overlap: the checkpoint and the row see to it, not the tools.
THEOREM SerialExecutesOnce == OneSlot /\ Spec => []AtMostOneExecution
<1>1. SerialInv => AtMostOneExecution
  BY DEF SerialInv, ThreadInv, CalledOnce, AtMostOneExecution
<1> QED
  BY SerialAlways, <1>1, PTL

\* What was rejected, held or resolved by hand stays untouched, and the audit trail
\* agrees with the rows.
THEOREM SerialDecisionsStand == OneSlot /\ Spec => []DecisionStands
<1>1. TypeOK /\ SerialInv => DecisionStands
  <2> SUFFICES ASSUME TypeOK, SerialInv
               PROVE  DecisionStands
    OBVIOUS
  <2>1. ASSUME NEW t \in Threads,
               execution_status[t] \in {"held", "rejected", "resolved_manually"}
        PROVE  /\ \A opt \in Options : tool_calls[t][opt] = 0
               /\ \A o \in Operators : task[o][t].at = "idle"
    <3>1. \A o \in Operators : task[o][t].at = "idle"
      BY <2>1 DEF SerialInv, ThreadInv, ResumedOnce
    <3>2. \A opt \in Options : tool_calls[t][opt] \in Nat /\ ~(tool_calls[t][opt] > 0)
      BY <3>1 DEF SerialInv, ThreadInv, CalledOnce, TypeOK
    <3> QED
      BY <3>1, <3>2
  <2> QED
    BY <2>1 DEF SerialInv, AuditInv, DecisionStands
<1> QED
  BY SerialAlways, TypeCorrect, <1>1, PTL

\* The option the row reads is the one whose tool was called.
THEOREM SerialRecordsAreTrue == OneSlot /\ Spec => []RecordMatchesEffect
<1>1. SerialInv => RecordMatchesEffect
  BY DEF SerialInv, ThreadInv, CalledOnce, RecordMatchesEffect
<1> QED
  BY SerialAlways, <1>1, PTL

=============================================================================
