----------------------------- MODULE CloudCommands -----------------------------
(***************************************************************************)
(* The remediations that act on a customer's cloud and cluster themselves  *)
(* rather than on its repository: agents 02, 06, 07 and 08.                *)
(*                                                                         *)
(* Each tool is a script: calls, and for each answer to a call where the   *)
(* tool goes on.  Agent 07's script is the plan its diagnosis wrote, with  *)
(* an on_failure per step.  A call that is not answered in time, or whose  *)
(* process dies with its worker, is not taken back: it may still have its  *)
(* effect, whatever the run has gone on to.                                *)
(*                                                                         *)
(* All runs are about the same things, one of each kind: runs about other  *)
(* things do not meet them.                                                *)
(***************************************************************************)
EXTENDS Integers, Sequences, FiniteSets

CONSTANTS
    Runs,     \* approved incidents
    Plans     \* what agent 07's diagnosis may have written

Things == {"pod", "deployment", "autoscaler", "instance", "volume", "address"}
Tools == {"memory", "autoscaler", "rollback", "aws_quick_wins", "azure_quick_wins", "drift",
          "runbook"}
Verbs == {"read", "create", "replace", "patch", "restart", "apply", "delete"}

\* A step of a plan: a call, a manifest piped to kubectl, or what is passed over.
PlanStep == [id : STRING, kind : {"call", "manifest", "unknown"}, verb : Verbs,
             thing : Things, on_failure : STRING]

ASSUME PlansAreSteps == Plans \subseteq Seq(PlanStep)
ASSUME RunsAreRuns ==
    Runs \intersect {"nobody", "absent", "before", "none", "unknown"} = {}

VARIABLES
    tool,      \* the tool of the option that was approved
    plan,      \* agent 07's plan
    cloud,     \* what each thing is: absent, as it was before, or what a run made it
    run,       \* where a run is, and what it has got
    orphans,   \* calls nobody waits for any more
    \* History.
    last,         \* the run whose call last changed a thing
    landed,       \* the steps of a run that had their effect
    replaced,     \* what a run's last effect replaced
    interfered,   \* runs whose thing another run changed after they had read it
    troubled      \* runs a call of which failed without a reason of the cloud's, or was lost

history == <<last, landed, replaced, interfered, troubled>>
vars == <<tool, plan, cloud, run, orphans, history>>

Content == Runs \union {"absent", "before"}
Answers == {"ok", "refused", "error", "lost"}

\* What a tool hands back, or that it raised; "applied" says nothing of what was.
Results == {"none", "ok", "partial", "failed", "applied", "raised"}

Init ==
    /\ tool \in [Runs -> Tools]
    /\ plan \in [Runs -> Plans \union {<<>>}]
    /\ \A r \in Runs : plan[r] = <<>> \/ tool[r] = "runbook"
    /\ cloud \in [Things -> {"absent", "before"}]
    /\ run = [r \in Runs |-> [at |-> "pending", step |-> 0, result |-> "none",
                              before |-> "none", succeeded |-> FALSE, failed |-> FALSE,
                              results |-> 0]]
    /\ orphans = {}
    /\ last = [o \in Things |-> "nobody"]
    /\ landed = [r \in Runs |-> {}]
    /\ replaced = [r \in Runs |-> "none"]
    /\ interfered = {} /\ troubled = {}

------------------------------------------------------------------------------
(* Scripts *)

Go(n) == [step |-> n, result |-> "none"]
Return(result) == [step |-> 0, result |-> result]

Always(next) == [a \in Answers |-> next]
OkOr(next, otherwise) == [a \in Answers |-> IF a = "ok" THEN next ELSE otherwise]
Call(verb, thing, goes) == [verb |-> verb, thing |-> thing, goes |-> goes]

\* The capture left until after the patch.
BadMemory == << Call("patch", "deployment", OkOr(Go(2), Return("raised"))),
                Call("read", "deployment", Always(Return("ok"))) >>

\* patch_deployment_memory: what was is captured, if it can be; the rest must work.
Memory == << Call("read", "deployment", Always(Go(2))),
             Call("patch", "deployment", OkOr(Return("ok"), Return("raised"))) >>

\* apply_hpa: created, or replaced if there is one (409).
Autoscaler == << Call("read", "autoscaler", Always(Go(2))),
                 Call("create", "autoscaler",
                      [OkOr(Return("ok"), Return("raised")) EXCEPT !["refused"] = Go(3)]),
                 Call("replace", "autoscaler", OkOr(Return("ok"), Return("raised"))) >>

\* rollback_deployment: the revision is read and the pods are restarted.
Rollback == << Call("read", "deployment", OkOr(Go(2), Return("raised"))),
               Call("restart", "deployment", OkOr(Return("ok"), Return("raised"))) >>

\* A call per resource whose errors are collected; what is not an answer raises.
Collecting(verb, thing, next) ==
    Call(verb, thing, [Always(next) EXCEPT !["lost"] = Return("raised")])

\* execute_option: instances are stopped, volumes deleted, addresses released.
AwsQuickWins == << Call("patch", "instance", OkOr(Go(2), Return("raised"))),
                   Collecting("delete", "volume", Go(3)),
                   Collecting("delete", "address", Return("applied")) >>

AzureQuickWins == << Collecting("patch", "instance", Go(2)),
                     Collecting("delete", "volume", Return("applied")) >>

\* A delete that timed out taken for done.
BadDrift == << Call("apply", "pod",
                    [OkOr(Return("ok"), Return("failed")) EXCEPT !["refused"] = Go(2)]),
               Call("delete", "pod",
                    [Always(Return("failed")) EXCEPT !["ok"] = Go(3), !["lost"] = Go(3)]),
               Call("apply", "pod", OkOr(Return("ok"), Return("failed"))) >>

\* The pod deleted and not created again.
BadDriftGone == << Call("apply", "pod",
                        [OkOr(Return("ok"), Return("failed")) EXCEPT !["refused"] = Go(2)]),
                   Call("delete", "pod", OkOr(Return("failed"), Return("failed"))) >>

\* apply_k8s_manifest: a pod whose fields cannot be changed is deleted and created
\* again.  What fails is handed back, not raised.
Drift == << Call("apply", "pod",
                 [OkOr(Return("ok"), Return("failed")) EXCEPT !["refused"] = Go(2)]),
            Call("delete", "pod", OkOr(Go(3), Return("failed"))),
            Call("apply", "pod", OkOr(Return("ok"), Return("failed"))) >>

Script(r) ==
    CASE tool[r] = "memory" -> Memory
      [] tool[r] = "autoscaler" -> Autoscaler
      [] tool[r] = "rollback" -> Rollback
      [] tool[r] = "aws_quick_wins" -> AwsQuickWins
      [] tool[r] = "azure_quick_wins" -> AzureQuickWins
      [] tool[r] = "drift" -> Drift
      [] tool[r] = "runbook" -> plan[r]

\* The step a run is at.
Step(r) == Script(r)[run[r].step]

\* results is the length of the list of step results, odd or even, so that a step
\* tried again is a step.
TypeOK ==
    /\ tool \in [Runs -> Tools]
    /\ plan \in [Runs -> Plans \union {<<>>}]
    /\ cloud \in [Things -> Content]
    /\ run \in [Runs -> [at : {"pending", "executing", "reporting", "executed", "failed",
                               "dead"},
                         step : Nat, result : Results,
                         before : Content \union {"none", "unknown"},
                         succeeded : BOOLEAN, failed : BOOLEAN, results : 0..1]]
    /\ \A r \in Runs : /\ run[r].step \in 0..Len(Script(r))
                       /\ run[r].at = "executing" => run[r].step # 0
    /\ \A c \in orphans : c.run \in Runs /\ c.verb \in Verbs /\ c.thing \in Things
    /\ last \in [Things -> Runs \union {"nobody"}]
    /\ landed \in [Runs -> SUBSET Nat]
    /\ replaced \in [Runs -> Content \union {"none"}]
    /\ interfered \subseteq Runs /\ troubled \subseteq Runs

------------------------------------------------------------------------------
(* A plan *)

\* step_index: of steps with one id, the last; 0 if there is none.
StepIndex(steps, id) ==
    LET named == {i \in DOMAIN steps : steps[i].id = id}
    IN IF named = {} THEN 0 ELSE CHOOSE i \in named : \A j \in named : j <= i

\* A jump that does not move the counter.
BadFollowing(steps, i, failed) ==
    LET step == steps[i]
        target == StepIndex(steps, step.on_failure)
    IN CASE failed /\ step.on_failure = "stop" -> 0
         [] failed /\ target > i -> i
         [] failed /\ target \in 1..i -> target
         [] OTHER -> IF i < Len(steps) THEN i + 1 ELSE 0

\* The step after a step, 0 after the last: a step that failed may stop the plan or
\* jump, also back.
Following(steps, i, failed) ==
    LET step == steps[i]
        target == StepIndex(steps, step.on_failure)
    IN CASE failed /\ step.on_failure = "stop" -> 0
         [] failed /\ step.on_failure # "stop" /\ target # 0 -> target
         [] OTHER -> IF i < Len(steps) THEN i + 1 ELSE 0

\* A failure that the plan goes on after not counted.
BadOverall(succeeded, failed) == IF succeeded THEN "ok" ELSE IF failed THEN "failed" ELSE "ok"

Overall(succeeded, failed) ==
    IF ~failed THEN "ok" ELSE IF succeeded THEN "partial" ELSE "failed"

\* What a read of before_state found: the autoscaler may be missing, all else not;
\* a read that fails leaves it unknown, and a plan's reads are no before_state.
Captured(r, answer) ==
    IF tool[r] = "runbook" \/ Step(r).verb # "read" THEN run[r].before
    ELSE CASE answer = "ok" -> cloud[Step(r).thing]
           [] answer = "refused" /\ Step(r).thing = "autoscaler" -> "absent"
           [] OTHER -> "unknown"

\* The result left as the status.
BadStatus(r, next) == IF next.step # 0 THEN "executing" ELSE next.result

\* What raises fails the incident; every other result counts as executed, a plan's
\* once its report is made.
Status(r, next) ==
    CASE next.step # 0 -> "executing"
      [] next.step = 0 /\ next.result = "raised" -> "failed"
      [] next.step = 0 /\ tool[r] = "runbook" -> "reporting"
      [] OTHER -> "executed"

\* How far a run is after an answer to its call.
AfterAnswer(r, answer) ==
    LET failed == answer \notin {"ok", "skipped"}
        succeeded == run[r].succeeded \/ answer = "ok"
        anyFailed == run[r].failed \/ failed
        next == IF tool[r] # "runbook" THEN Step(r).goes[answer]
                ELSE LET i == Following(plan[r], run[r].step, failed)
                     IN IF i # 0 THEN Go(i) ELSE Return(Overall(succeeded, anyFailed))
    IN [run[r] EXCEPT
          !.at = Status(r, next), !.step = next.step, !.result = next.result,
          !.before = Captured(r, answer),
          !.succeeded = succeeded, !.failed = anyFailed, !.results = 1 - @]

------------------------------------------------------------------------------
(* The cloud *)

\* What the state of a thing refuses: a second one, a change of what is not there, and
\* a change of a pod that is there (most of its fields cannot be changed).
Accepts(r, verb, thing) ==
    CASE verb = "create" -> cloud[thing] = "absent"
      [] verb = "apply" -> thing = "pod" => cloud[thing] \in {"absent", r}
      [] OTHER -> cloud[thing] # "absent"

Effect(r, verb, thing) ==
    CASE verb = "delete" -> "absent"
      [] verb \in {"read", "restart"} -> cloud[thing]
      [] OTHER -> r

\* A call has its effect.
Land(r, i, verb, thing) ==
    /\ cloud' = [cloud EXCEPT ![thing] = Effect(r, verb, thing)]
    /\ landed' = [landed EXCEPT ![r] = @ \union {i}]
    /\ IF verb = "read" THEN UNCHANGED <<last, replaced, interfered>>
       ELSE /\ last' = [last EXCEPT ![thing] = r]
            /\ replaced' = [replaced EXCEPT ![r] = cloud[thing]]
            /\ interfered' = interfered \union
                 {q \in Runs \ {r} : /\ run[q].at = "executing" /\ run[q].before # "none"
                                     /\ Step(q).thing = thing}

------------------------------------------------------------------------------
(* A run *)

\* An empty plan is skipped.
Approve(r) ==
    /\ run[r].at = "pending"
    /\ run' = [run EXCEPT ![r].at = IF Script(r) = <<>> THEN "executed" ELSE "executing",
                          ![r].step = IF Script(r) = <<>> THEN 0 ELSE 1]
    /\ UNCHANGED <<tool, plan, cloud, orphans, history>>

Calls(r) == run[r].at = "executing" /\ (tool[r] = "runbook" => Step(r).kind = "call")

\* The call is answered: done, or refused.
Serve(r) ==
    LET i == run[r].step
        step == Step(r)
        accepted == Accepts(r, step.verb, step.thing)
        answer == IF accepted THEN "ok" ELSE "refused"
    IN /\ Calls(r)
       /\ run' = [run EXCEPT ![r] = AfterAnswer(r, answer)]
       /\ IF accepted THEN Land(r, i, step.verb, step.thing)
                      ELSE UNCHANGED <<cloud, last, landed, replaced, interfered>>
       /\ UNCHANGED <<tool, plan, orphans, troubled>>

\* The call is turned down for another reason: permissions, throttling, an exit code.
Deny(r) ==
    /\ Calls(r)
    /\ run' = [run EXCEPT ![r] = AfterAnswer(r, "error")]
    /\ troubled' = troubled \union {r}
    /\ UNCHANGED <<tool, plan, cloud, orphans, last, landed, replaced, interfered>>

Outstanding(r) ==
    IF ~Calls(r) \/ Step(r).verb = "read" THEN {}
    ELSE {[run |-> r, step |-> run[r].step, verb |-> Step(r).verb, thing |-> Step(r).thing]}

\* No answer in time: wait_for gives up, and what it waited for goes on.
Lose(r) ==
    /\ Calls(r)
    /\ run' = [run EXCEPT ![r] = AfterAnswer(r, "lost")]
    /\ orphans' = orphans \union Outstanding(r)
    /\ troubled' = troubled \union {r}
    /\ UNCHANGED <<tool, plan, cloud, last, landed, replaced, interfered>>

\* echo exits with 0 and applies nothing, unless a quote in the manifest ends the
\* command early; a type nobody knows is passed over.
Pass(r) ==
    /\ run[r].at = "executing" /\ tool[r] = "runbook" /\ Step(r).kind # "call"
    /\ \E answer \in IF Step(r).kind = "manifest" THEN {"ok", "error"} ELSE {"skipped"} :
          run' = [run EXCEPT ![r] = AfterAnswer(r, answer)]
    /\ UNCHANGED <<tool, plan, cloud, orphans, history>>

\* The issue with the plan's report: one that is turned down is logged, one that is
\* not answered fails the incident.
Report(r) ==
    /\ run[r].at = "reporting"
    /\ \E at \in {"executed", "failed"} : run' = [run EXCEPT ![r].at = at]
    /\ UNCHANGED <<tool, plan, cloud, orphans, history>>

\* The worker dies; nobody takes the run up again.
Die(r) ==
    /\ run[r].at \in {"executing", "reporting"}
    /\ run' = [run EXCEPT ![r].at = "dead"]
    /\ orphans' = orphans \union Outstanding(r)
    /\ troubled' = troubled \union {r}
    /\ UNCHANGED <<tool, plan, cloud, last, landed, replaced, interfered>>

\* A call nobody waits for has its effect, or is refused.  It may also have none.
OrphanLands(c) ==
    /\ orphans' = orphans \ {c}
    /\ IF Accepts(c.run, c.verb, c.thing) THEN Land(c.run, c.step, c.verb, c.thing)
       ELSE UNCHANGED <<cloud, last, landed, replaced, interfered>>
    /\ UNCHANGED <<tool, plan, run, troubled>>

------------------------------------------------------------------------------
RunStep(r) == Serve(r) \/ Deny(r) \/ Lose(r) \/ Pass(r) \/ Report(r)

Next ==
    \/ \E r \in Runs : Approve(r) \/ RunStep(r) \/ Die(r)
    \/ \E c \in orphans : OrphanLands(c)

Spec == Init /\ [][Next]_vars

\* Every call is answered or given up after its timeout.
FairSpec == Spec /\ \A r \in Runs : WF_vars(RunStep(r))

------------------------------------------------------------------------------
(* Properties *)

\* The thing that a tool makes or changes, and that is to be the run's afterwards.
Makes(r) ==
    CASE tool[r] = "memory" -> {"deployment"}
      [] tool[r] = "autoscaler" -> {"autoscaler"}
      [] tool[r] = "drift" -> {"pod"}
      [] OTHER -> {}

Over(r) == run[r].at \in {"executed", "failed", "dead"}

\* A fix that reports success is in place until another run's call changes the thing:
\* no call of its own comes after.
RestoredExplained ==
    \A r \in Runs : \A o \in Makes(r) :
        run[r].result = "ok" => cloud[o] = r \/ last[o] \notin {r, "nobody"}

\* What a tool deletes to make it anew is gone, once the run is over, only if a call
\* of it failed or was lost: two runs about one thing do not leave it deleted.
GoneExplained ==
    \A r \in Runs : \A o \in Makes(r) :
        Over(r) /\ last[o] = r /\ cloud[o] = "absent" =>
            r \in troubled

\* The report of a plan says ok only if every call of it that was not passed over
\* has had its effect; a piped manifest, which has none, says so too.
OkMeansDone ==
    \A r \in Runs :
        tool[r] = "runbook" /\ run[r].result = "ok" =>
            \A i \in DOMAIN plan[r] : plan[r][i].kind = "call" => i \in landed[r]

\* The before_state kept for a rollback is what the fix replaced, unless another run
\* changed the thing between the read and the fix.
BeforeStateExplained ==
    \A r \in Runs :
        run[r].result = "ok" /\ run[r].before \notin {"none", "unknown"} =>
            run[r].before = replaced[r] \/ r \in interfered

\* A step failed and the plan goes on at a step that is not after it.
JumpsBack(r) ==
    /\ run[r].at = "executing" /\ tool[r] = "runbook"
    /\ run'[r] # run[r]
    /\ run'[r].step = StepIndex(plan[r], Step(r).on_failure)
    /\ run'[r].step \in 1..run[r].step

\* A run ends, unless its worker dies or its plan goes round for ever, which no
\* limit on steps prevents.
RunsEnd ==
    \A r \in Runs :
        (run[r].at = "executing" ~> Over(r)) \/ []<><<JumpsBack(r)>>_run
------------------------------------------------------------------------------
(* The inductive invariant behind them *)

\* A call nobody waits for is of a run that had trouble, and a fix of one thing
\* neither goes on nor has succeeded once there is one.
OrphanInv ==
    \A c \in orphans :
        /\ c.run \in Runs /\ c.step \in Nat /\ c.verb \in Verbs /\ c.thing \in Things
        /\ c.run \in troubled
        /\ tool[c.run] \in {"memory", "autoscaler", "rollback", "drift"} =>
              run[c.run].at \in {"executed", "failed", "dead"} /\ run[c.run].result # "ok"

\* A run has no result before its last step.
ResultInv ==
    \A r \in Runs : run[r].at \in {"pending", "executing"} => run[r].result = "none"

\* What a fix keeps as before_state is what it is about to replace, unless another
\* run changed the thing since it was read.
CaptureInv ==
    \A r \in Runs :
        /\ run[r].at = "pending" \/ tool[r] \notin {"memory", "autoscaler", "rollback"} =>
              run[r].before = "none"
        /\ run[r].at = "executing" /\ run[r].before \notin {"none", "unknown"} =>
              run[r].before = cloud[Step(r).thing] \/ r \in interfered

\* What a run without trouble changed last is there, unless it has just deleted a pod
\* and is about to create it again.
MadeInv ==
    \A r \in Runs : \A o \in Makes(r) :
        r \notin troubled /\ last[o] = r /\ cloud[o] = "absent" =>
            tool[r] = "drift" /\ run[r].at = "executing" /\ run[r].step = 3

\* While no step of a plan failed, every call before the step it is at has landed.
PlanInv ==
    \A r \in Runs :
        tool[r] = "runbook" /\ run[r].at = "executing" /\ ~run[r].failed =>
            \A i \in 1..(run[r].step - 1) : plan[r][i].kind = "call" => i \in landed[r]

CommandInv == /\ OrphanInv /\ ResultInv /\ CaptureInv /\ MadeInv /\ PlanInv
              /\ RestoredExplained /\ OkMeansDone /\ BeforeStateExplained
================================================================================
