-------------------------- MODULE CloudCommands_proofs --------------------------
(***************************************************************************)
(* Proofs about CloudCommands, for any runs and any plans: its types, that *)
(* a fix which reports success is in place, that nothing is left deleted   *)
(* without trouble, that a plan's report and a fix's before_state are true.*)
(***************************************************************************)
EXTENDS CloudCommands, WellFoundedInduction, TLAPS

------------------------------------------------------------------------------
(* Scripts *)

\* A fix of one thing stops at the first call it gets no answer to.
Single == {"memory", "autoscaler", "rollback", "drift"}

\* The tools with a script that no diagnosis wrote.
Fixed == Tools \ {"runbook"}

\* Where tool t, at step i of script s, goes after answer a.
GoesWell(t, s, i, a) ==
    LET verb == s[i].verb
        next == s[i].goes[a]
    IN  /\ next.step \in 0..Len(s) /\ next.result \in Results
        /\ next.step # 0 => next.result = "none"
        \* Only an effect of a fix of one thing makes it a success ...
        /\ next.result = "ok" =>
             /\ a = "ok" /\ t \in Single /\ verb \notin {"read", "delete"}
             /\ verb = "restart" => t = "rollback"
        \* ... and without an answer to a change it is none.
        /\ t \in Single /\ a = "lost" /\ verb # "read" =>
             next.step = 0 /\ next.result # "ok"
        \* A thing captured is changed once.
        /\ t \in {"memory", "autoscaler", "rollback"} /\ verb # "read" /\ a = "ok" =>
             next.step = 0
        \* Only a pod is deleted to be created anew.
        /\ t \in {"memory", "autoscaler", "drift"} /\ verb = "delete" =>
             t = "drift" /\ (a = "ok" => next.step = 3)

WellScripted(t, s) ==
    /\ Len(s) \in Nat /\ DOMAIN s = 1..Len(s) /\ Len(s) # 0
    /\ \A i \in 1..Len(s) :
         /\ s[i].verb \in Verbs /\ s[i].thing \in Things
         /\ t \in {"memory", "rollback"} => s[i].thing = "deployment"
         /\ t = "autoscaler" => s[i].thing = "autoscaler"
         /\ t = "drift" => s[i].thing = "pod" /\ (i = 3 => s[i].verb = "apply")
         /\ t \in {"memory", "autoscaler", "drift"} => s[i].verb # "restart"
         /\ t \notin {"memory", "autoscaler", "rollback"} => s[i].verb # "read"
         /\ \A a \in Answers : GoesWell(t, s, i, a)

\* The calls of a script, read off it.
LEMMA CallParts ==
    ASSUME NEW verb, NEW thing, NEW goes
    PROVE  /\ Call(verb, thing, goes).verb = verb
           /\ Call(verb, thing, goes).thing = thing
           /\ Call(verb, thing, goes).goes = goes
BY DEF Call

\* Where a script goes after an answer.
LEMMA GoesParts ==
    ASSUME NEW next, NEW otherwise, NEW a \in Answers
    PROVE  /\ Always(next)[a] = next
           /\ OkOr(next, otherwise)[a] = IF a = "ok" THEN next ELSE otherwise
           /\ DOMAIN Always(next) = Answers /\ DOMAIN OkOr(next, otherwise) = Answers
BY DEF Always, OkOr

\* Where it is after that.
LEMMA NextParts ==
    ASSUME NEW n, NEW result
    PROVE  /\ Go(n).step = n /\ Go(n).result = "none"
           /\ Return(result).step = 0 /\ Return(result).result = result
BY DEF Go, Return

\* The script of agent 02's memory patch.
LEMMA MemoryScripted == WellScripted("memory", Memory)
<1>1. /\ Len(Memory) = 2 /\ DOMAIN Memory = 1..2
      /\ Memory[1] = Call("read", "deployment", Always(Go(2)))
      /\ Memory[2] = Call("patch", "deployment", OkOr(Return("ok"), Return("raised")))
  BY DEF Memory
<1>2. \A i \in 1..2 : i = 1 \/ i = 2
  OBVIOUS
<1>3. ASSUME NEW a \in Answers
      PROVE  GoesWell("memory", Memory, 1, a) /\ GoesWell("memory", Memory, 2, a)
  BY <1>1, CallParts, GoesParts, NextParts DEF GoesWell, Results, Single
<1> QED BY <1>1, <1>2, <1>3, CallParts DEF WellScripted, Verbs, Things

\* ... of its autoscaler ...
LEMMA AutoscalerScripted == WellScripted("autoscaler", Autoscaler)
<1> DEFINE create == [OkOr(Return("ok"), Return("raised")) EXCEPT !["refused"] = Go(3)]
<1>1. /\ Len(Autoscaler) = 3 /\ DOMAIN Autoscaler = 1..3
      /\ Autoscaler[1] = Call("read", "autoscaler", Always(Go(2)))
      /\ Autoscaler[2] = Call("create", "autoscaler", create)
      /\ Autoscaler[3] = Call("replace", "autoscaler", OkOr(Return("ok"), Return("raised")))
  BY DEF Autoscaler
<1>2. \A i \in 1..3 : i = 1 \/ i = 2 \/ i = 3
  OBVIOUS
<1>3. \A a \in Answers : create[a] = CASE a = "ok" -> Return("ok") [] a = "refused" -> Go(3)
                                       [] OTHER -> Return("raised")
  BY GoesParts DEF Answers
<1> HIDE DEF create
<1>4. ASSUME NEW a \in Answers
      PROVE  /\ GoesWell("autoscaler", Autoscaler, 1, a)
             /\ GoesWell("autoscaler", Autoscaler, 2, a)
             /\ GoesWell("autoscaler", Autoscaler, 3, a)
  BY <1>1, <1>3, CallParts, GoesParts, NextParts DEF GoesWell, Results, Single
<1> QED BY <1>1, <1>2, <1>4, CallParts DEF WellScripted, Verbs, Things

\* ... and of its rollback.
LEMMA RollbackScripted == WellScripted("rollback", Rollback)
<1>1. /\ Len(Rollback) = 2 /\ DOMAIN Rollback = 1..2
      /\ Rollback[1] = Call("read", "deployment", OkOr(Go(2), Return("raised")))
      /\ Rollback[2] = Call("restart", "deployment", OkOr(Return("ok"), Return("raised")))
  BY DEF Rollback
<1>2. \A i \in 1..2 : i = 1 \/ i = 2
  OBVIOUS
<1>3. ASSUME NEW a \in Answers
      PROVE  GoesWell("rollback", Rollback, 1, a) /\ GoesWell("rollback", Rollback, 2, a)
  BY <1>1, CallParts, GoesParts, NextParts DEF GoesWell, Results, Single
<1> QED BY <1>1, <1>2, <1>3, CallParts DEF WellScripted, Verbs, Things

\* A call whose errors are collected goes on, unless it is not answered.
LEMMA CollectingParts ==
    ASSUME NEW verb, NEW thing, NEW next, NEW a \in Answers
    PROVE  /\ Collecting(verb, thing, next).verb = verb
           /\ Collecting(verb, thing, next).thing = thing
           /\ Collecting(verb, thing, next).goes[a] =
                IF a = "lost" THEN Return("raised") ELSE next
BY CallParts, GoesParts DEF Collecting

\* The scripts of agent 06's quick wins.
LEMMA AwsScripted == WellScripted("aws_quick_wins", AwsQuickWins)
<1>1. /\ Len(AwsQuickWins) = 3 /\ DOMAIN AwsQuickWins = 1..3
      /\ AwsQuickWins[1] = Call("patch", "instance", OkOr(Go(2), Return("raised")))
      /\ AwsQuickWins[2] = Collecting("delete", "volume", Go(3))
      /\ AwsQuickWins[3] = Collecting("delete", "address", Return("applied"))
  BY DEF AwsQuickWins
<1>2. \A i \in 1..3 : i = 1 \/ i = 2 \/ i = 3
  OBVIOUS
<1>3. ASSUME NEW a \in Answers
      PROVE  /\ GoesWell("aws_quick_wins", AwsQuickWins, 1, a)
             /\ GoesWell("aws_quick_wins", AwsQuickWins, 2, a)
             /\ GoesWell("aws_quick_wins", AwsQuickWins, 3, a)
  BY <1>1, CallParts, CollectingParts, GoesParts, NextParts DEF GoesWell, Results, Single
<1>4. "ok" \in Answers
  BY DEF Answers
<1> QED BY <1>1, <1>2, <1>3, <1>4, CallParts, CollectingParts DEF WellScripted, Verbs, Things

\* Azure's quick wins are a script.
LEMMA AzureScripted == WellScripted("azure_quick_wins", AzureQuickWins)
<1>1. /\ Len(AzureQuickWins) = 2 /\ DOMAIN AzureQuickWins = 1..2
      /\ AzureQuickWins[1] = Collecting("patch", "instance", Go(2))
      /\ AzureQuickWins[2] = Collecting("delete", "volume", Return("applied"))
  BY DEF AzureQuickWins
<1>2. \A i \in 1..2 : i = 1 \/ i = 2
  OBVIOUS
<1>3. ASSUME NEW a \in Answers
      PROVE  /\ GoesWell("azure_quick_wins", AzureQuickWins, 1, a)
             /\ GoesWell("azure_quick_wins", AzureQuickWins, 2, a)
  BY <1>1, CollectingParts, NextParts DEF GoesWell, Results, Single
<1>4. "ok" \in Answers
  BY DEF Answers
<1> QED BY <1>1, <1>2, <1>3, <1>4, CollectingParts DEF WellScripted, Verbs, Things

\* The script of agent 08's restoration.
LEMMA DriftScripted == WellScripted("drift", Drift)
<1> DEFINE apply == [OkOr(Return("ok"), Return("failed")) EXCEPT !["refused"] = Go(2)]
<1>1. /\ Len(Drift) = 3 /\ DOMAIN Drift = 1..3
      /\ Drift[1] = Call("apply", "pod", apply)
      /\ Drift[2] = Call("delete", "pod", OkOr(Go(3), Return("failed")))
      /\ Drift[3] = Call("apply", "pod", OkOr(Return("ok"), Return("failed")))
  BY DEF Drift
<1>2. \A i \in 1..3 : i = 1 \/ i = 2 \/ i = 3
  OBVIOUS
<1>3. \A a \in Answers : apply[a] = CASE a = "ok" -> Return("ok") [] a = "refused" -> Go(2)
                                      [] OTHER -> Return("failed")
  BY GoesParts DEF Answers
<1> HIDE DEF apply
<1>4. ASSUME NEW a \in Answers
      PROVE  /\ GoesWell("drift", Drift, 1, a) /\ GoesWell("drift", Drift, 2, a)
             /\ GoesWell("drift", Drift, 3, a)
  BY <1>1, <1>3, CallParts, GoesParts, NextParts DEF GoesWell, Results, Single
<1> QED BY <1>1, <1>2, <1>4, CallParts DEF WellScripted, Verbs, Things

\* Every tool but agent 07's has a script as above.
LEMMA Scripted ==
    ASSUME NEW r \in Runs, tool[r] \in Fixed
    PROVE  WellScripted(tool[r], Script(r))
<1> USE DEF Script
<1>1. CASE tool[r] = "memory"
  BY <1>1, MemoryScripted
<1>2. CASE tool[r] = "autoscaler"
  BY <1>2, AutoscalerScripted
<1>3. CASE tool[r] = "rollback"
  BY <1>3, RollbackScripted
<1>4. CASE tool[r] = "aws_quick_wins"
  BY <1>4, AwsScripted
<1>5. CASE tool[r] = "azure_quick_wins"
  BY <1>5, AzureScripted
<1>6. CASE tool[r] = "drift"
  BY <1>6, DriftScripted
<1> QED BY <1>1, <1>2, <1>3, <1>4, <1>5, <1>6 DEF Fixed, Tools

------------------------------------------------------------------------------
(* Plans *)

\* A non-empty set of positions has a last one: of steps with one id, the last
\* is where a failure jumps to.
LEMMA LastPosition ==
    ASSUME NEW n \in Nat, NEW S \in SUBSET (1..n), S # {}
    PROVE  \E i \in S : \A j \in S : j <= i
<1> DEFINE T == {n - j : j \in S}
<1>1. \A j \in S : n - j \in Nat
  OBVIOUS
<1>2. T \subseteq Nat /\ T # {}
  BY <1>1
<1>3. PICK t \in T : \A u \in T : ~ (<<u, t>> \in OpToRel(<, Nat))
  BY <1>2, WFMin, NatLessThanWellFounded
<1>4. PICK i \in S : t = n - i
  OBVIOUS
<1>5. ASSUME NEW j \in S
      PROVE  j <= i
  <2>1. n - j \in T /\ n - j \in Nat /\ t \in Nat
    BY <1>1, <1>2
  <2>2. ~ (n - j < t)
    BY <1>3, <2>1 DEF OpToRel
  <2> QED BY <1>4, <2>1, <2>2
<1> QED BY <1>5

\* A jump goes to a step of the plan.
LEMMA StepIndexBounds ==
    ASSUME NEW steps \in Seq(PlanStep), NEW id
    PROVE  StepIndex(steps, id) \in 0..Len(steps)
<1> DEFINE named == {i \in DOMAIN steps : steps[i].id = id}
<1>1. Len(steps) \in Nat /\ named \in SUBSET (1..Len(steps))
  OBVIOUS
<1>2. CASE named = {}
  BY <1>1, <1>2 DEF StepIndex
<1>3. CASE named # {}
  <2>1. \E i \in named : \A j \in named : j <= i
    BY <1>1, <1>3, LastPosition
  <2>2. StepIndex(steps, id) \in named
    BY <1>3, <2>1 DEF StepIndex
  <2> QED BY <1>1, <2>2
<1> QED BY <1>2, <1>3

\* A plan goes on at a step of its own or ends; without a failure at the next one.
LEMMA FollowingBounds ==
    ASSUME NEW steps \in Seq(PlanStep), NEW i \in 1..Len(steps), NEW failed \in BOOLEAN
    PROVE  /\ Following(steps, i, failed) \in 0..Len(steps)
           /\ ~failed => Following(steps, i, failed) = IF i < Len(steps) THEN i + 1 ELSE 0
<1>1. StepIndex(steps, steps[i].on_failure) \in 0..Len(steps) /\ Len(steps) \in Nat
  BY StepIndexBounds
<1> QED BY <1>1 DEF Following

------------------------------------------------------------------------------
(* A step of a run *)

\* Where a run goes after an answer.
GoesTo(r, answer) ==
    IF tool[r] # "runbook" THEN Step(r).goes[answer]
    ELSE LET i == Following(plan[r], run[r].step, answer \notin {"ok", "skipped"})
         IN IF i # 0 THEN Go(i)
            ELSE Return(Overall(run[r].succeeded \/ answer = "ok",
                                run[r].failed \/ answer \notin {"ok", "skipped"}))

\* The script of a run is made of calls, or it is a plan.
LEMMA ScriptParts ==
    ASSUME TypeOK, NEW r \in Runs
    PROVE  /\ tool[r] \in Tools
           /\ tool[r] # "runbook" => tool[r] \in Fixed /\ WellScripted(tool[r], Script(r))
           /\ tool[r] = "runbook" => Script(r) = plan[r]
           /\ plan[r] \in Seq(PlanStep)
           /\ Len(Script(r)) \in Nat /\ DOMAIN Script(r) = 1..Len(Script(r))
<1>1. tool[r] \in Tools /\ plan[r] \in Plans \union {<<>>}
  BY DEF TypeOK
<1>2. plan[r] \in Seq(PlanStep)
  <2>1. <<>> \in Seq(PlanStep)
    OBVIOUS
  <2> QED BY <1>1, <2>1, PlansAreSteps
<1>3. tool[r] = "runbook" => Script(r) = plan[r]
  BY DEF Script
<1>4. tool[r] # "runbook" => tool[r] \in Fixed /\ WellScripted(tool[r], Script(r))
  BY <1>1, Scripted DEF Fixed
<1>5. WellScripted(tool[r], Script(r)) =>
        Len(Script(r)) \in Nat /\ DOMAIN Script(r) = 1..Len(Script(r))
  BY DEF WellScripted
<1> QED BY <1>1, <1>2, <1>3, <1>4, <1>5

\* A run that is executing is at a step of its script.
LEMMA StepParts ==
    ASSUME TypeOK, NEW r \in Runs, run[r].at = "executing"
    PROVE  /\ run[r].step \in 1..Len(Script(r))
           /\ Step(r).verb \in Verbs /\ Step(r).thing \in Things
           /\ tool[r] # "runbook" => \A a \in Answers : GoesWell(tool[r], Script(r), run[r].step, a)
           /\ tool[r] \in {"memory", "rollback"} => Step(r).thing = "deployment"
           /\ tool[r] = "autoscaler" => Step(r).thing = "autoscaler"
           /\ tool[r] = "drift" =>
                Step(r).thing = "pod" /\ (run[r].step = 3 => Step(r).verb = "apply")
           /\ tool[r] \in {"memory", "autoscaler", "drift"} => Step(r).verb # "restart"
           /\ tool[r] \notin {"memory", "autoscaler", "rollback", "runbook"} =>
                Step(r).verb # "read"
<1>1. run[r].step \in 1..Len(Script(r))
  <2>1. \A q \in Runs : run[q].step \in 0..Len(Script(q))
                       /\ (run[q].at = "executing" => run[q].step # 0)
    BY DEF TypeOK
  <2>3. run[r].step \in 0..Len(Script(r)) /\ run[r].step # 0
    BY <2>1
  <2>2. Len(Script(r)) \in Nat
    BY ScriptParts
  <2> QED BY <2>2, <2>3
<1>2. CASE tool[r] = "runbook"
  <2>1. Step(r) \in PlanStep
    BY <1>1, <1>2, ScriptParts DEF Step
  <2> QED BY <1>1, <1>2, <2>1 DEF PlanStep
<1>3. CASE tool[r] # "runbook"
  BY <1>1, <1>3, ScriptParts DEF Step, WellScripted
<1> QED BY <1>2, <1>3

\* What the state of a run is made of.
RunState ==
    [at : {"pending", "executing", "reporting", "executed", "failed", "dead"},
     step : Nat, result : Results, before : Content \union {"none", "unknown"},
     succeeded : BOOLEAN, failed : BOOLEAN, results : 0..1]

\* After an answer a run is at a step of its script, or at its end with a result.
LEMMA GoesToParts ==
    ASSUME TypeOK, NEW r \in Runs, run[r].at = "executing", NEW a \in Answers \union {"skipped"},
           tool[r] # "runbook" => a \in Answers
    PROVE  /\ GoesTo(r, a).step \in 0..Len(Script(r))
           /\ GoesTo(r, a).result \in Results
           /\ GoesTo(r, a).step # 0 => GoesTo(r, a).result = "none"
           /\ tool[r] # "runbook" => GoesTo(r, a) = Step(r).goes[a]
<1>1. CASE tool[r] # "runbook"
  <2>1. GoesWell(tool[r], Script(r), run[r].step, a)
    BY <1>1, StepParts
  <2>2. GoesTo(r, a) = Script(r)[run[r].step].goes[a]
    BY <1>1 DEF GoesTo, Step
  <2> QED BY <1>1, <2>1, <2>2 DEF GoesWell, Step
<1>2. CASE tool[r] = "runbook"
  <2> DEFINE i == Following(plan[r], run[r].step, a \notin {"ok", "skipped"})
             ended == Overall(run[r].succeeded \/ a = "ok",
                              run[r].failed \/ a \notin {"ok", "skipped"})
  <2>1. run[r].step \in 1..Len(plan[r]) /\ plan[r] \in Seq(PlanStep)
    BY <1>2, ScriptParts, StepParts
  <2>2. i \in 0..Len(plan[r])
    BY <2>1, FollowingBounds
  <2>3. ended \in Results
    BY DEF Overall, Results
  <2>4. GoesTo(r, a) = IF i # 0 THEN Go(i) ELSE Return(ended)
    BY <1>2 DEF GoesTo
  <2>5. Len(plan[r]) \in Nat /\ Script(r) = plan[r]
    BY <1>2, <2>1, ScriptParts
  <2> HIDE DEF i, ended
  <2> QED BY <1>2, <2>2, <2>3, <2>4, <2>5, NextParts DEF Results
<1> QED BY <1>1, <1>2

\* What the run is then.
LEMMA AnswerParts ==
    ASSUME TypeOK, NEW r \in Runs, run[r].at = "executing", NEW a \in Answers \union {"skipped"},
           tool[r] # "runbook" => a \in Answers,
           NEW n, n = AfterAnswer(r, a), NEW next, next = GoesTo(r, a)
    PROVE  /\ n \in RunState /\ n.step = next.step /\ n.result = next.result
           /\ n.at = Status(r, next) /\ n.before = Captured(r, a)
           /\ n.succeeded = (run[r].succeeded \/ a = "ok")
           /\ n.failed = (run[r].failed \/ a \notin {"ok", "skipped"})
<1>1. n = [run[r] EXCEPT
             !.at = Status(r, next), !.step = next.step, !.result = next.result,
             !.before = Captured(r, a), !.succeeded = run[r].succeeded \/ a = "ok",
             !.failed = run[r].failed \/ a \notin {"ok", "skipped"}, !.results = 1 - @]
  BY Zenon DEF AfterAnswer, GoesTo
<1>2. run[r] \in RunState
  BY DEF TypeOK, RunState
<1>3. next.step \in Nat /\ next.result \in Results
  <2>1. next.step \in 0..Len(Script(r)) /\ Len(Script(r)) \in Nat
    BY GoesToParts, ScriptParts
  <2> QED BY <2>1, GoesToParts
<1>4. Captured(r, a) \in Content \union {"none", "unknown"}
  <2>1. Step(r).thing \in Things /\ run[r].before \in Content \union {"none", "unknown"}
    BY <1>2, StepParts DEF RunState
  <2>2. cloud[Step(r).thing] \in Content
    BY <2>1 DEF TypeOK
  <2> QED BY <2>1, <2>2 DEF Captured, Content
<1>5. 1 - run[r].results \in 0..1
  BY <1>2 DEF RunState
<1>6. Status(r, next) \in {"executing", "reporting", "executed", "failed"}
  BY DEF Status
<1> HIDE DEF Status, Captured
<1> QED BY <1>1, <1>2, <1>3, <1>4, <1>5, <1>6 DEF RunState

\* A run whose call is answered becomes that, and no other run changes.
LEMMA RunParts ==
    ASSUME TypeOK, NEW r \in Runs, NEW n, run' = [run EXCEPT ![r] = n]
    PROVE  run'[r] = n /\ \A q \in Runs \ {r} : run'[q] = run[q]
BY DEF TypeOK

\* A tool and a plan are a run's for good, and so are its scripts and what it makes.
LEMMA SameScript ==
    ASSUME UNCHANGED <<tool, plan>>, NEW r \in Runs
    PROVE  /\ Script(r)' = Script(r) /\ Makes(r)' = Makes(r)
           /\ run'[r].step = run[r].step => Step(r)' = Step(r)
BY DEF Script, Makes, Step

\* What a call that has its effect changes: the thing, unless it is only read; who
\* changed it last; what that replaced; and who else was about to.
LEMMA LandParts ==
    ASSUME TypeOK, NEW r \in Runs, NEW i \in Nat, NEW verb \in Verbs, NEW thing \in Things,
           Land(r, i, verb, thing)
    PROVE  /\ cloud'[thing] = Effect(r, verb, thing)
           /\ \A o \in Things \ {thing} : cloud'[o] = cloud[o] /\ last'[o] = last[o]
           /\ \A q \in Runs : landed[q] \subseteq landed'[q]
           /\ i \in landed'[r]
           /\ interfered \subseteq interfered'
           /\ verb = "read" => /\ UNCHANGED <<last, replaced, interfered>>
                               /\ cloud'[thing] = cloud[thing]
           /\ verb # "read" =>
                /\ last'[thing] = r /\ replaced'[r] = cloud[thing]
                /\ \A q \in Runs \ {r} :
                     /\ replaced'[q] = replaced[q]
                     /\ run[q].at = "executing" /\ run[q].before # "none"
                          /\ Step(q).thing = thing => q \in interfered'
<1> USE DEF Land, Effect
<1>1. /\ cloud'[thing] = Effect(r, verb, thing)
      /\ \A o \in Things \ {thing} : cloud'[o] = cloud[o]
      /\ \A q \in Runs : landed[q] \subseteq landed'[q]
      /\ i \in landed'[r]
  BY DEF TypeOK
<1>2. CASE verb = "read"
  BY <1>1, <1>2
<1>3. CASE verb # "read"
  BY <1>1, <1>3 DEF TypeOK
<1> QED BY <1>2, <1>3

\* It keeps its types.
LEMMA LandTypes ==
    ASSUME TypeOK, NEW r \in Runs, NEW i \in Nat, NEW verb \in Verbs, NEW thing \in Things,
           Land(r, i, verb, thing)
    PROVE  /\ cloud' \in [Things -> Content] /\ last' \in [Things -> Runs \union {"nobody"}]
           /\ landed' \in [Runs -> SUBSET Nat]
           /\ replaced' \in [Runs -> Content \union {"none"}] /\ interfered' \subseteq Runs
<1>1. Effect(r, verb, thing) \in Content /\ cloud[thing] \in Content
  BY DEF Effect, Content, TypeOK
<1>2. CASE verb = "read"
  BY <1>1, <1>2 DEF Land, TypeOK
<1>3. CASE verb # "read"
  BY <1>1, <1>3 DEF Land, TypeOK
<1> QED BY <1>2, <1>3

------------------------------------------------------------------------------
(* What holds of one run *)

RunInv(q) ==
    /\ run[q].at \in {"pending", "executing"} => run[q].result = "none"
    /\ run[q].at = "pending" \/ tool[q] \notin {"memory", "autoscaler", "rollback"} =>
          run[q].before = "none"
    /\ run[q].at = "executing" /\ run[q].before \notin {"none", "unknown"} =>
          run[q].before = cloud[Step(q).thing] \/ q \in interfered
    /\ \A o \in Makes(q) :
          /\ q \notin troubled /\ last[o] = q /\ cloud[o] = "absent" =>
                tool[q] = "drift" /\ run[q].at = "executing" /\ run[q].step = 3
          /\ run[q].result = "ok" => cloud[o] = q \/ last[o] \notin {q, "nobody"}
    /\ tool[q] = "runbook" /\ run[q].at = "executing" /\ ~run[q].failed =>
          \A i \in 1..(run[q].step - 1) : plan[q][i].kind = "call" => i \in landed[q]
    /\ tool[q] = "runbook" /\ run[q].result = "ok" =>
          \A i \in DOMAIN plan[q] : plan[q][i].kind = "call" => i \in landed[q]
    /\ run[q].result = "ok" /\ run[q].before \notin {"none", "unknown"} =>
          run[q].before = replaced[q] \/ q \in interfered

\* The invariant is that, for every run, and what holds of the calls nobody waits for.
LEMMA ByRun == CommandInv <=> OrphanInv /\ \A q \in Runs : RunInv(q)
BY DEF CommandInv, ResultInv, CaptureInv, MadeInv, PlanInv, RestoredExplained,
       OkMeansDone, BeforeStateExplained, RunInv

\* The invariant holds in the next state if it does of each run there.
LEMMA ByRunNext ==
    ASSUME OrphanInv', \A q \in Runs : RunInv(q)'
    PROVE  CommandInv'
BY DEF CommandInv, ResultInv, CaptureInv, MadeInv, PlanInv, RestoredExplained,
       OkMeansDone, BeforeStateExplained, RunInv

\* What a run makes is a thing, and only a fix of one thing makes it.
LEMMA MakesParts ==
    ASSUME NEW q, NEW o \in Makes(q)
    PROVE  /\ o \in Things /\ tool[q] \in {"memory", "autoscaler", "drift"}
           /\ tool[q] = "memory" => o = "deployment"
           /\ tool[q] = "autoscaler" => o = "autoscaler"
           /\ tool[q] = "drift" => o = "pod"
BY DEF Makes, Things

\* A run that nothing happens to, and nothing to its thing, stays as it is.
LEMMA Untouched ==
    ASSUME TypeOK, NEW q \in Runs, RunInv(q), run'[q] = run[q],
           UNCHANGED <<tool, plan, cloud, last>>, landed[q] \subseteq landed'[q],
           replaced'[q] = replaced[q], interfered \subseteq interfered',
           troubled \subseteq troubled'
    PROVE  RunInv(q)'
<1>1. Script(q)' = Script(q) /\ Makes(q)' = Makes(q) /\ Step(q)' = Step(q)
  BY SameScript
<1> QED BY <1>1 DEF RunInv

\* Nor does what another run's call does to its thing make it untrue: that run has
\* then interfered with it, and it was the last to change the thing.
LEMMA Bystander ==
    ASSUME TypeOK, NEW q \in Runs, RunInv(q), run'[q] = run[q], UNCHANGED <<tool, plan>>,
           troubled \subseteq troubled', NEW r \in Runs \ {q}, NEW i \in Nat,
           NEW verb \in Verbs, NEW thing \in Things, Land(r, i, verb, thing)
    PROVE  RunInv(q)'
<1>1. Script(q)' = Script(q) /\ Makes(q)' = Makes(q) /\ Step(q)' = Step(q)
  BY SameScript
<1>2. /\ landed[q] \subseteq landed'[q] /\ interfered \subseteq interfered'
      /\ replaced'[q] = replaced[q]
      /\ \A o \in Things \ {thing} : cloud'[o] = cloud[o] /\ last'[o] = last[o]
      /\ verb = "read" => last' = last /\ cloud'[thing] = cloud[thing]
      /\ verb # "read" => last'[thing] = r
      /\ verb # "read" /\ run[q].at = "executing" /\ run[q].before # "none"
           /\ Step(q).thing = thing => q \in interfered'
  <2>1. q \in Runs \ {r} /\ r \in Runs
    OBVIOUS
  <2>2. /\ landed[q] \subseteq landed'[q] /\ interfered \subseteq interfered'
        /\ \A o \in Things \ {thing} : cloud'[o] = cloud[o] /\ last'[o] = last[o]
    BY <2>1, LandParts
  <2>3. CASE verb = "read"
    <3>1. UNCHANGED <<last, replaced, interfered>> /\ cloud'[thing] = cloud[thing]
      BY <2>1, <2>3, LandParts
    <3> QED BY <2>2, <2>3, <3>1
  <2>4. CASE verb # "read"
    <3>1. /\ last'[thing] = r /\ replaced'[q] = replaced[q]
          /\ run[q].at = "executing" /\ run[q].before # "none" /\ Step(q).thing = thing =>
                q \in interfered'
      BY <2>1, <2>4, LandParts
    <3> QED BY <2>2, <2>4, <3>1
  <2> QED BY <2>3, <2>4
<1>3. /\ run[q].at = "executing" /\ run[q].before \notin {"none", "unknown"} =>
           run[q].before = cloud'[Step(q).thing] \/ q \in interfered'
  <2> SUFFICES ASSUME run[q].at = "executing", run[q].before \notin {"none", "unknown"}
               PROVE  run[q].before = cloud'[Step(q).thing] \/ q \in interfered'
    OBVIOUS
  <2>1. Step(q).thing \in Things
    BY StepParts
  <2> QED BY <1>2, <2>1 DEF RunInv
<1>4. ASSUME NEW o \in Makes(q)
      PROVE  /\ q \notin troubled' /\ last'[o] = q /\ cloud'[o] = "absent" =>
                  tool[q] = "drift" /\ run[q].at = "executing" /\ run[q].step = 3
             /\ run[q].result = "ok" => cloud'[o] = q \/ last'[o] \notin {q, "nobody"}
  <2>1. o \in Things /\ r \notin {q, "nobody"}
    BY MakesParts, RunsAreRuns
  <2> QED BY <1>2, <2>1 DEF RunInv
<1> QED BY <1>1, <1>2, <1>3, <1>4 DEF RunInv

\* A call of its own that it did not wait for any more: it has no success to be
\* undone, and no before_state it could still use.
LEMMA Latecomer ==
    ASSUME TypeOK, OrphanInv, NEW c \in orphans, RunInv(c.run), UNCHANGED <<tool, plan, run>>,
           troubled' = troubled, Land(c.run, c.step, c.verb, c.thing)
    PROVE  RunInv(c.run)'
<1> DEFINE q == c.run
<1>1. /\ q \in Runs /\ c.step \in Nat /\ c.verb \in Verbs /\ c.thing \in Things
      /\ q \in troubled
      /\ tool[q] \in {"memory", "autoscaler", "rollback", "drift"} =>
            run[q].at \in {"executed", "failed", "dead"} /\ run[q].result # "ok"
  BY DEF OrphanInv
<1> HIDE DEF q
<1>2. Script(q)' = Script(q) /\ Makes(q)' = Makes(q) /\ Step(q)' = Step(q)
  BY <1>1, SameScript
<1>3. landed[q] \subseteq landed'[q]
  BY <1>1, LandParts DEF q
<1>4. RunInv(q)
  BY DEF q
<1>5. ASSUME NEW o \in Makes(q)
      PROVE  run[q].result # "ok" /\ q \in troubled'
  BY <1>1, <1>5, MakesParts
<1>6. ~ (run[q].at = "executing" /\ run[q].before \notin {"none", "unknown"})
  BY <1>1, <1>4 DEF RunInv
<1>7. ~ (run[q].result = "ok" /\ run[q].before \notin {"none", "unknown"})
  BY <1>1, <1>4 DEF RunInv
<1>8. RunInv(q)'
  BY <1>2, <1>3, <1>4, <1>5, <1>6, <1>7 DEF RunInv
<1> QED BY <1>8 DEF q

------------------------------------------------------------------------------
(* What an answer does to the run that waits for it *)

\* Where an answer leaves a run, and what it has then kept of what was.
Answered(r, a) ==
    /\ run' \in [Runs -> RunState]
    /\ run'[r].step \in 0..Len(Script(r))
    /\ run'[r].at \in {"executing", "reporting", "executed", "failed"}
    /\ run'[r].at = "executing" <=> run'[r].step # 0
    /\ run'[r].at = "executing" => run'[r].result = "none"
    /\ run'[r].before = Captured(r, a)
    /\ run'[r].failed <=> (run[r].failed \/ a \notin {"ok", "skipped"})
    /\ tool[r] # "runbook" =>
         /\ run'[r].step = Step(r).goes[a].step
         /\ run'[r].result = Step(r).goes[a].result
         /\ run'[r].at # "reporting"
    /\ tool[r] = "runbook" /\ run'[r].result = "ok" => ~run'[r].failed
    /\ tool[r] \notin {"memory", "autoscaler", "rollback"} => run'[r].before = "none"

\* What an answer does to the run that got it.
LEMMA AnsweredParts ==
    ASSUME TypeOK, NEW r \in Runs, RunInv(r), run[r].at = "executing",
           NEW a \in Answers \union {"skipped"}, tool[r] # "runbook" => a \in Answers,
           UNCHANGED <<tool, plan>>, run' = [run EXCEPT ![r] = AfterAnswer(r, a)]
    PROVE  Answered(r, a)
<1> DEFINE next == GoesTo(r, a)
<1>1. /\ AfterAnswer(r, a) \in RunState /\ AfterAnswer(r, a).step = next.step
      /\ AfterAnswer(r, a).result = next.result /\ AfterAnswer(r, a).at = Status(r, next)
      /\ AfterAnswer(r, a).before = Captured(r, a)
      /\ AfterAnswer(r, a).failed = (run[r].failed \/ a \notin {"ok", "skipped"})
  BY AnswerParts
<1>2. run'[r] = AfterAnswer(r, a)
  BY RunParts
<1>3. /\ next.step \in 0..Len(Script(r)) /\ next.result \in Results
      /\ next.step # 0 => next.result = "none"
      /\ tool[r] # "runbook" => next = Step(r).goes[a]
  BY GoesToParts
<1> HIDE DEF next
<1>4. run' \in [Runs -> RunState]
  <2>1. run \in [Runs -> RunState]
    BY DEF TypeOK, RunState
  <2> QED BY <1>1, <2>1
<1>5. /\ Status(r, next) \in {"executing", "reporting", "executed", "failed"}
      /\ Status(r, next) = "executing" <=> next.step # 0
      /\ Status(r, next) = "reporting" => tool[r] = "runbook"
  BY DEF Status
<1>6. tool[r] \notin {"memory", "autoscaler", "rollback"} => Captured(r, a) = "none"
  BY StepParts DEF Captured, RunInv
<1>7. tool[r] = "runbook" /\ next.result = "ok" =>
          ~ (run[r].failed \/ a \notin {"ok", "skipped"})
  BY NextParts DEF next, GoesTo, Overall
<1> QED BY <1>1, <1>2, <1>3, <1>4, <1>5, <1>6, <1>7 DEF Answered

\* Without trouble a plan has gone from step to step.
LEMMA PlanGoesOn ==
    ASSUME TypeOK, NEW r \in Runs, RunInv(r), run[r].at = "executing", tool[r] = "runbook",
           NEW a \in {"ok", "skipped"},
           UNCHANGED <<tool, plan>>, run' = [run EXCEPT ![r] = AfterAnswer(r, a)],
           landed[r] \subseteq landed'[r],
           plan[r][run[r].step].kind = "call" => run[r].step \in landed'[r]
    PROVE  /\ run'[r].at = "executing" /\ ~run'[r].failed =>
                \A i \in 1..(run'[r].step - 1) : plan[r][i].kind = "call" => i \in landed'[r]
           /\ run'[r].result = "ok" =>
                \A i \in DOMAIN plan[r] : plan[r][i].kind = "call" => i \in landed'[r]
<1> DEFINE next == Following(plan[r], run[r].step, FALSE)
           ended == Overall(run[r].succeeded \/ a = "ok", run[r].failed)
<1>1. /\ plan[r] \in Seq(PlanStep) /\ run[r].step \in 1..Len(plan[r])
      /\ Len(plan[r]) \in Nat /\ DOMAIN plan[r] = 1..Len(plan[r])
  BY ScriptParts, StepParts
<1>2. next = IF run[r].step < Len(plan[r]) THEN run[r].step + 1 ELSE 0
  BY <1>1, FollowingBounds
<1>3. GoesTo(r, a) = IF next # 0 THEN Go(next) ELSE Return(ended)
  <2>1. (a \notin {"ok", "skipped"}) = FALSE
    OBVIOUS
  <2>2. (run[r].failed \/ a \notin {"ok", "skipped"}) = run[r].failed
    BY DEF TypeOK
  <2> QED BY <2>1, <2>2 DEF GoesTo
<1>0. a \in Answers \union {"skipped"}
  BY DEF Answers
<1>4. run'[r].step = GoesTo(r, a).step /\ run'[r].result = GoesTo(r, a).result
  <2>1. run'[r] = AfterAnswer(r, a)
    BY RunParts
  <2>2. /\ AfterAnswer(r, a).step = GoesTo(r, a).step
        /\ AfterAnswer(r, a).result = GoesTo(r, a).result
    BY <1>0, AnswerParts
  <2> QED BY <2>1, <2>2
<1>5. /\ run'[r].failed <=> run[r].failed
      /\ run'[r].at = "executing" <=> run'[r].step # 0
  BY <1>0, AnsweredParts DEF Answered
<1>6. ended = "ok" => ~run[r].failed
  BY DEF Overall
<1> HIDE DEF next, ended
<1>7. run'[r].step = next
  BY <1>3, <1>4, NextParts
<1>8. run'[r].result = "ok" => next = 0 /\ ~run[r].failed
  BY <1>3, <1>4, <1>6, NextParts
<1>9. ~run[r].failed =>
          \A i \in 1..run[r].step : plan[r][i].kind = "call" => i \in landed'[r]
  <2>1. ~run[r].failed =>
            \A i \in 1..(run[r].step - 1) : plan[r][i].kind = "call" => i \in landed[r]
    BY DEF RunInv
  <2>2. \A i \in 1..run[r].step : i = run[r].step \/ i \in 1..(run[r].step - 1)
    BY <1>1
  <2> QED BY <2>1, <2>2
<1>10. CASE next = 0
  <2>1. run[r].step = Len(plan[r])
    BY <1>1, <1>2, <1>10
  <2> QED BY <1>1, <1>5, <1>7, <1>8, <1>9, <1>10, <2>1
<1>11. CASE next # 0
  <2>1. next = run[r].step + 1 /\ next - 1 = run[r].step
    BY <1>1, <1>2, <1>11
  <2> QED BY <1>5, <1>7, <1>8, <1>9, <1>11, <2>1
<1> QED BY <1>10, <1>11

\* A call that is turned down or not answered, and a step that is none.
LEMMA Unserved ==
    ASSUME TypeOK, NEW r \in Runs, RunInv(r), run[r].at = "executing",
           NEW a \in Answers \union {"skipped"}, tool[r] # "runbook" => a \in Answers \ {"ok"},
           UNCHANGED <<tool, plan, cloud, last, landed, replaced, interfered>>,
           run' = [run EXCEPT ![r] = AfterAnswer(r, a)], troubled \subseteq troubled',
           a = "refused" => ~ Accepts(r, Step(r).verb, Step(r).thing),
           a \in {"error", "lost"} /\ tool[r] # "runbook" => r \in troubled',
           tool[r] = "runbook" /\ a \in {"ok", "skipped"} => Step(r).kind # "call"
    PROVE  RunInv(r)'
<1>1. Script(r)' = Script(r) /\ Makes(r)' = Makes(r)
  BY SameScript
<1>0. UNCHANGED <<tool, plan>> /\ (tool[r] # "runbook" => a \in Answers)
  OBVIOUS
<1>2. Answered(r, a)
  BY <1>0, AnsweredParts
<1>3. tool[r] # "runbook" => run'[r].result # "ok"
  <2>1. tool[r] # "runbook" => GoesWell(tool[r], Script(r), run[r].step, a)
    BY StepParts
  <2> QED BY <1>2, <2>1 DEF GoesWell, Step, Answered
<1>4. run'[r].at = "executing" /\ run'[r].before \notin {"none", "unknown"} =>
          run'[r].before = cloud[Step(r)'.thing] \/ r \in interfered
  <2> SUFFICES ASSUME run'[r].at = "executing", run'[r].before \notin {"none", "unknown"}
               PROVE  run'[r].before = cloud[Step(r)'.thing] \/ r \in interfered
    OBVIOUS
  <2>1. tool[r] \in {"memory", "autoscaler", "rollback"}
    BY <1>2 DEF Answered
  <2>2. Step(r)'.thing = Step(r).thing
    <3>1. /\ Step(r)' = Script(r)[run'[r].step]
          /\ run'[r].step \in 1..Len(Script(r)) /\ WellScripted(tool[r], Script(r))
      BY <1>1, <1>2, <2>1, ScriptParts DEF Step, Answered
    <3>2. Step(r)'.thing = IF tool[r] = "autoscaler" THEN "autoscaler" ELSE "deployment"
      BY <2>1, <3>1 DEF WellScripted
    <3> QED BY <2>1, <3>2, StepParts
  <2>3. CASE Step(r).verb = "read"
    <3>1. a = "refused" /\ Step(r).thing = "autoscaler" /\ run'[r].before = "absent"
      BY <1>2, <2>1, <2>3 DEF Captured, Answered
    <3> QED BY <2>2, <2>3, <3>1 DEF Accepts
  <2>4. CASE Step(r).verb # "read"
    <3>1. run'[r].before = run[r].before
      BY <1>2, <2>4 DEF Captured, Answered
    <3> QED BY <2>2, <3>1 DEF RunInv
  <2> QED BY <2>3, <2>4
<1>5. ASSUME NEW o \in Makes(r), r \notin troubled', last[o] = r, cloud[o] = "absent"
      PROVE  FALSE
  <2>1. tool[r] = "drift" /\ run[r].step = 3
    BY <1>5 DEF RunInv
  <2>2. o = "pod" /\ Step(r).thing = "pod" /\ Step(r).verb = "apply" /\ a = "refused"
    BY <1>5, <2>1, MakesParts, StepParts DEF Answers
  <2> QED BY <1>5, <2>2 DEF Accepts
<1>6. \A o \in Makes(r) : tool[r] # "runbook"
  BY MakesParts
<1>7. tool[r] = "runbook" =>
        /\ run'[r].at = "executing" /\ ~run'[r].failed =>
             \A i \in 1..(run'[r].step - 1) : plan[r][i].kind = "call" => i \in landed[r]
        /\ run'[r].result = "ok" =>
             \A i \in DOMAIN plan[r] : plan[r][i].kind = "call" => i \in landed[r]
  <2> SUFFICES ASSUME tool[r] = "runbook"
               PROVE  /\ run'[r].at = "executing" /\ ~run'[r].failed =>
                           \A i \in 1..(run'[r].step - 1) :
                               plan[r][i].kind = "call" => i \in landed[r]
                      /\ run'[r].result = "ok" =>
                           \A i \in DOMAIN plan[r] : plan[r][i].kind = "call" => i \in landed[r]
    OBVIOUS
  <2>1. CASE a \in {"ok", "skipped"}
    <3>1. plan[r][run[r].step].kind # "call" /\ landed'[r] = landed[r]
      BY <2>1 DEF Step, Script
    <3> QED BY <2>1, <3>1, PlanGoesOn
  <2>2. CASE a \notin {"ok", "skipped"}
    <3>1. run'[r].failed /\ run'[r].result # "ok"
      BY <1>2, <2>2 DEF Answered
    <3> QED BY <3>1
  <2> QED BY <2>1, <2>2
<1> QED BY <1>1, <1>2, <1>3, <1>4, <1>5, <1>6, <1>7 DEF RunInv, Answered

\* A call that has its effect and is answered.
LEMMA Served ==
    ASSUME TypeOK, NEW r \in Runs, RunInv(r), Calls(r), UNCHANGED <<tool, plan, troubled>>,
           run' = [run EXCEPT ![r] = AfterAnswer(r, "ok")],
           Accepts(r, Step(r).verb, Step(r).thing),
           Land(r, run[r].step, Step(r).verb, Step(r).thing)
    PROVE  RunInv(r)'
<1> DEFINE verb == Step(r).verb
           thing == Step(r).thing
<1>1. Script(r)' = Script(r) /\ Makes(r)' = Makes(r)
  BY SameScript
<1>2. run[r].at = "executing" /\ "ok" \in Answers \union {"skipped"} /\ "ok" \in Answers
  BY DEF Calls, Answers
<1>3. Answered(r, "ok")
  BY <1>2, AnsweredParts
<1>4. /\ run[r].step \in Nat /\ verb \in Verbs /\ thing \in Things
      /\ run[r].step \in 1..Len(Script(r))
  <2>1. run[r].step \in 1..Len(Script(r)) /\ Len(Script(r)) \in Nat
    BY <1>2, StepParts, ScriptParts
  <2> QED BY <1>2, <2>1, StepParts
<1>5. /\ cloud'[thing] = Effect(r, verb, thing)
      /\ \A o \in Things \ {thing} : cloud'[o] = cloud[o] /\ last'[o] = last[o]
      /\ landed[r] \subseteq landed'[r] /\ run[r].step \in landed'[r]
      /\ interfered \subseteq interfered'
      /\ verb = "read" => UNCHANGED <<last, replaced, interfered>> /\ cloud'[thing] = cloud[thing]
      /\ verb # "read" => last'[thing] = r /\ replaced'[r] = cloud[thing]
  BY <1>4, LandParts
<1>6. tool[r] # "runbook" => GoesWell(tool[r], Script(r), run[r].step, "ok")
  BY <1>2, StepParts
<1>7. CASE tool[r] = "runbook"
  <2>1. /\ run'[r].at = "executing" /\ ~run'[r].failed =>
             \A i \in 1..(run'[r].step - 1) : plan[r][i].kind = "call" => i \in landed'[r]
        /\ run'[r].result = "ok" =>
             \A i \in DOMAIN plan[r] : plan[r][i].kind = "call" => i \in landed'[r]
    <3>1. "ok" \in {"ok", "skipped"}
      OBVIOUS
    <3> QED BY <1>2, <1>5, <1>7, <3>1, PlanGoesOn
  <2>2. Makes(r) = {}
    BY <1>7 DEF Makes
  <2> QED BY <1>1, <1>3, <1>7, <2>1, <2>2 DEF RunInv, Answered
<1>8. CASE tool[r] # "runbook"
  <2>1. /\ run'[r].step = Step(r).goes["ok"].step /\ run'[r].result = Step(r).goes["ok"].result
        /\ GoesWell(tool[r], Script(r), run[r].step, "ok")
    BY <1>3, <1>6, <1>8 DEF Answered
  <2>2. run'[r].at = "executing" /\ run'[r].before \notin {"none", "unknown"} =>
            run'[r].before = cloud'[Step(r)'.thing] \/ r \in interfered'
    <3> SUFFICES ASSUME run'[r].at = "executing", run'[r].before \notin {"none", "unknown"}
                 PROVE  run'[r].before = cloud'[Step(r)'.thing] \/ r \in interfered'
      OBVIOUS
    <3>1. tool[r] \in {"memory", "autoscaler", "rollback"}
      BY <1>3 DEF Answered
    <3>2. Step(r)'.thing = thing
      <4>1. /\ Step(r)' = Script(r)[run'[r].step]
            /\ run'[r].step \in 1..Len(Script(r)) /\ WellScripted(tool[r], Script(r))
        BY <1>1, <1>3, <3>1, ScriptParts DEF Step, Answered
      <4>2. Step(r)'.thing = IF tool[r] = "autoscaler" THEN "autoscaler" ELSE "deployment"
        BY <3>1, <4>1 DEF WellScripted
      <4> QED BY <1>2, <3>1, <4>2, StepParts
    <3>3. verb = "read"
      BY <1>3, <2>1, <3>1 DEF GoesWell, Step, Answered
    <3>4. run'[r].before = cloud[thing]
      BY <1>3, <3>1, <3>3 DEF Captured, Answered
    <3> QED BY <1>5, <3>2, <3>3, <3>4
  <2>3. ASSUME NEW o \in Makes(r)
        PROVE  o = thing /\ verb # "restart" /\ tool[r] \in {"memory", "autoscaler", "drift"}
    BY <1>2, MakesParts, StepParts
  <2>4. ASSUME NEW o \in Makes(r), r \notin troubled', last'[o] = r, cloud'[o] = "absent"
        PROVE  tool[r] = "drift" /\ run'[r].at = "executing" /\ run'[r].step = 3
    <3>1. CASE verb = "read"
      <4>1. tool[r] = "drift" /\ run[r].step = 3
        BY <1>5, <2>3, <2>4, <3>1 DEF RunInv
      <4> QED BY <1>2, <3>1, <4>1, StepParts
    <3>2. CASE verb # "read"
      <4>1. r # "absent"
        BY RunsAreRuns
      <4>2. verb = "delete"
        BY <1>5, <2>3, <2>4, <3>2, <4>1 DEF Effect
      <4> QED BY <1>3, <2>1, <2>3, <4>2 DEF GoesWell, Step, Answered
    <3> QED BY <3>1, <3>2
  <2>5. ASSUME NEW o \in Makes(r), run'[r].result = "ok"
        PROVE  cloud'[o] = r
    <3>1. verb \notin {"read", "delete", "restart"}
      BY <2>1, <2>3, <2>5 DEF GoesWell, Step
    <3> QED BY <1>5, <2>3, <3>1 DEF Effect
  <2>6. run'[r].result = "ok" /\ run'[r].before \notin {"none", "unknown"} =>
            run'[r].before = replaced'[r] \/ r \in interfered'
    <3> SUFFICES ASSUME run'[r].result = "ok", run'[r].before \notin {"none", "unknown"}
                 PROVE  run'[r].before = replaced'[r] \/ r \in interfered'
      OBVIOUS
    <3>1. verb # "read"
      BY <2>1 DEF GoesWell, Step
    <3>2. run'[r].before = run[r].before
      BY <1>3, <3>1 DEF Captured, Answered
    <3> QED BY <1>2, <1>5, <3>1, <3>2 DEF RunInv
  <2> QED BY <1>1, <1>3, <1>8, <2>2, <2>4, <2>5, <2>6 DEF RunInv, Answered
<1> QED BY <1>7, <1>8

------------------------------------------------------------------------------
(* The steps *)

\* An approved option is started, or an empty plan skipped.
LEMMA Approved ==
    ASSUME TypeOK, NEW r \in Runs, RunInv(r), Approve(r)
    PROVE  RunInv(r)'
<1> DEFINE empty == Script(r) = <<>>
           n == [run[r] EXCEPT !.at = IF empty THEN "executed" ELSE "executing",
                               !.step = IF empty THEN 0 ELSE 1]
<1>1. Script(r)' = Script(r) /\ Makes(r)' = Makes(r)
  BY SameScript DEF Approve
<1>2. run' = [run EXCEPT ![r] = n]
  BY DEF Approve
<1>3. run[r] \in RunState
  BY DEF TypeOK, RunState
<1>4. run'[r] = n
  BY <1>2, RunParts
<1>5. run[r].at = "pending" /\ run[r].result = "none" /\ run[r].before = "none"
  BY DEF Approve, RunInv
<1>6. /\ run'[r].result = "none" /\ run'[r].before = "none"
      /\ run'[r].at \in {"executing", "executed"}
      /\ run'[r].at = "executing" => run'[r].step = 1
  BY <1>3, <1>4, <1>5 DEF RunState
<1>7. UNCHANGED <<tool, plan, cloud, last, troubled>>
  BY DEF Approve, history
<1>8. 1..(1 - 1) = {}
  OBVIOUS
<1> HIDE DEF n
<1> QED BY <1>1, <1>5, <1>6, <1>7, <1>8 DEF RunInv

\* A run that ends otherwise: its report is made, or its worker dies.
LEMMA Ended ==
    ASSUME TypeOK, NEW r \in Runs, RunInv(r),
           UNCHANGED <<tool, plan, cloud, last, landed, replaced, interfered>>,
           NEW at \in {"executed", "failed", "dead"}, run' = [run EXCEPT ![r].at = at],
           run[r].at \in {"executing", "reporting"}, troubled \subseteq troubled',
           at = "dead" \/ run[r].at = "reporting",
           at = "dead" => r \in troubled'
    PROVE  RunInv(r)'
<1>1. Script(r)' = Script(r) /\ Makes(r)' = Makes(r)
  BY SameScript
<1>2. run[r] \in RunState
  BY DEF TypeOK, RunState
<1>3. run'[r] = [run[r] EXCEPT !.at = at]
  BY DEF TypeOK
<1>4. /\ run'[r].at = at /\ run'[r].result = run[r].result
      /\ run'[r].before = run[r].before /\ run'[r].failed = run[r].failed
  BY <1>2, <1>3 DEF RunState
<1> QED BY <1>1, <1>4 DEF RunInv

\* Types, when one run moves and a call may have its effect.
LEMMA TypesKept ==
    ASSUME TypeOK, NEW r \in Runs, UNCHANGED <<tool, plan>>, run' \in [Runs -> RunState],
           \A q \in Runs \ {r} : run'[q] = run[q],
           run'[r].step \in 0..Len(Script(r)), run'[r].at = "executing" => run'[r].step # 0,
           cloud' \in [Things -> Content], last' \in [Things -> Runs \union {"nobody"}],
           landed' \in [Runs -> SUBSET Nat], replaced' \in [Runs -> Content \union {"none"}],
           interfered' \subseteq Runs, troubled' \subseteq Runs, OrphanInv'
    PROVE  TypeOK'
<1>1. \A q \in Runs : Script(q)' = Script(q)
  BY SameScript
<1>2. \A q \in Runs : run'[q].step \in 0..Len(Script(q)')
                      /\ (run'[q].at = "executing" => run'[q].step # 0)
  BY <1>1 DEF TypeOK
<1>3. \A c \in orphans' : c.run \in Runs /\ c.verb \in Verbs /\ c.thing \in Things
  BY DEF OrphanInv
<1> QED BY <1>2, <1>3 DEF TypeOK, RunState

\* A run that had not ended leaves at most its last call behind.
LEMMA OrphansKept ==
    ASSUME TypeOK, OrphanInv, NEW r \in Runs, UNCHANGED <<tool, plan>>,
           run[r].at \in {"pending", "executing", "reporting"},
           \A q \in Runs \ {r} : run'[q] = run[q], troubled \subseteq troubled',
           \/ orphans' = orphans
           \/ /\ orphans' = orphans \union Outstanding(r) /\ r \in troubled'
              /\ Calls(r) /\ Step(r).verb # "read" /\ tool[r] \in Single =>
                    run'[r].at \in {"executed", "failed", "dead"} /\ run'[r].result # "ok"
    PROVE  OrphanInv'
<1>1. ASSUME NEW c \in orphans
      PROVE  /\ c.run \in Runs /\ c.step \in Nat /\ c.verb \in Verbs /\ c.thing \in Things
             /\ c.run \in troubled'
             /\ tool'[c.run] \in {"memory", "autoscaler", "rollback", "drift"} =>
                   run'[c.run].at \in {"executed", "failed", "dead"} /\ run'[c.run].result # "ok"
  <2>1. /\ c.run \in Runs /\ c.step \in Nat /\ c.verb \in Verbs /\ c.thing \in Things
        /\ c.run \in troubled
        /\ tool[c.run] \in {"memory", "autoscaler", "rollback", "drift"} =>
              run[c.run].at \in {"executed", "failed", "dead"} /\ run[c.run].result # "ok"
    BY DEF OrphanInv
  <2>2. tool[c.run] \in {"memory", "autoscaler", "rollback", "drift"} => c.run # r
    BY <2>1
  <2> QED BY <2>1, <2>2
<1>2. ASSUME NEW c \in Outstanding(r), r \in troubled',
             Calls(r) /\ Step(r).verb # "read" /\ tool[r] \in Single =>
                 run'[r].at \in {"executed", "failed", "dead"} /\ run'[r].result # "ok"
      PROVE  /\ c.run \in Runs /\ c.step \in Nat /\ c.verb \in Verbs /\ c.thing \in Things
             /\ c.run \in troubled'
             /\ tool'[c.run] \in {"memory", "autoscaler", "rollback", "drift"} =>
                   run'[c.run].at \in {"executed", "failed", "dead"} /\ run'[c.run].result # "ok"
  <2>1. Calls(r) /\ Step(r).verb # "read"
    BY <1>2 DEF Outstanding
  <2>2. c = [run |-> r, step |-> run[r].step, verb |-> Step(r).verb, thing |-> Step(r).thing]
    BY <1>2, <2>1 DEF Outstanding
  <2>3. run[r].at = "executing" /\ run[r].step \in Nat
    BY <2>1 DEF Calls, TypeOK
  <2>4. Step(r).verb \in Verbs /\ Step(r).thing \in Things
    BY <2>3, StepParts
  <2> QED BY <1>2, <2>1, <2>2, <2>3, <2>4 DEF Single
<1> QED BY <1>1, <1>2 DEF OrphanInv

\* An answer without an effect keeps types and invariant.
LEMMA UnservedKeeps ==
    ASSUME TypeOK, CommandInv, NEW r \in Runs, run[r].at = "executing",
           NEW a \in Answers \union {"skipped"}, tool[r] # "runbook" => a \in Answers \ {"ok"},
           UNCHANGED <<tool, plan, cloud, last, landed, replaced, interfered>>,
           run' = [run EXCEPT ![r] = AfterAnswer(r, a)],
           troubled \subseteq troubled', troubled' \subseteq Runs,
           a = "refused" => ~ Accepts(r, Step(r).verb, Step(r).thing),
           a \in {"error", "lost"} /\ tool[r] # "runbook" => r \in troubled',
           tool[r] = "runbook" /\ a \in {"ok", "skipped"} => Step(r).kind # "call",
           OrphanInv'
    PROVE  TypeOK' /\ CommandInv'
<1>1. \A q \in Runs : RunInv(q)
  BY ByRun
<1>2. \A q \in Runs \ {r} : run'[q] = run[q]
  BY RunParts
<1>3. \A q \in Runs : RunInv(q)'
  <2>1. RunInv(r)'
    BY <1>1, Unserved
  <2>2. ASSUME NEW q \in Runs \ {r}
        PROVE  RunInv(q)'
    BY <1>1, <1>2, Untouched
  <2> QED BY <2>1, <2>2
<1>4. Answered(r, a)
  <2>1. UNCHANGED <<tool, plan>> /\ (tool[r] # "runbook" => a \in Answers)
    OBVIOUS
  <2> QED BY <1>1, <2>1, AnsweredParts
<1>5. TypeOK'
  <2>1. /\ cloud' \in [Things -> Content] /\ last' \in [Things -> Runs \union {"nobody"}]
        /\ landed' \in [Runs -> SUBSET Nat]
        /\ replaced' \in [Runs -> Content \union {"none"}] /\ interfered' \subseteq Runs
    BY DEF TypeOK
  <2>2. UNCHANGED <<tool, plan>>
    OBVIOUS
  <2> QED BY <1>2, <1>4, <2>1, <2>2, TypesKept DEF Answered
<1> QED BY <1>3, <1>5, ByRunNext

\* Serve, with its effect or refused, keeps types and invariant.
LEMMA ServeKeeps ==
    ASSUME TypeOK, CommandInv, NEW r \in Runs, Serve(r)
    PROVE  TypeOK' /\ CommandInv'
<1> DEFINE verb == Step(r).verb
           thing == Step(r).thing
<1>1. OrphanInv /\ \A q \in Runs : RunInv(q)
  BY ByRun
<1>2. /\ Calls(r) /\ run[r].at = "executing" /\ tool' = tool /\ plan' = plan
      /\ orphans' = orphans /\ troubled' = troubled
  BY DEF Serve, Calls
<1>3. /\ run[r].step \in Nat /\ verb \in Verbs /\ thing \in Things
  BY <1>2, StepParts DEF TypeOK
<1>4. CASE Accepts(r, verb, thing)
  <2>1. /\ run' = [run EXCEPT ![r] = AfterAnswer(r, "ok")]
        /\ Land(r, run[r].step, verb, thing)
    BY <1>4 DEF Serve
  <2>2. \A q \in Runs \ {r} : run'[q] = run[q]
    BY <2>1, RunParts
  <2>3. \A q \in Runs : RunInv(q)'
    <3>1. RunInv(r)'
      BY <1>1, <1>2, <1>4, <2>1, Served
    <3>2. ASSUME NEW q \in Runs \ {r}
          PROVE  RunInv(q)'
      BY <1>1, <1>2, <1>3, <2>1, <2>2, Bystander
    <3> QED BY <3>1, <3>2
  <2>4. OrphanInv'
    BY <1>1, <1>2, <2>2, OrphansKept
  <2>5. Answered(r, "ok")
    BY <1>1, <1>2, <2>1, AnsweredParts DEF Answers
  <2>6. TypeOK'
    <3>1. /\ cloud' \in [Things -> Content] /\ last' \in [Things -> Runs \union {"nobody"}]
          /\ landed' \in [Runs -> SUBSET Nat]
          /\ replaced' \in [Runs -> Content \union {"none"}] /\ interfered' \subseteq Runs
      BY <1>3, <2>1, LandTypes
    <3>2. troubled' \subseteq Runs
      BY <1>2 DEF TypeOK
    <3> QED BY <1>2, <2>2, <2>4, <2>5, <3>1, <3>2, TypesKept DEF Answered
  <2> QED BY <2>3, <2>4, <2>6, ByRunNext
<1>5. CASE ~Accepts(r, verb, thing)
  <2>1. /\ run' = [run EXCEPT ![r] = AfterAnswer(r, "refused")]
        /\ UNCHANGED <<cloud, last, landed, replaced, interfered>>
    BY <1>5 DEF Serve
  <2>2. OrphanInv'
    BY <1>1, <1>2, <2>1, RunParts, OrphansKept
  <2>3. troubled' \subseteq Runs
    BY <1>2 DEF TypeOK
  <2> QED BY <1>1, <1>2, <1>5, <2>1, <2>2, <2>3, UnservedKeeps DEF Answers
<1> QED BY <1>4, <1>5

\* Deny: the call is turned down.
LEMMA DenyKeeps ==
    ASSUME TypeOK, CommandInv, NEW r \in Runs, Deny(r)
    PROVE  TypeOK' /\ CommandInv'
<1>1. /\ run[r].at = "executing" /\ UNCHANGED <<tool, plan>> /\ orphans' = orphans
      /\ UNCHANGED <<tool, plan, cloud, last, landed, replaced, interfered>>
      /\ run' = [run EXCEPT ![r] = AfterAnswer(r, "error")]
      /\ troubled \subseteq troubled' /\ r \in troubled'
  BY DEF Deny, Calls
<1>2. OrphanInv'
  BY <1>1, RunParts, OrphansKept, ByRun
<1>3. troubled' \subseteq Runs
  BY DEF Deny, TypeOK
<1> QED BY <1>1, <1>2, <1>3, UnservedKeeps DEF Answers

\* Lose: what was waited for may still come.
LEMMA LoseKeeps ==
    ASSUME TypeOK, CommandInv, NEW r \in Runs, Lose(r)
    PROVE  TypeOK' /\ CommandInv'
<1>1. /\ run[r].at = "executing" /\ UNCHANGED <<tool, plan>>
      /\ orphans' = orphans \union Outstanding(r)
      /\ UNCHANGED <<tool, plan, cloud, last, landed, replaced, interfered>>
      /\ run' = [run EXCEPT ![r] = AfterAnswer(r, "lost")]
      /\ troubled \subseteq troubled' /\ r \in troubled'
  BY DEF Lose, Calls
<1>2. OrphanInv /\ RunInv(r)
  BY ByRun
<1>3. Calls(r) /\ Step(r).verb # "read" /\ tool[r] \in Single =>
          run'[r].at \in {"executed", "failed", "dead"} /\ run'[r].result # "ok"
  <2> SUFFICES ASSUME Step(r).verb # "read", tool[r] \in Single
               PROVE  run'[r].at \in {"executed", "failed"} /\ run'[r].result # "ok"
    OBVIOUS
  <2>1. Answered(r, "lost")
    BY <1>1, <1>2, AnsweredParts DEF Answers
  <2>2. tool[r] # "runbook" /\ GoesWell(tool[r], Script(r), run[r].step, "lost")
    BY <1>1, StepParts DEF Single, Answers
  <2> QED BY <2>1, <2>2 DEF Answered, GoesWell, Step
<1>4. OrphanInv'
  BY <1>1, <1>2, <1>3, RunParts, OrphansKept
<1>5. troubled' \subseteq Runs
  BY DEF Lose, TypeOK
<1> QED BY <1>1, <1>4, <1>5, UnservedKeeps DEF Answers

\* Pass: a manifest or an unknown step of a plan.
LEMMA PassKeeps ==
    ASSUME TypeOK, CommandInv, NEW r \in Runs, Pass(r)
    PROVE  TypeOK' /\ CommandInv'
<1>1. /\ run[r].at = "executing" /\ tool[r] = "runbook" /\ Step(r).kind # "call"
      /\ UNCHANGED <<tool, plan>> /\ orphans' = orphans /\ troubled' = troubled
      /\ UNCHANGED <<tool, plan, cloud, last, landed, replaced, interfered>>
  BY DEF Pass, history
<1>2. PICK a \in {"ok", "error", "skipped"} : run' = [run EXCEPT ![r] = AfterAnswer(r, a)]
  BY DEF Pass
<1>3. OrphanInv'
  BY <1>1, <1>2, RunParts, OrphansKept, ByRun
<1>4. troubled' \subseteq Runs
  BY <1>1 DEF TypeOK
<1> QED BY <1>1, <1>2, <1>3, <1>4, UnservedKeeps DEF Answers

\* A step that only says where a run is.
LEMMA PlaceKeeps ==
    ASSUME TypeOK, CommandInv, NEW r \in Runs, RunInv(r)', OrphanInv',
           UNCHANGED <<tool, plan, cloud, last, landed, replaced, interfered>>,
           troubled \subseteq troubled', troubled' \subseteq Runs,
           run' \in [Runs -> RunState], \A q \in Runs \ {r} : run'[q] = run[q],
           run'[r].step \in 0..Len(Script(r)), run'[r].at = "executing" => run'[r].step # 0
    PROVE  TypeOK' /\ CommandInv'
<1>1. \A q \in Runs \ {r} : RunInv(q)'
  BY Untouched, ByRun
<1>2. TypeOK'
  <2>1. /\ cloud' \in [Things -> Content] /\ last' \in [Things -> Runs \union {"nobody"}]
        /\ landed' \in [Runs -> SUBSET Nat]
        /\ replaced' \in [Runs -> Content \union {"none"}] /\ interfered' \subseteq Runs
    BY DEF TypeOK
  <2>2. UNCHANGED <<tool, plan>>
    OBVIOUS
  <2> QED BY <2>1, <2>2, TypesKept
<1> QED BY <1>1, <1>2, ByRunNext

\* Approve: the script begins.
LEMMA ApproveKeeps ==
    ASSUME TypeOK, CommandInv, NEW r \in Runs, Approve(r)
    PROVE  TypeOK' /\ CommandInv'
<1> DEFINE empty == Script(r) = <<>>
           n == [run[r] EXCEPT !.at = IF empty THEN "executed" ELSE "executing",
                               !.step = IF empty THEN 0 ELSE 1]
<1>1. /\ run[r].at = "pending" /\ orphans' = orphans /\ UNCHANGED <<tool, plan>>
      /\ UNCHANGED <<tool, plan, cloud, last, landed, replaced, interfered>>
      /\ troubled' = troubled /\ run' = [run EXCEPT ![r] = n]
  BY DEF Approve, history
<1>2. run \in [Runs -> RunState] /\ troubled' \subseteq Runs
  BY <1>1 DEF TypeOK, RunState
<1>3. Len(Script(r)) \in Nat /\ (~empty => Len(Script(r)) # 0)
  <2>1. CASE tool[r] = "runbook"
    <3>1. Script(r) \in Seq(PlanStep) /\ Len(Script(r)) \in Nat
      BY <2>1, ScriptParts
    <3>2. Len(Script(r)) = 0 => Script(r) = <<>>
      BY <3>1
    <3> QED BY <3>1, <3>2
  <2>2. CASE tool[r] # "runbook"
    BY <2>2, ScriptParts DEF WellScripted
  <2> QED BY <2>1, <2>2
<1>4. /\ n \in RunState /\ n.step \in 0..Len(Script(r))
      /\ n.at = "executing" => n.step # 0
  <2>1. run[r] \in RunState
    BY <1>2
  <2>2. CASE empty
    <3>1. n = [run[r] EXCEPT !.at = "executed", !.step = 0]
      BY <2>2
    <3>2. n \in RunState
      BY ONLY <2>1, <3>1 DEF RunState
    <3>3. n.at = "executed" /\ n.step = 0
      BY ONLY <2>1, <3>1 DEF RunState
    <3>4. 0 \in 0..Len(Script(r))
      BY <1>3
    <3> HIDE DEF n
    <3> QED BY <3>2, <3>3, <3>4
  <2>3. CASE ~empty
    <3>1. n = [run[r] EXCEPT !.at = "executing", !.step = 1]
      BY <2>3
    <3>2. 1 \in 0..Len(Script(r))
      BY <1>3, <2>3
    <3>3. n \in RunState
      BY ONLY <2>1, <3>1 DEF RunState
    <3>4. n.at = "executing" /\ n.step = 1
      BY ONLY <2>1, <3>1 DEF RunState
    <3> HIDE DEF n
    <3> QED BY <3>2, <3>3, <3>4
  <2> QED BY <2>2, <2>3
<1> HIDE DEF n
<1>5. run'[r] = n /\ (\A q \in Runs \ {r} : run'[q] = run[q]) /\ run' \in [Runs -> RunState]
  BY <1>1, <1>2, <1>4, RunParts
<1>6. OrphanInv'
  BY <1>1, <1>5, OrphansKept, ByRun
<1>7. RunInv(r)'
  BY Approved, ByRun
<1> QED BY <1>1, <1>2, <1>4, <1>5, <1>6, <1>7, PlaceKeeps

\* A run that has ended is typed.
LEMMA EndedTypes ==
    ASSUME TypeOK, NEW r \in Runs, NEW at \in {"executed", "failed", "dead"},
           run' = [run EXCEPT ![r].at = at]
    PROVE  /\ run' \in [Runs -> RunState] /\ (\A q \in Runs \ {r} : run'[q] = run[q])
           /\ run'[r].step \in 0..Len(Script(r)) /\ run'[r].at = at
           /\ run'[r].result = run[r].result
<1>1. run[r] \in RunState /\ run \in [Runs -> RunState]
  BY DEF TypeOK, RunState
<1>2. [run[r] EXCEPT !.at = at] \in RunState
  BY <1>1 DEF RunState
<1>3. run' = [run EXCEPT ![r] = [run[r] EXCEPT !.at = at]]
  OBVIOUS
<1>4. run'[r] = [run[r] EXCEPT !.at = at]
  BY <1>1, <1>3
<1>5. run[r].step \in 0..Len(Script(r))
  BY DEF TypeOK
<1> QED BY <1>1, <1>2, <1>3, <1>4, <1>5 DEF RunState

\* Report: the plan's report is made.
LEMMA ReportKeeps ==
    ASSUME TypeOK, CommandInv, NEW r \in Runs, Report(r)
    PROVE  TypeOK' /\ CommandInv'
<1>1. /\ run[r].at = "reporting" /\ orphans' = orphans /\ UNCHANGED <<tool, plan>>
      /\ UNCHANGED <<tool, plan, cloud, last, landed, replaced, interfered>>
      /\ troubled' = troubled
  BY DEF Report, history
<1>2. PICK at \in {"executed", "failed"} : run' = [run EXCEPT ![r].at = at]
  BY DEF Report
<1>3. /\ run' \in [Runs -> RunState] /\ (\A q \in Runs \ {r} : run'[q] = run[q])
      /\ run'[r].step \in 0..Len(Script(r)) /\ run'[r].at = at
  BY <1>2, EndedTypes
<1>4. OrphanInv' /\ troubled' \subseteq Runs
  BY <1>1, <1>3, OrphansKept, ByRun DEF TypeOK
<1>5. RunInv(r)'
  BY <1>1, <1>2, Ended, ByRun
<1> QED BY <1>1, <1>3, <1>4, <1>5, PlaceKeeps

\* Die: a call may be left behind.
LEMMA DieKeeps ==
    ASSUME TypeOK, CommandInv, NEW r \in Runs, Die(r)
    PROVE  TypeOK' /\ CommandInv'
<1>1. /\ run[r].at \in {"executing", "reporting"} /\ UNCHANGED <<tool, plan>>
      /\ orphans' = orphans \union Outstanding(r)
      /\ UNCHANGED <<tool, plan, cloud, last, landed, replaced, interfered>>
      /\ troubled \subseteq troubled' /\ r \in troubled'
      /\ run' = [run EXCEPT ![r].at = "dead"]
  BY DEF Die
<1>2. OrphanInv /\ RunInv(r)
  BY ByRun
<1>3. /\ run' \in [Runs -> RunState] /\ (\A q \in Runs \ {r} : run'[q] = run[q])
      /\ run'[r].step \in 0..Len(Script(r)) /\ run'[r].at = "dead"
      /\ run'[r].result = run[r].result
  BY <1>1, EndedTypes
<1>4. Calls(r) => run'[r].result # "ok"
  BY <1>2, <1>3 DEF Calls, RunInv
<1>5. OrphanInv'
  BY <1>1, <1>2, <1>3, <1>4, OrphansKept
<1>6. troubled' \subseteq Runs
  BY DEF Die, TypeOK
<1>7. RunInv(r)'
  BY <1>1, <1>2, Ended
<1> QED BY <1>1, <1>3, <1>5, <1>6, <1>7, PlaceKeeps

\* OrphanLands: a call nobody waits for comes through, or is refused.
LEMMA OrphanLandsKeeps ==
    ASSUME TypeOK, CommandInv, NEW c \in orphans, OrphanLands(c)
    PROVE  TypeOK' /\ CommandInv'
<1>1. OrphanInv /\ \A q \in Runs : RunInv(q)
  BY ByRun
<1>2. c.run \in Runs /\ c.step \in Nat /\ c.verb \in Verbs /\ c.thing \in Things
  BY <1>1 DEF OrphanInv
<1>3. /\ UNCHANGED <<tool, plan>> /\ run' = run /\ troubled' = troubled
      /\ orphans' \subseteq orphans /\ UNCHANGED <<tool, plan, run>>
  BY DEF OrphanLands
<1>4. OrphanInv'
  BY <1>1, <1>3 DEF OrphanInv
<1>5. /\ run' \in [Runs -> RunState] /\ run'[c.run].step \in 0..Len(Script(c.run))
      /\ run'[c.run].at = "executing" => run'[c.run].step # 0
      /\ troubled' \subseteq Runs
  BY <1>2, <1>3 DEF TypeOK, RunState
<1>6. CASE Accepts(c.run, c.verb, c.thing)
  <2>1. Land(c.run, c.step, c.verb, c.thing)
    BY <1>6 DEF OrphanLands
  <2>2. ASSUME NEW q \in Runs
        PROVE  RunInv(q)'
    <3>1. CASE q = c.run
      BY <1>1, <1>3, <2>1, <3>1, Latecomer
    <3>2. CASE q # c.run
      BY <1>1, <1>2, <1>3, <2>1, <3>2, Bystander
    <3> QED BY <3>1, <3>2
  <2>3. TypeOK'
    BY <1>2, <1>3, <1>4, <1>5, <2>1, LandTypes, TypesKept
  <2> QED BY <1>4, <2>2, <2>3, ByRunNext
<1>7. CASE ~Accepts(c.run, c.verb, c.thing)
  <2>1. UNCHANGED <<cloud, last, landed, replaced, interfered>>
    BY <1>7 DEF OrphanLands
  <2>2. \A q \in Runs : RunInv(q)'
    BY <1>1, <1>3, <2>1, Untouched
  <2>3. TypeOK'
    <3>1. /\ cloud' \in [Things -> Content] /\ last' \in [Things -> Runs \union {"nobody"}]
          /\ landed' \in [Runs -> SUBSET Nat]
          /\ replaced' \in [Runs -> Content \union {"none"}] /\ interfered' \subseteq Runs
      BY <2>1 DEF TypeOK
    <3> QED BY <1>2, <1>3, <1>4, <1>5, <3>1, TypesKept
  <2> QED BY <1>4, <2>2, <2>3, ByRunNext
<1> QED BY <1>6, <1>7

------------------------------------------------------------------------------
(* Every behaviour *)

\* It holds at first.
LEMMA InitTypes ==
    ASSUME Init
    PROVE  TypeOK
<1>1. \A r \in Runs : Len(Script(r)) \in Nat
  <2> SUFFICES ASSUME NEW r \in Runs
               PROVE  Len(Script(r)) \in Nat
    OBVIOUS
  <2>1. CASE tool[r] = "runbook"
    <3>1. plan[r] \in Seq(PlanStep)
      <4>1. <<>> \in Seq(PlanStep)
        OBVIOUS
      <4> QED BY <4>1, PlansAreSteps DEF Init
    <3> QED BY <2>1, <3>1 DEF Script
  <2>2. CASE tool[r] # "runbook"
    <3>1. tool[r] \in Fixed
      BY <2>2 DEF Init, Fixed
    <3> QED BY <3>1, Scripted DEF WellScripted
  <2> QED BY <2>1, <2>2
<1>2. \A r \in Runs : run[r].at = "pending" /\ run[r].step = 0
  BY DEF Init
<1>3. \A r \in Runs : run[r].step \in 0..Len(Script(r))
                      /\ (run[r].at = "executing" => run[r].step # 0)
  BY <1>1, <1>2
<1> QED BY <1>3 DEF Init, TypeOK, Content, Results

\* No run has done anything at the start.
LEMMA InitInv ==
    ASSUME Init
    PROVE  CommandInv
<1>1. \A r \in Runs : run[r].at = "pending" /\ run[r].result = "none" /\ run[r].before = "none"
  BY DEF Init
<1>2. /\ orphans = {} /\ \A o \in Things : \A r \in Runs : last[o] # r
  BY RunsAreRuns DEF Init
<1>3. \A r \in Runs : RunInv(r)
  BY <1>1, <1>2, MakesParts DEF RunInv
<1> QED BY <1>2, <1>3, ByRun DEF OrphanInv

\* Every step keeps it.
LEMMA NextKeeps ==
    ASSUME TypeOK, CommandInv, [Next]_vars
    PROVE  TypeOK' /\ CommandInv'
<1>1. ASSUME NEW r \in Runs, Approve(r)
      PROVE  TypeOK' /\ CommandInv'
  BY <1>1, ApproveKeeps
<1>2. ASSUME NEW r \in Runs, Serve(r)
      PROVE  TypeOK' /\ CommandInv'
  BY <1>2, ServeKeeps
<1>3. ASSUME NEW r \in Runs, Deny(r)
      PROVE  TypeOK' /\ CommandInv'
  BY <1>3, DenyKeeps
<1>4. ASSUME NEW r \in Runs, Lose(r)
      PROVE  TypeOK' /\ CommandInv'
  BY <1>4, LoseKeeps
<1>5. ASSUME NEW r \in Runs, Pass(r)
      PROVE  TypeOK' /\ CommandInv'
  BY <1>5, PassKeeps
<1>6. ASSUME NEW r \in Runs, Report(r)
      PROVE  TypeOK' /\ CommandInv'
  BY <1>6, ReportKeeps
<1>7. ASSUME NEW r \in Runs, Die(r)
      PROVE  TypeOK' /\ CommandInv'
  BY <1>7, DieKeeps
<1>8. ASSUME NEW c \in orphans, OrphanLands(c)
      PROVE  TypeOK' /\ CommandInv'
  BY <1>8, OrphanLandsKeeps
<1>9. CASE UNCHANGED vars
  <2>1. \A r \in Runs : Script(r)' = Script(r) /\ Makes(r)' = Makes(r) /\ Step(r)' = Step(r)
    BY <1>9, SameScript DEF vars
  <2>2. TypeOK'
    BY <1>9, <2>1 DEF vars, history, TypeOK
  <2>3. \A r \in Runs : RunInv(r)'
    BY <1>9, Untouched, ByRun DEF vars, history
  <2>4. OrphanInv'
    BY <1>9, ByRun DEF vars, history, OrphanInv
  <2> QED BY <2>2, <2>3, <2>4, ByRunNext
<1> QED BY <1>1, <1>2, <1>3, <1>4, <1>5, <1>6, <1>7, <1>8, <1>9 DEF Next, RunStep

\* The state is well-typed in every behaviour, and the inductive invariant holds.
THEOREM CommandAlways == Spec => [](TypeOK /\ CommandInv)
<1>1. Init => TypeOK /\ CommandInv
  BY InitTypes, InitInv
<1>2. TypeOK /\ CommandInv /\ [Next]_vars => (TypeOK /\ CommandInv)'
  BY NextKeeps
<1> QED BY <1>1, <1>2, PTL DEF Spec

\* Tools, plans, the cloud, runs and calls keep their types.
THEOREM TypeCorrect == Spec => []TypeOK
BY CommandAlways, PTL

\* A remediation that reports success is in place until another run's call changes
\* the thing: none of its own comes after.
THEOREM SuccessIsInPlace == Spec => []RestoredExplained
<1>1. CommandInv => RestoredExplained
  BY DEF CommandInv
<1> QED BY <1>1, CommandAlways, PTL

\* What agent 08 deletes to make anew is gone, once its run is over, only after trouble.
THEOREM NothingLeftDeleted == Spec => []GoneExplained
<1>1. CommandInv => GoneExplained
  <2> SUFFICES ASSUME CommandInv, NEW r \in Runs, NEW o \in Makes(r),
                      Over(r), last[o] = r, cloud[o] = "absent", r \notin troubled
               PROVE  FALSE
    BY DEF GoneExplained
  <2>1. run[r].at = "executing"
    BY DEF CommandInv, MadeInv
  <2> QED BY <2>1 DEF Over
<1> QED BY <1>1, CommandAlways, PTL

\* A plan whose report says ok has done every call of it that was not passed over.
THEOREM ReportsAreTrue == Spec => []OkMeansDone
<1>1. CommandInv => OkMeansDone
  BY DEF CommandInv
<1> QED BY <1>1, CommandAlways, PTL

\* The before_state of a remediation that succeeded is what it replaced, unless
\* another run changed the thing in between.
THEOREM BeforeStatesAreTrue == Spec => []BeforeStateExplained
<1>1. CommandInv => BeforeStateExplained
  BY DEF CommandInv
<1> QED BY <1>1, CommandAlways, PTL
================================================================================
