------------------------ MODULE FixPullRequests_proofs ------------------------
(***************************************************************************)
(* Proofs about FixPullRequests, for any fixes, files, branches and        *)
(* developers' commits.                                                    *)
(***************************************************************************)
EXTENDS FixPullRequests, TLAPS

-----------------------------------------------------------------------------
(* Runs *)

Run == [at : Places, proposal : Proposals, option : Options, read : Branch]

\* A fix that is not carried out yet.
Waiting == {"sent", "pending", "create_branch", "create_ref", "read_file", "put_file"}

\* A run goes on elsewhere, with another tree read.
Moved(f, at, read) ==
    /\ run' \in [Fixes -> Run]
    /\ run'[f].at = at /\ run'[f].read = read /\ run'[f].option = run[f].option
    /\ \A g \in Fixes : g # f => run'[g] = run[g]

\* Goto moves the run.
LEMMA GotoFact ==
    ASSUME TypeOK, NEW f \in Fixes, NEW at \in Places, Goto(f, at)
    PROVE  Moved(f, at, NoBranch)
<1>1. NoBranch \in Branch
  BY DEF NoBranch, Branch, NoTree, Tree, Content
<1> QED BY <1>1 DEF Goto, Moved, TypeOK, Run

\* So does Reads.
LEMMA ReadsFact ==
    ASSUME TypeOK, NEW f \in Fixes, NEW at \in Places, NEW b \in Branch, Reads(f, at, b)
    PROVE  Moved(f, at, b)
BY DEF Reads, Moved, TypeOK, Run

\* What is read is a branch.
LEMMA TreesFact ==
    ASSUME TypeOK
    PROVE  /\ At(main) \in Branch /\ NoBranch \in Branch
           /\ \A f \in Fixes : BranchName(f) \in Names /\ Here(f) \in Branch
<1>1. At(main) \in Branch
  BY DEF TypeOK, At, Branch
<1>2. NoBranch \in Branch
  BY DEF NoBranch, Branch, NoTree, Tree, Content
<1>3. ASSUME NEW f \in Fixes PROVE BranchName(f) \in Names
  <2>1. Slug[f] \in Slugs
    BY FixesAssumption
  <2>2. <<"fresh", f>> \in Names
    BY DEF Names
  <2>3. \A p \in Prefixes : <<p, Slug[f]>> \in Names
    BY <2>1 DEF Names
  <2> QED BY <2>2, <2>3 DEF BranchName, Prefixes
<1>4. \A f \in Fixes : Here(f) \in Branch
  BY <1>3 DEF Here, TypeOK
<1> QED BY <1>1, <1>2, <1>3, <1>4

\* A step of a run that changes nothing but the run.
Quiet(f) ==
    /\ run[f].at \in Calling
    /\ \E at \in {"failed", "create_ref", "read_file", "put_file", "executed"},
          read \in Branch :
         /\ Moved(f, at, read)
         /\ at \in Waiting => run[f].at \in Waiting
         /\ at = "create_ref" => read = At(main)
    /\ UNCHANGED <<provider, main, branch, pull, commits, history>>

\* Raise, ReadHead, ReadFile and OpenIssue are such steps.
LEMMA QuietSteps ==
    ASSUME TypeOK, NEW f \in Fixes,
           Raise(f) \/ ReadHead(f) \/ ReadFile(f) \/ OpenIssue(f)
    PROVE  Quiet(f)
<1>1. CASE Raise(f)
  <2>1. Moved(f, "failed", NoBranch)
    BY <1>1, GotoFact DEF Raise, Places
  <2> QED BY <1>1, <2>1, TreesFact DEF Raise, Quiet, Waiting
<1>2. CASE ReadHead(f)
  <2>1. Moved(f, "read_file", NoBranch) \/ Moved(f, "create_ref", At(main))
    BY <1>2, ReadsFact, TreesFact DEF ReadHead, Places, Calling
  <2> QED BY <1>2, <2>1, TreesFact DEF ReadHead, Quiet, Waiting, Calling
<1>3. CASE ReadFile(f)
  <2>1. PICK b \in Branch : Reads(f, "put_file", b)
    BY <1>3, TreesFact DEF ReadFile
  <2>2. Moved(f, "put_file", b)
    BY <2>1, ReadsFact DEF Places, Calling
  <2> QED BY <1>3, <2>2 DEF ReadFile, Quiet, Waiting, Calling
<1>4. CASE OpenIssue(f)
  <2>1. Moved(f, "executed", NoBranch) \/ Moved(f, "failed", NoBranch)
    BY <1>4, GotoFact DEF OpenIssue, Answers, Places
  <2> QED BY <1>4, <2>1, TreesFact DEF OpenIssue, Quiet, Waiting, Calling
<1> QED BY <1>1, <1>2, <1>3, <1>4

\* Where an approved run starts.
LEMMA FirstStepFact ==
    ASSUME NEW f \in Fixes, NEW o \in Options
    PROVE  FirstStep(f, o) \in {"held", "failed", "executed", "open_issue", "create_branch"}
BY DEF FirstStep

\* An approval gives the run its option and its first step.
LEMMA ApproveFact ==
    ASSUME TypeOK, NEW f \in Fixes, NEW o \in Options, Approve(f, o)
    PROVE  /\ run' \in [Fixes -> Run]
           /\ run[f].at = "pending" /\ run'[f].option = o /\ o # "none"
           /\ run'[f].at \in {"held", "failed", "executed", "open_issue", "create_branch"}
           /\ \A g \in Fixes : g # f => run'[g] = run[g]
<1>1. FirstStep(f, o) \in {"held", "failed", "executed", "open_issue", "create_branch"}
  BY FirstStepFact
<1>2. o # "none"
  <2>1. Agent[f] \in Agents
    BY FixesAssumption
  <2>2. \A a \in Agents : "none" \notin Offers(a)
    <3>1. ASSUME NEW a \in Agents PROVE "none" \notin Offers(a)
      <4>1. CASE a = "migration" \/ a = "health"
        BY <4>1 DEF Offers
      <4>2. CASE a = "iam"
        BY <4>2 DEF Offers
      <4>3. CASE a = "drift"
        BY <4>3 DEF Offers
      <4>4. CASE a = "patch"
        BY <4>4 DEF Offers
      <4> QED BY <4>1, <4>2, <4>3, <4>4 DEF Agents
    <3> QED BY <3>1
  <2> QED BY <2>1, <2>2 DEF Approve
<1>3. FirstStep(f, o) \in Places /\ "none" \in Proposals
  BY <1>1 DEF Places, Calling, Proposals
<1>4. run' = [run EXCEPT ![f].at = FirstStep(f, o), ![f].option = o, ![f].proposal = "none"]
  BY DEF Approve
<1>5. run[f] \in Run /\ run \in [Fixes -> Run] /\ run[f].at = "pending"
  BY DEF TypeOK, Run, Approve
<1>6. run'[f] = [at |-> FirstStep(f, o), option |-> o, proposal |-> "none", read |-> run[f].read]
  BY <1>4, <1>5 DEF Run
<1>7. run'[f] \in Run /\ \A g \in Fixes : g # f => run'[g] = run[g]
  BY <1>3, <1>4, <1>5, <1>6 DEF Run
<1>8. run' \in [Fixes -> Run]
  BY <1>4, <1>5, <1>7
<1> QED BY <1>1, <1>2, <1>5, <1>6, <1>7, <1>8

\* A fix is reported, or diagnosed.
Begins(f) == Report(f) \/ \E p \in Proposals : Diagnose(f, p)

\* A fix that begins gets no option; its file is looked at as it leaves "absent".
LEMMA BeginsFact ==
    ASSUME TypeOK, NEW f \in Fixes, Begins(f)
    PROVE  /\ run' \in [Fixes -> Run]
           /\ \/ /\ run[f].at = "absent" /\ run'[f].at \in {"sent", "pending"}
                 /\ seen' = [seen EXCEPT ![f] = main[File[f]]]
              \/ run[f].at = "sent" /\ run'[f].at = "pending" /\ seen' = seen
           /\ run'[f].option = run[f].option
           /\ \A g \in Fixes : g # f => run'[g] = run[g]
           /\ UNCHANGED <<provider, main, branch, pull, commits, arrived, overwritten, landed,
                          unanswered, orphaned>>
<1>1. CASE Report(f)
  BY <1>1 DEF Report, TypeOK, Run, Places
<1>2. ASSUME NEW p \in Proposals, Diagnose(f, p)
      PROVE  /\ run' \in [Fixes -> Run]
             /\ run'[f].at = "pending" /\ run'[f].option = run[f].option
             /\ \A g \in Fixes : g # f => run'[g] = run[g]
  BY <1>2 DEF Diagnose, TypeOK, Run, Places
<1>3. ASSUME NEW p \in Proposals, Diagnose(f, p)
      PROVE  \/ run[f].at = "absent" /\ seen' = [seen EXCEPT ![f] = main[File[f]]]
             \/ run[f].at = "sent" /\ seen' = seen
  BY <1>3 DEF Diagnose
<1>4. ASSUME NEW p \in Proposals, Diagnose(f, p)
      PROVE  UNCHANGED <<provider, main, branch, pull, commits, arrived, overwritten, landed,
                         unanswered, orphaned>>
  BY <1>4 DEF Diagnose
<1> QED BY <1>1, <1>2, <1>3, <1>4 DEF Begins

\* What reaches main is remembered by the fixes that wait.
LEMMA MainFact ==
    ASSUME TypeOK, NEW tree \in Tree, MainBecomes(tree)
    PROVE  /\ main' = tree
           /\ arrived' \in [Fixes -> SUBSET Content]
           /\ \A f \in Fixes : arrived[f] \subseteq arrived'[f]
           /\ \A f \in Outstanding : tree[File[f]] # main[File[f]] =>
                                        tree[File[f]] \in arrived'[f]
<1>1. \A f \in Fixes : tree[File[f]] \in Content
  BY FixesAssumption DEF Tree
<1> QED BY <1>1 DEF MainBecomes, TypeOK, Outstanding

\* The branch and the pushed commit of PutFile and CreateRef keep the types.
LEMMA BranchFact ==
    ASSUME TypeOK, NEW f \in Fixes, CreateRef(f) \/ PutFile(f)
    PROVE  branch' \in [Names -> Branch]
<1>1. CASE CreateRef(f)
  <2>1. (IF branch[BranchName(f)].exists THEN branch[BranchName(f)] ELSE run[f].read) \in Branch
    BY TreesFact DEF TypeOK, Here
  <2> QED BY <1>1, <2>1, TreesFact DEF CreateRef, TypeOK
<1>2. CASE PutFile(f)
  <2> DEFINE b == BranchName(f)
  <2>1. b \in Names /\ branch[b] \in Branch /\ File[f] \in Files /\ f \in Content
    BY TreesFact, FixesAssumption DEF Here, Content
  <2>2. [branch[b].head EXCEPT ![File[f]] = f] \in Tree
    BY <2>1 DEF Branch, Tree
  <2>3. branch' = [branch EXCEPT ![b] =
                     [branch[b] EXCEPT !.head = [branch[b].head EXCEPT ![File[f]] = f]]]
    BY <1>2, <2>1 DEF PutFile, TypeOK
  <2>4. [branch[b] EXCEPT !.head = [branch[b].head EXCEPT ![File[f]] = f]] \in Branch
    BY <2>1, <2>2 DEF Branch
  <2> QED BY <2>1, <2>3, <2>4 DEF TypeOK
<1> QED BY <1>1, <1>2

\* CreateRef and PutFile move the run, or fail it.
LEMMA WriteFact ==
    ASSUME TypeOK, NEW f \in Fixes
    PROVE  /\ CreateRef(f) => \E at \in {"read_file", "failed"} : Moved(f, at, NoBranch)
           /\ PutFile(f) => \E at \in {"open_pr", "failed"} : Moved(f, at, NoBranch)
BY GotoFact DEF CreateRef, PutFile, Answers, Places, Calling

\* OpenPr moves the run, or fails it and has its answer lost.
LEMMA OpenPrFact ==
    ASSUME TypeOK, NEW f \in Fixes, OpenPr(f)
    PROVE  /\ pull' = [pull EXCEPT ![f] = "open"]
           /\ \E at \in {"open_issue", "executed", "failed"} :
                /\ Moved(f, at, NoBranch)
                /\ at = "open_issue" => run[f].option = "both"
                /\ at = "failed" => f \in unanswered'
           /\ unanswered \subseteq unanswered' /\ unanswered' \subseteq unanswered \union {f}
<1>1. PICK at \in {IF run[f].option = "both" THEN "open_issue" ELSE "executed", "failed"} :
          /\ Goto(f, at)
          /\ unanswered' = IF at = "failed" THEN unanswered \union {f} ELSE unanswered
  BY DEF OpenPr
<1>2. at \in {"open_issue", "executed", "failed"} /\ (at = "open_issue" => run[f].option = "both")
  BY <1>1
<1>3. Moved(f, at, NoBranch)
  BY <1>1, <1>2, GotoFact DEF Places, Calling
<1> QED BY <1>1, <1>2, <1>3 DEF OpenPr

\* A merge takes main to a tree of what it held and what the branch holds.
LEMMA MergeFact ==
    ASSUME TypeOK, NEW f \in Fixes, Merge(f)
    PROVE  LET b == BranchName(f) IN
           /\ b \in Names /\ pull[f] = "open" /\ branch[b].exists
           /\ \A x \in Files :
                branch[b].head[x] # branch[b].base[x] => main[x] = branch[b].base[x]
           /\ \A x \in Files : main'[x] = IF branch[b].head[x] # branch[b].base[x]
                                          THEN branch[b].head[x] ELSE main[x]
           /\ main' \in Tree /\ MainBecomes(main')
           /\ branch' \in [Names -> Branch]
           /\ branch'[b].head = branch[b].head /\ branch'[b].base = branch[b].head
           /\ branch'[b].exists
           /\ \A c \in Names : c # b => branch'[c] = branch[c]
<1> DEFINE b == BranchName(f)
           tree == [x \in Files |-> IF x \in Changed(b) THEN branch[b].head[x] ELSE main[x]]
<1>1. b \in Names /\ branch[b] \in Branch
  BY TreesFact DEF Here
<1>2. \A x \in Files : x \in Changed(b) <=> branch[b].head[x] # branch[b].base[x]
  BY DEF Changed
<1>3. tree \in Tree
  BY <1>1 DEF TypeOK, Branch, Tree
<1>4. MainBecomes(tree) /\ main' = tree
  BY DEF Merge, MainBecomes
<1>5. branch' = [branch EXCEPT ![b].base = branch[b].head]
  BY DEF Merge
<1>6. [branch[b] EXCEPT !.base = branch[b].head] \in Branch
  BY <1>1 DEF Branch
<1>7. /\ branch' \in [Names -> Branch]
      /\ branch'[b].head = branch[b].head /\ branch'[b].base = branch[b].head
      /\ branch'[b].exists = branch[b].exists
      /\ \A c \in Names : c # b => branch'[c] = branch[c]
  BY <1>1, <1>5, <1>6 DEF TypeOK, Branch
<1>8. \A x \in Changed(b) : main[x] = branch[b].base[x]
  BY DEF Merge
<1>9. pull[f] = "open" /\ branch[b].exists
  BY DEF Merge, Here
<1> QED BY <1>1, <1>2, <1>3, <1>4, <1>7, <1>8, <1>9

-----------------------------------------------------------------------------
(* Types *)

\* Every step keeps the types.
LEMMA TypesStep ==
    ASSUME TypeOK, [Next]_vars
    PROVE  TypeOK'
<1>1. ASSUME NEW f \in Fixes, Begins(f) PROVE TypeOK'
  <2>1. main[File[f]] \in Content
    BY FixesAssumption DEF TypeOK, Tree
  <2> QED BY <1>1, <2>1, BeginsFact DEF TypeOK, Run
<1>2. ASSUME NEW f \in Fixes, NEW o \in Options, Approve(f, o) PROVE TypeOK'
  BY <1>2, ApproveFact DEF Approve, TypeOK, Run, history
<1>3. ASSUME NEW f \in Fixes, Quiet(f) PROVE TypeOK'
  BY <1>3 DEF Quiet, Moved, TypeOK, Run, history
<1>4. ASSUME NEW f \in Fixes, CreateRef(f) \/ PutFile(f) PROVE TypeOK'
  <2>1. run' \in [Fixes -> Run]
    BY <1>4, WriteFact DEF Moved
  <2> QED BY <1>4, <2>1, BranchFact DEF CreateRef, PutFile, TypeOK, Run, history
<1>5. ASSUME NEW f \in Fixes, OpenPr(f) PROVE TypeOK'
  <2>1. /\ run' \in [Fixes -> Run] /\ unanswered' \subseteq Fixes
        /\ pull' = [pull EXCEPT ![f] = "open"]
    BY <1>5, OpenPrFact DEF Moved, TypeOK
  <2> QED BY <1>5, <2>1 DEF OpenPr, TypeOK, Run
<1>6. ASSUME NEW x \in Files, Commit(x) PROVE TypeOK'
  <2>1. commits + 1 \in Content /\ commits' \in 0..MaxCommits
    BY <1>6, FixesAssumption DEF Commit, TypeOK, Content
  <2>2. [main EXCEPT ![x] = commits + 1] \in Tree
    BY <2>1 DEF TypeOK, Tree
  <2>3. main' \in Tree /\ arrived' \in [Fixes -> SUBSET Content]
    BY <1>6, <2>2, MainFact DEF Commit
  <2> QED BY <1>6, <2>1, <2>3 DEF Commit, TypeOK
<1>7. ASSUME NEW f \in Fixes, Merge(f) PROVE TypeOK'
  <2> DEFINE b == BranchName(f)
  <2>1. /\ b \in Names /\ main' \in Tree /\ MainBecomes(main')
        /\ branch' \in [Names -> Branch]
    BY <1>7, MergeFact
  <2>2. arrived' \in [Fixes -> SUBSET Content]
    BY <2>1, MainFact
  <2>3. \A x \in Files : main[x] \in Content
    BY DEF TypeOK, Tree
  <2>4. overwritten' \subseteq Fixes \X Content
    <3>1. \A r \in {<<branch[b].head[x], main[x]>> : x \in Changed(b)} :
            r[1] \in Fixes => r \in Fixes \X Content
      BY <2>3 DEF Changed
    <3> QED BY <1>7, <3>1 DEF Merge, TypeOK
  <2>5. landed' \subseteq Fixes /\ pull' \in [Fixes -> {"none", "open", "merged", "closed"}]
    BY <1>7 DEF Merge, TypeOK
  <2> QED BY <1>7, <2>1, <2>2, <2>4, <2>5 DEF Merge, TypeOK
<1>8. ASSUME NEW f \in Fixes, Close(f) PROVE TypeOK'
  BY <1>8 DEF Close, TypeOK, history
<1>9. ASSUME NEW b \in Names, DeleteBranch(b) PROVE TypeOK'
  <2>1. branch' \in [Names -> Branch]
    BY <1>9, TreesFact DEF DeleteBranch, TypeOK
  <2>2. orphaned' \subseteq Fixes
    BY <1>9 DEF DeleteBranch, TypeOK, On
  <2> QED BY <1>9, <2>1, <2>2 DEF DeleteBranch, TypeOK
<1>10. CASE UNCHANGED vars
  BY <1>10 DEF vars, history, TypeOK
<1> QED
  BY <1>1, <1>2, <1>3, <1>4, <1>5, <1>6, <1>7, <1>8, <1>9, <1>10, QuietSteps DEF Next, Begins

\* Every reachable state is type-correct.
THEOREM TypeCorrect == Spec => []TypeOK
<1>1. Init => TypeOK
  <2>1. 0 \in Content /\ NoTree \in Tree /\ NoBranch \in Branch
    BY DEF Content, NoTree, Tree, NoBranch, Branch
  <2> QED BY <2>1, FixesAssumption
          DEF Init, TypeOK, Places, Proposals, Options
<1>2. TypeOK /\ [Next]_vars => TypeOK'
  BY TypesStep
<1> QED BY <1>1, <1>2, PTL DEF Spec

-----------------------------------------------------------------------------
(* What holds of every fix and of every branch *)

\* Its commit was made, or will never be.
Pushed(f) == run[f].at \notin Waiting \union {"absent"}

\* A run has an option once it is approved; what has landed was pushed.
RunsInv ==
    \A f \in Fixes :
        /\ run[f].option = "none" <=> run[f].at \in {"absent", "sent", "pending"}
        /\ f \in landed => Pushed(f)

\* What main has ever held is a developer's commit or a fix that has landed.
Known == (0..commits) \union landed

KnownInv ==
    /\ \A x \in Files : main[x] \in Known
    /\ \A b \in Names, x \in Files : branch[b].base[x] \in Known
    /\ \A f \in Fixes : run[f].at = "create_ref" =>
          /\ run[f].read.head = run[f].read.base
          /\ \A x \in Files : run[f].read.base[x] \in Known

\* A branch changes a file only to the fix of a run of its own, not yet on main.
HeadsInv ==
    \A b \in Names, x \in Files :
        branch[b].head[x] # branch[b].base[x] =>
            \E f \in Fixes \ landed :
                /\ branch[b].head[x] = f /\ BranchName(f) = b /\ File[f] = x
                /\ Pushed(f) /\ run[f].option # "none"

\* What main holds of a waiting fix's file is what the fix was written for, or news.
NewsInv ==
    \A f \in Outstanding :
        main[File[f]] = seen[f] \/ main[File[f]] \in arrived[f]

\* So is what a branch replaces, as long as it can be merged.
BasesInv ==
    \A b \in Names, x \in Files, f \in Fixes :
        branch[b].head[x] = f /\ branch[b].base[x] # f /\ main[x] = branch[b].base[x] =>
            main[x] = seen[f] \/ main[x] \in arrived[f]

\* A pull request is opened by a run that is then over, or fails because its answer
\* is lost, or goes on to the issue.
PullsInv ==
    \A f \in Fixes :
        pull[f] # "none" =>
            /\ run[f].at \in {"executed", "failed", "open_issue"}
            /\ run[f].at = "open_issue" => run[f].option = "both"
            /\ run[f].at = "failed" => f \in unanswered \/ run[f].option = "both"

\* What is proposed, or is about to be, is the run's fix or a sharer's.
ProposedInv ==
    \A f \in Fixes :
        run[f].at = "open_pr" \/ pull[f] = "open" =>
            \/ f \in orphaned
            \/ Here(f).exists /\ Here(f).head[File[f]] \in {f} \union Sharers(f)

\* What has landed was merged, by its own pull request or a sharer's.
LandedInv ==
    \A f \in landed :
        pull[f] = "merged" \/ \E g \in Sharers(f) : pull[g] = "merged"

\* The inductive invariant.
RepositoryInv ==
    /\ TypeOK /\ RunsInv /\ KnownInv /\ HeadsInv /\ NewsInv /\ BasesInv
    /\ LostUpdatesExplained /\ PullsInv /\ ProposedInv /\ LandedInv

-----------------------------------------------------------------------------
(* What every step keeps *)

\* What a step does to a run, whichever step it is.
RunKept(f) ==
    /\ run[f].option # "none" => run'[f].option = run[f].option
    /\ run'[f].option = "none" <=> run'[f].at \in {"absent", "sent", "pending"}
    /\ Pushed(f) => Pushed(f)'
    /\ f \in Outstanding' => f \in Outstanding \/ run[f].at = "absent"

\* A run that moves within its work keeps its option.
LEMMA MovedKept ==
    ASSUME TypeOK, RunsInv, NEW f \in Fixes, NEW at \in Places, NEW read \in Branch,
           Moved(f, at, read), run[f].at \in Calling,
           at \notin {"absent", "sent", "pending"}, at \in Waiting => run[f].at \in Waiting
    PROVE  \A g \in Fixes : RunKept(g)
<1>1. run[f].at \notin {"absent", "sent", "pending"}
  BY DEF Calling
<1>2. ASSUME NEW g \in Fixes PROVE RunKept(g)
  <2>1. CASE g = f
    <3>1. run'[f].at = at /\ run'[f].option = run[f].option
      BY DEF Moved
    <3> QED BY <1>1, <2>1, <3>1 DEF RunKept, RunsInv, Pushed, Outstanding, Waiting
  <2>2. CASE g # f
    <3>1. run'[g] = run[g]
      BY <2>2 DEF Moved
    <3> QED BY <3>1 DEF RunKept, RunsInv, Pushed, Outstanding
  <2> QED BY <2>1, <2>2
<1> QED BY <1>2

\* Steps keep the options, the commits made and what history has recorded.
LEMMA Kept ==
    ASSUME TypeOK, RunsInv, [Next]_vars
    PROVE  /\ \A f \in Fixes : RunKept(f)
           /\ landed \subseteq landed' /\ orphaned \subseteq orphaned'
           /\ unanswered \subseteq unanswered'
           /\ commits \in Nat /\ commits' \in Nat /\ commits <= commits'
           /\ \A f \in Fixes : arrived[f] \subseteq arrived'[f]
<1> DEFINE Same == /\ landed \subseteq landed' /\ orphaned \subseteq orphaned'
                   /\ unanswered \subseteq unanswered'
                   /\ commits \in Nat /\ commits' \in Nat /\ commits <= commits'
                   /\ \A f \in Fixes : arrived[f] \subseteq arrived'[f]
           Runs == \A f \in Fixes : RunKept(f)
<1>0. commits \in Nat
  BY FixesAssumption DEF TypeOK
<1>1. ASSUME NEW f \in Fixes, Begins(f) PROVE Runs /\ Same
  <2>1. ASSUME NEW g \in Fixes PROVE RunKept(g)
    BY <1>1, BeginsFact DEF RunKept, RunsInv, Pushed, Outstanding, Waiting
  <2> QED BY <1>0, <1>1, <2>1, BeginsFact
<1>2. ASSUME NEW f \in Fixes, NEW o \in Options, Approve(f, o) PROVE Runs /\ Same
  <2>1. ASSUME NEW g \in Fixes PROVE RunKept(g)
    BY <1>2, ApproveFact DEF RunKept, RunsInv, Pushed, Outstanding, Waiting
  <2> QED BY <1>0, <1>2, <2>1 DEF Approve, history
<1>3. ASSUME NEW f \in Fixes, Quiet(f) PROVE Runs /\ Same
  <2>1. PICK at \in {"failed", "create_ref", "read_file", "put_file", "executed"},
             read \in Branch :
          Moved(f, at, read) /\ (at \in Waiting => run[f].at \in Waiting)
    BY <1>3 DEF Quiet
  <2>2. Runs
    BY <1>3, <2>1, MovedKept DEF Quiet, Places, Calling
  <2> QED BY <1>0, <1>3, <2>2 DEF Quiet, history
<1>4. ASSUME NEW f \in Fixes, CreateRef(f) \/ PutFile(f) PROVE Runs /\ Same
  <2>1. PICK at \in {"read_file", "open_pr", "failed"} : Moved(f, at, NoBranch)
    BY <1>4, WriteFact
  <2>2. run[f].at \in Calling /\ run[f].at \in Waiting
    BY <1>4 DEF CreateRef, PutFile, Calling, Waiting
  <2>3. Runs
    BY <2>1, <2>2, MovedKept, TreesFact DEF Places, Calling
  <2> QED BY <1>0, <1>4, <2>3 DEF CreateRef, PutFile, history
<1>5. ASSUME NEW f \in Fixes, OpenPr(f) PROVE Runs /\ Same
  <2>1. PICK at \in {"open_issue", "executed", "failed"} : Moved(f, at, NoBranch)
    BY <1>5, OpenPrFact
  <2>2. run[f].at \in Calling /\ at \notin Waiting
    BY <1>5 DEF OpenPr, Calling, Waiting
  <2>3. Runs
    BY <2>1, <2>2, MovedKept, TreesFact DEF Places, Calling
  <2> QED BY <1>0, <1>5, <2>3, OpenPrFact DEF OpenPr
<1>6. ASSUME UNCHANGED run PROVE Runs
  BY <1>6 DEF RunKept, RunsInv, Pushed, Outstanding
<1>7. ASSUME NEW x \in Files, Commit(x) PROVE Runs /\ Same
  <2>1. [main EXCEPT ![x] = commits + 1] \in Tree
    BY <1>0 DEF TypeOK, Tree, Content
  <2> QED BY <1>0, <1>6, <1>7, <2>1, MainFact DEF Commit
<1>8. ASSUME NEW f \in Fixes, Merge(f) PROVE Runs /\ Same
  <2>1. main' \in Tree /\ MainBecomes(main')
    BY <1>8, MergeFact
  <2> QED BY <1>0, <1>6, <1>8, <2>1, MainFact DEF Merge
<1>9. ASSUME NEW f \in Fixes, Close(f) PROVE Runs /\ Same
  BY <1>0, <1>6, <1>9 DEF Close, history
<1>10. ASSUME NEW b \in Names, DeleteBranch(b) PROVE Runs /\ Same
  BY <1>0, <1>6, <1>10 DEF DeleteBranch
<1>11. CASE UNCHANGED vars
  BY <1>0, <1>6, <1>11 DEF vars, history
<1> QED
  BY <1>1, <1>2, <1>3, <1>4, <1>5, <1>7, <1>8, <1>9, <1>10, <1>11, QuietSteps DEF Next, Begins

\* A branch keeps its name and those who share it.
LEMMA NamesKept ==
    ASSUME TypeOK, RunsInv, [Next]_vars
    PROVE  \A f \in Fixes : run[f].option # "none" =>
               /\ run'[f].option # "none" /\ BranchName(f)' = BranchName(f)
               /\ Sharers(f) \subseteq Sharers(f)'
<1>1. ASSUME NEW f \in Fixes, run[f].option # "none"
      PROVE  run'[f].option # "none" /\ BranchName(f)' = BranchName(f)
  BY <1>1, Kept DEF RunKept, BranchName
<1>2. ASSUME NEW f \in Fixes, run[f].option # "none", NEW g \in Sharers(f)
      PROVE  g \in Sharers(f)'
  <2>1. g \in Fixes /\ run[g].option # "none" /\ BranchName(g) = BranchName(f) /\ g # f
    BY <1>2 DEF Sharers, On
  <2>2. run'[g].option # "none" /\ BranchName(g)' = BranchName(f)'
    BY <1>1, <1>2, <2>1
  <2> QED BY <2>1, <2>2 DEF Sharers, On
<1> QED BY <1>1, <1>2

\* Main and what has landed change by a developer's commit or a merge only.
LEMMA MainKept ==
    ASSUME [Next]_vars
    PROVE  \/ main' = main /\ landed' = landed /\ overwritten' = overwritten
           \/ \E x \in Files : Commit(x)
           \/ \E f \in Fixes : Merge(f)
<1>1. ASSUME NEW f \in Fixes, Begins(f)
      PROVE  main' = main /\ landed' = landed /\ overwritten' = overwritten
  BY <1>1 DEF Begins, Report, Diagnose
<1>2. ASSUME NEW f \in Fixes,
             \/ Raise(f) \/ ReadHead(f) \/ CreateRef(f) \/ ReadFile(f) \/ PutFile(f)
             \/ OpenPr(f) \/ OpenIssue(f) \/ Close(f)
             \/ \E o \in Options : Approve(f, o)
      PROVE  main' = main /\ landed' = landed /\ overwritten' = overwritten
  BY <1>2 DEF Raise, ReadHead, CreateRef, ReadFile, PutFile, OpenPr, OpenIssue, Close,
              Approve, history
<1>3. ASSUME NEW b \in Names, DeleteBranch(b)
      PROVE  main' = main /\ landed' = landed /\ overwritten' = overwritten
  BY <1>3 DEF DeleteBranch
<1>4. CASE UNCHANGED vars
  BY <1>4 DEF vars, history
<1> QED BY <1>1, <1>2, <1>3, <1>4 DEF Next, Begins

\* A branch changes by its creation, a commit, a merge or its deletion only.
LEMMA BranchKept ==
    ASSUME [Next]_vars
    PROVE  \/ branch' = branch
           \/ \E f \in Fixes : CreateRef(f) \/ PutFile(f) \/ Merge(f)
           \/ \E b \in Names : DeleteBranch(b)
<1>1. ASSUME NEW f \in Fixes, Begins(f)
      PROVE  branch' = branch
  BY <1>1 DEF Begins, Report, Diagnose
<1>2. ASSUME NEW f \in Fixes,
             \/ Raise(f) \/ ReadHead(f) \/ ReadFile(f)
             \/ OpenPr(f) \/ OpenIssue(f) \/ Close(f)
             \/ \E o \in Options : Approve(f, o)
      PROVE  branch' = branch
  BY <1>2 DEF Raise, ReadHead, ReadFile, OpenPr, OpenIssue, Close, Approve
<1>3. ASSUME NEW x \in Files, Commit(x) PROVE branch' = branch
  BY <1>3 DEF Commit
<1>4. CASE UNCHANGED vars
  BY <1>4 DEF vars
<1> QED BY <1>1, <1>2, <1>3, <1>4 DEF Next, Begins

\* A fix lands by a merge of its branch, which changes its file to it.
LEMMA LandsByMerge ==
    ASSUME TypeOK, HeadsInv, [Next]_vars, NEW f \in landed', f \notin landed
    PROVE  \E g \in Fixes : /\ Merge(g)
                            /\ BranchName(f) = BranchName(g)
                            /\ Pushed(f) /\ run[f].option # "none"
<1>1. ASSUME NEW x \in Files, Commit(x) PROVE landed' = landed
  BY <1>1 DEF Commit
<1>2. PICK g \in Fixes : Merge(g)
  BY <1>1, MainKept
<1>3. PICK x \in Changed(BranchName(g)) : f = branch[BranchName(g)].head[x]
  BY <1>2 DEF Merge
<1>4. x \in Files /\ BranchName(g) \in Names
      /\ branch[BranchName(g)].head[x] # branch[BranchName(g)].base[x]
  BY <1>3, TreesFact DEF Changed
<1> QED BY <1>2, <1>3, <1>4 DEF HeadsInv

\* What a new branch starts from is read from main.
LEMMA ReadFromMain ==
    ASSUME TypeOK, [Next]_vars, NEW f \in Fixes, run'[f].at = "create_ref"
    PROVE  \/ run[f].at = "create_ref" /\ run'[f].read = run[f].read
           \/ run'[f].read = At(main)
<1> DEFINE Goal == \/ run[f].at = "create_ref" /\ run'[f].read = run[f].read
                   \/ run'[f].read = At(main)
<1>1. ASSUME NEW g \in Fixes, Begins(g) PROVE Goal
  BY <1>1, BeginsFact
<1>2. ASSUME NEW g \in Fixes, NEW o \in Options, Approve(g, o) PROVE Goal
  BY <1>2, ApproveFact
<1>3. ASSUME NEW g \in Fixes, Quiet(g) PROVE Goal
  BY <1>3 DEF Quiet, Moved
<1>4. ASSUME NEW g \in Fixes, CreateRef(g) \/ PutFile(g) PROVE Goal
  BY <1>4, WriteFact DEF Moved
<1>5. ASSUME NEW g \in Fixes, OpenPr(g) PROVE Goal
  BY <1>5, OpenPrFact DEF Moved
<1>6. CASE run' = run
  BY <1>6
<1>7. ASSUME \/ \E g \in Fixes : Merge(g) \/ Close(g)
             \/ \E x \in Files : Commit(x)
             \/ \E b \in Names : DeleteBranch(b)
             \/ UNCHANGED vars
      PROVE  run' = run
  BY <1>7 DEF Merge, Close, Commit, DeleteBranch, vars
<1> QED BY <1>1, <1>2, <1>3, <1>4, <1>5, <1>6, <1>7, QuietSteps DEF Next, Begins

\* Options and landed fixes stay in step with the runs.
LEMMA RunsStep ==
    ASSUME TypeOK, RunsInv, HeadsInv, [Next]_vars
    PROVE  RunsInv'
<1>1. \A f \in Fixes : run'[f].option = "none" <=> run'[f].at \in {"absent", "sent", "pending"}
  BY Kept DEF RunKept
<1>2. ASSUME NEW f \in Fixes, f \in landed' PROVE Pushed(f)'
  <2>1. Pushed(f)
    BY <1>2, LandsByMerge DEF RunsInv
  <2> QED BY <2>1, Kept DEF RunKept
<1> QED BY <1>1, <1>2 DEF RunsInv

\* What branches start from was on main once.
LEMMA KnownStep ==
    ASSUME TypeOK, RunsInv, HeadsInv, KnownInv, [Next]_vars
    PROVE  KnownInv'
<1>1. Known \subseteq Known' /\ 0 \in Known
  BY Kept DEF Known
<1>2. ASSUME NEW f \in Fixes, Merge(f), NEW x \in Files,
             branch[BranchName(f)].head[x] # branch[BranchName(f)].base[x]
      PROVE  branch[BranchName(f)].head[x] \in Known'
  <2>1. branch[BranchName(f)].head[x] \in Fixes
    BY <1>2, TreesFact DEF HeadsInv
  <2>2. branch[BranchName(f)].head[x] \in landed'
    BY <1>2, <2>1 DEF Merge, Changed
  <2> QED BY <2>2 DEF Known
<1>3. ASSUME NEW x \in Files PROVE main'[x] \in Known'
  <2>1. CASE main' = main
    BY <1>1, <2>1 DEF KnownInv
  <2>2. ASSUME NEW y \in Files, Commit(y) PROVE main'[x] \in Known'
    <3>1. main' = [main EXCEPT ![y] = commits + 1] /\ commits' = commits + 1
      BY <2>2 DEF Commit, MainBecomes
    <3>2. commits + 1 \in Known'
      BY <3>1, Kept DEF Known
    <3> QED BY <1>1, <3>1, <3>2 DEF KnownInv, TypeOK, Tree
  <2>3. ASSUME NEW f \in Fixes, Merge(f) PROVE main'[x] \in Known'
    BY <1>1, <1>2, <2>3, MergeFact DEF KnownInv
  <2> QED BY <2>1, <2>2, <2>3, MainKept
<1>4. ASSUME NEW b \in Names, NEW x \in Files PROVE branch'[b].base[x] \in Known'
  <2>1. CASE branch' = branch
    BY <1>1, <2>1 DEF KnownInv
  <2>2. ASSUME NEW f \in Fixes, CreateRef(f) PROVE branch'[b].base[x] \in Known'
    <3>1. branch'[b] = branch[b] \/ (run[f].at = "create_ref" /\ branch'[b] = run[f].read)
      BY <2>2 DEF CreateRef, TypeOK
    <3> QED BY <1>1, <3>1 DEF KnownInv
  <2>3. ASSUME NEW f \in Fixes, PutFile(f) PROVE branch'[b].base[x] \in Known'
    <3>1. branch'[b].base = branch[b].base
      BY <2>3 DEF PutFile, TypeOK, Branch
    <3> QED BY <1>1, <3>1 DEF KnownInv
  <2>4. ASSUME NEW f \in Fixes, Merge(f) PROVE branch'[b].base[x] \in Known'
    <3>1. CASE b = BranchName(f)
      BY <1>1, <1>2, <2>4, <3>1, MergeFact DEF KnownInv
    <3>2. CASE b # BranchName(f)
      BY <1>1, <2>4, <3>2, MergeFact DEF KnownInv
    <3> QED BY <3>1, <3>2
  <2>5. ASSUME NEW c \in Names, DeleteBranch(c) PROVE branch'[b].base[x] \in Known'
    <3>1. branch'[b] = branch[b] \/ branch'[b] = NoBranch
      BY <2>5 DEF DeleteBranch, TypeOK
    <3>2. NoBranch.base[x] = 0
      BY DEF NoBranch, NoTree
    <3> QED BY <1>1, <3>1, <3>2 DEF KnownInv
  <2> QED BY <2>1, <2>2, <2>3, <2>4, <2>5, BranchKept

<1>5. ASSUME NEW f \in Fixes, run'[f].at = "create_ref"
      PROVE  /\ run'[f].read.head = run'[f].read.base
             /\ \A x \in Files : run'[f].read.base[x] \in Known'
  <2>1. CASE run[f].at = "create_ref" /\ run'[f].read = run[f].read
    BY <1>1, <2>1 DEF KnownInv
  <2>2. CASE run'[f].read = At(main)
    BY <1>1, <2>2 DEF KnownInv, At
  <2> QED BY <1>5, <2>1, <2>2, ReadFromMain
<1> QED BY <1>3, <1>4, <1>5 DEF KnownInv

\* Branches change files only to the fixes of their own runs.
LEMMA HeadsStep ==
    ASSUME TypeOK, RunsInv, KnownInv, HeadsInv, [Next]_vars
    PROVE  HeadsInv'
<1> DEFINE Held(h, b, x) == /\ h \in Fixes \ landed
                            /\ BranchName(h) = b /\ File[h] = x
                            /\ Pushed(h) /\ run[h].option # "none"
<1>1. ASSUME NEW b \in Names, NEW x \in Files, NEW h \in Fixes, Held(h, b, x), h \notin landed'
      PROVE  Held(h, b, x)'
  BY <1>1, NamesKept, Kept DEF RunKept
<1>2. ASSUME NEW b \in Names, NEW x \in Files,
             branch'[b].head[x] # branch'[b].base[x]
      PROVE  \E h \in Fixes : branch'[b].head[x] = h /\ Held(h, b, x)'
  <2>1. CASE branch'[b] = branch[b]
    <3>1. PICK h \in Fixes : branch[b].head[x] = h /\ Held(h, b, x)
      BY <1>2, <2>1 DEF HeadsInv
    <3>2. h \notin landed'
      <4>1. SUFFICES ASSUME h \in landed' PROVE FALSE
        OBVIOUS
      <4>2. PICK g \in Fixes : Merge(g) /\ BranchName(h) = BranchName(g)
        BY <3>1, <4>1, LandsByMerge
      <4>3. branch'[b].base = branch'[b].head
        BY <3>1, <4>2, MergeFact
      <4> QED BY <1>2, <4>3
    <3> QED BY <1>1, <2>1, <3>1, <3>2
  <2>2. ASSUME NEW f \in Fixes, CreateRef(f), branch'[b] # branch[b] PROVE FALSE
    <3>1. run[f].at = "create_ref" /\ branch'[b] = run[f].read
      BY <2>2 DEF CreateRef, TypeOK
    <3> QED BY <1>2, <3>1 DEF KnownInv
  <2>3. ASSUME NEW f \in Fixes, PutFile(f), branch'[b] # branch[b]
        PROVE  \E h \in Fixes : branch'[b].head[x] = h /\ Held(h, b, x)'
    <3>1. b = BranchName(f) /\ run[f].at = "put_file"
      BY <2>3 DEF PutFile, TypeOK
    <3>2. branch'[b].base = branch[b].base
          /\ branch'[b].head = [branch[b].head EXCEPT ![File[f]] = f]
      BY <2>3, <3>1 DEF PutFile, TypeOK, Branch
    <3>3. landed' = landed
      BY <2>3 DEF PutFile, history
    <3>4. CASE x = File[f]
      <4>1. branch'[b].head[x] = f
        BY <3>2, <3>4 DEF TypeOK, Branch, Tree
      <4>2. f \notin landed /\ run[f].option # "none"
        BY <3>1 DEF RunsInv, Pushed, Waiting
      <4>3. Pushed(f)'
        BY <2>3, WriteFact DEF Moved, Pushed, Waiting
      <4>4. run'[f].option # "none" /\ BranchName(f)' = b
        BY <3>1, <4>2, NamesKept
      <4>5. Held(f, b, x)'
        BY <3>3, <3>4, <4>2, <4>3, <4>4
      <4> QED BY <4>1, <4>5
    <3>5. CASE x # File[f]
      <4>1. branch'[b].head[x] = branch[b].head[x]
        BY <3>2, <3>5 DEF TypeOK, Branch, Tree
      <4>2. PICK h \in Fixes : branch[b].head[x] = h /\ Held(h, b, x)
        BY <1>2, <3>2, <4>1 DEF HeadsInv
      <4>3. Held(h, b, x)'
        BY <1>1, <3>3, <4>2
      <4> QED BY <4>1, <4>2, <4>3
    <3> QED BY <3>4, <3>5
  <2>4. ASSUME NEW f \in Fixes, Merge(f), branch'[b] # branch[b] PROVE FALSE
    <3>1. b = BranchName(f)
      BY <2>4, MergeFact
    <3> QED BY <1>2, <2>4, <3>1, MergeFact
  <2>5. ASSUME NEW c \in Names, DeleteBranch(c), branch'[b] # branch[b] PROVE FALSE
    <3>1. branch'[b] = NoBranch
      BY <2>5 DEF DeleteBranch, TypeOK
    <3> QED BY <1>2, <3>1 DEF NoBranch
  <2> QED BY <2>1, <2>2, <2>3, <2>4, <2>5, BranchKept
<1> QED BY <1>2 DEF HeadsInv

-----------------------------------------------------------------------------
(* What a step does to one fix *)

\* A run's step, seen from one fix.
RunChange(f) ==
    \/ run'[f] = run[f]
    \/ run[f].at \in {"absent", "sent"} /\ run'[f].at \in {"sent", "pending"}
    \/ run[f].at = "pending" /\ run'[f].at # "open_pr"
    \/ /\ run[f].at \in Calling /\ run'[f].option = run[f].option
       /\ run'[f].at \in {"failed", "create_ref", "read_file", "put_file", "executed"}
       /\ run'[f].at \in Waiting => run[f].at \in Waiting
    \/ PutFile(f)
    \/ OpenPr(f)

\* Every step is one of these for every fix.
LEMMA RunChanges ==
    ASSUME TypeOK, [Next]_vars, NEW f \in Fixes
    PROVE  RunChange(f)
<1>1. ASSUME NEW g \in Fixes, Begins(g) PROVE RunChange(f)
  BY <1>1, BeginsFact DEF RunChange
<1>2. ASSUME NEW g \in Fixes, NEW o \in Options, Approve(g, o) PROVE RunChange(f)
  BY <1>2, ApproveFact DEF RunChange
<1>3. ASSUME NEW g \in Fixes, Quiet(g) PROVE RunChange(f)
  BY <1>3 DEF Quiet, Moved, RunChange
<1>4. ASSUME NEW g \in Fixes, CreateRef(g) PROVE RunChange(f)
  <2>1. run[g].at = "create_ref"
    BY <1>4 DEF CreateRef
  <2> QED BY <1>4, <2>1, WriteFact DEF Moved, RunChange, Calling, Waiting
<1>5. ASSUME NEW g \in Fixes, PutFile(g) PROVE RunChange(f)
  BY <1>5, WriteFact DEF Moved, RunChange
<1>6. ASSUME NEW g \in Fixes, OpenPr(g) PROVE RunChange(f)
  BY <1>6, OpenPrFact DEF Moved, RunChange
<1>7. CASE run' = run
  BY <1>7 DEF RunChange
<1>8. ASSUME \/ \E g \in Fixes : Merge(g) \/ Close(g)
             \/ \E x \in Files : Commit(x)
             \/ \E b \in Names : DeleteBranch(b)
             \/ UNCHANGED vars
      PROVE  run' = run
  BY <1>8 DEF Merge, Close, Commit, DeleteBranch, vars
<1> QED BY <1>1, <1>2, <1>3, <1>4, <1>5, <1>6, <1>7, <1>8, QuietSteps DEF Next, Begins

\* A pull request is opened once, and merged or closed once.
LEMMA PullKept ==
    ASSUME TypeOK, [Next]_vars, NEW f \in Fixes
    PROVE  \/ pull'[f] = pull[f]
           \/ OpenPr(f) /\ pull'[f] = "open"
           \/ pull[f] = "open" /\ pull'[f] \in {"merged", "closed"}
<1> DEFINE Goal == \/ pull'[f] = pull[f]
                   \/ OpenPr(f) /\ pull'[f] = "open"
                   \/ pull[f] = "open" /\ pull'[f] \in {"merged", "closed"}
<1>1. ASSUME NEW g \in Fixes, OpenPr(g) PROVE Goal
  <2>1. pull' = [pull EXCEPT ![g] = "open"]
    BY <1>1 DEF OpenPr
  <2> QED BY <1>1, <2>1 DEF TypeOK
<1>2. ASSUME NEW g \in Fixes, Merge(g) PROVE Goal
  <2>1. pull' = [pull EXCEPT ![g] = "merged"] /\ pull[g] = "open"
    BY <1>2 DEF Merge
  <2> QED BY <2>1 DEF TypeOK
<1>3. ASSUME NEW g \in Fixes, Close(g) PROVE Goal
  BY <1>3 DEF Close, TypeOK
<1>4. ASSUME \/ \E g \in Fixes : \/ Begins(g)
                                 \/ \E o \in Options : Approve(g, o)
                                 \/ Quiet(g) \/ CreateRef(g) \/ PutFile(g)
             \/ \E x \in Files : Commit(x)
             \/ \E b \in Names : DeleteBranch(b)
             \/ UNCHANGED vars
      PROVE  Goal
  BY <1>4 DEF Begins, Report, Diagnose, Approve, Quiet, CreateRef, PutFile, Commit, DeleteBranch, vars
<1> QED BY <1>1, <1>2, <1>3, <1>4, QuietSteps DEF Next, Begins

\* What a fix is written for is what main held as its file was looked at.
LEMMA SeenKept ==
    ASSUME TypeOK, [Next]_vars, NEW f \in Fixes
    PROVE  /\ run[f].at # "absent" => seen'[f] = seen[f]
           /\ run[f].at = "absent" /\ run'[f].at # "absent" =>
                 seen'[f] = main[File[f]] /\ main' = main
<1> DEFINE Goal == /\ run[f].at # "absent" => seen'[f] = seen[f]
                   /\ run[f].at = "absent" /\ run'[f].at # "absent" =>
                        seen'[f] = main[File[f]] /\ main' = main
<1>1. ASSUME NEW g \in Fixes, Begins(g) PROVE Goal
  BY <1>1, BeginsFact DEF TypeOK
<1>2. ASSUME seen' = seen, run'[f] = run[f] \/ run[f].at # "absent" PROVE Goal
  BY <1>2
<1>3. ASSUME NEW g \in Fixes, NEW o \in Options, Approve(g, o) PROVE Goal
  BY <1>2, <1>3, ApproveFact DEF Approve, history
<1>4. ASSUME NEW g \in Fixes, Quiet(g) PROVE Goal
  BY <1>2, <1>4 DEF Quiet, Moved, history, Calling
<1>5. ASSUME NEW g \in Fixes, CreateRef(g) \/ PutFile(g) PROVE Goal
  BY <1>2, <1>5, WriteFact DEF CreateRef, PutFile, Moved, history
<1>6. ASSUME NEW g \in Fixes, OpenPr(g) PROVE Goal
  BY <1>2, <1>6, OpenPrFact DEF OpenPr, Moved
<1>7. ASSUME \/ \E g \in Fixes : Merge(g) \/ Close(g)
             \/ \E x \in Files : Commit(x)
             \/ \E b \in Names : DeleteBranch(b)
             \/ UNCHANGED vars
      PROVE  Goal
  BY <1>2, <1>7 DEF Merge, Close, Commit, DeleteBranch, vars, history
<1> QED BY <1>1, <1>3, <1>4, <1>5, <1>6, <1>7, QuietSteps DEF Next, Begins

-----------------------------------------------------------------------------
(* News and what is overwritten *)

\* A fix that waits hears of what main becomes.
LEMMA NewsStep ==
    ASSUME TypeOK, RunsInv, NewsInv, [Next]_vars
    PROVE  NewsInv'
<1> SUFFICES ASSUME NEW f \in Fixes, f \in Outstanding'
             PROVE  main'[File[f]] = seen'[f] \/ main'[File[f]] \in arrived'[f]
  BY DEF NewsInv, Outstanding
<1>1. CASE run[f].at = "absent"
  <2>1. run'[f].at \in {"sent", "pending"}
    <3>1. RunChange(f) /\ run'[f].at \in Waiting
      BY RunChanges DEF Outstanding, Waiting
    <3> QED BY <1>1, <3>1 DEF RunChange, Calling, Waiting, PutFile, OpenPr
  <2> QED BY <1>1, <2>1, SeenKept
<1>2. CASE run[f].at # "absent"
  <2>1. f \in Outstanding
    BY <1>2, Kept DEF RunKept
  <2>2. seen'[f] = seen[f] /\ arrived[f] \subseteq arrived'[f]
    BY <1>2, SeenKept, Kept
  <2>3. main[File[f]] = seen[f] \/ main[File[f]] \in arrived[f]
    BY <2>1 DEF NewsInv
  <2>4. CASE main' = main
    BY <2>2, <2>3, <2>4
  <2>5. ASSUME main' \in Tree, MainBecomes(main')
        PROVE  main'[File[f]] = seen'[f] \/ main'[File[f]] \in arrived'[f]
    BY <2>1, <2>2, <2>3, <2>5, MainFact
  <2>6. ASSUME NEW x \in Files, Commit(x) PROVE main' \in Tree /\ MainBecomes(main')
    <3>1. [main EXCEPT ![x] = commits + 1] \in Tree
      BY FixesAssumption DEF TypeOK, Tree, Content
    <3> QED BY <2>6, <3>1 DEF Commit, MainBecomes
  <2> QED BY <2>4, <2>5, <2>6, MainKept, MergeFact
<1> QED BY <1>1, <1>2

\* A branch that can be merged replaces what its fixes were written for, or news.
LEMMA BasesStep ==
    ASSUME TypeOK, RunsInv, KnownInv, HeadsInv, NewsInv, BasesInv, [Next]_vars
    PROVE  BasesInv'
<1> SUFFICES ASSUME NEW b \in Names, NEW x \in Files, NEW f \in Fixes,
                    branch'[b].head[x] = f, branch'[b].base[x] # f,
                    main'[x] = branch'[b].base[x]
             PROVE  main'[x] = seen'[f] \/ main'[x] \in arrived'[f]
  BY DEF BasesInv
<1>1. arrived[f] \subseteq arrived'[f]
  BY Kept
<1>2. ASSUME branch'[b].head[x] = branch[b].head[x], branch'[b].base[x] = branch[b].base[x]
      PROVE  main'[x] = seen'[f] \/ main'[x] \in arrived'[f]
  <2>1. f \notin landed /\ Pushed(f)
    BY <1>2 DEF HeadsInv
  <2>2. seen'[f] = seen[f]
    BY <2>1, SeenKept DEF Pushed
  <2>3. CASE main'[x] = main[x]
    BY <1>1, <1>2, <2>2, <2>3 DEF BasesInv
  <2>4. ASSUME NEW y \in Files, Commit(y) PROVE main'[x] = main[x]
    <3>1. main' = [main EXCEPT ![y] = commits + 1]
      BY <2>4 DEF Commit, MainBecomes
    <3>2. commits \in Nat /\ landed \subseteq Fixes
      BY FixesAssumption DEF TypeOK
    <3>3. branch[b].base[x] # commits + 1
      <4>1. branch[b].base[x] \in (0..commits) \union landed
        BY DEF KnownInv, Known
      <4>2. commits + 1 \notin landed
        BY <3>2, FixesAssumption
      <4> QED BY <3>2, <4>1, <4>2
    <3> QED BY <1>2, <3>1, <3>3 DEF TypeOK, Tree
  <2>5. ASSUME NEW g \in Fixes, Merge(g) PROVE main'[x] = main[x]
    <3> DEFINE c == BranchName(g)
    <3>1. c \in Names /\ branch'[c].head = branch'[c].base
      BY <2>5, MergeFact
    <3>2. CASE branch[c].head[x] = branch[c].base[x]
      BY <2>5, <3>2, MergeFact
    <3>3. CASE branch[c].head[x] # branch[c].base[x]
      <4>1. main'[x] \in Fixes \ landed
        BY <2>5, <3>1, <3>3, MergeFact DEF HeadsInv
      <4>2. branch[b].base[x] \in (0..commits) \union landed
        BY DEF KnownInv, Known
      <4>3. (0..commits) \intersect Fixes = {}
        BY FixesAssumption DEF TypeOK
      <4> QED BY <1>2, <4>1, <4>2, <4>3
    <3> QED BY <3>2, <3>3
  <2> QED BY <2>3, <2>4, <2>5, MainKept
<1>3. ASSUME NEW g \in Fixes, CreateRef(g), branch'[b] # branch[b] PROVE FALSE
  <2>1. run[g].at = "create_ref" /\ branch'[b] = run[g].read
    BY <1>3 DEF CreateRef, TypeOK
  <2> QED BY <2>1 DEF KnownInv
<1>4. ASSUME NEW g \in Fixes, PutFile(g), branch'[b] # branch[b]
      PROVE  main'[x] = seen'[f] \/ main'[x] \in arrived'[f]
  <2>1. b = BranchName(g) /\ run[g].at = "put_file" /\ main' = main
    BY <1>4 DEF PutFile, TypeOK
  <2>2. branch'[b].base = branch[b].base
        /\ branch'[b].head = [branch[b].head EXCEPT ![File[g]] = g]
    BY <1>4, <2>1 DEF PutFile, TypeOK, Branch
  <2>3. CASE x = File[g]
    <3>1. f = g
      BY <2>2, <2>3 DEF TypeOK, Branch, Tree
    <3>2. g \in Outstanding /\ seen'[g] = seen[g]
      BY <2>1, SeenKept DEF Outstanding
    <3> QED BY <1>1, <2>1, <2>3, <3>1, <3>2 DEF NewsInv
  <2>4. CASE x # File[g]
    <3>1. branch'[b].head[x] = branch[b].head[x]
      BY <2>2, <2>4 DEF TypeOK, Branch, Tree
    <3> QED BY <1>2, <2>2, <3>1
  <2> QED BY <2>3, <2>4
<1>5. ASSUME NEW g \in Fixes, Merge(g), branch'[b] # branch[b] PROVE FALSE
  <2>1. branch'[b].base = branch'[b].head
    BY <1>5, MergeFact
  <2> QED BY <2>1
<1>6. ASSUME NEW c \in Names, DeleteBranch(c), branch'[b] # branch[b] PROVE FALSE
  <2>1. branch'[b] = NoBranch
    BY <1>6 DEF DeleteBranch, TypeOK
  <2> QED BY <2>1 DEF NoBranch
<1> QED BY <1>2, <1>3, <1>4, <1>5, <1>6, BranchKept

\* What a merge replaces came as news to the fix.
LEMMA LostStep ==
    ASSUME TypeOK, RunsInv, BasesInv, LostUpdatesExplained, [Next]_vars
    PROVE  LostUpdatesExplained'
<1> SUFFICES ASSUME NEW r \in overwritten' PROVE r[2] \in arrived'[r[1]]
  BY DEF LostUpdatesExplained
<1>1. CASE r \in overwritten
  <2>1. r[1] \in Fixes /\ r[2] \in arrived[r[1]]
    BY <1>1 DEF LostUpdatesExplained, TypeOK
  <2> QED BY <2>1, Kept
<1>2. CASE r \notin overwritten
  <2>1. ASSUME NEW x \in Files, Commit(x) PROVE overwritten' = overwritten
    BY <2>1 DEF Commit
  <2>2. PICK g \in Fixes : Merge(g)
    BY <1>2, <2>1, MainKept
  <2> DEFINE b == BranchName(g)
  <2>3. PICK x \in Changed(b) : /\ r = <<branch[b].head[x], main[x]>>
                                /\ r[1] \in Fixes /\ r[2] # seen[r[1]]
    BY <1>2, <2>2 DEF Merge
  <2>4. /\ x \in Files /\ b \in Names /\ branch[b].head[x] # branch[b].base[x]
        /\ main[x] = branch[b].base[x]
    BY <2>2, <2>3, MergeFact DEF Changed
  <2>5. r[2] \in arrived[r[1]]
    BY <2>3, <2>4 DEF BasesInv
  <2> QED BY <2>3, <2>5, Kept
<1> QED BY <1>1, <1>2

-----------------------------------------------------------------------------
(* Pull requests *)

\* Runs with a pull request are over, or open the issue.
LEMMA PullsStep ==
    ASSUME TypeOK, RunsInv, PullsInv, [Next]_vars
    PROVE  PullsInv'
<1> DEFINE Goal(f) == /\ run'[f].at \in {"executed", "failed", "open_issue"}
                      /\ run'[f].at = "open_issue" => run'[f].option = "both"
                      /\ run'[f].at = "failed" => f \in unanswered' \/ run'[f].option = "both"
<1>1. ASSUME NEW f \in Fixes, pull'[f] # "none" PROVE Goal(f)
  <2>1. CASE OpenPr(f)
    BY <2>1, OpenPrFact DEF Moved
  <2>2. CASE ~OpenPr(f)
    <3>1. pull[f] # "none"
      BY <1>1, <2>2, PullKept
    <3>2. /\ run[f].at \in {"executed", "failed", "open_issue"}
          /\ run[f].at = "open_issue" => run[f].option = "both"
          /\ run[f].at = "failed" => f \in unanswered \/ run[f].option = "both"
      BY <3>1 DEF PullsInv
    <3>3. run'[f] = run[f] \/ /\ run[f].at = "open_issue" /\ run'[f].option = run[f].option
                              /\ run'[f].at \in {"executed", "failed"}
      <4>1. ~PutFile(f)
        BY <3>2 DEF PutFile
      <4>2. RunChange(f)
        BY RunChanges
      <4> QED BY <2>2, <3>2, <4>1, <4>2 DEF RunChange, Calling, Waiting
    <3> QED BY <3>2, <3>3, Kept
  <2> QED BY <2>1, <2>2
<1> QED BY <1>1 DEF PullsInv

\* An open pull request keeps proposing its run's fix, or a sharer's.
LEMMA ProposedStep ==
    ASSUME TypeOK, RunsInv, PullsInv, ProposedInv, [Next]_vars
    PROVE  ProposedInv'
<1> DEFINE Goal(f) == \/ f \in orphaned'
                      \/ /\ branch'[BranchName(f)].exists
                         /\ branch'[BranchName(f)].head[File[f]] \in {f} \union Sharers(f)'
<1>1. ASSUME NEW f \in Fixes, run'[f].at = "open_pr" \/ pull'[f] = "open"
      PROVE  run[f].option # "none" /\ Goal(f)
  <2> DEFINE b == BranchName(f)
  <2>0. b \in Names /\ branch[b] \in Branch /\ File[f] \in Files
    BY TreesFact, FixesAssumption DEF Here
  <2>1. CASE PutFile(f)
    <3>1. branch' = [branch EXCEPT ![b].head[File[f]] = f] /\ branch[b].exists
          /\ run[f].at = "put_file"
      BY <2>1 DEF PutFile, Here
    <3>2. branch'[b] = [branch[b] EXCEPT !.head[File[f]] = f]
      BY <2>0, <3>1 DEF TypeOK
    <3>3. branch'[b].exists /\ branch'[b].head[File[f]] = f
      BY <2>0, <3>1, <3>2 DEF Branch, Tree
    <3> QED BY <3>1, <3>3 DEF RunsInv
  <2>2. CASE ~PutFile(f)
    <3>1. run[f].at = "open_pr" \/ pull[f] = "open"
      <4>1. ASSUME run'[f].at = "open_pr" PROVE run[f].at = "open_pr"
        BY <2>2, <4>1, RunChanges DEF RunChange, OpenPr
      <4>2. ASSUME pull'[f] = "open" PROVE run[f].at = "open_pr" \/ pull[f] = "open"
        BY <4>2, PullKept DEF OpenPr
      <4> QED BY <1>1, <4>1, <4>2
    <3>2. run[f].option # "none"
      <4>1. run[f].at \notin {"absent", "sent", "pending"}
        BY <3>1 DEF PullsInv
      <4> QED BY <4>1 DEF RunsInv
    <3>3. CASE f \in orphaned
      BY <3>2, <3>3, Kept
    <3>4. CASE f \notin orphaned
      <4>1. branch[b].exists /\ branch[b].head[File[f]] \in {f} \union Sharers(f)
        BY <3>1, <3>4 DEF ProposedInv, Here
      <4>2. Sharers(f) \subseteq Sharers(f)'
        BY <3>2, NamesKept
      <4>3. CASE branch'[b] = branch[b]
        BY <3>2, <4>1, <4>2, <4>3
      <4>4. ASSUME NEW g \in Fixes, CreateRef(g) PROVE branch'[b] = branch[b]
        BY <2>0, <4>1, <4>4 DEF CreateRef, TypeOK
      <4>5. ASSUME NEW g \in Fixes, PutFile(g), branch'[b] # branch[b] PROVE Goal(f)
        <5>1. b = BranchName(g) /\ run[g].at = "put_file"
          BY <4>5 DEF PutFile, TypeOK
        <5>2. branch'[b] = [branch[b] EXCEPT !.head[File[g]] = g]
          BY <2>0, <4>5, <5>1 DEF PutFile, TypeOK
        <5>3. branch'[b].exists
              /\ branch'[b].head[File[f]] \in {g, branch[b].head[File[f]]}
          BY <2>0, <4>1, <5>2 DEF Branch, Tree
        <5>4. g \in {f} \union Sharers(f)
          BY <5>1 DEF Sharers, On, RunsInv
        <5> QED BY <4>1, <4>2, <5>3, <5>4
      <4>6. ASSUME NEW g \in Fixes, Merge(g) PROVE Goal(f)
        <5>1. branch'[b].head = branch[b].head /\ branch'[b].exists
          BY <2>0, <4>1, <4>6, MergeFact
        <5> QED BY <4>1, <4>2, <5>1
      <4>7. ASSUME NEW c \in Names, DeleteBranch(c), branch'[b] # branch[b] PROVE Goal(f)
        <5>1. c = b
          BY <2>0, <4>7 DEF DeleteBranch, TypeOK
        <5>2. f \in On(b)
          BY <3>2 DEF On
        <5>3. pull[f] # "open"
          BY <4>7, <5>1, <5>2 DEF DeleteBranch
        <5> QED BY <3>1, <4>7, <5>1, <5>2, <5>3 DEF DeleteBranch
      <4> QED BY <3>2, <4>3, <4>4, <4>5, <4>6, <4>7, BranchKept
    <3> QED BY <3>3, <3>4
  <2> QED BY <2>1, <2>2
<1>2. ASSUME NEW f \in Fixes, run'[f].at = "open_pr" \/ pull'[f] = "open"
      PROVE  \/ f \in orphaned'
             \/ Here(f)'.exists /\ Here(f)'.head[File[f]] \in {f} \union Sharers(f)'
  <2>1. run[f].option # "none" /\ Goal(f)
    BY <1>1, <1>2
  <2>2. BranchName(f)' = BranchName(f)
    BY <2>1, NamesKept
  <2> QED BY <2>1, <2>2 DEF Here
<1> QED BY <1>2 DEF ProposedInv

\* What lands was merged.
LEMMA LandedStep ==
    ASSUME TypeOK, RunsInv, HeadsInv, PullsInv, LandedInv, [Next]_vars
    PROVE  LandedInv'
<1>1. ASSUME NEW f \in Fixes, pull[f] = "merged" PROVE pull'[f] = "merged"
  BY <1>1, PullKept DEF PullsInv, OpenPr
<1>2. ASSUME NEW f \in landed', f \in landed
      PROVE  pull'[f] = "merged" \/ \E g \in Sharers(f)' : pull'[g] = "merged"
  <2>1. f \in Fixes /\ run[f].option # "none"
    BY <1>2 DEF TypeOK, RunsInv, Pushed, Waiting
  <2>2. Sharers(f) \subseteq Sharers(f)' /\ Sharers(f) \subseteq Fixes
    BY <2>1, NamesKept DEF Sharers, On
  <2> QED BY <1>1, <1>2, <2>1, <2>2 DEF LandedInv
<1>3. ASSUME NEW f \in landed', f \notin landed
      PROVE  pull'[f] = "merged" \/ \E g \in Sharers(f)' : pull'[g] = "merged"
  <2>1. PICK g \in Fixes : /\ Merge(g) /\ BranchName(f) = BranchName(g)
                           /\ run[f].option # "none"
    BY <1>3, LandsByMerge
  <2>2. f \in Fixes
    BY TypesStep DEF TypeOK
  <2>3. pull'[g] = "merged" /\ pull[g] = "open"
    BY <2>1 DEF Merge, TypeOK
  <2>4. run[g].option # "none"
    BY <2>3 DEF PullsInv, RunsInv
  <2>5. g = f \/ g \in Sharers(f)
    BY <2>1, <2>4 DEF Sharers, On
  <2> QED BY <2>1, <2>2, <2>3, <2>5, NamesKept
<1> QED BY <1>2, <1>3 DEF LandedInv

-----------------------------------------------------------------------------
(* Theorems *)

\* The inductive invariant behind the three theorems that follow.
THEOREM RepositoryAlways == Spec => []RepositoryInv
<1>1. Init => RepositoryInv
  <2> SUFFICES ASSUME Init PROVE RepositoryInv
    OBVIOUS
  <2>1. TypeOK
    <3>1. 0 \in Content /\ NoTree \in Tree /\ NoBranch \in Branch
      BY DEF Content, NoTree, Tree, NoBranch, Branch
    <3> QED BY <3>1, FixesAssumption DEF Init, TypeOK, Places, Proposals, Options
  <2>2. RunsInv /\ PullsInv /\ ProposedInv /\ LandedInv
    BY DEF Init, RunsInv, PullsInv, ProposedInv, LandedInv
  <2>3. KnownInv
    BY DEF Init, KnownInv, Known, NoBranch, NoTree
  <2>4. HeadsInv /\ BasesInv
    BY DEF Init, HeadsInv, BasesInv, NoBranch
  <2>5. NewsInv /\ LostUpdatesExplained
    BY DEF Init, NewsInv, Outstanding, LostUpdatesExplained
  <2> QED BY <2>1, <2>2, <2>3, <2>4, <2>5 DEF RepositoryInv
<1>2. RepositoryInv /\ [Next]_vars => RepositoryInv'
  BY TypesStep, RunsStep, KnownStep, HeadsStep, NewsStep, BasesStep, LostStep, PullsStep,
     ProposedStep, LandedStep DEF RepositoryInv
<1> QED BY <1>1, <1>2, PTL DEF Spec

\* A merge loses only what came to main between the look at the file that the fix is
\* written for, which may be the payload's, and the fix's commit.
THEOREM LostUpdatesAreExplained == Spec => []LostUpdatesExplained
<1>1. RepositoryInv => LostUpdatesExplained
  BY DEF RepositoryInv
<1> QED BY <1>1, RepositoryAlways, PTL

\* An open pull request holds its incident's fix, or the reason is known.
THEOREM PullRequestsHoldFixes == Spec => []PullRequestHoldsFix
<1>1. RepositoryInv => PullRequestHoldsFix
  BY DEF RepositoryInv, ProposedInv, PullRequestHoldsFix
<1> QED BY <1>1, RepositoryAlways, PTL

\* A failed incident's fix reaches main only for the reasons the property names.
THEOREM FailedWorkIsExplained == Spec => []FailedWorkExplained
<1>1. RepositoryInv => FailedWorkExplained
  BY DEF RepositoryInv, LandedInv, PullsInv, FailedWorkExplained, TypeOK
<1> QED BY <1>1, RepositoryAlways, PTL

===============================================================================
