---------------------------- MODULE FixPullRequests ----------------------------
(***************************************************************************)
(* What an approved option does to the customer's repository: the tools of *)
(* the agents that propose a change as a pull request (04 migration, 05    *)
(* iam, 08 drift, 10 patch, 11 health) over core/repo_tools.py, which      *)
(* drives GitHub or Azure DevOps.                                          *)
(*                                                                         *)
(* A fix is one incident's.  Agent 10 writes it for what it reads of the   *)
(* repository while it diagnoses; the others write it for what the payload *)
(* carries, which may be older.  It is carried out when it is approved,    *)
(* hours later: branch, commit, pull request, each a call of its own.      *)
(* Agents 08 and 11 name the branch after the resource, so runs of several *)
(* incidents may work on one branch; the others draw a fresh name.         *)
(* Developers go on committing to main, and merge or close what is         *)
(* proposed.                                                               *)
(***************************************************************************)
EXTENDS Naturals, FiniteSets

CONSTANTS
    Fixes,          \* incidents of the agents above
    Agent,          \* the agent of each
    Slugs,          \* what naming a branch leaves of a resource's id
    Slug,           \* the slug of each fix's resource
    Files,          \* files of the repository
    File,           \* the file each fix rewrites
    MaxCommits      \* bound on the developers' commits

Agents == {"migration", "iam", "drift", "patch", "health"}

ASSUME FixesAssumption ==
    /\ Agent \in [Fixes -> Agents]
    /\ Slug \in [Fixes -> Slugs]
    /\ File \in [Fixes -> Files]
    /\ MaxCommits \in Nat
    /\ Fixes \intersect Nat = {}

VARIABLES
    provider,       \* which one the workspace connected
    main,           \* the content of each file on the base branch
    branch,         \* the branches of the agents
    pull,           \* each fix's pull request
    run,            \* each fix's incident and the run that carries it out
    commits,        \* the developers' commits so far
    \* history, for the properties only
    seen,           \* what main held of the file that the fix is written for
    arrived,        \* what main's file became since, up to the fix's own commit
    overwritten,    \* <<f, c>>: merging replaced c by f, which was not written for c
    landed,         \* fixes that reached main
    unanswered,     \* pull requests opened by a call that raised
    orphaned        \* runs whose branch was deleted between commit and pull request

history == <<seen, arrived, overwritten, landed, unanswered, orphaned>>
vars == <<provider, main, branch, pull, run, commits, history>>

\* A file holds a fix, or what a developer committed; 0 is no file at all.
Content == Fixes \union Nat
Tree == [Files -> Content]

\* Names: drift-correction/, drift-auto-fix/ and resource-health/ with the slug,
\* or a random suffix.
Prefixes == {"drift-correction", "drift-auto-fix", "resource-health"}
Names == (Prefixes \X Slugs) \union ({"fresh"} \X Fixes)

\* A branch holds files and starts from a tree that main once held.
NoTree == [x \in Files |-> 0]
NoBranch == [exists |-> FALSE, base |-> NoTree, head |-> NoTree]
At(tree) == [exists |-> TRUE, base |-> tree, head |-> tree]
Branch == [exists : BOOLEAN, base : Tree, head : Tree]

\* What the diagnosis has to propose; what the operator chooses.
Proposals == {"none", "change", "no_change", "no_repository"}
Options == {"none", "hold", "pr", "apply", "issue", "both"}

Calling == {"create_branch", "create_ref", "read_file", "put_file", "open_pr", "open_issue"}
Places == Calling \union {"absent", "sent", "pending", "held", "executed", "failed"}

Init ==
    /\ provider \in {"github", "azure"}
    /\ main = NoTree
    /\ branch = [b \in Names |-> NoBranch]
    /\ pull = [f \in Fixes |-> "none"]
    /\ run = [f \in Fixes |-> [at |-> "absent", proposal |-> "none", option |-> "none",
                               read |-> NoBranch]]
    /\ commits = 0
    /\ seen = [f \in Fixes |-> 0]
    /\ arrived = [f \in Fixes |-> {}]
    /\ overwritten = {} /\ landed = {} /\ unanswered = {} /\ orphaned = {}

TypeOK ==
    /\ provider \in {"github", "azure"}
    /\ main \in Tree
    /\ branch \in [Names -> Branch]
    /\ pull \in [Fixes -> {"none", "open", "merged", "closed"}]
    /\ run \in [Fixes -> [at : Places, proposal : Proposals, option : Options, read : Branch]]
    /\ commits \in 0..MaxCommits
    /\ seen \in [Fixes -> Content]
    /\ arrived \in [Fixes -> SUBSET Content]
    /\ overwritten \subseteq Fixes \X Content
    /\ landed \subseteq Fixes /\ unanswered \subseteq Fixes /\ orphaned \subseteq Fixes

------------------------------------------------------------------------------
(* Naming *)

\* The branch a run of this fix works on.
BranchName(f) ==
    CASE Agent[f] = "drift" /\ run[f].option # "apply" -> <<"drift-correction", Slug[f]>>
      [] Agent[f] = "drift" /\ run[f].option = "apply" -> <<"drift-auto-fix", Slug[f]>>
      [] Agent[f] = "health" -> <<"resource-health", Slug[f]>>
      [] OTHER -> <<"fresh", f>>

Here(f) == branch[BranchName(f)]

\* Options each agent offers that end in the repository.  iam's first option and
\* a Kubernetes drift's "apply" act on the cloud and on the cluster instead.
Offers(agent) ==
    CASE agent = "migration" -> {"hold", "pr", "issue"}
      [] agent = "iam" -> {"hold", "pr"}
      [] agent = "drift" -> {"hold", "pr", "apply", "issue"}
      [] agent = "patch" -> {"hold", "pr", "issue", "both"}
      [] agent = "health" -> {"hold", "pr", "issue"}

------------------------------------------------------------------------------
(* The incident *)

\* Agents whose diagnosis reads the file from the repository.
Reading == {"patch"}

\* The other agents' payload is put together, from what main then holds, and sent.
Report(f) ==
    /\ run[f].at = "absent" /\ Agent[f] \notin Reading
    /\ run' = [run EXCEPT ![f].at = "sent"]
    /\ seen' = [seen EXCEPT ![f] = main[File[f]]]
    /\ UNCHANGED <<provider, main, branch, pull, commits, arrived, overwritten, landed,
                   unanswered, orphaned>>

\* The diagnosis writes the change, for what it reads or for what was sent; it may
\* have none, or the payload no repository.
Diagnose(f, proposal) ==
    LET reads == Agent[f] \in Reading
    IN /\ run[f].at = IF reads THEN "absent" ELSE "sent"
       /\ run' = [run EXCEPT ![f].at = "pending", ![f].proposal = proposal]
       /\ seen' = IF reads THEN [seen EXCEPT ![f] = main[File[f]]] ELSE seen
       /\ UNCHANGED <<provider, main, branch, pull, commits, arrived, overwritten, landed,
                      unanswered, orphaned>>

\* Agents that do not look whether there is a repository: their first call raises.
Unchecking == {"migration", "iam"}

\* Agents that do not propose a pull request without a change.
WantingChange == {"migration", "patch"}

\* Where execute_option starts; what it skips counts as executed all the same.
FirstStep(f, option) ==
    LET agent == Agent[f]
        proposal == run[f].proposal
    IN CASE option = "hold" -> "held"
         [] option # "hold" /\ proposal = "no_repository" ->
                IF agent \in Unchecking THEN "failed" ELSE "executed"
         [] option = "pr" /\ proposal = "no_change" /\ agent \in WantingChange -> "executed"
         [] option = "both" /\ proposal = "no_change" -> "open_issue"
         [] option = "issue" /\ proposal # "no_repository" -> "open_issue"
         [] OTHER -> "create_branch"

Approve(f, option) ==
    /\ run[f].at = "pending"
    /\ option \in Offers(Agent[f])
    /\ run' = [run EXCEPT ![f].at = FirstStep(f, option), ![f].option = option,
                          ![f].proposal = "none"]
    /\ UNCHANGED <<provider, main, branch, pull, commits, history>>

\* Where a run goes on; what it read for the last call is of no more use.
Goto(f, at) == run' = [run EXCEPT ![f].at = at, ![f].read = NoBranch]

\* A call that does not reach the provider, or that it turns down, raises.
Raise(f) ==
    /\ run[f].at \in Calling
    /\ Goto(f, "failed")
    /\ UNCHANGED <<provider, main, branch, pull, commits, history>>

\* A call that has its effect is answered, or raises because the answer is lost.
Answers(f, next) == \E at \in {next, "failed"} : Goto(f, at)

Reads(f, next, b) == run' = [run EXCEPT ![f].at = next, ![f].read = b]

------------------------------------------------------------------------------
(* The tools' calls *)

\* create_branch, its reads: the commit main is at.  Azure DevOps is asked for the
\* branch first, and no more is done if it is there.  Agent 05 talks to GitHub alone.
ReadHead(f) ==
    /\ run[f].at = "create_branch"
    /\ Agent[f] = "iam" => provider = "github"
    /\ IF provider = "azure" /\ Here(f).exists
       THEN Reads(f, "read_file", NoBranch)
       ELSE Reads(f, "create_ref", At(main))
    /\ UNCHANGED <<provider, main, branch, pull, commits, history>>

\* A branch that is there already brought up to what main is now.
BadCreateRef(f) ==
    /\ run[f].at = "create_ref"
    /\ provider = "github" \/ ~Here(f).exists
    /\ branch' = [branch EXCEPT ![BranchName(f)] =
                    IF @.exists THEN [@ EXCEPT !.base = main] ELSE run[f].read]
    /\ Answers(f, "read_file")
    /\ UNCHANGED <<provider, main, pull, commits, history>>

\* create_branch, its write.  A branch that is there already is taken as it is:
\* GitHub's 422 is no error, whereas Azure DevOps fails a creation that lost a race.
CreateRef(f) ==
    /\ run[f].at = "create_ref"
    /\ provider = "github" \/ ~Here(f).exists
    /\ branch' = [branch EXCEPT ![BranchName(f)] = IF @.exists THEN @ ELSE run[f].read]
    /\ Answers(f, "read_file")
    /\ UNCHANGED <<provider, main, pull, commits, history>>

\* push_commit, its reads: the file's sha or the branch's commit.  Agent 05 asks
\* main for the sha.  Azure DevOps has to have the branch.
ReadFile(f) ==
    /\ run[f].at = "read_file"
    /\ provider = "azure" => Here(f).exists
    /\ Reads(f, "put_file", IF Agent[f] = "iam" THEN At(main) ELSE Here(f))
    /\ UNCHANGED <<provider, main, branch, pull, commits, history>>

\* GitHub wants the file to be the one read, Azure DevOps the whole branch.
Unmoved(f) ==
    IF provider = "github"
    THEN run[f].read.head[File[f]] = Here(f).head[File[f]]
    ELSE run[f].read = Here(f)

\* A commit that is turned down logged, and the run going on.
BadPutFile(f) ==
    /\ run[f].at = "put_file"
    /\ branch' = IF Here(f).exists /\ Unmoved(f)
                 THEN [branch EXCEPT ![BranchName(f)].head[File[f]] = f] ELSE branch
    /\ Answers(f, "open_pr")
    /\ UNCHANGED <<provider, main, pull, commits, history>>

\* The branch left out of the commit, which then goes to main.
BadPutFileOnMain(f) ==
    /\ run[f].at = "put_file"
    /\ Here(f).exists /\ Unmoved(f)
    /\ main' = [main EXCEPT ![File[f]] = f]
    /\ landed' = landed \union {f}
    /\ Answers(f, "open_pr")
    /\ UNCHANGED <<provider, branch, pull, commits, seen, arrived, overwritten, unanswered,
                   orphaned>>

\* push_commit, its write.  file_sha, what agent 10's diagnosis read, is not looked at.
PutFile(f) ==
    /\ run[f].at = "put_file"
    /\ Here(f).exists /\ Unmoved(f)
    /\ branch' = [branch EXCEPT ![BranchName(f)].head[File[f]] = f]
    /\ Answers(f, "open_pr")
    /\ UNCHANGED <<provider, main, pull, commits, history>>

\* Fixes whose runs may have worked on a branch.
On(b) == {f \in Fixes : run[f].option # "none" /\ BranchName(f) = b}

\* The files a branch changes.
Changed(b) == {x \in Files : branch[b].head[x] # branch[b].base[x]}

\* create_pr: a provider opens one pull request per branch, of a branch that has
\* something main has not.
OpenPr(f) ==
    /\ run[f].at = "open_pr"
    /\ Here(f).exists /\ Changed(BranchName(f)) # {}
    /\ \A g \in On(BranchName(f)) : pull[g] # "open"
    /\ pull' = [pull EXCEPT ![f] = "open"]
    /\ \E at \in {IF run[f].option = "both" THEN "open_issue" ELSE "executed", "failed"} :
          /\ Goto(f, at)
          /\ unanswered' = IF at = "failed" THEN unanswered \union {f} ELSE unanswered
    /\ UNCHANGED <<provider, main, branch, commits, seen, arrived, overwritten, landed,
                   orphaned>>

\* The issue, which only GitHub's token can open.
OpenIssue(f) ==
    /\ run[f].at = "open_issue"
    /\ provider = "github"
    /\ Answers(f, "executed")
    /\ UNCHANGED <<provider, main, branch, pull, commits, history>>

------------------------------------------------------------------------------
(* The repository's people *)

\* Fixes not yet committed whose file has been looked at.
Outstanding == {f \in Fixes : run[f].at \in {"sent", "pending", "create_branch",
                                             "create_ref", "read_file", "put_file"}}

\* What main becomes is news to the fixes that are outstanding.
MainBecomes(tree) ==
    /\ main' = tree
    /\ arrived' = [f \in Fixes |-> IF f \in Outstanding /\ tree[File[f]] # main[File[f]]
                                   THEN arrived[f] \union {tree[File[f]]} ELSE arrived[f]]

Commit(x) ==
    /\ commits < MaxCommits
    /\ commits' = commits + 1
    /\ MainBecomes([main EXCEPT ![x] = commits + 1])
    /\ UNCHANGED <<provider, branch, pull, run, seen, overwritten, landed, unanswered,
                   orphaned>>

\* A merge takes what the branch changes; where main has changed too it conflicts.
Merge(f) ==
    LET b == BranchName(f)
        changed == Changed(b)
        replaced == {<<branch[b].head[x], main[x]>> : x \in changed}
    IN /\ pull[f] = "open" /\ Here(f).exists
       /\ \A x \in changed : main[x] = branch[b].base[x]
       /\ MainBecomes([x \in Files |-> IF x \in changed THEN branch[b].head[x] ELSE main[x]])
       /\ branch' = [branch EXCEPT ![b].base = branch[b].head]
       /\ pull' = [pull EXCEPT ![f] = "merged"]
       /\ landed' = landed \union ({branch[b].head[x] : x \in changed} \intersect Fixes)
       /\ overwritten' = overwritten \union
            {r \in replaced : r[1] \in Fixes /\ r[2] # seen[r[1]]}
       /\ UNCHANGED <<provider, run, commits, seen, unanswered, orphaned>>

Close(f) ==
    /\ pull[f] = "open"
    /\ pull' = [pull EXCEPT ![f] = "closed"]
    /\ UNCHANGED <<provider, main, branch, run, commits, history>>

\* A branch is deleted once what it proposed is merged or closed.
DeleteBranch(b) ==
    /\ branch[b].exists
    /\ \E f \in On(b) : pull[f] # "none"
    /\ \A f \in On(b) : pull[f] # "open"
    /\ branch' = [branch EXCEPT ![b] = NoBranch]
    /\ orphaned' = orphaned \union {f \in On(b) : run[f].at = "open_pr"}
    /\ UNCHANGED <<provider, main, pull, run, commits, seen, arrived, overwritten, landed,
                   unanswered>>

------------------------------------------------------------------------------
Next ==
    \/ \E f \in Fixes :
          \/ Report(f)
          \/ \E p \in Proposals \ {"none"} : Diagnose(f, p)
          \/ \E o \in Options : Approve(f, o)
          \/ Raise(f)
          \/ ReadHead(f) \/ CreateRef(f) \/ ReadFile(f) \/ PutFile(f)
          \/ OpenPr(f) \/ OpenIssue(f)
          \/ Merge(f) \/ Close(f)
    \/ \E x \in Files : Commit(x)
    \/ \E b \in Names : DeleteBranch(b)

Spec == Init /\ [][Next]_vars

------------------------------------------------------------------------------
(* Properties *)

\* The other fixes whose runs may work on this one's branch.
Sharers(f) == On(BranchName(f)) \ {f}

\* A merge replaces what a fix was not written for only if it came to main between
\* the moment the file was looked at (for the payload, or by the diagnosis that
\* reads it) and the fix's commit: from the commit on, git notices.
LostUpdatesExplained ==
    \A r \in overwritten : r[2] \in arrived[r[1]]

\* An open pull request proposes its incident's fix, unless another incident's
\* run replaced it on a shared branch, or that branch was deleted under it.
PullRequestHoldsFix ==
    \A f \in Fixes :
        pull[f] = "open" =>
            \/ Here(f).head[File[f]] \in {f} \union Sharers(f)
            \/ f \in orphaned

\* The fix of an incident that reads failed reaches main only through a pull
\* request whose answer was lost or whose issue failed, or through another
\* incident of the same branch.
FailedWorkExplained ==
    \A f \in landed :
        run[f].at = "failed" =>
            \/ pull[f] = "merged" /\ (f \in unanswered \/ run[f].option = "both")
            \/ \E g \in Sharers(f) : pull[g] = "merged"
================================================================================
