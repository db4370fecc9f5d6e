# Verification of the Cloud Decoded agent platform

TLA+ models of the parts of the platform where several actors work on one
database: first what decides whether, when and how often a remediation touches a
customer's cloud (the intake of alerts, the human-in-the-loop gate, the decisions
of operators, the resumption of an agent's workflow), then what the approved tool
does to the customer's repository and cloud, then what hangs off it (notifications, token budget, seats and billing, lifecycle e-mails, the LinkedIn
queue). TLC checks the models on small instances; TLAPS proves the
results that matter most for every value of the constants.

Run from this directory: `tlc -config IncidentRaces.cfg MCIncidentLifecycle.tla`
for a run, `tlapm IncidentLifecycle_proofs.tla` for a proof.

Contents: [1 The system](#1-the-system), [2 Models](#2-the-models),
[3 Runs](#3-the-runs), [4 Proofs](#4-the-proofs),
[5 What is abstracted](#5-what-is-abstracted-and-what-is-left-out),
[6 Where code and documents disagree](#6-where-code-and-documents-disagree),
[7 What is left](#7-what-is-left).

## 1 The system

A FastAPI application (`api/`) runs as four `uvicorn` processes (`Procfile`)
over one PostgreSQL database. A webhook starts an agent (`agents/agent_*`), a
LangGraph workflow that diagnoses an alert and stops at an approval gate
(`core/hitl.py`); an operator's decision over HTTP
(`api/routes/incidents.py`) either closes the incident or resumes the workflow,
which then calls the tool of the option chosen. An incident's creation and its
resolution are told to the workspace's channels; every diagnosis is charged to
its token budget; billing events decide whether it may use the product and how
many members it has, and enrol them in e-mail sequences. The marketing queue is
the company's own, in the same database.

### Inventory

| Component | State it keeps | Operations | Interacts with | What makes it correct |
|---|---|---|---|---|
| Agent workflows (`agents/agent_*/workflow.py`) | the graph's state, one run per alert or event | run, resume; nodes ingest, diagnose, gate, execute, complete | gate, checkpointer, LLM, tools | a tool is called only for an option an operator approved, once |
| HITL gate (`core/hitl.py`) | `incidents` rows | create, create failed, find open, bump, note resolution, mark executed / failed | workflows, decision routes | a row is never reopened; open rows can be resumed; repeats are counted |
| Decision routes (`api/routes/incidents.py`) | `incidents`, `audit_events` | approve, hold, reject, resolve by hand, bulk | gate, workflows (resume task) | a decision stands; the record says what was done; an approved incident settles |
| Checkpointer (`core/checkpointer_lock.py`) | LangGraph checkpoints, one connection, one lock | get, put, list | workflows | a thread is resumed where it paused; nobody waits for himself |
| Connection test (`api/routes/setup_checklist.py`) | an incident flagged `is_test` | create, flag, clean up | decision routes | approving it is simulated, and leaves nothing behind |
| Webhook intake and log (`api/routes/webhooks.py`, `core/ingestion_log.py`) | `alert_ingestion_log`, background tasks in memory | log, accept, run, mark processed | semaphore, workflows | what was accepted is completed, or can be told from what was |
| Execution semaphore (`core/execution_semaphore.py`, `core/pool_timeout.py`) | slots per process | enter, leave | tasks, connection pool | no more runs than connections; every task gets its turn |
| Resource health agent (`agents/agent_11_resource_health`) | one run per alert of a delivery | resolution, exemption, deduplication, diagnosis | gate, exemptions | an alert reaches its own incident; a burst stays bounded |
| Exemptions (`core/resource_exemptions.py`, `api/routes/policies.py`) | `resource_exemptions` | exempt, revoke, suppress | intake | only exempted resources are suppressed |
| Notifications (`core/notifications.py`, `core/notification_retry.py`) | retry queue, suppressed notifications | send, enqueue, retry, digest | periodic loops under advisory locks | what is queued is sent or given up; no duplicate without a lost answer; what is withheld is told |
| Token budget (`core/token_budget.py`) | spend per workspace, to the cent; ledger of calls, to a millionth of a dollar | check, record (reset has no caller, a renewal no handler) | diagnose and gate nodes, resumes | overshoot and drift are bounded; a renewal should end a block (it does not: section 6) |
| Membership and billing (`core/compliance.py`, `api/routes/workspace_members.py`, `scim.py`, `stripe_billing.py`, `internal_workspaces.py`, `core/member_deactivation.py`) | members, invitations, subscription | invite, accept, deactivate, provision, billing events; administrators set a tier, suspend, reactivate | auth, Stripe, the identity provider | seats overrun only by requests that overlap, and by steps that count none; events in order leave what Stripe bills, but for what an administrator wrote since |
| Email sequences (`core/email_enrollment.py`, `core/email_scheduler.py`, `core/marketing_email.py`, `core/email_triggers.py`, `api/routes/email_public.py`) | enrolments, step, next send, suppressions, sends | enrol, exit, scheduler pass, sign up, unsubscribe, bounce | scans, billing events, periodic loop | no step twice, one mail a day, none after suppression; every due row is served |
| LinkedIn queue (`api/routes/internal_marketing.py`, `scripts/dispatch_scheduled_posts.py`) | `linkedin_content_queue` | draft, decide, batch approve, make and gate an image, publish, dispatch | two dashboards, a cron, LinkedIn | a row is posted once; an approved row has its image decided |
| Fix delivery (`core/repo_tools.py`, `tools.py` of agents 04, 05, 08, 10, 11) | branches, files and pull requests at GitHub or Azure DevOps | create branch, commit, open pull request, open issue | resumed workflows, the developers | a merge undoes nothing it was not written for; a pull request holds its incident's fix; the incident says what landed |
| Direct remediations (`tools.py` of agents 02, 06, 07, 08) | the customer's cluster and cloud; `before_state` | read, patch, create or replace, restart, delete and recreate, a plan's steps | resumed workflows, Kubernetes, AWS, Azure | success is in place; nothing stays deleted; reports and `before_state` are true; runs end |
| Job queue worker (`job_queue/worker.py`), execution engine (`core/engine.py`) | SQS messages; runs | receive, delete; run, resume | nothing: neither has a caller outside its tests | not modelled for that reason |

Migrations, retention and expiry passes, the rest of the back office, LLM
routing and dashboards are listed in `PROJECT.json` with the reason they are not
modelled.

### What is hard

* **No handler holds a lock or a transaction across its statements.** asyncpg
  autocommits; a decision is a SELECT, some Python, an UPDATE, an audit INSERT.
  Two requests, or a request and a workflow, interleave between any two.
* **The gate node runs more than once.** LangGraph resumes a thread by re-running
  the interrupted node from its top, so the INSERT and the usage record before
  `interrupt()` run again with every resume.
* **Work lives in memory.** The webhook's background task and the resume are
  tasks of one process; nothing picks them up when it dies.
* **Failure is partial.** A tool may raise after its effect; the resume may raise
  before its `try`; a delivery of several alerts may fail in the middle; the
  `finally` block needs a connection of its own, with a five-second timeout.
* **Lookups are apart from what depends on them.** Deduplication's SELECT and the
  gate's INSERT have an LLM call between them; so do the budget's check and its
  charge, the seat count and the INSERT of a member, the read of a queue row and
  the UPDATE after it was posted.
* **Effects that no transaction takes back.** The retry pass, the digest pass and
  the e-mail pass send inside one transaction: a rollback leaves what was sent
  sent, and nothing in the database says so.
* **A call given up is not undone.** `wait_for` stops waiting, the `kubectl` goes on; a
  request whose answer is lost may have been served.
* **A fix is older than its approval, and a payload older than its fix.** A fix is written
  for a file that people go on editing, most often for what the payload says of it, and its
  branch may carry another incident's work.
* **One column, two writers.** Stripe's events and the platform's administrators both write a
  workspace's tier and status, each without a look at what the other wrote.
* **Order is nobody's.** Stripe sends an event again and in any order; an operator
  changes a setting while a pass works on what it read before.

The hazards are listed one by one, at their lines, in `PROJECT.json`.

## 2 The models

```
RemediationGate            what the gate promises (abstract)
   ^  RefinesGate
IncidentLifecycle          one incident, from run() to its last status
   ^ EXTENDS      \
MCIncidentLifecycle  IncidentLifecycle_proofs

AlertIngestion             deliveries, semaphores, deduplication, exemptions
   ^ EXTENDS      \
MCAlertIngestion     AlertIngestion_proofs

FixPullRequests            an approved fix on its way to the repository
CloudCommands              approved tools acting on cloud and cluster
NotificationDelivery       dispatches, retry queue, quiet hours, digests
WorkspaceMembership        seats, SCIM, the subscription's events
EmailSequences             enrolments and the scheduler's pass
TokenBudget                check, charge and charge again
PostPublishing             review, image gate, publishers
```

Each of the last seven is EXTENDed by its `MC...` module and by its `..._proofs` module;
EmailSequences and TokenBudget, the two allowances a workspace draws on, have one of
proofs together, Allowances_proofs, which is why no definition of the one has a name of the other
(`BudgetSpec`, `BudgetTypeOK`). The nine modules share no state: what joins
them in the program is one direction of call each (`ExecuteOption` of IncidentLifecycle
starts a run of FixPullRequests or CloudCommands, whose end is its outcome; the gate's
INSERT starts the dispatch of NotificationDelivery, its charge is TokenBudget's `RecordUsage`, a
billing event is one action of WorkspaceMembership and one of EmailSequences), and
each module takes the other side's steps as steps that may come at any time.

**The granularity is the SQL statement.** Each statement of a handler, with the
Python around it, is one action; consecutive statements are separate actions
because the code holds nothing between them. Program counters (`request[o].at`,
`task[p][t].at`, `task[d].at`) name the statement or node that comes next.

### IncidentLifecycle

| State | Code |
|---|---|
| `execution_status`, `selected_option_id`, `is_test` | columns of `incidents`; `"absent"` before the INSERT, `"deleted"` after the clean-up of a connection test |
| `audit_events` | incidents with an audit row of a decision's own INSERT |
| `request[o]` | the decision handler running in slot `o`: which row, which decision, what its SELECT saw |
| `task[p][t]` | an invocation of the graph of thread `t`, started by the webhook or by slot `o`'s approval: the node it runs, the value it resumes with, the state |
| `checkpoint[t]` | the last checkpoint of the thread: state and next node |
| `approvals`, `tool_calls` | history: approvals written, tools called |

`StartRun`, `Diagnose`, `CreateIncident`, `Pause`, `PassGate`,
`CreateFailedIncident`, `SkipExecution`, `ExecuteOption` and `Complete` are the
nodes of the graph; `LoadCheckpoint`, `MarkFailed` and `SetupFails` the parts of
`_resume()`; `Check` is the SELECT that opens every decision handler, and
`ApproveAgentIncident`, `HoldIncident`, `RejectIncident`, `CloseIncident`,
`RecordAudit`, `ApproveProbe`, `SimulateSuccess` its later statements.
`TaskRaises`, `LoseTask` and `LoseRequest` are exceptions and deaths of a
process. An approval writes `executing` with no condition on the row's status;
the model does the same, which is why several properties hold for one decision
at a time only (runs IncidentSerial and IncidentReapproval).

`RemediationGate` is what all this promises: fixes are proposed, options of a
proposed fix are granted, granted options are performed, and none of the three
is taken back. The mapping: proposed = threads with a row, granted =
`approvals`, performed = options whose tool was called.

### AlertIngestion

| State | Code |
|---|---|
| `alerts[d]` | the alerts a delivery carries, in order |
| `ingestion_log[d]` | the delivery's row in `alert_ingestion_log` |
| `task[d]` | the request, then the background task: the process, the node, the alert, the row the last lookup found |
| `incidents` | the rows of the table, oldest first; `settled` stands for every status that is not open |
| `exempted` | resources with an active exemption |
| `handled[d]` | history: what became of each alert |

The route is `IgnoreDelivery`, `LogDelivery`, `Accept`; `Enter` waits for a slot
of the process's semaphore; then, per alert of the delivery, `ResolutionCheck`
and `NoteResolution` (resolved) or `ExemptionCheck`, `DedupCheck`,
`BumpOccurrence`, `Diagnose`, `OpenIncident`, `OpenFailedIncident`, `EndRun`
(firing). `TaskRaises` ends the whole delivery, as `run()` has no try per alert, and
`task[d].raised` remembers it; `MarkProcessed` and `MarkTimesOut` are the `finally` block, of
which the second leaves the row as it was on a worker that lives (`unmarked`);
`CrashWorker` takes everything a process holds in memory (`lost`). Operators (`Approve`, `Settle`,
`ExemptResource`, `RevokeExemption`) act at any time: `Approve` may land on a
settled row, because that is what IncidentLifecycle's two statements can do.

### FixPullRequests

| State | Code |
|---|---|
| `provider` | what `get_repo_tools` returns: GitHub's tools or Azure DevOps' |
| `run[f]` | the incident of fix `f`: the call of `create_..._pr` that comes next, what its last read found, the option approved, what the diagnosis proposes |
| `main`, `branch`, `pull` | the customer's repository: files of the base branch; each branch with the tree it started from; the pull request of each fix |
| `commits` | the developers' commits, which are content of files |
| `seen`, `arrived`, `overwritten`, `landed`, `unanswered`, `orphaned` | history |

`ReadHead` and `CreateRef` are `create_branch`, `ReadFile` and `PutFile` are `push_commit`,
`OpenPr` is `create_pr`, each read apart from the write that relies on it; `OpenIssue`
is the agent's own issue. The two providers differ where the code does: GitHub takes a
branch that exists as created (422) and checks the file it replaces, Azure DevOps
looks first, fails a creation that lost a race, and checks the branch's commit.
`FirstStep` is each agent's `execute_option`. What a fix was written for is `seen`. Agent 10 reads
the file while it diagnoses (`Reading`); the other agents never read main, and `seen` is what main
held when their payload was put together (`Report`), any number of commits and merges before
`Diagnose`. `Raise` is a call that fails; every write may
also have its effect and raise, because its answer was lost. `Commit`, `Merge`, `Close` and
`DeleteBranch` are the developers', as git and the providers let them.

### CloudCommands

| State | Code |
|---|---|
| `tool`, `plan` | the tool of the approved option; the plan agent 07's diagnosis wrote |
| `cloud` | what each thing is: absent, as before, or what a run made it |
| `run[r]` | the step of the tool's script, what it got so far (`before` is `before_state`), its result |
| `orphans` | calls nobody waits for any more, which may still have their effect |
| `last`, `landed`, `replaced`, `interfered`, `troubled` | history |

A tool is a script, as its control is a line of calls with a way on for each kind of
answer: `ok`, `refused` for the state of the thing (a conflict, a missing object, an
immutable field), `error` for any other reason, `lost` for none in time. `Memory`, `Autoscaler`,
`Rollback`, `AwsQuickWins`, `AzureQuickWins` and `Drift` are read off their methods; agent
07's script is its plan, followed by `Following` and summed up by `Overall`. `Serve`, `Deny` and
`Lose` are the three kinds of answer, `Pass` a step that calls nothing, `Report` the issue
agent 07 opens after a plan, `Die` the death of the worker, `OrphanLands` the late effect.

### NotificationDelivery

| State | Code |
|---|---|
| `incident`, `task[i][k]` | the row that causes an event, and the detached task that tells it: what its SELECT of the channels found, who is still to be told, whose send failed |
| `channel` | `workspace_notification_channels`: enabled, quiet hours configured |
| `queue`, `suppressed` | the rows of `notification_retry_queue` and `notification_suppressed`, one slot per message |
| `retry[w]`, `digest[w]` | the passes of a process: rows still to do, and what the transaction has written |
| `received`, `unacknowledged`, `enqueued`, `told` | history: what providers took, what of it the platform cannot know of |

A pass's writes become visible at `CommitRetries` and `CommitDigests` only;
`AbortRetries` and `AbortDigests` are a death or an SQL error, which take back the
writes and not the sends. An operator's `SetChannel`, `Dusk` and `Dawn` come at any
time. The filter by `min_severity` passes everything, as the summary the gate
hands over names no severity. `ResolveIncident` tells pagers and one ticket
system, without regard to quiet hours.

### WorkspaceMembership

| State | Code |
|---|---|
| `member`, `created` | `workspace_members`: status and order of creation |
| `workspace` | tier, subscription status, whether a Stripe customer is known |
| `request[r]`, `hook[h]` | an invitation or acceptance between its statements; a billing event between its |
| `stripe`, `events` | what Stripe knows, and the events of it, which it may deliver again and in any order |
| `had`, `provisioned`, `unguarded`, `applied` | history: tiers the workspace had, members SCIM gave a seat, whether some step took a seat or lowered a cap behind a check's back, and how far the events were written in order |
| `admin` | history of the administrators: how often they acted, the columns whose value is still theirs, whether the last they said is that the workspace is suspended |

`InviteReadTier`, `InviteCount`, `InsertInvited` are the statements of
`invite_member` (two of them in `assert_seat_available`); `AcceptFind` and
`AcceptWrite` those of `accept_invite`, whose UPDATE does not look at the status
again; `FindCustomer`, `ReadTier`, `ListMembers`, `RemoveMember`, `WriteBilling`
those of the event handlers. A checkout for a smaller tier removes nobody, and neither does
`SetTier`, the administrators' PATCH, which counts no seats either. `Suspend` and `Reactivate`
write the status column, which is the one Stripe's events write: whoever writes last has his way.

### EmailSequences

| State | Code |
|---|---|
| `enrollment`, `line` | `cd_email_enrollments`, and its due rows in the order of `next_send_at` |
| `running` | the sequences an operator has activated |
| `suppression`, `workspace` | the reason an address is suppressed for, the status of its workspace |
| `mailed` | an e-mail of the last 24 hours is recorded |
| `pass[w]` | the scheduler's transaction: the rows as it claimed them, what it wrote, what it sent |
| `handler[h]` | a request or webhook and the statements it has still to run |
| `sent`, `received`, `unrecorded`, `late`, `reasons` | history |

A pass claims at most `Batch` rows under the lock, takes each through `Leave`
(inactive sequence, or an exception), `End` (an exit rule, or no further template),
`PassOver` (moot, or withheld) or `BeginSend` and `Send`, and commits. Rows it has
written are locked for others until then. The other handlers are lists of
statements, started by `Subscribe`, `Suppress`, the billing events and the scans, and
run one at a time by `ExecuteOp`. `RulesReadable` says how the sequences were seeded:
by the script, whose pool has no codec (TRUE), or at start-up (FALSE; section 6).

### TokenBudget

`at[r]` is where a run is, `pending`, `approving` and `resuming` where its incident's
decision is; `spend` is the cents of the workspaces row, `ledger` the sum of
`token_usage` in millionths of a dollar, and `Charge` adds to both, rounding the
first. `Check` is `assert_budget_available` and `Diagnose` the call, whose cost is
charged by `RecordUsage` once the incident is open, by `RecordDiagnosis` before that in
agent 10, and by `RecordAgain` when a resume runs the gate node from its top.
`repeated` keeps the cents of the last two apart. `Renew` is the renewal of the billing cycle, which
`stripe_webhook` has no branch for: it counts in `renewals` and changes neither meter. `Slots` is what the semaphores of
the processes let through together.

### PostPublishing

`queue` holds the rows: status, image, due date passed, stamped as published;
`publisher[w]` is a publish request or a run of the dispatcher, `gate[g]` a task that
makes images. `Decide`, `Reschedule` and `BatchApprove` are the reviewers' UPDATEs, in
the backend or by the dashboard, `StartGate` and `MissGate` what follows an approval;
`GateRead` and `GateAttach`, `GateFlag`, `GateFail` the two ends of making an image;
`ReadRow`, `PostRow`, `MarkPublished` the three statements of `publish_queue_row`.
`overlaps`, `unmarked` and `ungated` count the accidents the properties excuse.

## 3 The runs

`expect pass` runs must finish without error; each `expect violation` run checks
one statement of the repository that the code does not keep.

| Run | Instance | Distinct states | What it shows |
|---|---|---|---|
| IncidentRaces | 1 thread, 3 decision slots, 2 options, deaths, failing set-ups | 107,999 | `NoAutonomousRemediation`, `PendingIsResumable`, `NeverReopened`, `RefinesGate`: what holds whatever operators and processes do |
| IncidentSerial | 1 thread, 1 failed row, 1 connection test, 1 slot, no deaths, fair | 5,562 | `AtMostOneExecution`, `DecisionStands` (the audit trail included), `RecordMatchesEffect`, `ExecutingSettles`: what holds while decisions do not overlap |
| AlertIngestion | 2 deliveries of 4 kinds, 2 processes of 1 slot, fair | 410,520 | `AlertsReachTheirIncident`, `RecoverySetExact`, `PendingIncidentsBounded`, `DeliveriesEnd` |
| Fixes | 2 drifts with one branch name, whose payloads are older than their diagnoses, 1 patch, 2 files, 1 commit, either provider | 1,174,693 | `LostUpdatesExplained`, `PullRequestHoldsFix`, `FailedWorkExplained` |
| Commands | 2 runs of any two tools with a thing in common, 3 plans, fair | 83,199 | `TypeOK`, `RestoredExplained`, `GoneExplained`, `OkMeansDone`, `BeforeStateExplained`, `RunsEnd` |
| Notifications | 1 incident, 1 chat with every setting, 1 ticket system, 2 processes, 2 attempts, 1 fault, 1 night, fair | 123,576 | `EveryDuplicateExplained`, `NothingQueuedIsLost`, `DigestedWasTold`, `QueuedIsSettled`, `WithheldIsTold` |
| Workspace | 3 members (1 may come through SCIM), 2 request slots, 1 hook, 3 events (2 once there are members), 1 act of an administrator, caps 1 / 2 / none | 772,503 | `SeatOverrunBounded`, `OverSeatsOnlyUnguarded`, `InOrderBillingAgrees` |
| Emails | 1 subscriber, 3 sequences, 2 processes, 1 handler, 2 starts, 1 fault, 1 day, fair | 157,245 | `TypeOK`, `NoStepSentTwice`, `OneMailADay`, `SuppressionStopsMail`, `BounceHeld`, `DueGetsItsTurn` |
| TokenBudget | 4 runs (1 of agent 10), 2 slots, 2 operators, budget 3 cents, calls of 0.4 and 1.6, 1 renewal | 2,282,236 | `OvershootBounded`, `MeterDriftBounded` |
| Publishing | a post and a carousel, 2 publishers, 2 gates, 3 reviewers' calls, 2 faults | 1,065,545 | `EveryRepostExplained`, `ApprovedIsGated` |
| IncidentReapproval | 2 slots | violated | `AtMostOneExecution` does not survive two overlapping approvals |
| EmailUnreadable | Emails without faults, within a day, with `RulesReadable = FALSE` | violated (lasso) | `DueGetsItsTurn`: no row is ever served |

Each property of a passing run has a mutant in `PROJECT.json`: a plausible slip in
the code (the `Bad...` operator before the definition it replaces) under which
TLC finds the property violated in that very run. It is how one sees that the
bounds below do let the interesting case happen. Type correctness
is proved of every module (`TypeCorrect`, `BudgetTypeCorrect`); Emails and Commands check it as well.

**Bounds, and why they are enough.**

* *Slots of operators.* A slot is reused, so the number of requests in a
  behaviour is not bounded; only how many are in flight is. Two expose every race
  between a check and a write, the third adds a decision in the middle of
  one. A slot approves a given incident at most once, since no incident is
  reopened (`NeverReopened`), so no resume in the model is ever replaced by
  another; the resumes of different slots run side by side.
* *Threads.* Incidents share nothing in this module but request slots, and a
  slot serves one row at a time, so one thread has every interaction; the proofs
  cover any number.
* *Options.* Two, to tell the option approved from the option performed.
  `tool_calls` needs no bound: each call needs an invocation that reached the
  node, invocations run forwards, and there is one per slot and thread.
* *Deliveries.* Each is served once, so their number bounds everything else. The payloads
  are a firing alert, the news that it is resolved, both in one delivery, and an
  alert whose resource did not parse. `PendingIncidentsBounded` counts the slots
  of the processes that have served a delivery: two deliveries to one process would
  exceed its one slot if there were no semaphore.
* *Fixes.* Three runs, because what a shared branch does needs two runs on it and a
  third way into main; one commit is what a fix was not written for, and a merge of another
  fix is a second thing of the kind, before a diagnosis or after. The constraint
  leaves the drifts with a change and its pull request, the patch with pull request and
  issue; the other options are FirstStep's and stay with the proofs.
* *Commands.* Runs about different things do not meet, so the constraint keeps pairs of
  tools that have a thing in common, each pair once; a third run can only do what the second
  does. The plans stop, go on, jump forward and back, pipe a manifest and pass a step
  over. A step tried again is a step, whatever the number of results (`results` keeps
  its parity only).
* *Notifications.* One incident has two messages (chat, ticket); messages meet only
  in the passes, so two are enough to have one of a batch sent and the other not.
  Pagers are left to the proofs: with one, the run would take longer than it is
  worth, and a pager has a chat's steps twice. One fault suffices for each
  accident a property excuses to be told apart from none; two attempts for a row
  that is rescheduled and one that is given up.
* *Workspace.* Caps of one and two are the tiers' own, scaled down; three members and
  two requests overrun either, and two events are an upgrade and its opposite, in
  either order and repeated. One hook handles them one after another; two at once are
  covered by the proofs. The constraint lets SCIM seat one member, which is
  enough for a seat nobody counted, has the first plan bought be the larger one, and leaves
  one status that locks the workspace and one that does not. One act of an administrator is
  a tier set at any moment of these. Billing depends on members in nothing, so while nobody is
  or was one, the constraint lets all statuses in, a third event, suspensions and
  reactivations. The view leaves out `applied` and the columns of `admin` once there are members:
  no guard reads them, and of the invariants only `InOrderBillingAgrees`, which has by then been
  checked of the same billing without members.
* *E-mails.* Three sequences, because `trust_drip` starts the newsletter and
  `stall_nudges` has an exit rule; a claim of two, so that the inactive ones can
  fill it. Two starts are an enrolment and the same afresh, or an enrolment and what
  suppresses it.
* *Budget.* One call that is rounded to nothing, one that is rounded up; four runs
  reach the bound of two slots with runs to spare. One renewal tells before from after.
* *Posts.* Two rows make a batch; three calls of a reviewer are approve, take back and
  approve again while a gate is at work.
* *Symmetry* (slots, options; members; runs; posts, publishers, gates) is used in runs with safety
  properties only, where the elements are interchangeable.
* `CHECK_DEADLOCK FALSE` for incidents, alerts, fixes, commands and the budget: a system
  whose incidents are all settled and whose people do nothing has stopped, and may. The
  other runs check for deadlock.

**Fairness.** `IncidentLifecycle!FairSpec` makes the steps of an invocation, of a
resume and of a started request weakly fair; `AlertIngestion!FairSpec` the steps
of each delivery's task. An event loop resumes every coroutine that is ready and
every awaited call (LLM, HTTP, SQL, pool) carries a timeout, so none stays
forever between two steps. Weak fairness of `Enter` suffices: `asyncio.Semaphore`
serves waiters in turn, deliveries are finite in number, and a slot that is given
back stays free until somebody takes it. Nothing is assumed of operators (no
request need ever come), of failures or of deaths. `ExecutingSettles` and
`DeliveriesEnd` are exactly what the code can promise under that: `DeliveriesEnd`
excuses a delivery whose process died, or whose mark got no connection, because nothing
calls `find_unprocessed_older_than`. `NotificationDelivery!FairSpec` makes the passes that find
something to do, and their steps, weakly fair, each together over all processes:
every process runs the loops of `api/main.py` for ever (lines 365-392), so some pass
comes, though no particular process's. Backoff elapses and night ends. Nothing is
assumed of dispatches, which may be lost, nor of operators. `EmailSequences!FairSpec`
does the same for the scheduler's loop (lines 454-464). `CloudCommands!FairSpec` makes
each run's steps weakly fair, as every call has a timeout; that a late call lands is not
assumed. `RunsEnd` excuses a plan that jumps back for ever, since no limit counts the
steps executed.

## 4 The proofs

Every safety invariant and every action property that a passing run checks is the conclusion
of a theorem below, as is the refinement. Assumptions on constants are the named ASSUMEs of
the modules (ids disjoint, names distinct, switches Boolean; capacity positive, processes
finite, the key of an unidentified alert is no key, payloads are nonempty sequences of alerts).
The other modules assume finite sets where they count them (members, request slots,
runs, publishers), bounds that are numbers, `MaxCharge` to be what it is called, and no run to be
named like a state of a resource (`RunsAreRuns`). `LargerPlansSeatMore` is a fact of the
code's tables (`TIER_LIMITS` against `_TIER_RANK`): a plan of a higher rank has no fewer
seats; were it false, an upgrade could leave a workspace over its seats with every check
respected. TLC evaluates the assumptions in every run.

The theorems about IncidentSerial's properties have the hypothesis `OneSlot`: there is at most one
decision slot, and so one decision request at a time. It is no convenience: IncidentReapproval
shows the first of them false with two. They assume nothing else of that run: workers may
crash and a resume's set-up may fail.

| Theorem | Module | Says, for all constants |
|---|---|---|
| `TypeCorrect` | IncidentLifecycle_proofs | `Spec => []TypeOK` |
| `GrantedAlways`, `GateHolds` | IncidentLifecycle_proofs | `[]GateInv`, and from it `[]NoAutonomousRemediation` |
| `NoReopening` | IncidentLifecycle_proofs | `NeverReopened`, an action property |
| `ResumableAlways`, `OpenIncidentsResume` | IncidentLifecycle_proofs | `[]ResumableInv`, and from it `[]PendingIsResumable` |
| `PipelineImplementsGate` | IncidentLifecycle_proofs | `RefinesGate`: the lifecycle implements RemediationGate |
| `SerialAlways` | IncidentLifecycle_proofs | `OneSlot /\ Spec => []SerialInv` |
| `SerialExecutesOnce`, `SerialDecisionsStand`, `SerialRecordsAreTrue` | IncidentLifecycle_proofs | from it, under `OneSlot`, `[]AtMostOneExecution`, `[]DecisionStands`, `[]RecordMatchesEffect` |
| `TypeCorrect`, `RecoverySetHolds` | AlertIngestion_proofs | `[]TypeOK`, `[]RecoverySetExact` |
| `BurstAlways`, `BurstIsBounded` | AlertIngestion_proofs | `[]BurstInv`, and from it `[]PendingIncidentsBounded` |
| `FollowsAlways`, `OutcomesAreTheAlerts` | AlertIngestion_proofs | `[]AllFollowTheirAlerts`, and from it `[]AlertsReachTheirIncident` |
| `TypeCorrect`, `RepositoryAlways` | FixPullRequests_proofs | `[]TypeOK`, `[]RepositoryInv` |
| `LostUpdatesAreExplained`, `PullRequestsHoldFixes`, `FailedWorkIsExplained` | FixPullRequests_proofs | from them `[]LostUpdatesExplained`, `[]PullRequestHoldsFix`, `[]FailedWorkExplained` |
| `TypeCorrect`, `CommandAlways` | CloudCommands_proofs | `[]TypeOK`, `[]CommandInv` |
| `SuccessIsInPlace`, `NothingLeftDeleted`, `ReportsAreTrue`, `BeforeStatesAreTrue` | CloudCommands_proofs | from them `[]RestoredExplained`, `[]GoneExplained`, `[]OkMeansDone`, `[]BeforeStateExplained` |
| `TypeCorrect` | NotificationDelivery_proofs | `[]TypeOK` |
| `DeliveryAlways`, `DuplicatesExplained`, `QueueKeeps`, `DigestTold` | NotificationDelivery_proofs | `[]DeliveryInv`, and with it `[]EveryDuplicateExplained`, `[]NothingQueuedIsLost`, `[]DigestedWasTold` |
| `TypeCorrect`, `SeatsAlways`, `SeatBoundHolds` | WorkspaceMembership_proofs | `[]TypeOK`; `[]SeatInv`, and from it `[]SeatOverrunBounded` |
| `GuardAlways`, `OverSeatsUnguarded` | WorkspaceMembership_proofs | `[]GuardInv`, and from it `[]OverSeatsOnlyUnguarded` |
| `BillingAlways`, `InOrderBilling` | WorkspaceMembership_proofs | `[]BillingInv`, and from it `[]InOrderBillingAgrees` |
| `TypeCorrect`, `EmailAlways` | Allowances_proofs | EmailSequences: `[]TypeOK`, `[]EmailInv` |
| `StepsAreSentOnce`, `OneADay`, `SuppressedInTime`, `BouncesHeld` | Allowances_proofs | from them `[]NoStepSentTwice`, `[]OneMailADay`, `[]SuppressionStopsMail`, `[]BounceHeld` |
| `BudgetTypeCorrect`, `DriftIsBounded` | Allowances_proofs | TokenBudget: `[]BudgetTypeOK`, `[]MeterDriftBounded` |
| `RoomAlways`, `OvershootHolds` | Allowances_proofs | TokenBudget: `[]OvershootInv`, and from it `[]OvershootBounded` |
| `TypeCorrect`, `GateReachesAll` | PostPublishing_proofs | `[]TypeOK`, `[]ApprovedIsGated` |
| `RepostsAlways`, `RepostsExplained` | PostPublishing_proofs | `[]RepostInv`, and from it `[]EveryRepostExplained` |

The arguments:

* **GateInv.** `NoAutonomousRemediation` speaks of tools already called, and is not
  inductive: a call is right because of what the task *held*. The strengthening
  says that every option held anywhere it can reach a tool from (a task's resume
  value, a task's state, a checkpoint's state) was approved for that thread.
  Approvals only grow, so each step has to be checked for the options it moves.
* **ResumableInv.** A row appears only after the diagnosis has been checkpointed
  (`RowsAreDiagnosed`); for that to survive, invocations past the diagnosis must
  have such a checkpoint (`TasksAreDiagnosed`), the webhook's run must not start
  again once there is a row (`UnstartedHaveNoRow`), and requests and resumes
  must concern rows that exist (`RequestsHaveRows`, `ResumedHaveRows`), because a
  resume of an absent checkpoint would begin at the start of the graph.
* **PipelineImplementsGate.** Initial states map to initial states. A step of the
  code maps to `Propose` when a row appears, to `Grant` when an approval is
  written (the row is there by `RequestsHaveRows`), to `Perform` when a tool is
  called (granted by `GateInv`), and to a stutter otherwise.
* **SerialInv.** With one request at a time there is one resume of a thread in its life, as
  an approved row is never pending again. `ThreadInv` says what makes it the right one: the
  resume carries the option the row reads (`ResumedOnce`), finds the checkpoint the pause left
  (`PausedAtGate`), and no tool was called before it comes to the tool; a tool that was called
  was called by a resume that is still on record (`CalledOnce`). The webhook's own run
  never holds an option (`WebhookRun`), and what a request found pending is so when it
  writes, because nobody else decides (`RequestInv`): the very line two requests break.
* **TypeInv.** `TypeOK` of AlertIngestion is not inductive: `Served(d)` is an
  alert, and its key one of the keys, only while the task's counter is within
  its payload. `ServesAnAlert` adds that.
* **BurstInv.** For each key, (pending incidents) + (runs past a lookup that found
  nothing) is at most the number of slots (`BurstBound`). A run is added to the
  second only when the first is empty, because a lookup that finds a pending
  incident does not go on to insert; then the bound is the number of runs that
  hold slots, which `SlotsHeld` limits to the capacity of each process. An INSERT moves
  a run from one term to the other. That the running tasks number at most
  processes times capacity is shown by an injection into that product.
* **AllFollowTheirAlerts.** A delivery's outcomes are as many as the alerts before the one
  its task serves (`InTurn`). The row that a lookup found has the alert's own key when the bump or the
  note that relies on it runs (`LookupStands`), whatever ran between: rows are appended and
  change status, and never change key or place. A run that ended, and not by an exception, has as
  many outcomes as alerts (`InTurn` again), which is the second half of `RecoverySetExact`.
* **RepositoryInv.** `LostUpdatesExplained` speaks of merges that happened. For the next one
  `BasesInv` is needed: where a branch replaces something by fix `f` and could be merged, as
  main is still what the branch started from, that something is what `f` was written for (`seen`:
  what main held when the file was read or the payload put together), or news that arrived before its commit. It holds when `f` is committed because of `NewsInv`
  (the same of main, for fixes not yet committed), and afterwards because main can only
  come back to a branch's base as it was: commits are new contents, and a fix lands once, by
  `HeadsInv` (a branch changes a file only to a fix of its own that has not landed) and
  `KnownInv` (main and bases hold developers' commits and landed fixes only). `PullsInv`, `ProposedInv`
  and `LandedInv` follow a fix from its commit over the pull request to main, which
  gives the other two properties.
* **CommandInv.** What is deployed depends on what each run did last, and a call that nobody
  waits for may still land. `OrphanInv` says that such a call makes its run a troubled one, and
  that the fixes of one thing do not report success after it; `MadeInv` that a run without trouble leaves its
  thing there but between the deletion and the creation of agent 08; `CaptureInv` that
  `before_state` is what is about to be replaced, or somebody interfered; `PlanInv` that the
  calls of a plan before its step have landed, as long as none failed. A plan's jumps make
  the last no plain induction on the step: a jump forward skips steps, and it is taken
  after a failure only, which is why the premise speaks of failure. The scripts enter by their
  shape (`WellScripted`), proved of each tool, so the steps are not gone through one by one.
* **DeliveryInv.** Whether a message may still be sent depends on where it is:
  not yet dealt with by its dispatch, failed and on its way to the queue, in the
  queue, sent by a pass that has not committed, or done with (`CountOf`, one line
  for each). It is never in two of these places, because a dispatch deals with a
  channel once (`Shape`) and one pass runs at a time on rows that are pending (`Passes`).
  A rollback moves the message back to the queue and its receipt to
  `unacknowledged`.
* **SeatInv.** The cap a request counted against is that of a tier the workspace has
  had; at the moment of the count the members seated are below it, and until its INSERT
  every other slot can add one. So the members who have a seat or are about to,
  without SCIM's, exceed that cap by at most `Cardinality(Slots) - 1`.
* **GuardInv.** Until something passes a check by, the members fit the cap (`SeatsGuarded`), and so do
  those a request that was let through is about to add and those a downgrade will leave. A change of tier under
  a request's feet, by an event or by an administrator, is harmless upwards, by `LargerPlansSeatMore`, and counts
  as passing the check by downwards.
* **BillingInv.** `TierAfterFirst(n, t)` says without recursion that t is the tier the first n events leave
  behind: the last one that any of them names. Stripe is there after all events, and the
  row after those that were written, as long as each was written after the one before it, in each
  column that no administrator has written since.
* **EmailInv.** `OnePass`: the pass's lock admits one. A step that was sent is told by its row, or by the pass that sent
  it and has not committed; no claim of the row is older (`StepsTold`), because a row is claimed once
  and not again while the pass holds it (`RowsOnce`). What an aborted pass had sent is out of `sent`, as nothing in
  the database tells of it, and is counted by `unrecorded`. `DayInv` is the same argument for the day's
  e-mail, whose record commits with the pass: an address the pass has sent to is
  asked for among the pass's own writes as well. `LateInv` holds because a suppression is read for each row,
  after the claim: only the e-mail under way can come too late. That passes are sequences without
  repetitions needs lemmas about `Only`, `Without` and `Listing`, and these the rank of a number in
  a set (`MemberOfRank`).
* **OvershootInv.** Runs past the check and not charged each reserve `MaxCharge`; the
  check leaves room for the runs that hold slots, and a charge uses what its run had
  reserved. What resumes and agent 10 charge again is outside the bound and counted
  in `repeated`.
* **RepostInv.** Posts made and under way exceed the accidents by at most one, and by
  none while nobody has the row in hand and it is not published: that is the state
  in which a read is no overlap.

**Only model-checked**: liveness (`ExecutingSettles`, `DeliveriesEnd`, `QueuedIsSettled`,
`WithheldIsTold`, `DueGetsItsTurn`, `RunsEnd`), which TLAPS does not do under fairness, and the two
runs that are violated. The definitions of section 6 that no run names are not claims.

## 5 What is abstracted, and what is left out

* *LangGraph* is external: a checkpoint is saved as each node completes, before the
  next node has an effect; the last save wins; a thread is resumed at the node its
  checkpoint names; each of two concurrent resumes gets its own value from
  `interrupt()`.
* *Agents.* IncidentLifecycle is read from agent 01, AlertIngestion from agent 11,
  the only one with fan-out and deduplication. Agents 02 to 10 have agent 01's
  nodes and edges; their own logic is prompts, parsing and provider calls, of which the
  calls that change something are FixPullRequests and CloudCommands.
* *Requests.* A caller without the role, or one refused by a read-only connection,
  changes nothing and is not represented. A bulk action is a sequence of single
  decisions of one slot. `write_audit_event` is best effort and swallows its own
  errors; only the INSERTs that are a decision handler's own are modelled.
* *Alerts.* A key stands for resource and alert name (one alert per resource).
  Payload formats, signature checks and the scrubbing of text are left out. In
  AlertIngestion the statuses that are not open are one; failed incidents carry
  no resource, as in the code.
* *The budget handler* of a webhook task runs an UPDATE with ORDER BY and LIMIT,
  which PostgreSQL rejects, so it changes nothing.
* *Time* is left out: a timeout is a choice (`MarkTimesOut`, `TaskRaises`), backoff,
  delays, quiet hours and due dates pass at any time, and a day is a step (`Tomorrow`).
* *Fixes.* A fix changes one file; agent 11's texts, labels, reviewers and the order of
  several files of a commit are left out. A process that dies between two calls is
  `Raise`: nothing goes on, and what differs is only that the row stays at executing.
  Azure DevOps' ref filter matches prefixes; the model matches names. A payload is taken to say
  what main held at some moment before it was sent; one made from another branch is out, and
  so is a ref other than main given to agent 10 (`HEAD` is its default). Agents 05 and 11 are told
  of live resources, and agent 11 may be handed a corrected file: for them the lost updates count from
  when the payload was put together. The pull
  request of agent 02 has no caller. Agent 05's other option and a Kubernetes drift's act on
  the cloud.
* *Commands.* All runs are about the same things, one of each kind. A resource of a quick win
  stands for its list. boto3 is synchronous, so a call of it cannot be given up, only
  lost with its worker or its connection. A command of a plan is a call, whatever it runs. Not
  modelled: agent 05's policies (IAM's five versions, Azure's role assignments, Google's
  bindings) and agent 06's Google instances; agents 01 and 03, whose tools are one
  call each (rerun a pipeline, post a review), covered by IncidentLifecycle's `CallTool`.
* *Notifications.* Payloads and providers; the order of ten channels of one SELECT; a
  queue longer than the pass's hundred rows.
* *Membership.* Roles, tokens, revoked sessions, the assignment of incidents. The administrators'
  other routes (rotate a token, invite, purge data) change neither tier nor status, and the
  workspace of the demo sandbox, which starts active and on the highest plan
  (`core/demo_sandbox.py:190-199`), is not one that Stripe knows. An
  answer to Stripe is not kept: an event may be sent again even if it was answered.
* *E-mails.* The hours of the day a pass may send in, a missing signing secret (the pass
  commits what it has), the extra enrolment for paid seats, click and open tracking,
  approval and retirement of templates, broadcasts. A workspace's e-mail is one
  subscriber.
* *Budget.* `ledger` is the sum of all rows, of which the usage panel
  (`api/routes/llm_usage.py:54-65`) shows a calendar month's. The budget does not change: no statement
  of the program sets `monthly_token_budget_usd`. Calls cost one of a set of amounts; budgets of several workspaces do not interact.
* *Posts.* LinkedIn's connection, images from the library, statistics, comments.
* *Not modelled at all*: see `PROJECT.json` for each component and its reason. Most
  of the repository's lines are prompts, parsers of provider payloads, CRUD routes of
  one statement, content of e-mails and web pages: they keep no state that two actors
  change, and a model of them would be the code again.

## 6 Where code and documents disagree

Quoted in full under "findings" in `PROJECT.json`.

1. **IncidentReapproval.** Two approvals whose checks overlap each start a resume,
   and the fix runs twice, though the demo checklist says that re-approving "does
   nothing new". Unlike the status check, an UPDATE with
   `AND execution_status = 'pending_approval'` would admit one.
2. **EmailUnreadable.** The sequences that start-up seeds have their exit rules encoded
   twice, so they come back as a string; `dict(...)` of it raises for every due row, the
   pass logs and goes on, and no enrolment ever advances, although activating a
   sequence answers that "enrollments will now advance".

The following were met while modelling and have no run of their own. The first eight
are stated as definitions of the modules, which a configuration may name:

* `FailedRunsStayFailed` (IncidentLifecycle): a failed diagnosis flows on to the complete
  node, which overwrites `failed` with `executed` (`workflow.py:375`);
  `core/hitl.py:420-423` counts on finding `failed`.
* `ExecutingSettles` with `SetupMayFail = TRUE` (IncidentLifecycle): what `_resume()` does
  before its `try` leaves the incident at `executing` for ever, the outcome that the
  comment at `api/routes/incidents.py:446-454` says is past.
* `ProbeApprovalSimulated` (IncidentLifecycle): an approval between the INSERT and the flag
  of a connection test is answered 500 and leaves the row at `executing`
  (`setup_checklist.py:84-86` says it is short-circuited).
* `OnePendingIncidentPerAlert` (AlertIngestion): two deliveries of one alert can open an
  incident each; `core/hitl.py:242-248` promises one. `PendingIncidentsBounded` and BurstIsBounded
  show how far this goes: one per slot.
* `BudgetBlocks` (TokenBudget): `core/token_budget.py:13-15` says that all calls are blocked
  once the usage exceeds the budget; runs past the check go on, and the spend the
  check reads may be rounded below the usage.
* `RenewalLiftsTheBlock` (TokenBudget): the same lines let a refused workspace wait for its billing
  cycle to reset, and `:140-141` have Stripe's webhook reset the spend "on invoice.paid".
  `reset_monthly_spend` has no caller and `stripe_webhook` no branch for that event
  (`stripe_billing.py:335-348`), so a workspace once refused stays refused. TLC finds
  this in the instance of the run TokenBudget.
* `OnlyDeathLeavesUnprocessed` (AlertIngestion): "Only a genuine process death mid-execution leaves
  processed_at unset" (`core/ingestion_log.py:28-30`; `webhooks.py:616-619` says the same), but the
  `finally` block needs a connection (`webhooks.py:753`), and at a full pool its five seconds pass on a
  live worker. What the unprocessed rows are is said by `RecoverySetExact`. TLC finds this in
  the instance of the run AlertIngestion.
* `SuspensionHolds` (WorkspaceMembership): a suspension is "independent of Stripe" and reversed by a
  reactivation (`customer-offboarding.md:25-28`, `internal_workspaces.py:6-8`), but it is kept in
  the column that each of Stripe's events overwrites (`stripe_billing.py:174`): the next one lets the
  workspace in again. TLC finds this in the instance of the run Workspace.
* A runbook's manifest is piped through `echo ... | kubectl apply -f -`, which is run without
  a shell (`agent_07_runbook/tools.py:184-192`, `shlex.split`): `echo` prints the rest, exits with 0,
  and the step reports ok though nothing was applied. `OkMeansDone` speaks of the other steps.
* `rollback_deployment` says "k8s will re-apply the previous ReplicaSet template"
  (`agent_02_k8s_alert/tools.py:558`): it sets annotations and restarts the pods of the current one.
* `core/hitl.py:357-364` says that only agent 02 changes something directly and "every other
  agent's execution step opens a PR": agents 05, 06, 07 and 08 act directly as well, and
  keep no `before_state`.
* A plan that failed, and a manifest of agent 08 that could not be applied, are results and
  not exceptions: the incident reads executed (CloudCommands, `Status`).
* The "Hard limits for safety" of `agent_07_runbook/tools.py:42-45` bound the length of a plan; one
  with a backward `skip_to` may go round for ever (`RunsEnd`).
* A fix is committed over whatever the file became since the agent read it or its payload was
  put together (`agent_10_dependency_patch/tools.py:237-240`); `LostUpdatesExplained` says when.
* A row of the LinkedIn queue is published while its image is being made, though
  `internal_marketing.py:737-741` says "there is no window": the UPDATE to `approved`
  commits on its own before the image is begun, and the batch route and the
  dashboards make it in the background.
* A digest is "never missed" (`notification_retry.py:311-317`) only while its channel keeps
  its quiet hours and stays enabled; `WithheldIsTold` says so.
* `stripe_billing.py:550-552` says that both records "now simply agree on the tier": with
  events out of order they do not, hence the premise of `InOrderBillingAgrees`.
* A sign-up may not clear a bounce (`email_public.py:82-86`), but an unsubscription
  overwrites the reason first; `BounceHeld` excuses exactly that.
* "One bad row never blocks the batch" (`email_scheduler.py:8-9`), but an SQL error aborts the
  transaction and with it the batch.
* The scan for abandoned checkouts enrols a subscriber again in each of its hours, which
  starts the sequence afresh (`email_triggers.py:41-47` calls it a no-op).

## 7 What is left

Done: the nine modules, their runs, and the proofs of every safety property the runs check. Left,
in this order:

1. Abstract specifications, with refinement proofs as for RemediationGate, of the retry queue (at
   least once, unless given up) and of the publishing queue.
2. Agent 05's policies, with IAM's limit of five versions.
3. The other routes of `api/routes/webhooks.py`, which start agents without fan-out, and the
   assignment of incidents to members who leave.
4. The checkpointer's lock, held across the `yield` of `alist`, and the connection pool
   composed with AlertIngestion's semaphore.
5. The periodic passes of retention and expiry, one query each under a lock.
