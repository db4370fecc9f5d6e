------------------------------ MODULE TokenBudget ------------------------------
(***************************************************************************)
(* The token circuit breaker of one workspace (core/token_budget.py) and   *)
(* the agent runs that consult it (agents/base_agent.py, the diagnose and  *)
(* approval-gate nodes of agents/*/workflow.py).                           *)
(*                                                                         *)
(* A run reads the month's spend, calls the model, opens its incident and  *)
(* only then charges the call, in statements of their own; a resume runs   *)
(* the gate again and charges again.  Each charge is one transaction over  *)
(* two meters: the ledger of token_usage, kept to a millionth of a dollar, *)
(* and the spend of the workspaces row, kept to the cent, which is the one *)
(* the breaker reads.  Nothing takes either back: reset_monthly_spend has  *)
(* no caller, and the renewal of the billing cycle finds no handler.       *)
(***************************************************************************)
EXTENDS Integers, FiniteSets

CONSTANTS
    Runs,           \* agent runs, one incident each
    RecordsTwice,   \* those of agent 10, which also charges when it diagnoses
    Operators,      \* members who may approve
    Slots,          \* runs the execution semaphores let through at once
    Costs,          \* what a call can cost, in millionths of a dollar
    Estimate,       \* what the check assumes it will cost, in the same unit
    Budget,         \* monthly_token_budget_usd, in cents
    MaxCharge,      \* the most a call can cost, in whole cents
    MaxRenewals     \* renewals of the billing cycle: a bound of the instance

Cent == 10000                       \* millionths of a dollar

\* A bug to check against: the sum is cut to the cent.
BadCents(c) == c \div Cent

\* The sum of a NUMERIC(10,2) column and a finer number is stored rounded to
\* the nearest cent, halves upwards.
Cents(c) == (2 * c + Cent) \div (2 * Cent)

ASSUME BudgetAssumption ==
    /\ RecordsTwice \subseteq Runs
    /\ IsFiniteSet(Runs)
    /\ Slots \in Nat /\ Budget \in Nat /\ Estimate \in Nat /\ MaxCharge \in Nat
    /\ MaxRenewals \in Nat /\ Costs \subseteq Nat
    /\ \A c \in Costs : Cents(c) <= MaxCharge

VARIABLES
    at,             \* where each run is
    cost,           \* what its diagnosis cost
    pending,        \* runs whose incident reads pending_approval
    approving,      \* <<operator, run>> past the check of the status
    resuming,       \* <<operator, run>> of resumes on their way to the gate
    spend,          \* current_month_spend_usd, in cents
    ledger,         \* SUM(cost_usd) of token_usage
    renewals,       \* billing cycles of Stripe that have been renewed
    charges,        \* charges made so far (history)
    repeated        \* cents charged for a diagnosis by anything but the first
                    \* pass of its run through the gate (history)

budgetVars ==
    <<at, cost, pending, approving, resuming, spend, ledger, renewals, charges, repeated>>

Decisions == Operators \X Runs

\* A run is on, and holds its slot, from the semaphore to the end of its task.
InFlight == {"entered", "calling", "recording", "gate", "opened"}
Running == {r \in Runs : at[r] \in InFlight}

\* Past the check, its first charge still to come.
Uncharged == {r \in Runs : at[r] \in InFlight \ {"entered"}}

BudgetInit ==
    /\ at = [r \in Runs |-> "idle"]
    /\ cost = [r \in Runs |-> 0]
    /\ pending = {}
    /\ approving = {}
    /\ resuming = {}
    /\ spend = 0
    /\ ledger = 0
    /\ renewals = 0
    /\ charges = 0
    /\ repeated = 0

-----------------------------------------------------------------------------
(* The meters. *)

\* record_usage: the row of the ledger and the addition to the month's spend,
\* in one transaction.
Charge(c) ==
    /\ ledger' = ledger + c
    /\ spend' = spend + Cents(c)
    /\ charges' = charges + 1
    /\ UNCHANGED renewals

\* A bug to check against: only a budget overrun by so much is refused.
BadAvailable == Cent * spend <= Cent * (Budget + MaxCharge * Slots)

\* assert_budget_available does not raise.
Available == Cent * spend + Estimate <= Cent * Budget

Go(r, s) == at' = [at EXCEPT ![r] = s]

Meters == <<spend, ledger, charges, repeated>>
Bookkeeping == <<Meters, renewals>>

-----------------------------------------------------------------------------
(* A run. *)

\* bounded_execution lets the task through.
Enter(r) ==
    /\ at[r] = "idle"
    /\ Cardinality(Running) < Slots
    /\ Go(r, "entered")
    /\ UNCHANGED <<cost, pending, approving, resuming, Bookkeeping>>

\* check_budget.  A run that is refused ends: the handler's UPDATE to
\* budget_exceeded is rejected by PostgreSQL and writes nothing.
Check(r) ==
    /\ at[r] = "entered"
    /\ Go(r, IF Available THEN "calling" ELSE "refused")
    /\ UNCHANGED <<cost, pending, approving, resuming, Bookkeeping>>

\* call_llm returns an answer that parses.
Diagnose(r) ==
    /\ at[r] = "calling"
    /\ \E c \in Costs : cost' = [cost EXCEPT ![r] = c]
    /\ Go(r, IF r \in RecordsTwice THEN "recording" ELSE "gate")
    /\ UNCHANGED <<pending, approving, resuming, Bookkeeping>>

\* call_llm returns something else: the node reports an error, the gate opens
\* a failed incident and no one is charged for the call.
FailToParse(r) ==
    /\ at[r] = "calling"
    /\ Go(r, "failed")
    /\ UNCHANGED <<cost, pending, approving, resuming, Bookkeeping>>

\* Agent 10 charges the call in its diagnose node.
RecordDiagnosis(r) ==
    /\ at[r] = "recording"
    /\ Charge(cost[r])
    /\ repeated' = repeated + Cents(cost[r])
    /\ Go(r, "gate")
    /\ UNCHANGED <<cost, pending, approving, resuming>>

\* The gate's INSERT.
OpenIncident(r) ==
    /\ at[r] = "gate"
    /\ pending' = pending \cup {r}
    /\ Go(r, "opened")
    /\ UNCHANGED <<cost, approving, resuming, Bookkeeping>>

\* The gate's charge, and the interrupt that ends the task.
RecordUsage(r) ==
    /\ at[r] = "opened"
    /\ Charge(cost[r])
    /\ Go(r, "waiting")
    /\ UNCHANGED <<cost, pending, approving, resuming, repeated>>

\* The worker dies, or the call to the model raises.
Lose(r) ==
    /\ r \in Running
    /\ Go(r, "dead")
    /\ UNCHANGED <<cost, pending, approving, resuming, Bookkeeping>>

-----------------------------------------------------------------------------
(* An approval, and the resume it starts. *)

\* approve_incident finds the incident pending.
CheckPending(o, r) ==
    /\ r \in pending
    /\ \A s \in Runs : <<o, s>> \notin approving \cup resuming
    /\ approving' = approving \cup {<<o, r>>}
    /\ UNCHANGED <<at, cost, pending, resuming, Bookkeeping>>

\* ... writes executing and starts the resume.
Approve(o, r) ==
    /\ <<o, r>> \in approving
    /\ approving' = approving \ {<<o, r>>}
    /\ resuming' = resuming \cup {<<o, r>>}
    /\ pending' = pending \ {r}
    /\ UNCHANGED <<at, cost, Bookkeeping>>

\* The gate node runs again from its top: its INSERT meets the row that is
\* there, its charge is made once more, and the interrupt returns the option.
RecordAgain(o, r) ==
    /\ <<o, r>> \in resuming
    /\ Charge(cost[r])
    /\ repeated' = repeated + Cents(cost[r])
    /\ resuming' = resuming \ {<<o, r>>}
    /\ UNCHANGED <<at, cost, pending, approving>>

\* The resume fails, or its worker dies, before the gate.
LoseResume(o, r) ==
    /\ <<o, r>> \in resuming
    /\ resuming' = resuming \ {<<o, r>>}
    /\ UNCHANGED <<at, cost, pending, approving, Bookkeeping>>

-----------------------------------------------------------------------------
\* The cycle is paid for once more.  stripe_webhook has no branch for the event
\* (invoice.paid), logs it as unhandled and acknowledges it.
Renew ==
    /\ renewals < MaxRenewals
    /\ renewals' = renewals + 1
    /\ UNCHANGED <<at, cost, pending, approving, resuming, Meters>>

RunStep(r) ==
    \/ Enter(r) \/ Check(r) \/ Diagnose(r) \/ FailToParse(r)
    \/ RecordDiagnosis(r) \/ OpenIncident(r) \/ RecordUsage(r) \/ Lose(r)

DecisionStep(o, r) ==
    \/ CheckPending(o, r) \/ Approve(o, r)
    \/ RecordAgain(o, r) \/ LoseResume(o, r)

BudgetNext ==
    \/ \E r \in Runs : RunStep(r)
    \/ \E o \in Operators, r \in Runs : DecisionStep(o, r)
    \/ Renew

BudgetSpec == BudgetInit /\ [][BudgetNext]_budgetVars

-----------------------------------------------------------------------------
(* Properties. *)

\* Every variable keeps its type, and an incident is open only for a run that
\* has reached its gate.
BudgetTypeOK ==
    /\ at \in [Runs -> InFlight \cup {"idle", "refused", "failed", "waiting", "dead"}]
    /\ cost \in [Runs -> Costs \cup {0}]
    /\ pending \subseteq {r \in Runs : at[r] \in {"opened", "waiting", "dead"}}
    /\ approving \subseteq Decisions /\ resuming \subseteq Decisions
    /\ spend \in Nat /\ ledger \in Nat /\ charges \in Nat /\ repeated \in Nat
    /\ renewals \in 0..MaxRenewals

\* Runs that passed the check together each charge their call after it, so the
\* spend can pass the budget; but, repeated charges apart, by no more than
\* one call for each slot of the execution semaphores.
OvershootBounded == spend - repeated <= Budget + MaxCharge * Slots

\* The meter the breaker reads and the sum of the ledger, whose rows customers are
\* shown month by month, drift apart by at most half a cent a charge, in either
\* direction.
MeterDriftBounded ==
    /\ 2 * (ledger - Cent * spend) <= Cent * charges
    /\ 2 * (Cent * spend - ledger) <= Cent * charges

\* What the module says of a budget that is used up: that "the billing cycle must
\* reset before resuming", and that the spend is reset when invoice.paid arrives.  A
\* renewal ends the refusals of a budget that has room for one call at all.
RenewalLiftsTheBlock ==
    [][renewals' # renewals /\ Estimate <= Cent * Budget => Available']_budgetVars

\* What the module promises: no call starts in a workspace whose usage has
\* exceeded its monthly budget.
BudgetBlocks ==
    [][\A r \in Runs : at[r] # "calling" /\ at'[r] = "calling"
                          => ledger <= Cent * Budget]_budgetVars

================================================================================
