----------------------------- MODULE EmailSequences -----------------------------
(***************************************************************************)
(* The lifecycle e-mails: enrollments (core/email_enrollment.py), the pass *)
(* that advances them (core/email_scheduler.py, core/marketing_email.py),  *)
(* the scans and webhooks that start and end them (core/email_triggers.py, *)
(* api/routes/stripe_billing.py), sign-up, unsubscription and bounces      *)
(* (api/routes/email_public.py).                                           *)
(*                                                                         *)
(* A pass is one transaction under an advisory lock.  It works on the rows *)
(* as it claimed them, writes a row after its e-mail was sent, and others  *)
(* see what it wrote at its COMMIT; a row it wrote is locked until then.   *)
(* The other handlers run their statements one by one.                     *)
(***************************************************************************)
EXTENDS Integers, Sequences, FiniteSets

CONSTANTS
    Subscribers,
    Sequences,      \* the sequences of this instance, of SequenceKeys
    Steps,          \* Steps[q]: the approved templates of a sequence
    Workers,        \* processes of the application
    Handlers,       \* requests and webhooks in progress at once
    RulesReadable,  \* exit_rules decode to an object, not to a string
    Batch,          \* LIMIT of the claim
    MaxStarts,      \* bound on the handlers' runs
    MaxFaults,      \* bound on crashes, errors and lost answers
    MaxSwitches,    \* bound on the times an operator switches a sequence
    MaxDays         \* bound on the days that pass

SequenceKeys == {"newsletter", "trust_drip", "abandoned_checkout", "onboarding",
                 "stall_nudges", "dunning", "winback"}

ASSUME ConstantsOK ==
    /\ Sequences \subseteq SequenceKeys
    /\ Steps \in [Sequences -> Nat]
    /\ RulesReadable \in BOOLEAN
    /\ Batch \in Nat \ {0}
    /\ {MaxStarts, MaxFaults, MaxSwitches, MaxDays} \subseteq Nat

Enrollments == Subscribers \X Sequences

\* exit_rules of core/email_content/*.py: the workspace's status that ends one.
ExitOn(q) ==
    CASE q = "abandoned_checkout" -> {"active", "canceled"}
      [] q \in {"trust_drip", "winback"} -> {"active"}
      [] q \in {"onboarding", "stall_nudges", "dunning"} -> {"canceled"}
      [] OTHER -> {}

VARIABLES
    enrollment,     \* cd_email_enrollments
    line,           \* the due rows of it, by next_send_at
    running,        \* the sequences that are active
    suppression,    \* cd_email_suppressions: the reason of an address
    workspace,      \* status of the subscriber's workspace
    mailed,         \* an e-mail is recorded as sent in the last 24 hours
    pass,           \* pass[w]: the scheduler's pass of a process
    handler,        \* handler[h]: whom it is for and what it has to do yet
    starts, faults, switches, days,     \* how much of the bounds is used
    \* history, for the properties only
    sent,           \* steps of the present enrollment known to be sent
    received,       \* marketing e-mails the subscriber got today
    unrecorded,     \* those of them that no row of cd_email_sends tells of
    late,           \* e-mails the subscriber got since its address was suppressed
    reasons         \* the reasons ever given for suppressing an address

rows == <<enrollment, line>>
world == <<running, suppression, workspace>>
bounds == <<starts, faults, switches, days>>
history == <<sent, received, unrecorded, late, reasons>>
vars == <<rows, world, mailed, pass, handler, bounds, history>>

Row == [status : {"none", "active", "completed", "exited"}, step : Nat]
NoRow == [status |-> "none", step |-> 0]
Fresh == [status |-> "active", step |-> 0]

\* wrote: rows the transaction has written; again: those due at once.
NoPass == [at |-> "off", todo |-> <<>>, wrote |-> <<>>, again |-> {}, sent |-> {}]
NoHandler == [to |-> "nobody", ops |-> <<>>]

Claimed == [row : Enrollments, step : Nat]

\* A pass that has written the rows E, and marks only such rows.
Pass(E) == [at : {"off", "next", "send"}, todo : Seq(Claimed), wrote : [E -> Row],
            again : SUBSET E, sent : SUBSET E]

Ops == [do : {"suppress"}, what : {"unsubscribe", "bounce"}]
         \union [do : {"clear", "exit_all"}, what : {"all", "winback"}]
         \union [do : {"enroll", "exit"}, what : SequenceKeys]

\* One type invariant: what each table, pass and handler may hold.
TypeOK ==
    /\ enrollment \in [Enrollments -> Row]
    /\ line \in Seq(Enrollments)
    /\ running \subseteq Sequences
    /\ suppression \in [Subscribers -> {"none", "unsubscribe", "bounce"}]
    /\ workspace \in [Subscribers -> {"pending_payment", "active", "past_due", "canceled"}]
    /\ mailed \subseteq Subscribers
    /\ pass = [w \in Workers |-> pass[w]]
    /\ \A w \in Workers : \E E \in SUBSET Enrollments : pass[w] \in Pass(E)
    /\ handler \in [Handlers -> [to : Subscribers \union {"nobody"}, ops : Seq(Ops)]]
    /\ sent \in [Enrollments -> SUBSET Nat]
    /\ {received, unrecorded, late} \subseteq [Subscribers -> Nat]
    /\ reasons \in [Subscribers -> SUBSET {"unsubscribe", "bounce"}]

Init ==
    /\ enrollment = [e \in Enrollments |-> NoRow]
    /\ line = <<>>
    /\ running \in {Sequences, {}}
    /\ suppression = [s \in Subscribers |-> "none"]
    /\ workspace = [s \in Subscribers |-> "pending_payment"]
    /\ mailed = {}
    /\ pass = [w \in Workers |-> NoPass]
    /\ handler = [h \in Handlers |-> NoHandler]
    /\ starts = 0 /\ faults = 0 /\ switches = 0 /\ days = 0
    /\ sent = [e \in Enrollments |-> {}]
    /\ received = [s \in Subscribers |-> 0]
    /\ unrecorded = [s \in Subscribers |-> 0]
    /\ late = [s \in Subscribers |-> 0]
    /\ reasons = [s \in Subscribers |-> {}]

Fault == faults < MaxFaults /\ faults' = faults + 1

Elements(seq) == {seq[n] : n \in 1..Len(seq)}

\* Of a sequence what is in S, and what is not, in its order.
Only(seq, S) ==
    LET kept == {n \in 1..Len(seq) : seq[n] \in S}
        order == CHOOSE f \in [1..Cardinality(kept) -> kept] :
                    \A i, j \in 1..Cardinality(kept) : i < j => f[i] < f[j]
    IN [i \in 1..Cardinality(kept) |-> seq[order[i]]]

Without(seq, S) == Only(seq, Elements(seq) \ S)

(***************************************************************************)
(* Time and operators.                                                     *)
(***************************************************************************)
\* next_send_at of a row arrives.
ElapseDelay(e) ==
    /\ enrollment[e].status = "active"
    /\ e \notin Elements(line)
    /\ line' = Append(line, e)
    /\ UNCHANGED <<enrollment, world, mailed, pass, handler, bounds, history>>

\* 24 hours after the last e-mail; a pass takes minutes and does not span them.
Tomorrow ==
    /\ days < MaxDays
    /\ \A w \in Workers : pass[w].at = "off"
    /\ days' = days + 1
    /\ mailed' = {}
    /\ received' = [s \in Subscribers |-> 0]
    /\ unrecorded' = [s \in Subscribers |-> 0]
    /\ UNCHANGED <<rows, world, pass, handler, starts, faults, switches, sent, late, reasons>>

\* activate_sequence and deactivate_sequence.
Switch(q) ==
    /\ switches < MaxSwitches
    /\ switches' = switches + 1
    /\ running' = IF q \in running THEN running \ {q} ELSE running \union {q}
    /\ UNCHANGED <<rows, suppression, workspace, mailed, pass, handler,
                   starts, faults, days, history>>

(***************************************************************************)
(* Requests, webhooks and scans.                                           *)
(***************************************************************************)
Locked == UNION {DOMAIN pass[w].wrote : w \in Workers}

\* A handler starts, with the statements it has to execute on this instance's
\* sequences.
Start(h, s, ops) ==
    /\ handler[h].ops = <<>>
    /\ starts < MaxStarts
    /\ starts' = starts + 1
    /\ LET mine == Only(ops, {o \in Elements(ops) :
                               o.do \in {"enroll", "exit"} => o.what \in Sequences})
       IN handler' = [handler EXCEPT ![h] =
                        IF mine = <<>> THEN NoHandler ELSE [to |-> s, ops |-> mine]]
    /\ UNCHANGED <<rows, running, suppression, mailed, pass, faults, switches,
                   days, history>>

Op(do, what) == [do |-> do, what |-> what]

\* Every suppression taken for one that a sign-up may clear.
BadSubscribe(h, s, q) ==
    /\ Start(h, s, IF suppression[s] = "none" THEN <<Op("enroll", q)>>
                   ELSE <<Op("clear", "all"), Op("enroll", q)>>)
    /\ UNCHANGED workspace

\* subscribe: an address that bounced is left alone; another suppression is
\* deleted first.
Subscribe(h, s, q) ==
    /\ suppression[s] # "bounce"
    /\ Start(h, s, IF suppression[s] = "none" THEN <<Op("enroll", q)>>
                   ELSE <<Op("clear", "all"), Op("enroll", q)>>)
    /\ UNCHANGED workspace

\* unsubscribe_action and resend_webhook.
Suppress(h, s, reason) ==
    /\ Start(h, s, <<Op("suppress", reason), Op("exit_all", "all")>>)
    /\ UNCHANGED workspace

\* _enroll_onboarding_email_sequence, after the workspace became active.
CheckoutCompleted(h, s) ==
    /\ workspace[s] \in {"pending_payment", "canceled"}
    /\ workspace' = [workspace EXCEPT ![s] = "active"]
    /\ Start(h, s, <<Op("enroll", "onboarding"), Op("exit", "abandoned_checkout"),
                     Op("exit", "trust_drip")>>)

\* _handle_subscription_deleted and _handle_payment_failed.
SubscriptionDeleted(h, s) ==
    /\ workspace[s] \in {"active", "past_due"}
    /\ workspace' = [workspace EXCEPT ![s] = "canceled"]
    /\ Start(h, s, <<Op("enroll", "winback"), Op("exit_all", "winback")>>)

PaymentFailed(h, s) ==
    /\ workspace[s] \in {"active", "past_due"}
    /\ workspace' = [workspace EXCEPT ![s] = "past_due"]
    /\ Start(h, s, <<Op("enroll", "dunning")>>)

\* _handle_subscription_updated after a payment: no e-mail hangs on it.
PaymentRecovered(s) ==
    /\ workspace[s] = "past_due"
    /\ workspace' = [workspace EXCEPT ![s] = "active"]
    /\ UNCHANGED <<rows, running, suppression, mailed, pass, handler, bounds, history>>

\* The hourly scan enrolls whoever has not paid after a day, as often as it runs.
AbandonedCheckoutScan(h, s) ==
    /\ workspace[s] = "pending_payment"
    /\ Start(h, s, <<Op("enroll", "abandoned_checkout")>>)
    /\ UNCHANGED workspace

\* The scan for stalled workspaces enrolls each of them once.
StallNudgeScan(h, s) ==
    /\ workspace[s] = "active"
    /\ "stall_nudges" \in Sequences
    /\ enrollment[<<s, "stall_nudges">>].status = "none"
    /\ Start(h, s, <<Op("enroll", "stall_nudges")>>)
    /\ UNCHANGED workspace

\* A status that no query knows.
BadEnroll(e) ==
    /\ e \notin Locked
    /\ enrollment' = [enrollment EXCEPT ![e] = [status |-> "enrolled", step |-> 0]]
    /\ line' = Append(Without(line, {e}), e)
    /\ sent' = [sent EXCEPT ![e] = {}]

\* Statements: enroll starts a row afresh, whatever it was.
Enroll(e) ==
    /\ e \notin Locked
    /\ enrollment' = [enrollment EXCEPT ![e] = Fresh]
    /\ line' = Append(Without(line, {e}), e)
    /\ sent' = [sent EXCEPT ![e] = {}]

\* exit_enrollment and exit_all_enrollments touch active rows only.
Exit(S) ==
    LET active == {e \in S : enrollment[e].status = "active"}
    IN /\ active \intersect Locked = {}
       /\ enrollment' = [e \in Enrollments |->
                           IF e \in active THEN [enrollment[e] EXCEPT !.status = "exited"]
                           ELSE enrollment[e]]
       /\ line' = Without(line, active)

ExecuteOp(h) ==
    LET o == Head(handler[h].ops)
        s == handler[h].to
    IN /\ handler[h].ops # <<>>
       /\ handler' = [handler EXCEPT ![h] =
                        IF Len(@.ops) = 1 THEN NoHandler ELSE [to |-> s, ops |-> Tail(@.ops)]]
       /\ \/ /\ o.do = "enroll"
             /\ Enroll(<<s, o.what>>)
             /\ UNCHANGED <<suppression, late, reasons>>
          \/ /\ o.do = "exit"
             /\ Exit({<<s, o.what>>})
             /\ UNCHANGED <<suppression, sent, late, reasons>>
          \/ /\ o.do = "exit_all"
             /\ Exit({e \in Enrollments : e[1] = s /\ e[2] # o.what})
             /\ UNCHANGED <<suppression, sent, late, reasons>>
          \/ /\ o.do = "suppress"
             /\ suppression' = [suppression EXCEPT ![s] = o.what]
             /\ late' = IF suppression[s] = "none" THEN [late EXCEPT ![s] = 0] ELSE late
             /\ reasons' = [reasons EXCEPT ![s] = @ \union {o.what}]
             /\ UNCHANGED <<rows, sent>>
          \/ /\ o.do = "clear"
             /\ suppression' = [suppression EXCEPT ![s] = "none"]
             /\ UNCHANGED <<rows, sent, late, reasons>>
       /\ UNCHANGED <<running, workspace, mailed, pass, bounds, received, unrecorded>>

\* A statement fails or the process dies: what follows is not done.
LoseHandler(h) ==
    /\ handler[h].ops # <<>>
    /\ Fault
    /\ handler' = [handler EXCEPT ![h] = NoHandler]
    /\ UNCHANGED <<rows, world, mailed, pass, starts, switches, days, history>>

(***************************************************************************)
(* The pass of core/email_scheduler.py.                                    *)
(***************************************************************************)
BadSchedulerLockFree == TRUE

SchedulerLockFree == \A w \in Workers : pass[w].at = "off"

\* pg_try_advisory_xact_lock, and the SELECT of the rows due longest, which are
\* worked on as they are now.
Claim(w) ==
    /\ SchedulerLockFree
    /\ line # <<>>
    /\ LET n == IF Len(line) < Batch THEN Len(line) ELSE Batch
           claims == [k \in 1..n |-> [row |-> line[k], step |-> enrollment[line[k]].step]]
       IN pass' = [pass EXCEPT ![w] = [at |-> "next", todo |-> claims, wrote |-> <<>>,
                                       again |-> {}, sent |-> {}]]
    /\ UNCHANGED <<rows, world, mailed, handler, bounds, history>>

\* A pass that finds nothing due.
IdlePass == SchedulerLockFree /\ line = <<>> /\ UNCHANGED vars

\* A row as the pass sees it, and with new contents.
Seen(w, e) == IF e \in DOMAIN pass[w].wrote THEN pass[w].wrote[e] ELSE enrollment[e]

Write(w, new) ==
    [e \in DOMAIN pass[w].wrote \union DOMAIN new |->
        IF e \in DOMAIN new THEN new[e] ELSE pass[w].wrote[e]]

Current(w) == Head(pass[w].todo).row
NextStep(w) == Head(pass[w].todo).step + 1
Considering(w) == pass[w].at = "next" /\ pass[w].todo # <<>>

\* The pass when it is done with the row it is at.
Onward(w, wrote, again, done) ==
    [at |-> "next", todo |-> Tail(pass[w].todo), wrote |-> wrote, again |-> again, sent |-> done]

MustExit(e) == workspace[e[1]] \in ExitOn(e[2])

\* The day's cap without the pass's own e-mails; the suppression not looked up.
BadWithheldCommitted(w, s) == suppression[s] # "none" \/ s \in mailed
BadWithheldUnsuppressed(w, s) == s \in mailed \/ \E e \in pass[w].sent : e[1] = s

\* send_marketing_email refuses a suppressed address, and a second e-mail in a day.
Withheld(w, s) ==
    \/ suppression[s] # "none"
    \/ s \in mailed
    \/ \E e \in pass[w].sent : e[1] = s

\* An inactive sequence leaves its row as it is, due; so does an exception, which
\* exit rules stored as a string raise every time.
Leave(w) ==
    /\ Considering(w)
    /\ \/ Current(w)[2] \notin running /\ UNCHANGED faults
       \/ ~RulesReadable /\ UNCHANGED faults
       \/ Fault
    /\ pass' = [pass EXCEPT ![w] = Onward(w, @.wrote, @.again, @.sent)]
    /\ UNCHANGED <<rows, world, mailed, handler, starts, switches, days, history>>

\* An exit rule, or no further template, ends the enrollment.  The second is
\* written whatever became of the row since the claim; the end of trust_drip
\* starts the newsletter.
End(w) ==
    LET e == Current(w)
        news == <<e[1], "newsletter">>
    IN /\ Considering(w)
       /\ e[2] \in running
       /\ RulesReadable
       /\ \/ /\ MustExit(e)
             /\ LET exited == [f \in {e} |-> [Seen(w, e) EXCEPT !.status = "exited"]]
                IN pass' = [pass EXCEPT ![w] =
                     Onward(w, IF Seen(w, e).status = "active" THEN Write(w, exited) ELSE @.wrote,
                            @.again, @.sent)]
             /\ UNCHANGED sent
          \/ /\ ~MustExit(e)
             /\ NextStep(w) > Steps[e[2]]
             /\ LET done == [Seen(w, e) EXCEPT !.status = "completed"]
                IN IF e[2] = "trust_drip" /\ news \in Enrollments
                   THEN /\ pass' = [pass EXCEPT ![w] =
                              Onward(w, Write(w, [f \in {e, news} |->
                                                     IF f = e THEN done ELSE Fresh]),
                                     @.again \union {news}, @.sent)]
                        /\ sent' = [sent EXCEPT ![news] = {}]
                   ELSE /\ pass' = [pass EXCEPT ![w] =
                              Onward(w, Write(w, [f \in {e} |-> done]), @.again, @.sent)]
                        /\ UNCHANGED sent
       /\ UNCHANGED <<rows, world, mailed, handler, bounds, received, unrecorded, late, reasons>>

HasStep(w) ==
    /\ Considering(w)
    /\ Current(w)[2] \in running
    /\ RulesReadable
    /\ ~MustExit(Current(w))
    /\ NextStep(w) <= Steps[Current(w)[2]]

\* The row after its step: the step of the claim plus one, over whatever the row
\* holds by now.
Advanced(w) == [Seen(w, Current(w)) EXCEPT !.step = NextStep(w)]

\* An e-mail over the day's cap left due.
BadPassOver(w) ==
    /\ HasStep(w)
    /\ Withheld(w, Current(w)[1])
    /\ pass' = [pass EXCEPT ![w].todo = Tail(@)]
    /\ UNCHANGED <<rows, world, mailed, handler, bounds, history>>

\* A template that is moot is passed over, and the row is due again; an e-mail
\* that may not be sent is recorded as suppressed, and its step is over.
PassOver(w) ==
    /\ HasStep(w)
    /\ \E moot \in BOOLEAN :
         /\ ~moot => Withheld(w, Current(w)[1])
         /\ pass' = [pass EXCEPT ![w] =
              Onward(w, Write(w, [f \in {Current(w)} |-> Advanced(w)]),
                     IF moot THEN @.again \union {Current(w)} ELSE @.again \ {Current(w)},
                     @.sent)]
    /\ UNCHANGED <<rows, world, mailed, handler, bounds, history>>

\* Everything is checked: the request to the provider is under way ...
BeginSend(w) ==
    /\ HasStep(w)
    /\ ~Withheld(w, Current(w)[1])
    /\ pass' = [pass EXCEPT ![w].at = "send"]
    /\ UNCHANGED <<rows, world, mailed, handler, bounds, history>>

\* ... and succeeds, or fails, or fails to be answered.  The step counts as done
\* in each case.
Send(w) ==
    LET e == Current(w)
        s == e[1]
        arrived == /\ received' = [received EXCEPT ![s] = @ + 1]
                   /\ late' = IF suppression[s] = "none" THEN late
                              ELSE [late EXCEPT ![s] = @ + 1]
    IN /\ pass[w].at = "send"
       /\ \E ok \in BOOLEAN :
            /\ pass' = [pass EXCEPT ![w] =
                 Onward(w, Write(w, [f \in {e} |-> Advanced(w)]), @.again \ {e},
                        IF ok THEN @.sent \union {e} ELSE @.sent)]
            /\ \/ /\ ok
                  /\ arrived
                  /\ sent' = [sent EXCEPT ![e] = @ \union {NextStep(w)}]
                  /\ UNCHANGED <<unrecorded, faults>>
               \/ ~ok /\ UNCHANGED <<history, faults>>
               \/ /\ ~ok
                  /\ Fault
                  /\ arrived
                  /\ unrecorded' = [unrecorded EXCEPT ![s] = @ + 1]
                  /\ UNCHANGED sent
       /\ UNCHANGED <<rows, world, mailed, handler, starts, switches, days, reasons>>

CommitPass(w) ==
    LET p == pass[w]
        due == Without(line, DOMAIN p.wrote)
        again == CHOOSE q \in [1..Cardinality(p.again) -> p.again] : Elements(q) = p.again
    IN /\ Considering(w) = FALSE
       /\ p.at = "next"
       /\ enrollment' = [e \in Enrollments |-> Seen(w, e)]
       /\ line' = due \o Only(again, {e \in p.again : Seen(w, e).status = "active"})
       /\ mailed' = mailed \union {e[1] : e \in p.sent}
       /\ pass' = [pass EXCEPT ![w] = NoPass]
       /\ UNCHANGED <<world, handler, bounds, history>>

\* The process dies, or an SQL error in one row's statements leaves the whole
\* transaction aborted: nothing of the pass remains but the e-mails it sent.
AbortPass(w) ==
    /\ pass[w].at # "off"
    /\ Fault
    /\ pass' = [pass EXCEPT ![w] = NoPass]
    /\ sent' = [e \in Enrollments |->
                  IF e \in pass[w].sent THEN sent[e] \ {pass[w].wrote[e].step} ELSE sent[e]]
    /\ unrecorded' = [s \in Subscribers |->
                        unrecorded[s] + Cardinality({e \in pass[w].sent : e[1] = s})]
    /\ UNCHANGED <<rows, world, mailed, handler, starts, switches, days, received, late, reasons>>

Next ==
    \/ \E e \in Enrollments : ElapseDelay(e)
    \/ Tomorrow
    \/ \E q \in Sequences : Switch(q)
    \/ \E s \in Subscribers : PaymentRecovered(s)
    \/ \E h \in Handlers :
         \/ \E s \in Subscribers :
              \/ \E q \in {"newsletter", "trust_drip"} : Subscribe(h, s, q)
              \/ \E reason \in {"unsubscribe", "bounce"} : Suppress(h, s, reason)
              \/ CheckoutCompleted(h, s)
              \/ SubscriptionDeleted(h, s)
              \/ PaymentFailed(h, s)
              \/ AbandonedCheckoutScan(h, s)
              \/ StallNudgeScan(h, s)
         \/ ExecuteOp(h)
         \/ LoseHandler(h)
    \/ \E w \in Workers :
         \/ Claim(w)
         \/ Leave(w)
         \/ End(w)
         \/ PassOver(w)
         \/ BeginSend(w)
         \/ Send(w)
         \/ CommitPass(w)
         \/ AbortPass(w)
    \/ IdlePass

Spec == Init /\ [][Next]_vars

\* The loop of api/main.py runs a pass every quarter of an hour in every process.
Fairness ==
    /\ WF_vars(\E w \in Workers : Claim(w))
    /\ WF_vars(\E w \in Workers : Leave(w) \/ End(w) \/ PassOver(w) \/ BeginSend(w))
    /\ WF_vars(\E w \in Workers : Send(w))
    /\ WF_vars(\E w \in Workers : CommitPass(w))

FairSpec == Spec /\ Fairness

(***************************************************************************)
(* Properties.                                                             *)
(***************************************************************************)
\* No step of an enrollment is sent a second time, as far as the platform can
\* know that it was sent: not by two processes, nor after a pause, an exit, a
\* sequence overtaken by its own re-enrollment or a pass that stopped early.
NoStepSentTwice ==
    \A w \in Workers :
        pass[w].at = "send" => NextStep(w) \notin sent[Current(w)]

\* One marketing e-mail a day reaches a subscriber of several sequences, but for
\* those that the platform could not record.
OneMailADay ==
    \A s \in Subscribers : received[s] <= 1 + unrecorded[s]

\* After an address is suppressed at most the one e-mail arrives that was under
\* way, although passes work on rows claimed before.
SuppressionStopsMail ==
    \A s \in Subscribers : suppression[s] # "none" => late[s] <= 1

\* A due row of an active sequence gets its turn, unless the inactive sequences
\* hold so many rows that these fill every claim.
DueGetsItsTurn ==
    \A e \in Enrollments :
        (e \in Elements(line) /\ e[2] \in running) ~>
            \/ e \notin Elements(line)
            \/ e \in Locked
            \/ e[2] \notin running
            \/ Cardinality({f \in Elements(line) : f[2] \notin running}) >= Batch

\* An address that bounced, or whose owner complained, is cleared by a sign-up
\* only if its owner unsubscribed as well, which overwrites the reason.
BounceHeld ==
    \A s \in Subscribers :
        ("bounce" \in reasons[s] /\ suppression[s] = "none") => "unsubscribe" \in reasons[s]

(***************************************************************************)
(* The inductive invariant behind them.                                    *)
(***************************************************************************)
\* One pass runs at a time.
OnePass ==
    /\ \A w \in Workers :
         /\ pass[w].at = "off" => pass[w] = NoPass
         /\ pass[w].at = "send" => pass[w].todo # <<>>
         /\ IsFiniteSet(pass[w].again)
    /\ \A v, w \in Workers : pass[v].at # "off" /\ pass[w].at # "off" => v = w

\* What a handler still has to do concerns rows there are, and it clears only what
\* its owner asked for.
HandlersWork ==
    \A h \in Handlers : \A n \in 1..Len(handler[h].ops) :
        LET o == handler[h].ops[n]
        IN /\ handler[h].to \in Subscribers
           /\ o.do \in {"enroll", "exit"} => o.what \in Sequences
           /\ o.do = "clear" => "unsubscribe" \in reasons[handler[h].to]

\* A row waits in the line once and is claimed once, and is not to be worked on again
\* once the pass has sent its e-mail.
RowsOnce ==
    /\ \A i, j \in 1..Len(line) : line[i] = line[j] => i = j
    /\ \A w \in Workers : \A i, j \in 1..Len(pass[w].todo) :
          pass[w].todo[i].row = pass[w].todo[j].row => i = j
    /\ \A w \in Workers : \A i \in 1..Len(pass[w].todo) :
          pass[w].todo[i].row \notin pass[w].sent

\* A step that was sent is not after the one that its row tells, or that a claim of
\* the row or the pass's own write tells; the row itself may still be behind what the
\* pass has sent and not committed.
StepsTold ==
    \A e \in Enrollments : \A n \in sent[e] :
        /\ \/ n <= enrollment[e].step
           \/ \E w \in Workers : e \in pass[w].sent /\ n = pass[w].wrote[e].step
        /\ \A w \in Workers :
             /\ e \in DOMAIN pass[w].wrote => n <= pass[w].wrote[e].step
             /\ \A i \in 1..Len(pass[w].todo) :
                  pass[w].todo[i].row = e => n <= pass[w].todo[i].step

\* A subscriber's e-mail of the day is recorded, or is one the pass has sent, and then
\* it is the only one.
DayInv ==
    /\ \A s \in Subscribers :
         received[s] <= unrecorded[s] + IF s \in mailed
                                            \/ \E w \in Workers : \E e \in pass[w].sent : e[1] = s
                                        THEN 1 ELSE 0
    /\ \A w \in Workers : \A e, f \in pass[w].sent :
         e[1] \notin mailed /\ (e[1] = f[1] => e = f)
    /\ \A w \in Workers :
         pass[w].at = "send" =>
             Current(w)[1] \notin mailed /\ \A e \in pass[w].sent : e[1] # Current(w)[1]

\* A suppressed address gets no further e-mail but the one under way.
LateInv ==
    \A s \in Subscribers :
        suppression[s] # "none" =>
            /\ late[s] <= 1
            /\ \A w \in Workers : pass[w].at = "send" /\ Current(w)[1] = s => late[s] = 0

\* The reason for a suppression is one that was given.
ReasonInv == \A s \in Subscribers : suppression[s] \in reasons[s] \union {"none"}

EmailInv == /\ OnePass /\ HandlersWork /\ RowsOnce /\ StepsTold /\ DayInv /\ LateInv
            /\ ReasonInv /\ BounceHeld
=================================================================================
