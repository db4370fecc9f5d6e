------------------------- MODULE NotificationDelivery -------------------------
(***************************************************************************)
(* How an incident is told to a workspace's channels: the fan-out when it  *)
(* is created (core/notifications.py), the dispatch when it is resolved    *)
(* (core/ticketing.py), the retry queue and the quiet-hours digest         *)
(* (core/notification_retry.py) and the settings of the channels           *)
(* (api/routes/workspace_notifications.py).                                *)
(*                                                                         *)
(* The two dispatches are detached tasks of one process with a connection  *)
(* of their own; the retry pass and the digest pass run in every process,  *)
(* each in one transaction under an advisory lock.  What a pass writes is  *)
(* seen by others at its COMMIT only; what it sends cannot be taken back.  *)
(***************************************************************************)
EXTENDS Integers, FiniteSets

CONSTANTS
    Incidents,      \* incidents of one workspace
    Chats,          \* channel types slack and email
    Pagers,         \* channel type pagerduty
    Tickets,        \* channel types jira, linear, github_issues, servicenow
    Workers,        \* processes of the application
    Settings,       \* Settings[c]: what an operator may set channel c to
    MaxAttempts,    \* column max_attempts of the queue
    MaxFaults,      \* bound on crashes, SQL errors and answers that get lost
    MaxNights       \* bound on the times the quiet hours begin

Channels == Chats \union Pagers \union Tickets
Kinds == {"create", "resolve"}

\* Whom an event of each kind is for: ticketing happens on resolution only.
Audience(k) == IF k = "create" THEN Chats \union Pagers ELSE Pagers \union Tickets

Messages == {m \in [incident : Incidents, kind : Kinds, channel : Channels] :
                m.channel \in Audience(m.kind)}

Msg(i, k, c) == [incident |-> i, kind |-> k, channel |-> c]

\* quiet: quiet hours are configured.
SettingsType == [enabled : BOOLEAN, quiet : BOOLEAN]

ASSUME ConstantsOK ==
    /\ Chats \intersect Pagers = {}
    /\ (Chats \union Pagers) \intersect Tickets = {}
    /\ Settings \in [Channels -> SUBSET SettingsType]
    /\ MaxAttempts \in Nat \ {0}
    /\ MaxFaults \in Nat
    /\ MaxNights \in Nat

VARIABLES
    incident,       \* state of the incidents' rows
    channel,        \* workspace_notification_channels
    night,          \* the clock is inside the quiet hours
    task,           \* task[i][k]: the detached dispatch of an event
    queue,          \* notification_retry_queue, one slot per message
    suppressed,     \* notification_suppressed, one slot per message
    retry,          \* retry[w]: the retry pass of a process
    digest,         \* digest[w]: the digest pass of a process
    nights, faults, \* how much of the bounds is used
    \* history, for the properties only
    received,       \* times the provider took the message
    unacknowledged, \* receipts the platform does not know of
    enqueued,       \* messages that were in the queue once
    told            \* withheld messages some digest has told

work == <<task, queue, suppressed, retry, digest>>
ledger == <<received, unacknowledged, enqueued, told>>
vars == <<incident, channel, night, work, nights, faults, ledger>>

NoTask == [at |-> "none", todo |-> {}, quiet |-> {}, failed |-> {}]
NoRow == [status |-> "none", attempts |-> 0, due |-> FALSE]
NewRow == [status |-> "pending", attempts |-> 0, due |-> FALSE]
NoRetry == [on |-> FALSE, todo |-> {}, sent |-> {}, failed |-> {}]
NoDigest == [on |-> FALSE, todo |-> {}, marked |-> {}]

\* One type invariant: what each table, task and pass may hold.
TypeOK ==
    /\ incident \in [Incidents -> {"absent", "open", "resolved"}]
    /\ channel \in [Channels -> SettingsType]
    /\ night \in BOOLEAN
    /\ task \in [Incidents -> [Kinds ->
            [at : {"none", "lookup", "send", "ticket", "done"},
             todo : SUBSET Channels, quiet : SUBSET Channels,
             failed : SUBSET Channels]]]
    /\ \A i \in Incidents, k \in Kinds :
            task[i][k].todo \union task[i][k].failed \subseteq Audience(k)
    /\ queue \in [Messages -> [status : {"none", "pending", "exhausted"},
                               attempts : Nat, due : BOOLEAN]]
    /\ suppressed \in [Messages -> {"none", "held", "digested"}]
    /\ retry \in [Workers -> [on : BOOLEAN, todo : SUBSET Messages,
                              sent : SUBSET Messages, failed : SUBSET Messages]]
    /\ digest \in [Workers -> [on : BOOLEAN, todo : SUBSET Channels,
                               marked : SUBSET Messages]]
    /\ nights \in 0..MaxNights
    /\ faults \in 0..MaxFaults
    /\ received \in [Messages -> Nat]
    /\ unacknowledged \in [Messages -> Nat]
    /\ enqueued \subseteq Messages
    /\ told \subseteq Messages

Init ==
    /\ incident = [i \in Incidents |-> "absent"]
    /\ channel \in [Channels -> UNION {Settings[c] : c \in Channels}]
    /\ \A c \in Channels : channel[c] \in Settings[c]
    /\ night = FALSE
    /\ task = [i \in Incidents |-> [k \in Kinds |-> NoTask]]
    /\ queue = [m \in Messages |-> NoRow]
    /\ suppressed = [m \in Messages |-> "none"]
    /\ retry = [w \in Workers |-> NoRetry]
    /\ digest = [w \in Workers |-> NoDigest]
    /\ nights = 0
    /\ faults = 0
    /\ received = [m \in Messages |-> 0]
    /\ unacknowledged = [m \in Messages |-> 0]
    /\ enqueued = {}
    /\ told = {}

(***************************************************************************)
(* Environment.                                                            *)
(***************************************************************************)
Fault == faults < MaxFaults /\ faults' = faults + 1

\* A provider takes a message.
Receive(m) == received' = [received EXCEPT ![m] = @ + 1]

\* An operator saves a channel's settings at any time.
SetChannel(c) ==
    /\ \E s \in Settings[c] : channel' = [channel EXCEPT ![c] = s]
    /\ UNCHANGED <<incident, night, work, nights, faults, ledger>>

Dusk ==
    /\ ~night
    /\ nights < MaxNights
    /\ night' = TRUE
    /\ nights' = nights + 1
    /\ UNCHANGED <<incident, channel, work, faults, ledger>>

Dawn ==
    /\ night
    /\ night' = FALSE
    /\ UNCHANGED <<incident, channel, work, nights, faults, ledger>>

(***************************************************************************)
(* The dispatches of core/notifications.py and core/ticketing.py.          *)
(***************************************************************************)
\* The first INSERT of an incident schedules its fan-out.
CreateIncident(i) ==
    /\ incident[i] = "absent"
    /\ incident' = [incident EXCEPT ![i] = "open"]
    /\ task' = [task EXCEPT ![i]["create"].at = "lookup"]
    /\ UNCHANGED <<channel, night, queue, suppressed, retry, digest, nights, faults, ledger>>

\* mark_executed or a manual resolution schedules the resolution's dispatch.
ResolveIncident(i) ==
    /\ incident[i] = "open"
    /\ incident' = [incident EXCEPT ![i] = "resolved"]
    /\ task' = [task EXCEPT ![i]["resolve"].at = "lookup"]
    /\ UNCHANGED <<channel, night, queue, suppressed, retry, digest, nights, faults, ledger>>

\* SELECT of the channels: their quiet hours and configuration are used as they
\* were read here.  The filter by a channel's min_severity passes everything, as
\* the gate's summary names no severity.  A resolution ignores quiet hours.
Lookup(i, k) ==
    LET to == {c \in IF k = "create" THEN Chats \union Pagers ELSE Pagers :
                  channel[c].enabled}
    IN /\ task[i][k].at = "lookup"
       /\ task' = [task EXCEPT ![i][k] =
                     [at |-> "send", todo |-> to, failed |-> {},
                      quiet |-> IF k = "create"
                                THEN {c \in to : channel[c].quiet} ELSE {}]]
       /\ UNCHANGED <<incident, channel, night, queue, suppressed, retry,
                      digest, nights, faults, ledger>>

\* The resolution's second lookup: one ticketing channel, if any is enabled.
TicketLookup(i) ==
    LET on == {c \in Tickets : channel[c].enabled}
    IN /\ task[i]["resolve"].at = "send"
       /\ task[i]["resolve"].todo = {}
       /\ task[i]["resolve"].failed = {}
       /\ IF on = {}
          THEN task' = [task EXCEPT ![i]["resolve"].at = "done"]
          ELSE \E c \in on :
                 task' = [task EXCEPT ![i]["resolve"] =
                            [at |-> "ticket", todo |-> {c}, quiet |-> {}, failed |-> {}]]
       /\ UNCHANGED <<incident, channel, night, queue, suppressed, retry,
                      digest, nights, faults, ledger>>

Sending(i, k, c) ==
    /\ task[i][k].at \in {"send", "ticket"}
    /\ task[i][k].failed = {}
    /\ c \in task[i][k].todo

\* The dispatch is done with c, which is among failed if it could not be told.
Dealt(i, k, c, failed) ==
    task' = [task EXCEPT ![i][k] =
               [at |-> task[i][k].at, todo |-> task[i][k].todo \ {c},
                quiet |-> task[i][k].quiet, failed |-> failed]]

\* In quiet hours the message is recorded as suppressed; the record may fail,
\* which nobody is told of.
Withhold(i, c) ==
    /\ Sending(i, "create", c)
    /\ night /\ c \in task[i]["create"].quiet
    /\ Dealt(i, "create", c, {})
    /\ \/ /\ suppressed' = [suppressed EXCEPT ![Msg(i, "create", c)] = "held"]
          /\ UNCHANGED faults
       \/ Fault /\ UNCHANGED suppressed
    /\ UNCHANGED <<incident, channel, night, queue, retry, digest, nights, ledger>>

\* The send succeeds; or it raises; or the provider took the message and its
\* answer was lost, which raises as well.
Send(i, k, c) ==
    /\ Sending(i, k, c)
    /\ ~(night /\ c \in task[i][k].quiet)
    /\ \/ /\ Receive(Msg(i, k, c))
          /\ Dealt(i, k, c, {})
          /\ UNCHANGED <<unacknowledged, faults>>
       \/ /\ Dealt(i, k, c, {c})
          /\ UNCHANGED <<received, unacknowledged, faults>>
       \/ /\ Fault
          /\ Receive(Msg(i, k, c))
          /\ unacknowledged' = [unacknowledged EXCEPT ![Msg(i, k, c)] = @ + 1]
          /\ Dealt(i, k, c, {c})
    /\ UNCHANGED <<incident, channel, night, queue, suppressed, retry, digest,
                   nights, enqueued, told>>

\* enqueue_retry after a failed send; its own failure is swallowed.
EnqueueRetry(i, k, c) ==
    /\ c \in task[i][k].failed
    /\ task' = [task EXCEPT ![i][k].failed = {}]
    /\ \/ /\ queue' = [queue EXCEPT ![Msg(i, k, c)] = NewRow]
          /\ enqueued' = enqueued \union {Msg(i, k, c)}
          /\ UNCHANGED faults
       \/ Fault /\ UNCHANGED <<queue, enqueued>>
    /\ UNCHANGED <<incident, channel, night, suppressed, retry, digest, nights, received, unacknowledged, told>>

EndTask(i, k) ==
    /\ task[i][k].at = (IF k = "create" THEN "send" ELSE "ticket")
    /\ task[i][k].todo = {} /\ task[i][k].failed = {}
    /\ task' = [task EXCEPT ![i][k].at = "done"]
    /\ UNCHANGED <<incident, channel, night, queue, suppressed, retry, digest,
                   nights, faults, ledger>>

\* A lookup or its connection fails, or the process dies: the rest of the
\* dispatch is lost.
LoseTask(i, k) ==
    /\ task[i][k].at \in {"lookup", "send", "ticket"}
    /\ Fault
    /\ task' = [task EXCEPT ![i][k] = [NoTask EXCEPT !.at = "done"]]
    /\ UNCHANGED <<incident, channel, night, queue, suppressed, retry, digest,
                   nights, ledger>>

(***************************************************************************)
(* The retry pass of core/notification_retry.py, run every minute.         *)
(***************************************************************************)
Due == {m \in Messages : queue[m].status = "pending" /\ queue[m].due}

\* next_attempt_at arrives.
ElapseBackoff(m) ==
    /\ queue[m].status = "pending"
    /\ ~queue[m].due
    /\ queue' = [queue EXCEPT ![m].due = TRUE]
    /\ UNCHANGED <<incident, channel, night, task, suppressed, retry, digest,
                   nights, faults, ledger>>

\* Passes without the advisory lock.
BadRetryLockFree == TRUE

RetryLockFree == \A w \in Workers : ~retry[w].on

\* pg_try_advisory_xact_lock, then the SELECT of the due rows.  A pass that
\* gets no lock, or finds nothing due, changes nothing.
BeginRetries(w) ==
    /\ RetryLockFree
    /\ Due # {}
    /\ retry' = [retry EXCEPT ![w] = 
                  [on |-> TRUE, todo |-> Due, sent |-> {}, failed |-> {}]]
    /\ UNCHANGED <<incident, channel, night, task, queue, suppressed, digest,
                   nights, faults, ledger>>

\* The pass is done with a row.
Tried(w, m, sent, failed) ==
    retry' = [retry EXCEPT ![w] = [on |-> TRUE, todo |-> retry[w].todo \ {m},
                                   sent |-> retry[w].sent \union sent,
                                   failed |-> retry[w].failed \union failed]]

\* _attempt_send reads the channel's configuration afresh: a channel switched
\* off counts as a failed attempt.  The row is deleted or rescheduled in the
\* pass's transaction.
AttemptSend(w, m) ==
    /\ m \in retry[w].todo
    /\ \/ /\ channel[m.channel].enabled
          /\ Receive(m)
          /\ Tried(w, m, {m}, {})
          /\ UNCHANGED <<unacknowledged, faults>>
       \/ /\ Tried(w, m, {}, {m})
          /\ UNCHANGED <<received, unacknowledged, faults>>
       \/ /\ channel[m.channel].enabled
          /\ Fault
          /\ Receive(m)
          /\ unacknowledged' = [unacknowledged EXCEPT ![m] = @ + 1]
          /\ Tried(w, m, {}, {m})
    /\ UNCHANGED <<incident, channel, night, task, queue, suppressed, digest,
                   nights, enqueued, told>>

\* A retry that does not count itself.
BadFailedUncounted(row) ==
    [status |-> "pending", attempts |-> row.attempts, due |-> FALSE]

\* The row after a failed attempt: rescheduled, or given up.
Failed(row) ==
    [status |-> IF row.attempts + 1 >= MaxAttempts THEN "exhausted" ELSE "pending",
     attempts |-> row.attempts + 1,
     due |-> FALSE]

\* Rows deleted whether or not they were sent.
BadCommitRetries(w) ==
    /\ retry[w].on
    /\ retry[w].todo = {}
    /\ queue' = [m \in Messages |->
                    IF m \in retry[w].sent \union retry[w].failed THEN NoRow
                    ELSE queue[m]]
    /\ retry' = [retry EXCEPT ![w] = NoRetry]
    /\ UNCHANGED <<incident, channel, night, task, suppressed, digest,
                   nights, faults, ledger>>

CommitRetries(w) ==
    /\ retry[w].on
    /\ retry[w].todo = {}
    /\ queue' = [m \in Messages |->
                    IF m \in retry[w].sent THEN NoRow
                    ELSE IF m \in retry[w].failed THEN Failed(queue[m])
                    ELSE queue[m]]
    /\ retry' = [retry EXCEPT ![w] = NoRetry]
    /\ UNCHANGED <<incident, channel, night, task, suppressed, digest, nights, faults, ledger>>

\* The process dies, or an SQL error of one row's bookkeeping leaves the
\* transaction aborted: everything the pass wrote is rolled back, although
\* what it sent was received.
AbortRetries(w) ==
    /\ retry[w].on
    /\ Fault
    /\ unacknowledged' = [m \in Messages |->
                            IF m \in retry[w].sent THEN unacknowledged[m] + 1
                            ELSE unacknowledged[m]]
    /\ retry' = [retry EXCEPT ![w] = NoRetry]
    /\ UNCHANGED <<incident, channel, night, task, queue, suppressed, digest,
                   nights, received, enqueued, told>>

(***************************************************************************)
(* The digest pass of core/notification_retry.py, run every ten minutes.   *)
(***************************************************************************)
Held(c) == {m \in Messages : m.channel = c /\ suppressed[m] = "held"}

DigestLockFree == \A w \in Workers : ~digest[w].on

\* The lock, and the SELECT of the channels that are enabled and have quiet
\* hours.  A pass with nothing to tell changes nothing and is left out.
BeginDigests(w) ==
    LET quiet == {c \in Channels : channel[c].enabled /\ channel[c].quiet}
    IN /\ DigestLockFree
       /\ \E c \in quiet : Held(c) # {}
       /\ digest' = [digest EXCEPT ![w] = [on |-> TRUE, todo |-> quiet, marked |-> {}]]
       /\ UNCHANGED <<incident, channel, night, task, queue, suppressed, retry,
                      nights, faults, ledger>>

\* A channel inside its quiet hours is left for a later pass.
SkipChannel(w, c) ==
    /\ c \in digest[w].todo
    /\ night \/ Held(c) = {}
    /\ digest' = [digest EXCEPT ![w].todo = @ \ {c}]
    /\ UNCHANGED <<incident, channel, night, task, queue, suppressed, retry,
                   nights, faults, ledger>>

\* Rows marked digested even if the digest could not be sent.
BadSendDigestMarks(w, c) ==
    /\ c \in digest[w].todo
    /\ ~night
    /\ Held(c) # {}
    /\ digest' = [digest EXCEPT ![w].todo = @ \ {c}, ![w].marked = @ \union Held(c)]
    /\ \/ told' = told \union Held(c) /\ UNCHANGED faults
       \/ Fault /\ UNCHANGED told
    /\ UNCHANGED <<incident, channel, night, task, queue, suppressed, retry,
                   nights, received, unacknowledged, enqueued>>

\* The test of the window the wrong way round.
BadSendDigestInside(w, c) ==
    /\ c \in digest[w].todo
    /\ night
    /\ Held(c) # {}
    /\ digest' = [digest EXCEPT ![w].todo = @ \ {c}, ![w].marked = @ \union Held(c)]
    /\ told' = told \union Held(c)
    /\ UNCHANGED <<incident, channel, night, task, queue, suppressed, retry,
                   nights, faults, received, unacknowledged, enqueued>>

\* One digest tells all that was withheld from the channel; a pager is told
\* nothing, by design.  A digest that fails is left for a later pass.
SendDigest(w, c) ==
    /\ c \in digest[w].todo
    /\ ~night
    /\ Held(c) # {}
    /\ \/ /\ digest' = [digest EXCEPT ![w] =
                           [on |-> TRUE, todo |-> digest[w].todo \ {c},
                            marked |-> digest[w].marked \union Held(c)]]
          /\ told' = IF c \in Pagers THEN told ELSE told \union Held(c)
          /\ UNCHANGED faults
       \/ /\ Fault
          /\ digest' = [digest EXCEPT ![w].todo = @ \ {c}]
          /\ UNCHANGED told
    /\ UNCHANGED <<incident, channel, night, task, queue, suppressed, retry,
                   nights, received, unacknowledged, enqueued>>

CommitDigests(w) ==
    /\ digest[w].on
    /\ digest[w].todo = {}
    /\ suppressed' = [m \in Messages |->
                        IF m \in digest[w].marked THEN "digested" ELSE suppressed[m]]
    /\ digest' = [digest EXCEPT ![w] = NoDigest]
    /\ UNCHANGED <<incident, channel, night, task, queue, retry, nights,
                   faults, ledger>>

\* The process dies or an SQL error aborts the pass: nothing is marked.
AbortDigests(w) ==
    /\ digest[w].on
    /\ Fault
    /\ digest' = [digest EXCEPT ![w] = NoDigest]
    /\ UNCHANGED <<incident, channel, night, task, queue, suppressed, retry,
                   nights, ledger>>

Next ==
    \/ \E c \in Channels : SetChannel(c)
    \/ Dusk
    \/ Dawn
    \/ \E i \in Incidents :
         \/ CreateIncident(i)
         \/ ResolveIncident(i)
         \/ TicketLookup(i)
         \/ \E c \in Channels : Withhold(i, c)
         \/ \E k \in Kinds :
              \/ Lookup(i, k)
              \/ EndTask(i, k)
              \/ LoseTask(i, k)
              \/ \E c \in Channels : Send(i, k, c) \/ EnqueueRetry(i, k, c)
    \/ \E m \in Messages : ElapseBackoff(m)
    \/ \E w \in Workers :
         \/ BeginRetries(w)
         \/ \E m \in Messages : AttemptSend(w, m)
         \/ CommitRetries(w)
         \/ AbortRetries(w)
         \/ BeginDigests(w)
         \/ \E c \in Channels : SkipChannel(w, c) \/ SendDigest(w, c)
         \/ CommitDigests(w)
         \/ AbortDigests(w)

Spec == Init /\ [][Next]_vars

\* The loops of api/main.py run for ever in every process and time passes.
Fairness ==
    /\ WF_vars(Dawn)
    /\ \A m \in Messages : WF_vars(ElapseBackoff(m))
    /\ WF_vars(\E w \in Workers : BeginRetries(w))
    /\ WF_vars(\E w \in Workers, m \in Messages : AttemptSend(w, m))
    /\ WF_vars(\E w \in Workers : CommitRetries(w))
    /\ WF_vars(\E w \in Workers : BeginDigests(w))
    /\ WF_vars(\E w \in Workers, c \in Channels : SkipChannel(w, c) \/ SendDigest(w, c))
    /\ WF_vars(\E w \in Workers : CommitDigests(w))

FairSpec == Spec /\ Fairness

(***************************************************************************)
(* Properties.                                                             *)
(***************************************************************************)
\* A message reaches its provider more than once only when the platform could
\* not know that it had arrived: the answer was lost, or the pass that sent it
\* was rolled back.  Two processes, or a dispatch and a pass, never both send.
EveryDuplicateExplained ==
    \A m \in Messages : received[m] <= 1 + unacknowledged[m]

\* What entered the retry queue is still there, pending or flagged exhausted,
\* or its delivery is known; no crash or rollback loses it.
NothingQueuedIsLost ==
    \A m \in enqueued :
        \/ queue[m].status \in {"pending", "exhausted"}
        \/ received[m] > unacknowledged[m]

\* A chat's withheld message is marked digested only after a digest told it.
DigestedWasTold ==
    \A m \in Messages :
        (suppressed[m] = "digested" /\ m.channel \in Chats) => m \in told

\* Every queued message is delivered or given up in the end, whatever the
\* settings of its channel become.
QueuedIsSettled ==
    \A m \in Messages : queue[m].status = "pending" ~> queue[m].status # "pending"

\* What was withheld is told after the quiet hours, unless the channel is
\* switched off or loses its quiet hours first.
WithheldIsTold ==
    \A m \in Messages :
        suppressed[m] = "held" ~>
            \/ suppressed[m] = "digested"
            \/ ~channel[m.channel].enabled
            \/ ~channel[m.channel].quiet
===============================================================================
