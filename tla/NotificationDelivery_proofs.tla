---------------------- MODULE NotificationDelivery_proofs ----------------------
(***************************************************************************)
(* Proofs about NotificationDelivery, for any incidents, channels, workers *)
(* and bounds: its types, and what is sent twice, lost and digested.       *)
(***************************************************************************)
EXTENDS NotificationDelivery, TLAPS

-----------------------------------------------------------------------------
(* Types. *)

TaskType == [at : {"none", "lookup", "send", "ticket", "done"},
             todo : SUBSET Channels, quiet : SUBSET Channels,
             failed : SUBSET Channels]
TaskOK(t) == /\ t \in [Incidents -> [Kinds -> TaskType]]
             /\ \A i \in Incidents, k \in Kinds :
                  t[i][k].todo \union t[i][k].failed \subseteq Audience(k)
RowType == [status : {"none", "pending", "exhausted"}, attempts : Nat, due : BOOLEAN]
RetryType == [on : BOOLEAN, todo : SUBSET Messages,
              sent : SUBSET Messages, failed : SUBSET Messages]
DigestType == [on : BOOLEAN, todo : SUBSET Channels, marked : SUBSET Messages]
FaultsOK == faults' \in 0..MaxFaults

\* A message is a record of an incident, a kind of event and a channel the
\* event is for.
LEMMA MsgType ==
    ASSUME NEW i \in Incidents, NEW k \in Kinds, NEW c \in Audience(k)
    PROVE  /\ Msg(i, k, c) \in Messages
           /\ Msg(i, k, c).incident = i /\ Msg(i, k, c).kind = k
           /\ Msg(i, k, c).channel = c
BY DEF Msg, Messages, Audience, Channels

\* A message is known by its three fields.
LEMMA MsgFields ==
    ASSUME NEW m \in Messages
    PROVE  /\ m.incident \in Incidents /\ m.kind \in Kinds /\ m.channel \in Audience(m.kind)
           /\ m.channel \in Channels
           /\ m = Msg(m.incident, m.kind, m.channel)
BY DEF Msg, Messages

\* One dispatch may be given any state that is for the audience of its event.
LEMMA TaskTyped ==
    ASSUME TypeOK, NEW i \in Incidents, NEW k \in Kinds, NEW q \in TaskType,
           q.todo \union q.failed \subseteq Audience(k)
    PROVE  /\ TaskOK([task EXCEPT ![i][k] = q])
           /\ \A j \in Incidents, l \in Kinds :
                [task EXCEPT ![i][k] = q][j][l] = IF j = i /\ l = k THEN q ELSE task[j][l]
<1>1. task \in [Incidents -> [Kinds -> TaskType]]
  BY DEF TypeOK, TaskType
<1>2. [task EXCEPT ![i][k] = q] \in [Incidents -> [Kinds -> TaskType]]
  BY <1>1
<1>3. \A j \in Incidents, l \in Kinds :
        [task EXCEPT ![i][k] = q][j][l] = IF j = i /\ l = k THEN q ELSE task[j][l]
  BY <1>1
<1> QED BY <1>2, <1>3 DEF TaskOK, TypeOK

\* The settings, the nights and the faults of a step that changes them keep
\* their types.
LEMMA FaultTyped == TypeOK /\ (Fault \/ UNCHANGED faults) => FaultsOK
BY ConstantsOK DEF TypeOK, Fault, FaultsOK

\* What every step of a dispatch leaves alone, and what may change with it.
DispatchFrame == UNCHANGED <<channel, night, retry, digest, nights, told>>

\* A dispatch that keeps its own type keeps all types.
LEMMA DispatchTyped ==
    ASSUME TypeOK, DispatchFrame, FaultsOK,
           incident' \in [Incidents -> {"absent", "open", "resolved"}],
           TaskOK(task'),
           queue' \in [Messages -> RowType],
           suppressed' \in [Messages -> {"none", "held", "digested"}],
           received' \in [Messages -> Nat], unacknowledged' \in [Messages -> Nat],
           enqueued' \subseteq Messages
    PROVE  TypeOK'
BY DEF TypeOK, DispatchFrame, FaultsOK, TaskType, TaskOK, RowType

\* The steps of the dispatches keep the types.
LEMMA DispatchStepTyped ==
    ASSUME TypeOK, NEW i \in Incidents, NEW k \in Kinds,
           \/ CreateIncident(i) \/ ResolveIncident(i) \/ TicketLookup(i)
           \/ Lookup(i, k) \/ EndTask(i, k) \/ LoseTask(i, k)
           \/ \E c \in Channels : Withhold(i, c) \/ Send(i, k, c) \/ EnqueueRetry(i, k, c)
    PROVE  TypeOK'
<1> USE DEF ledger
<1>t. ASSUME NEW j \in Incidents, NEW l \in Kinds
      PROVE  /\ task[j][l] \in TaskType
             /\ task[j][l].todo \union task[j][l].failed \subseteq Audience(l)
  BY DEF TypeOK, TaskType
<1>a. ASSUME NEW j \in Incidents, NEW l \in Kinds,
             NEW a \in {"none", "lookup", "send", "ticket", "done"}
      PROVE  TaskOK([task EXCEPT ![j][l].at = a])
  <2> DEFINE q == [task[j][l] EXCEPT !.at = a]
  <2>0. task[j][l] \in TaskType
    BY <1>t
  <2>1. q \in TaskType /\ q.todo = task[j][l].todo /\ q.failed = task[j][l].failed
    BY <2>0 DEF TaskType
  <2>2. [task EXCEPT ![j][l].at = a] = [task EXCEPT ![j][l] = q]
    OBVIOUS
  <2>3. q.todo \union q.failed \subseteq Audience(l)
    BY <1>t, <2>1
  <2> HIDE DEF q
  <2> QED BY <2>1, <2>2, <2>3, TaskTyped
<1>k. "create" \in Kinds /\ "resolve" \in Kinds
  BY DEF Kinds
<1>1. CASE CreateIncident(i)
  <2>1. TaskOK(task')
    BY <1>1, <1>a, <1>k DEF CreateIncident
  <2>2. incident' \in [Incidents -> {"absent", "open", "resolved"}]
    BY <1>1 DEF CreateIncident, TypeOK
  <2> QED BY <1>1, <2>1, <2>2, DispatchTyped, FaultTyped
          DEF CreateIncident, DispatchFrame, TypeOK, RowType
<1>2. CASE ResolveIncident(i)
  <2>1. TaskOK(task')
    BY <1>2, <1>a, <1>k DEF ResolveIncident
  <2>2. incident' \in [Incidents -> {"absent", "open", "resolved"}]
    BY <1>2 DEF ResolveIncident, TypeOK
  <2> QED BY <1>2, <2>1, <2>2, DispatchTyped, FaultTyped
          DEF ResolveIncident, DispatchFrame, TypeOK, RowType
<1>u. ASSUME TaskOK(task'),
             Fault \/ UNCHANGED faults,
             UNCHANGED <<incident, channel, night, queue, suppressed, retry, digest,
                         nights, ledger>>
      PROVE  TypeOK'
  BY <1>u, DispatchTyped, FaultTyped DEF DispatchFrame, TypeOK, RowType
<1>3. CASE TicketLookup(i)
  <2>2. TaskOK(task')
    <3>1. CASE task' = [task EXCEPT ![i]["resolve"].at = "done"]
      BY <1>a, <1>k, <3>1
    <3>2. ASSUME NEW d \in Tickets,
                 task' = [task EXCEPT ![i]["resolve"] =
                            [at |-> "ticket", todo |-> {d}, quiet |-> {}, failed |-> {}]]
          PROVE  TaskOK(task')
      <4> DEFINE q == [at |-> "ticket", todo |-> {d}, quiet |-> {}, failed |-> {}]
      <4>1. q \in TaskType /\ q.todo \union q.failed \subseteq Audience("resolve")
        BY DEF TaskType, Channels, Audience
      <4>2. task' = [task EXCEPT ![i]["resolve"] = q]
        BY <3>2
      <4> HIDE DEF q
      <4> QED BY <1>k, <4>1, <4>2, TaskTyped
    <3>3. \/ task' = [task EXCEPT ![i]["resolve"].at = "done"]
          \/ \E d \in Tickets :
               task' = [task EXCEPT ![i]["resolve"] =
                          [at |-> "ticket", todo |-> {d}, quiet |-> {}, failed |-> {}]]
      BY <1>3 DEF TicketLookup
    <3> QED BY <3>1, <3>2, <3>3
  <2> QED BY <1>3, <1>u, <2>2 DEF TicketLookup
<1>4. CASE Lookup(i, k)
  <2> DEFINE to == {d \in IF k = "create" THEN Chats \union Pagers ELSE Pagers :
                      channel[d].enabled}
             q == [at |-> "send", todo |-> to, failed |-> {},
                   quiet |-> IF k = "create" THEN {d \in to : channel[d].quiet} ELSE {}]
  <2>1. q \in TaskType /\ q.todo \union q.failed \subseteq Audience(k)
    BY DEF TaskType, Channels, Audience, Kinds
  <2>2. task' = [task EXCEPT ![i][k] = q]
    BY <1>4 DEF Lookup
  <2> HIDE DEF q
  <2>3. TaskOK(task')
    BY <2>1, <2>2, TaskTyped
  <2> QED BY <1>4, <1>u, <2>3 DEF Lookup
<1>5. CASE EndTask(i, k)
  BY <1>5, <1>u, <1>a DEF EndTask
<1>6. CASE LoseTask(i, k)
  <2> DEFINE q == [NoTask EXCEPT !.at = "done"]
  <2>1. q \in TaskType /\ q.todo \union q.failed \subseteq Audience(k)
    BY DEF NoTask, TaskType
  <2>2. TaskOK(task')
    <3> HIDE DEF q
    <3>1. task' = [task EXCEPT ![i][k] = q]
      BY <1>6 DEF LoseTask, q
    <3> QED BY <2>1, <3>1, TaskTyped
  <2> QED BY <1>6, <1>u, <2>2 DEF LoseTask
<1>d. ASSUME NEW c \in Channels, NEW l \in Kinds, NEW f \in SUBSET Audience(l), Dealt(i, l, c, f)
      PROVE  TaskOK(task')
  <2> DEFINE q == [at |-> task[i][l].at, todo |-> task[i][l].todo \ {c},
                   quiet |-> task[i][l].quiet, failed |-> f]
  <2>0. task[i][l] \in TaskType /\ Audience(l) \subseteq Channels
    BY <1>t, <1>d DEF Audience, Channels
  <2>1. q \in TaskType /\ q.todo \union q.failed \subseteq Audience(l)
    BY <1>t, <1>d, <2>0 DEF TaskType
  <2>2. task' = [task EXCEPT ![i][l] = q]
    BY <1>d DEF Dealt
  <2> HIDE DEF q
  <2> QED BY <2>1, <2>2, TaskTyped
<1>7. ASSUME NEW c \in Channels, Withhold(i, c) PROVE TypeOK'
  <2>1. TaskOK(task')
    BY <1>7, <1>d, <1>k DEF Withhold
  <2>2. suppressed' \in [Messages -> {"none", "held", "digested"}]
    BY <1>7 DEF Withhold, TypeOK
  <2>3. FaultsOK
    BY <1>7, FaultTyped DEF Withhold
  <2> QED BY <1>7, <2>1, <2>2, <2>3, DispatchTyped
          DEF Withhold, DispatchFrame, TypeOK, RowType
<1>8. ASSUME NEW c \in Channels, Send(i, k, c) PROVE TypeOK'
  <2>1. TaskOK(task')
    <3>1. c \in Audience(k)
      BY <1>8, <1>t DEF Send, Sending
    <3> QED BY <1>8, <1>d, <3>1 DEF Send
  <2>2. received' \in [Messages -> Nat] /\ unacknowledged' \in [Messages -> Nat]
    <3> DEFINE m == Msg(i, k, c)
    <3>0. m \in Messages
      <4>1. c \in Audience(k)
        BY <1>8, <1>t DEF Send, Sending
      <4> QED BY <4>1, MsgType
    <3>1. \/ received' = [received EXCEPT ![m] = @ + 1]
          \/ received' = received
      BY <1>8 DEF Send, Receive
    <3>2. \/ unacknowledged' = [unacknowledged EXCEPT ![m] = @ + 1]
          \/ unacknowledged' = unacknowledged
      BY <1>8 DEF Send
    <3>3. received \in [Messages -> Nat] /\ unacknowledged \in [Messages -> Nat]
      BY DEF TypeOK
    <3> HIDE DEF m
    <3> QED BY <3>0, <3>1, <3>2, <3>3
  <2>3. FaultsOK
    BY <1>8, FaultTyped DEF Send
  <2> QED BY <1>8, <2>1, <2>2, <2>3, DispatchTyped
          DEF Send, DispatchFrame, TypeOK, RowType
<1>9. ASSUME NEW c \in Channels, EnqueueRetry(i, k, c) PROVE TypeOK'
  <2>1. TaskOK(task')
    <3> DEFINE q == [task[i][k] EXCEPT !.failed = {}]
    <3>0. task[i][k] \in TaskType /\ task[i][k].todo \union task[i][k].failed \subseteq Audience(k)
      BY <1>t
    <3>1. q \in TaskType /\ q.todo \union q.failed \subseteq Audience(k)
      BY <3>0 DEF TaskType
    <3>2. task' = [task EXCEPT ![i][k] = q]
      BY <1>9 DEF EnqueueRetry
    <3> HIDE DEF q
    <3> QED BY <3>1, <3>2, TaskTyped
  <2>2. NewRow \in RowType
    BY DEF NewRow, RowType
  <2>3. queue' \in [Messages -> RowType] /\ enqueued' \subseteq Messages
    <3>0. queue \in [Messages -> RowType]
      BY DEF TypeOK, RowType
    <3>1. CASE UNCHANGED <<queue, enqueued>>
      BY <3>0, <3>1 DEF TypeOK
    <3>2. CASE /\ queue' = [queue EXCEPT ![Msg(i, k, c)] = NewRow]
               /\ enqueued' = enqueued \union {Msg(i, k, c)}
               /\ Msg(i, k, c) \in Messages
      BY <2>2, <3>0, <3>2 DEF TypeOK
    <3>3. Msg(i, k, c) \in Messages
      <4>1. c \in Audience(k)
        BY <1>9, <1>t DEF EnqueueRetry
      <4> QED BY <4>1, MsgType
    <3> QED BY <1>9, <3>1, <3>2, <3>3 DEF EnqueueRetry
  <2>4. FaultsOK
    BY <1>9, FaultTyped DEF EnqueueRetry
  <2> QED BY <1>9, <2>1, <2>3, <2>4, DispatchTyped
          DEF EnqueueRetry, DispatchFrame, TypeOK, RowType
<1> QED BY <1>1, <1>2, <1>3, <1>4, <1>5, <1>6, <1>7, <1>8, <1>9

\* What a pass leaves alone.
PassFrame == UNCHANGED <<incident, channel, night, task, nights, enqueued>>

\* A pass that keeps its own type keeps all types.
LEMMA PassTyped ==
    ASSUME TypeOK, PassFrame, FaultsOK,
           queue' \in [Messages -> RowType],
           suppressed' \in [Messages -> {"none", "held", "digested"}],
           retry' \in [Workers -> RetryType], digest' \in [Workers -> DigestType],
           received' \in [Messages -> Nat], unacknowledged' \in [Messages -> Nat],
           told' \subseteq Messages
    PROVE  TypeOK'
BY DEF TypeOK, PassFrame, FaultsOK, RowType, RetryType, DigestType

\* A row stays a row when its retry failed.
LEMMA FailedTyped == \A row \in RowType : Failed(row) \in RowType
BY DEF Failed, RowType

\* The steps of the retry pass keep the types.
LEMMA RetryStepTyped ==
    ASSUME TypeOK, NEW w \in Workers,
           \/ BeginRetries(w) \/ CommitRetries(w) \/ AbortRetries(w)
           \/ \E m \in Messages : AttemptSend(w, m)
    PROVE  TypeOK'
<1> USE DEF ledger
<1>0. /\ queue \in [Messages -> RowType] /\ retry \in [Workers -> RetryType]
      /\ digest \in [Workers -> DigestType] /\ retry[w] \in RetryType
      /\ suppressed \in [Messages -> {"none", "held", "digested"}]
      /\ received \in [Messages -> Nat] /\ unacknowledged \in [Messages -> Nat]
      /\ told \subseteq Messages
  BY DEF TypeOK, RowType, RetryType, DigestType
<1>1. NoRetry \in RetryType
  BY DEF NoRetry, RetryType
<1>2. CASE BeginRetries(w)
  <2> DEFINE q == [on |-> TRUE, todo |-> Due, sent |-> {}, failed |-> {}]
  <2>1. q \in RetryType
    BY DEF RetryType, Due
  <2>2. retry' = [retry EXCEPT ![w] = q]
    BY <1>2 DEF BeginRetries
  <2> HIDE DEF q
  <2>3. retry' \in [Workers -> RetryType]
    BY <1>0, <2>1, <2>2
  <2> QED BY <1>0, <1>2, <2>3, PassTyped, FaultTyped DEF BeginRetries, PassFrame
<1>3. ASSUME NEW m \in Messages, AttemptSend(w, m) PROVE TypeOK'
  <2>1. ASSUME NEW s \in SUBSET Messages, NEW f \in SUBSET Messages, Tried(w, m, s, f)
        PROVE  retry' \in [Workers -> RetryType]
    <3> DEFINE q == [on |-> TRUE, todo |-> retry[w].todo \ {m},
                     sent |-> retry[w].sent \union s, failed |-> retry[w].failed \union f]
    <3>1. q \in RetryType
      BY <1>0 DEF RetryType
    <3>2. retry' = [retry EXCEPT ![w] = q]
      BY <2>1 DEF Tried
    <3> HIDE DEF q
    <3> QED BY <1>0, <3>1, <3>2
  <2>2. retry' \in [Workers -> RetryType]
    BY <1>3, <2>1 DEF AttemptSend
  <2>3. received' \in [Messages -> Nat] /\ unacknowledged' \in [Messages -> Nat]
    <3>1. \/ received' = [received EXCEPT ![m] = @ + 1]
          \/ received' = received
      BY <1>3 DEF AttemptSend, Receive
    <3>2. \/ unacknowledged' = [unacknowledged EXCEPT ![m] = @ + 1]
          \/ unacknowledged' = unacknowledged
      BY <1>3 DEF AttemptSend
    <3> QED BY <1>0, <3>1, <3>2
  <2>4. FaultsOK
    BY <1>3, FaultTyped DEF AttemptSend
  <2> QED BY <1>0, <1>3, <2>2, <2>3, <2>4, PassTyped DEF AttemptSend, PassFrame
<1>4. CASE CommitRetries(w)
  <2>1. queue' \in [Messages -> RowType]
    <3>1. NoRow \in RowType
      BY DEF NoRow, RowType
    <3> QED BY <1>0, <1>4, <3>1, FailedTyped DEF CommitRetries
  <2>2. retry' \in [Workers -> RetryType]
    BY <1>0, <1>1, <1>4 DEF CommitRetries
  <2> QED BY <1>0, <1>4, <2>1, <2>2, PassTyped, FaultTyped DEF CommitRetries, PassFrame
<1>5. CASE AbortRetries(w)
  <2>1. retry' \in [Workers -> RetryType] /\ unacknowledged' \in [Messages -> Nat]
    BY <1>0, <1>1, <1>5 DEF AbortRetries
  <2>2. FaultsOK
    BY <1>5, FaultTyped DEF AbortRetries
  <2> QED BY <1>0, <1>5, <2>1, <2>2, PassTyped DEF AbortRetries, PassFrame
<1> QED BY <1>2, <1>3, <1>4, <1>5

\* The steps of the digest pass keep the types.
LEMMA DigestStepTyped ==
    ASSUME TypeOK, NEW w \in Workers,
           \/ BeginDigests(w) \/ CommitDigests(w) \/ AbortDigests(w)
           \/ \E c \in Channels : SkipChannel(w, c) \/ SendDigest(w, c)
    PROVE  TypeOK'
<1> USE DEF ledger
<1>0. /\ queue \in [Messages -> RowType] /\ retry \in [Workers -> RetryType]
      /\ digest \in [Workers -> DigestType] /\ digest[w] \in DigestType
      /\ suppressed \in [Messages -> {"none", "held", "digested"}]
      /\ received \in [Messages -> Nat] /\ unacknowledged \in [Messages -> Nat]
      /\ told \subseteq Messages
  BY DEF TypeOK, RowType, RetryType, DigestType
<1>1. NoDigest \in DigestType /\ \A c \in Channels : Held(c) \subseteq Messages
  BY DEF NoDigest, DigestType, Held
<1>q. ASSUME NEW q \in DigestType, digest' = [digest EXCEPT ![w] = q],
             told' \subseteq Messages, Fault \/ UNCHANGED faults,
             UNCHANGED <<incident, channel, night, task, queue, suppressed, retry,
                         nights, received, unacknowledged, enqueued>>
      PROVE  TypeOK'
  <2>1. digest' \in [Workers -> DigestType]
    BY <1>0, <1>q
  <2> QED BY <1>0, <1>q, <2>1, PassTyped, FaultTyped DEF PassFrame
<1>2. CASE BeginDigests(w)
  <2> DEFINE q == [on |-> TRUE, todo |-> {d \in Channels : channel[d].enabled /\ channel[d].quiet},
                   marked |-> {}]
  <2>1. q \in DigestType
    BY DEF DigestType
  <2>2. digest' = [digest EXCEPT ![w] = q]
    BY <1>2 DEF BeginDigests
  <2> HIDE DEF q
  <2> QED BY <1>0, <1>2, <1>q, <2>1, <2>2 DEF BeginDigests
<1>k. ASSUME NEW c \in Channels, digest' = [digest EXCEPT ![w].todo = @ \ {c}],
             told' \subseteq Messages, Fault \/ UNCHANGED faults,
             UNCHANGED <<incident, channel, night, task, queue, suppressed, retry,
                         nights, received, unacknowledged, enqueued>>
      PROVE  TypeOK'
  <2> DEFINE q == [digest[w] EXCEPT !.todo = digest[w].todo \ {c}]
  <2>1. q \in DigestType
    BY <1>0 DEF DigestType
  <2>2. digest' = [digest EXCEPT ![w] = q]
    BY <1>k
  <2> HIDE DEF q
  <2> QED BY <1>k, <1>q, <2>1, <2>2
<1>3. ASSUME NEW c \in Channels, SkipChannel(w, c) PROVE TypeOK'
  BY <1>0, <1>3, <1>k DEF SkipChannel
<1>4. ASSUME NEW c \in Channels, SendDigest(w, c) PROVE TypeOK'
  <2>1. CASE digest' = [digest EXCEPT ![w].todo = @ \ {c}] /\ Fault /\ UNCHANGED told
    BY <1>0, <1>4, <1>k, <2>1 DEF SendDigest
  <2>2. CASE /\ digest' = [digest EXCEPT ![w] =
                              [on |-> TRUE, todo |-> digest[w].todo \ {c},
                               marked |-> digest[w].marked \union Held(c)]]
             /\ told' = IF c \in Pagers THEN told ELSE told \union Held(c)
             /\ UNCHANGED faults
    <3> DEFINE q == [on |-> TRUE, todo |-> digest[w].todo \ {c},
                     marked |-> digest[w].marked \union Held(c)]
    <3>1. q \in DigestType
      BY <1>0, <1>1 DEF DigestType
    <3>2. told' \subseteq Messages /\ digest' = [digest EXCEPT ![w] = q]
      BY <1>0, <1>1, <2>2
    <3> HIDE DEF q
    <3> QED BY <1>4, <1>q, <2>2, <3>1, <3>2 DEF SendDigest
  <2> QED BY <1>4, <2>1, <2>2 DEF SendDigest
<1>5. CASE CommitDigests(w)
  <2>1. digest' \in [Workers -> DigestType]
    BY <1>0, <1>1, <1>5 DEF CommitDigests
  <2>2. suppressed' \in [Messages -> {"none", "held", "digested"}]
    BY <1>0, <1>5 DEF CommitDigests
  <2> QED BY <1>0, <1>5, <2>1, <2>2, PassTyped, FaultTyped DEF CommitDigests, PassFrame
<1>6. CASE AbortDigests(w)
  BY <1>0, <1>1, <1>6, <1>q DEF AbortDigests
<1> QED BY <1>2, <1>3, <1>4, <1>5, <1>6

\* Every step keeps the types.
LEMMA TypeStep == TypeOK /\ [Next]_vars => TypeOK'
<1> SUFFICES ASSUME TypeOK, [Next]_vars PROVE TypeOK'
  OBVIOUS
<1> USE DEF ledger, work
<1>t. /\ task \in [Incidents -> [Kinds -> TaskType]] /\ TaskOK(task)
      /\ queue \in [Messages -> RowType]
      /\ retry \in [Workers -> RetryType] /\ digest \in [Workers -> DigestType]
      /\ channel \in [Channels -> SettingsType]
      /\ nights \in 0..MaxNights /\ faults \in 0..MaxFaults
  BY DEF TypeOK, TaskType, TaskOK, RowType, RetryType, DigestType
<1>1. CASE UNCHANGED vars
  BY <1>1 DEF vars, TypeOK
<1>e. ASSUME UNCHANGED <<incident, task, suppressed, retry, digest, faults, ledger>>,
             channel' \in [Channels -> SettingsType], night' \in BOOLEAN,
             queue' \in [Messages -> RowType], nights' \in 0..MaxNights
      PROVE  TypeOK'
  BY <1>e DEF TypeOK, RowType
<1>2. ASSUME NEW c \in Channels, SetChannel(c) PROVE TypeOK'
  <2>1. PICK s \in Settings[c] : channel' = [channel EXCEPT ![c] = s]
    BY <1>2 DEF SetChannel
  <2>2. s \in SettingsType
    BY <2>1, ConstantsOK
  <2>3. channel' \in [Channels -> SettingsType]
    BY <1>t, <2>1, <2>2
  <2> QED BY <1>2, <1>e, <1>t, <2>3 DEF SetChannel, TypeOK
<1>3. CASE Dusk \/ Dawn
  <2>1. night' \in BOOLEAN /\ nights' \in 0..MaxNights
    <3>1. MaxNights \in Nat /\ nights \in Nat /\ nights <= MaxNights
      BY <1>t, ConstantsOK
    <3>2. CASE Dusk
      BY <3>1, <3>2 DEF Dusk
    <3>3. CASE Dawn
      BY <1>t, <3>3 DEF Dawn
    <3> QED BY <1>3, <3>2, <3>3
  <2> QED BY <1>3, <1>e, <1>t, <2>1 DEF Dusk, Dawn
<1>4. ASSUME NEW m \in Messages, ElapseBackoff(m) PROVE TypeOK'
  <2> DEFINE q == [queue[m] EXCEPT !.due = TRUE]
  <2>1. q \in RowType
    BY <1>t DEF RowType
  <2>2. queue' = [queue EXCEPT ![m] = q]
    BY <1>4 DEF ElapseBackoff
  <2> HIDE DEF q
  <2>3. queue' \in [Messages -> RowType]
    BY <1>t, <2>1, <2>2
  <2> QED BY <1>4, <1>e, <1>t, <2>3 DEF ElapseBackoff, TypeOK
<1>5. ASSUME NEW i \in Incidents,
             \/ CreateIncident(i) \/ ResolveIncident(i) \/ TicketLookup(i)
             \/ \E c \in Channels : Withhold(i, c)
      PROVE  TypeOK'
  <2>1. "create" \in Kinds
    BY DEF Kinds
  <2> QED BY <1>5, <2>1, DispatchStepTyped
<1>6. ASSUME NEW i \in Incidents, NEW k \in Kinds,
             \/ Lookup(i, k) \/ EndTask(i, k) \/ LoseTask(i, k)
             \/ \E c \in Channels : Send(i, k, c) \/ EnqueueRetry(i, k, c)
      PROVE  TypeOK'
  BY <1>6, DispatchStepTyped
<1>7. ASSUME NEW w \in Workers,
             \/ BeginRetries(w) \/ CommitRetries(w) \/ AbortRetries(w)
             \/ \E m \in Messages : AttemptSend(w, m)
      PROVE  TypeOK'
  BY <1>7, RetryStepTyped
<1>8. ASSUME NEW w \in Workers,
             \/ BeginDigests(w) \/ CommitDigests(w) \/ AbortDigests(w)
             \/ \E c \in Channels : SkipChannel(w, c) \/ SendDigest(w, c)
      PROVE  TypeOK'
  BY <1>8, DigestStepTyped
<1> QED BY <1>1, <1>2, <1>3, <1>4, <1>5, <1>6, <1>7, <1>8 DEF Next

\* A platform with no incidents yet is type-correct.
LEMMA InitTyped == Init => TypeOK
<1> SUFFICES ASSUME Init PROVE TypeOK
  OBVIOUS
<1>1. NoTask \in TaskType /\ NoRow \in RowType /\ NoRetry \in RetryType /\ NoDigest \in DigestType
  BY DEF NoTask, TaskType, NoRow, RowType, NoRetry, RetryType, NoDigest, DigestType
<1>2. /\ task \in [Incidents -> [Kinds -> TaskType]]
      /\ queue \in [Messages -> RowType]
      /\ retry \in [Workers -> RetryType] /\ digest \in [Workers -> DigestType]
  BY <1>1 DEF Init
<1>3. \A i \in Incidents, k \in Kinds :
        task[i][k].todo \union task[i][k].failed \subseteq Audience(k)
  BY DEF Init, NoTask
<1>4. channel \in [Channels -> SettingsType]
  <2>1. channel \in [Channels -> UNION {Settings[c] : c \in Channels}]
    BY DEF Init
  <2>2. \A c \in Channels : channel[c] \in SettingsType
    BY ConstantsOK DEF Init
  <2> QED BY <2>1, <2>2
<1>5. nights \in 0..MaxNights /\ faults \in 0..MaxFaults
  BY ConstantsOK DEF Init
<1> QED BY <1>2, <1>3, <1>4, <1>5
        DEF Init, TypeOK, TaskType, RowType, RetryType, DigestType

\* Every reachable state of the delivery is type-correct.
THEOREM TypeCorrect == Spec => []TypeOK
BY InitTyped, TypeStep, PTL DEF Spec

-----------------------------------------------------------------------------
(* What a dispatch is after each of its steps. *)

\* No dispatch but this one changes.
OnlyTask(i, k) ==
    \A j \in Incidents, l \in Kinds : (j # i \/ l # k) => task'[j][l] = task[j][l]

\* The dispatches are a table of them.
LEMMA TaskFunction ==
    ASSUME TypeOK
    PROVE  task \in [Incidents -> [Kinds -> TaskType]]
BY DEF TypeOK, TaskType

\* A dispatch that moves on.
LEMMA AtAfter ==
    ASSUME TypeOK, NEW i \in Incidents, NEW k \in Kinds,
           NEW a \in {"none", "lookup", "send", "ticket", "done"},
           task' = [task EXCEPT ![i][k].at = a]
    PROVE  /\ OnlyTask(i, k) /\ task'[i][k].at = a
           /\ task'[i][k].todo = task[i][k].todo /\ task'[i][k].failed = task[i][k].failed
<1> DEFINE q == [task[i][k] EXCEPT !.at = a]
<1>0. task[i][k] \in TaskType
  BY DEF TypeOK, TaskType
<1>1. /\ q \in TaskType /\ q.at = a
      /\ q.todo = task[i][k].todo /\ q.failed = task[i][k].failed
  BY <1>0 DEF TaskType
<1>2. task' = [task EXCEPT ![i][k] = q]
  OBVIOUS
<1> HIDE DEF q
<1>3. OnlyTask(i, k) /\ task'[i][k] = q
  BY <1>2, TaskFunction DEF OnlyTask
<1> QED BY <1>1, <1>3

\* A dispatch done with a channel.
LEMMA DealtAfter ==
    ASSUME TypeOK, NEW i \in Incidents, NEW k \in Kinds, NEW c \in Channels,
           NEW f \in SUBSET Channels, Dealt(i, k, c, f)
    PROVE  /\ OnlyTask(i, k) /\ task'[i][k].at = task[i][k].at
           /\ task'[i][k].todo = task[i][k].todo \ {c} /\ task'[i][k].failed = f
<1> DEFINE q == [at |-> task[i][k].at, todo |-> task[i][k].todo \ {c},
                 quiet |-> task[i][k].quiet, failed |-> f]
<1>0. task[i][k] \in TaskType
  BY DEF TypeOK, TaskType
<1>1. /\ q \in TaskType /\ q.at = task[i][k].at
      /\ q.todo = task[i][k].todo \ {c} /\ q.failed = f
  BY <1>0 DEF TaskType
<1>2. task' = [task EXCEPT ![i][k] = q]
  BY DEF Dealt
<1> HIDE DEF q
<1>3. OnlyTask(i, k) /\ task'[i][k] = q
  BY <1>2, TaskFunction DEF OnlyTask
<1> QED BY <1>1, <1>3

\* A dispatch whose failure has been queued.
LEMMA QueuedAfter ==
    ASSUME TypeOK, NEW i \in Incidents, NEW k \in Kinds,
           task' = [task EXCEPT ![i][k].failed = {}]
    PROVE  /\ OnlyTask(i, k) /\ task'[i][k].at = task[i][k].at
           /\ task'[i][k].todo = task[i][k].todo /\ task'[i][k].failed = {}
<1> DEFINE q == [task[i][k] EXCEPT !.failed = {}]
<1>0. task[i][k] \in TaskType
  BY DEF TypeOK, TaskType
<1>1. /\ q \in TaskType /\ q.at = task[i][k].at
      /\ q.todo = task[i][k].todo /\ q.failed = {}
  BY <1>0 DEF TaskType
<1>2. task' = [task EXCEPT ![i][k] = q]
  OBVIOUS
<1> HIDE DEF q
<1>3. OnlyTask(i, k) /\ task'[i][k] = q
  BY <1>2, TaskFunction DEF OnlyTask
<1> QED BY <1>1, <1>3

\* A dispatch that has looked its channels up.
LEMMA LookupAfter ==
    ASSUME TypeOK, NEW i \in Incidents, NEW k \in Kinds, Lookup(i, k)
    PROVE  /\ OnlyTask(i, k) /\ task'[i][k].at = "send"
           /\ task'[i][k].todo \intersect Tickets = {} /\ task'[i][k].failed = {}
<1> DEFINE to == {d \in IF k = "create" THEN Chats \union Pagers ELSE Pagers :
                    channel[d].enabled}
           q == [at |-> "send", todo |-> to, failed |-> {},
                 quiet |-> IF k = "create" THEN {d \in to : channel[d].quiet} ELSE {}]
<1>1. /\ q \in TaskType /\ q.at = "send" /\ q.failed = {}
      /\ q.todo \intersect Tickets = {}
  BY ConstantsOK DEF TaskType, Channels
<1>2. task' = [task EXCEPT ![i][k] = q]
  BY DEF Lookup
<1> HIDE DEF q
<1>3. OnlyTask(i, k) /\ task'[i][k] = q
  BY <1>2, TaskFunction DEF OnlyTask
<1> QED BY <1>1, <1>3

\* A resolution that has looked its ticketing channel up.
LEMMA TicketAfter ==
    ASSUME TypeOK, NEW i \in Incidents, TicketLookup(i)
    PROVE  /\ OnlyTask(i, "resolve") /\ task'[i]["resolve"].failed = {}
           /\ \/ task'[i]["resolve"].at = "done" /\ task'[i]["resolve"].todo = {}
              \/ /\ task'[i]["resolve"].at = "ticket"
                 /\ task'[i]["resolve"].todo \subseteq Tickets
<1>k. "resolve" \in Kinds
  BY DEF Kinds
<1>1. CASE task' = [task EXCEPT ![i]["resolve"].at = "done"]
  <2>1. task[i]["resolve"].todo = {} /\ task[i]["resolve"].failed = {}
    BY DEF TicketLookup
  <2>2. /\ OnlyTask(i, "resolve") /\ task'[i]["resolve"].at = "done"
        /\ task'[i]["resolve"].todo = task[i]["resolve"].todo
        /\ task'[i]["resolve"].failed = task[i]["resolve"].failed
    BY <1>1, <1>k, AtAfter, ZenonT(40)
  <2> QED BY <2>1, <2>2
<1>2. ASSUME NEW d \in Tickets,
             task' = [task EXCEPT ![i]["resolve"] =
                        [at |-> "ticket", todo |-> {d}, quiet |-> {}, failed |-> {}]]
      PROVE  /\ OnlyTask(i, "resolve") /\ task'[i]["resolve"].failed = {}
             /\ task'[i]["resolve"].at = "ticket"
             /\ task'[i]["resolve"].todo \subseteq Tickets
  <2> DEFINE q == [at |-> "ticket", todo |-> {d}, quiet |-> {}, failed |-> {}]
  <2>1. /\ q \in TaskType /\ q.at = "ticket" /\ q.failed = {} /\ q.todo \subseteq Tickets
    BY DEF TaskType, Channels
  <2>2. task' = [task EXCEPT ![i]["resolve"] = q]
    BY <1>2
  <2> HIDE DEF q
  <2>3. OnlyTask(i, "resolve") /\ task'[i]["resolve"] = q
    BY <1>k, <2>2, TaskFunction DEF OnlyTask
  <2> QED BY <2>1, <2>3
<1>3. \/ task' = [task EXCEPT ![i]["resolve"].at = "done"]
      \/ \E d \in Tickets :
           task' = [task EXCEPT ![i]["resolve"] =
                      [at |-> "ticket", todo |-> {d}, quiet |-> {}, failed |-> {}]]
  BY DEF TicketLookup
<1> QED BY <1>1, <1>2, <1>3

\* A dispatch that is lost.
LEMMA LoseAfter ==
    ASSUME TypeOK, NEW i \in Incidents, NEW k \in Kinds, LoseTask(i, k)
    PROVE  /\ OnlyTask(i, k) /\ task'[i][k].at = "done"
           /\ task'[i][k].todo = {} /\ task'[i][k].failed = {}
<1> DEFINE q == [NoTask EXCEPT !.at = "done"]
<1>1. q \in TaskType /\ q.at = "done" /\ q.todo = {} /\ q.failed = {}
  BY DEF NoTask, TaskType
<1>2. task' = [task EXCEPT ![i][k] = q]
  BY DEF LoseTask
<1> HIDE DEF q
<1>3. OnlyTask(i, k) /\ task'[i][k] = q
  BY <1>2, TaskFunction DEF OnlyTask
<1> QED BY <1>1, <1>3

-----------------------------------------------------------------------------
(* The invariant of the delivery. *)

\* A dispatch starts with its incident's event; a channel it is done with is
\* either told or failed; tickets come after everybody else.
ShapeOf(i, k) ==
    /\ (incident[i] = "absent" \/ (k = "resolve" /\ incident[i] = "open"))
          => task[i][k].at = "none"
    /\ task[i][k].at \in {"none", "lookup", "done"}
          => task[i][k].todo = {} /\ task[i][k].failed = {}
    /\ task[i][k].todo \intersect task[i][k].failed = {}
    /\ task[i][k].at = "send"
          => (task[i][k].todo \union task[i][k].failed) \intersect Tickets = {}

Shape == \A i \in Incidents, k \in Kinds : ShapeOf(i, k)

\* One retry pass at a time, over rows that are pending, each handled once.
Passes ==
    /\ \A w, v \in Workers : retry[w].on /\ retry[v].on => w = v
    /\ \A w \in Workers :
         /\ ~retry[w].on => /\ retry[w].todo = {} /\ retry[w].sent = {}
                            /\ retry[w].failed = {}
         /\ retry[w].todo \intersect retry[w].sent = {}
         /\ \A m \in retry[w].todo \union retry[w].sent \union retry[w].failed :
              queue[m].status = "pending"

\* The dispatch has yet to send m; m has just failed; a pass has sent m.
Fresh(m) ==
    \/ task[m.incident][m.kind].at \in {"none", "lookup"}
    \/ m.channel \in task[m.incident][m.kind].todo
    \/ task[m.incident][m.kind].at = "send" /\ m.channel \in Tickets
Failing(m) == m.channel \in task[m.incident][m.kind].failed
InSent(m) == \E w \in Workers : m \in retry[w].sent

\* How often m was received, by where it is.
CountOf(m) ==
    /\ Fresh(m) => /\ received[m] = 0 /\ unacknowledged[m] = 0
                   /\ queue[m].status = "none" /\ m \notin enqueued
    /\ Failing(m) => /\ received[m] = unacknowledged[m]
                     /\ queue[m].status = "none" /\ m \notin enqueued
    /\ queue[m].status # "none" =>
         received[m] = unacknowledged[m] + (IF InSent(m) THEN 1 ELSE 0)
    /\ unacknowledged[m] <= received[m] /\ received[m] <= 1 + unacknowledged[m]
    /\ m \in enqueued /\ queue[m].status = "none" => received[m] > unacknowledged[m]

\* What makes both promises inductive.
DeliveryInv == TypeOK /\ Shape /\ Passes /\ \A m \in Messages : CountOf(m)

\* Every step keeps the shape of the dispatches.
LEMMA ShapeStep == TypeOK /\ Shape /\ [Next]_vars => Shape'
<1> SUFFICES ASSUME TypeOK, Shape, [Next]_vars PROVE Shape'
  OBVIOUS
<1> USE DEF ledger, work
<1>k. "create" \in Kinds /\ "resolve" \in Kinds /\ \A k \in Kinds : k \in {"create", "resolve"}
  BY DEF Kinds
<1>t. incident \in [Incidents -> {"absent", "open", "resolved"}]
  BY DEF TypeOK
<1>u. ASSUME UNCHANGED <<incident, task>> PROVE Shape'
  BY <1>u DEF Shape, ShapeOf
<1>o. ASSUME NEW i \in Incidents, NEW k \in Kinds, OnlyTask(i, k), UNCHANGED incident,
             ShapeOf(i, k)'
      PROVE  Shape'
  BY <1>o DEF Shape, ShapeOf, OnlyTask
<1>1. ASSUME NEW i \in Incidents, CreateIncident(i) PROVE Shape'
  <2>1. /\ OnlyTask(i, "create") /\ task'[i]["create"].at = "lookup"
        /\ task'[i]["create"].todo = task[i]["create"].todo
        /\ task'[i]["create"].failed = task[i]["create"].failed
    BY <1>1, <1>k, AtAfter DEF CreateIncident
  <2>2. incident[i] = "absent" /\ incident' = [incident EXCEPT ![i] = "open"]
    BY <1>1 DEF CreateIncident
  <2> QED BY <1>k, <1>t, <2>1, <2>2 DEF Shape, ShapeOf, OnlyTask
<1>2. ASSUME NEW i \in Incidents, ResolveIncident(i) PROVE Shape'
  <2>1. /\ OnlyTask(i, "resolve") /\ task'[i]["resolve"].at = "lookup"
        /\ task'[i]["resolve"].todo = task[i]["resolve"].todo
        /\ task'[i]["resolve"].failed = task[i]["resolve"].failed
    BY <1>2, <1>k, AtAfter DEF ResolveIncident
  <2>2. incident[i] = "open" /\ incident' = [incident EXCEPT ![i] = "resolved"]
    BY <1>2 DEF ResolveIncident
  <2> QED BY <1>k, <1>t, <2>1, <2>2 DEF Shape, ShapeOf, OnlyTask
<1>3. ASSUME NEW i \in Incidents, TicketLookup(i) PROVE Shape'
  BY <1>3, <1>k, <1>o, TicketAfter DEF TicketLookup, Shape, ShapeOf
<1>4. ASSUME NEW i \in Incidents, NEW c \in Channels, Withhold(i, c) PROVE Shape'
  <2>1. Dealt(i, "create", c, {}) /\ UNCHANGED incident
    BY <1>4 DEF Withhold
  <2> QED BY <1>k, <1>o, <2>1, DealtAfter DEF Shape, ShapeOf
<1>5. ASSUME NEW i \in Incidents, NEW k \in Kinds, Lookup(i, k) PROVE Shape'
  <2>1. UNCHANGED incident /\ task[i][k].at = "lookup"
    BY <1>5 DEF Lookup
  <2>2. ShapeOf(i, k)' /\ OnlyTask(i, k)
    BY <1>5, <2>1, LookupAfter DEF Shape, ShapeOf
  <2> QED BY <1>o, <2>1, <2>2
<1>6. ASSUME NEW i \in Incidents, NEW k \in Kinds, EndTask(i, k) PROVE Shape'
  <2>1. task' = [task EXCEPT ![i][k].at = "done"] /\ UNCHANGED incident
        /\ task[i][k].todo = {} /\ task[i][k].failed = {} /\ task[i][k].at # "none"
    BY <1>6 DEF EndTask
  <2>2. /\ OnlyTask(i, k) /\ task'[i][k].at = "done"
        /\ task'[i][k].todo = task[i][k].todo /\ task'[i][k].failed = task[i][k].failed
    BY <2>1, AtAfter, ZenonT(40)
  <2>3. ShapeOf(i, k)'
    BY <2>1, <2>2 DEF Shape, ShapeOf
  <2> QED BY <1>o, <2>1, <2>2, <2>3
<1>7. ASSUME NEW i \in Incidents, NEW k \in Kinds, LoseTask(i, k) PROVE Shape'
  <2>1. /\ OnlyTask(i, k) /\ task'[i][k].at = "done"
        /\ task'[i][k].todo = {} /\ task'[i][k].failed = {}
    BY <1>7, LoseAfter
  <2>2. UNCHANGED incident /\ task[i][k].at # "none"
    BY <1>7 DEF LoseTask
  <2>3. ShapeOf(i, k)'
    BY <2>1, <2>2 DEF Shape, ShapeOf
  <2> QED BY <1>o, <2>1, <2>2, <2>3
<1>8. ASSUME NEW i \in Incidents, NEW k \in Kinds, NEW c \in Channels, Send(i, k, c)
      PROVE  Shape'
  <2>1. /\ Dealt(i, k, c, {}) \/ Dealt(i, k, c, {c})
        /\ UNCHANGED incident
        /\ c \in task[i][k].todo /\ task[i][k].at \in {"send", "ticket"}
    BY <1>8 DEF Send, Sending
  <2>2. ASSUME NEW f \in SUBSET {c}, Dealt(i, k, c, f) PROVE ShapeOf(i, k)' /\ OnlyTask(i, k)
    BY <2>1, <2>2, DealtAfter DEF Shape, ShapeOf
  <2> QED BY <1>o, <2>1, <2>2
<1>9. ASSUME NEW i \in Incidents, NEW k \in Kinds, NEW c \in Channels, EnqueueRetry(i, k, c)
      PROVE  Shape'
  <2>1. task' = [task EXCEPT ![i][k].failed = {}] /\ UNCHANGED incident
    BY <1>9 DEF EnqueueRetry
  <2>2. /\ OnlyTask(i, k) /\ task'[i][k].at = task[i][k].at
        /\ task'[i][k].todo = task[i][k].todo /\ task'[i][k].failed = {}
    BY <2>1, QueuedAfter, ZenonT(40)
  <2>3. ShapeOf(i, k)'
    BY <2>1, <2>2 DEF Shape, ShapeOf
  <2> QED BY <1>o, <2>1, <2>2, <2>3
<1>10. CASE UNCHANGED vars
  BY <1>10, <1>u DEF vars
<1>11. CASE \/ \E c \in Channels : SetChannel(c)
            \/ Dusk \/ Dawn
            \/ \E m \in Messages : ElapseBackoff(m)
            \/ \E w \in Workers :
                 \/ BeginRetries(w) \/ CommitRetries(w) \/ AbortRetries(w)
                 \/ \E m \in Messages : AttemptSend(w, m)
                 \/ BeginDigests(w) \/ CommitDigests(w) \/ AbortDigests(w)
                 \/ \E c \in Channels : SkipChannel(w, c) \/ SendDigest(w, c)
  BY <1>11, <1>u DEF SetChannel, Dusk, Dawn, ElapseBackoff, BeginRetries, CommitRetries,
                     AbortRetries, AttemptSend, BeginDigests, CommitDigests,
                     AbortDigests, SkipChannel, SendDigest
<1> QED BY <1>1, <1>2, <1>3, <1>4, <1>5, <1>6, <1>7, <1>8, <1>9, <1>10, <1>11 DEF Next

\* A row that is due keeps its status.
LEMMA ElapseAfter ==
    ASSUME TypeOK, NEW m \in Messages, ElapseBackoff(m)
    PROVE  \A n \in Messages : queue'[n].status = queue[n].status
<1> DEFINE q == [queue[m] EXCEPT !.due = TRUE]
<1>0. queue \in [Messages -> RowType]
  BY DEF TypeOK, RowType
<1>1. q.status = queue[m].status
  BY <1>0 DEF RowType
<1>2. queue' = [queue EXCEPT ![m] = q]
  BY DEF ElapseBackoff
<1> HIDE DEF q
<1> QED BY <1>0, <1>1, <1>2

\* A pass that has tried a row.
LEMMA TriedAfter ==
    ASSUME TypeOK, NEW w \in Workers, NEW m \in Messages,
           NEW s \in SUBSET {m}, NEW f \in SUBSET {m}, Tried(w, m, s, f)
    PROVE  /\ \A v \in Workers : v # w => retry'[v] = retry[v]
           /\ retry'[w].on /\ retry'[w].todo = retry[w].todo \ {m}
           /\ retry'[w].sent = retry[w].sent \union s
           /\ retry'[w].failed = retry[w].failed \union f
<1> DEFINE q == [on |-> TRUE, todo |-> retry[w].todo \ {m},
                 sent |-> retry[w].sent \union s, failed |-> retry[w].failed \union f]
<1>0. retry \in [Workers -> RetryType]
  BY DEF TypeOK, RetryType
<1>1. /\ q.on /\ q.todo = retry[w].todo \ {m} /\ q.sent = retry[w].sent \union s
      /\ q.failed = retry[w].failed \union f
  OBVIOUS
<1>2. retry' = [retry EXCEPT ![w] = q]
  BY DEF Tried
<1> HIDE DEF q
<1> QED BY <1>0, <1>1, <1>2

\* A pass that begins has nothing done yet.
LEMMA BeginAfter ==
    ASSUME TypeOK, NEW w \in Workers, BeginRetries(w)
    PROVE  /\ \A v \in Workers : v # w => retry'[v] = retry[v]
           /\ retry'[w].on /\ retry'[w].todo = Due /\ retry'[w].sent = {}
           /\ retry'[w].failed = {}
<1> DEFINE q == [on |-> TRUE, todo |-> Due, sent |-> {}, failed |-> {}]
<1>0. retry \in [Workers -> RetryType]
  BY DEF TypeOK, RetryType
<1>1. q.on /\ q.todo = Due /\ q.sent = {} /\ q.failed = {}
  OBVIOUS
<1>2. retry' = [retry EXCEPT ![w] = q]
  BY DEF BeginRetries
<1> HIDE DEF q
<1> QED BY <1>0, <1>1, <1>2

\* A pass that ends, one way or the other, leaves none on.
LEMMA EndAfter ==
    ASSUME TypeOK, Passes, NEW w \in Workers, retry[w].on,
           retry' = [retry EXCEPT ![w] = NoRetry]
    PROVE  /\ \A v \in Workers : /\ ~retry'[v].on /\ retry'[v].todo = {}
                                 /\ retry'[v].sent = {} /\ retry'[v].failed = {}
           /\ \A m \in Messages : InSent(m) <=> m \in retry[w].sent
<1>0. retry \in [Workers -> RetryType]
  BY DEF TypeOK, RetryType
<1>1. \A v \in Workers : v # w => /\ ~retry[v].on /\ retry[v].todo = {}
                                  /\ retry[v].sent = {} /\ retry[v].failed = {}
  BY <1>0 DEF Passes, RetryType
<1>2. /\ ~NoRetry.on /\ NoRetry.todo = {} /\ NoRetry.sent = {} /\ NoRetry.failed = {}
  BY DEF NoRetry
<1> QED BY <1>0, <1>1, <1>2 DEF InSent

\* Every step keeps the passes apart and their rows pending.
LEMMA PassesStep == TypeOK /\ Passes /\ [Next]_vars => Passes'
<1> SUFFICES ASSUME TypeOK, Passes, [Next]_vars PROVE Passes'
  OBVIOUS
<1> USE DEF ledger, work
<1>0. queue \in [Messages -> RowType] /\ retry \in [Workers -> RetryType]
  BY DEF TypeOK, RowType, RetryType
<1>t. \A v \in Workers : /\ retry[v].todo \subseteq Messages
                         /\ retry[v].sent \subseteq Messages
                         /\ retry[v].failed \subseteq Messages
  BY <1>0 DEF RetryType
<1>s. ASSUME UNCHANGED retry,
             \A m \in Messages : queue[m].status = "pending" => queue'[m].status = "pending"
      PROVE  Passes'
  BY <1>s, <1>t DEF Passes
<1>1. ASSUME NEW i \in Incidents, NEW k \in Kinds, NEW c \in Channels, EnqueueRetry(i, k, c)
      PROVE  Passes'
  <2>1. NewRow.status = "pending"
    BY DEF NewRow
  <2>2. queue' = [queue EXCEPT ![Msg(i, k, c)] = NewRow] \/ UNCHANGED queue
    BY <1>1 DEF EnqueueRetry
  <2>3. UNCHANGED retry
    BY <1>1 DEF EnqueueRetry
  <2> QED BY <1>0, <1>s, <2>1, <2>2, <2>3
<1>2. ASSUME NEW m \in Messages, ElapseBackoff(m) PROVE Passes'
  BY <1>2, <1>s, ElapseAfter DEF ElapseBackoff
<1>3. ASSUME NEW w \in Workers, BeginRetries(w) PROVE Passes'
  <2>1. UNCHANGED queue /\ \A v \in Workers : ~retry[v].on
    BY <1>3 DEF BeginRetries, RetryLockFree
  <2>2. \A m \in Due : queue[m].status = "pending"
    BY DEF Due
  <2> QED BY <1>3, <2>1, <2>2, BeginAfter DEF Passes
<1>4. ASSUME NEW w \in Workers, NEW m \in Messages, AttemptSend(w, m) PROVE Passes'
  <2>1. UNCHANGED queue /\ m \in retry[w].todo
    BY <1>4 DEF AttemptSend
  <2>2. retry[w].on
    BY <2>1 DEF Passes
  <2>3. ASSUME NEW s \in SUBSET {m}, NEW f \in SUBSET {m}, Tried(w, m, s, f) PROVE Passes'
    <3>1. /\ \A v \in Workers : v # w => retry'[v] = retry[v]
          /\ retry'[w].on /\ retry'[w].todo = retry[w].todo \ {m}
          /\ retry'[w].sent = retry[w].sent \union s
          /\ retry'[w].failed = retry[w].failed \union f
      <4>1. Tried(w, m, s, f)
        BY <2>3
      <4> QED BY <1>4, <4>1, TriedAfter, ZenonT(30)
    <3>2. \A v \in Workers : v # w => ~retry[v].on
      BY <2>2 DEF Passes
    <3>3. \A v \in Workers : retry'[v].on => v = w
      BY <3>1, <3>2
    <3>4. /\ retry'[w].todo \intersect retry'[w].sent = {}
          /\ \A n \in retry'[w].todo \union retry'[w].sent \union retry'[w].failed :
               queue[n].status = "pending"
      BY <2>1, <3>1 DEF Passes
    <3>5. \A v \in Workers : v # w =>
            /\ retry'[v].todo = {} /\ retry'[v].sent = {} /\ retry'[v].failed = {}
      BY <3>1, <3>2 DEF Passes
    <3> QED BY <2>1, <3>1, <3>3, <3>4, <3>5 DEF Passes
  <2> QED BY <1>4, <2>3 DEF AttemptSend
<1>5. ASSUME NEW w \in Workers, CommitRetries(w) PROVE Passes'
  BY <1>5, EndAfter DEF CommitRetries, Passes
<1>6. ASSUME NEW w \in Workers, AbortRetries(w) PROVE Passes'
  BY <1>6, EndAfter DEF AbortRetries, Passes
<1>7. CASE UNCHANGED vars
  BY <1>7, <1>s DEF vars
<1>8. ASSUME \/ \E c \in Channels : SetChannel(c)
             \/ Dusk \/ Dawn
             \/ \E i \in Incidents : CreateIncident(i) \/ ResolveIncident(i) \/ TicketLookup(i)
             \/ \E i \in Incidents, c \in Channels : Withhold(i, c)
             \/ \E i \in Incidents, k \in Kinds : Lookup(i, k) \/ EndTask(i, k) \/ LoseTask(i, k)
      PROVE  Passes'
  <2>1. UNCHANGED <<queue, retry>>
    BY <1>8 DEF SetChannel, Dusk, Dawn, CreateIncident, ResolveIncident, TicketLookup,
                Withhold, Lookup, EndTask, LoseTask
  <2> QED BY <1>s, <2>1
<1>9. ASSUME \/ \E i \in Incidents, k \in Kinds, c \in Channels : Send(i, k, c)
             \/ \E w \in Workers : BeginDigests(w) \/ CommitDigests(w) \/ AbortDigests(w)
             \/ \E w \in Workers, c \in Channels : SkipChannel(w, c) \/ SendDigest(w, c)
      PROVE  Passes'
  <2>1. UNCHANGED <<queue, retry>>
    BY <1>9 DEF Send, BeginDigests, CommitDigests, AbortDigests, SkipChannel, SendDigest
  <2> QED BY <1>s, <2>1
<1> QED BY <1>1, <1>2, <1>3, <1>4, <1>5, <1>6, <1>7, <1>8, <1>9 DEF Next

\* Where a message is, nothing about it having changed but that its dispatch is
\* further on, its count stands.
LEMMA CountFrame ==
    ASSUME NEW m \in Messages, CountOf(m), Fresh(m)' => Fresh(m), Failing(m)' => Failing(m),
           received'[m] = received[m], unacknowledged'[m] = unacknowledged[m],
           (queue[m].status = "none") <=> (queue'[m].status = "none"),
           InSent(m)' <=> InSent(m), m \in enqueued' <=> m \in enqueued
    PROVE  CountOf(m)'
BY DEF CountOf

\* A message whose send has failed is not to be sent by its dispatch again.
LEMMA FailingNotFresh ==
    ASSUME Shape, NEW m \in Messages, Failing(m)
    PROVE  ~Fresh(m)
<1>1. m.incident \in Incidents /\ m.kind \in Kinds
  BY MsgFields
<1>2. ShapeOf(m.incident, m.kind)
  BY <1>1 DEF Shape
<1> QED BY <1>2 DEF Failing, Fresh, ShapeOf

\* A dispatch that moves on without a send, an enqueuing or a withholding
\* makes no message fresh or failing.
LEMMA MovesOn ==
    ASSUME TypeOK, Shape, NEW i \in Incidents, NEW k \in Kinds,
           \/ CreateIncident(i) /\ k = "create"
           \/ (ResolveIncident(i) \/ TicketLookup(i)) /\ k = "resolve"
           \/ Lookup(i, k) \/ EndTask(i, k) \/ LoseTask(i, k)
           \/ \E c \in Channels : Withhold(i, c) /\ k = "create"
    PROVE  \A m \in Messages : (Fresh(m)' => Fresh(m)) /\ (Failing(m)' => Failing(m))
<1>m. \A m \in Messages : m.incident \in Incidents /\ m.kind \in Kinds
  BY MsgFields
<1>s. ShapeOf(i, k)
  BY DEF Shape
<1>o. ASSUME OnlyTask(i, k),
             task'[i][k].at \in {"none", "lookup"} => task[i][k].at \in {"none", "lookup"},
             \/ task[i][k].at \in {"none", "lookup"}
             \/ /\ task'[i][k].todo \subseteq task[i][k].todo
                /\ task'[i][k].at = "send" => task[i][k].at = "send"
             \/ /\ task[i][k].at = "send"
                /\ task'[i][k].todo \subseteq Tickets /\ task'[i][k].at # "send",
             task'[i][k].failed \subseteq task[i][k].failed
      PROVE  \A m \in Messages : (Fresh(m)' => Fresh(m)) /\ (Failing(m)' => Failing(m))
  <2> TAKE m \in Messages
  <2>1. CASE m.incident = i /\ m.kind = k
    BY <1>o, <2>1 DEF Fresh, Failing
  <2>2. CASE m.incident # i \/ m.kind # k
    BY <1>m, <1>o, <2>2 DEF Fresh, Failing, OnlyTask
  <2> QED BY <2>1, <2>2
<1>1. CASE CreateIncident(i) /\ k = "create"
  <2>0. task' = [task EXCEPT ![i][k].at = "lookup"]
    BY <1>1 DEF CreateIncident
  <2>1. /\ OnlyTask(i, k) /\ task'[i][k].at = "lookup"
        /\ task'[i][k].failed = task[i][k].failed
    BY <2>0, AtAfter
  <2>2. task[i][k].at = "none"
    BY <1>1, <1>s DEF CreateIncident, ShapeOf
  <2> QED BY <1>o, <2>1, <2>2
<1>2. CASE ResolveIncident(i) /\ k = "resolve"
  <2>0. task' = [task EXCEPT ![i][k].at = "lookup"]
    BY <1>2 DEF ResolveIncident
  <2>1. /\ OnlyTask(i, k) /\ task'[i][k].at = "lookup"
        /\ task'[i][k].failed = task[i][k].failed
    BY <2>0, AtAfter
  <2>2. task[i][k].at = "none"
    BY <1>2, <1>s DEF ResolveIncident, ShapeOf
  <2> QED BY <1>o, <2>1, <2>2
<1>3. CASE TicketLookup(i) /\ k = "resolve"
  <2>1. task[i][k].at = "send"
    BY <1>3 DEF TicketLookup
  <2>2. /\ OnlyTask(i, k) /\ task'[i][k].failed = {}
        /\ \/ task'[i][k].at = "done" /\ task'[i][k].todo = {}
           \/ task'[i][k].at = "ticket" /\ task'[i][k].todo \subseteq Tickets
    BY <1>3, TicketAfter
  <2> QED BY <1>o, <2>1, <2>2
<1>4. CASE Lookup(i, k)
  <2>1. task[i][k].at = "lookup"
    BY <1>4 DEF Lookup
  <2>2. OnlyTask(i, k) /\ task'[i][k].at = "send" /\ task'[i][k].failed = {}
    BY <1>4, LookupAfter
  <2> QED BY <1>o, <2>1, <2>2
<1>5. CASE EndTask(i, k)
  <2>0. task' = [task EXCEPT ![i][k].at = "done"]
    BY <1>5 DEF EndTask
  <2>1. /\ OnlyTask(i, k) /\ task'[i][k].at = "done"
        /\ task'[i][k].todo = task[i][k].todo /\ task'[i][k].failed = task[i][k].failed
    BY <2>0, AtAfter, ZenonT(40)
  <2> QED BY <1>o, <2>1
<1>6. CASE LoseTask(i, k)
  <2>1. /\ OnlyTask(i, k) /\ task'[i][k].at = "done"
        /\ task'[i][k].todo = {} /\ task'[i][k].failed = {}
    BY <1>6, LoseAfter
  <2> QED BY <1>o, <2>1
<1>7. ASSUME NEW c \in Channels, Withhold(i, c) /\ k = "create"
      PROVE  \A m \in Messages : (Fresh(m)' => Fresh(m)) /\ (Failing(m)' => Failing(m))
  <2>1. Dealt(i, k, c, {})
    BY <1>7 DEF Withhold
  <2>2. /\ OnlyTask(i, k) /\ task'[i][k].at = task[i][k].at
        /\ task'[i][k].todo = task[i][k].todo \ {c} /\ task'[i][k].failed = {}
    BY <2>1, DealtAfter
  <2> QED BY <1>o, <2>2
<1> QED BY <1>1, <1>2, <1>3, <1>4, <1>5, <1>6, <1>7

\* The ledgers are functions to numbers.
LEMMA Ledgers ==
    ASSUME TypeOK
    PROVE  /\ received \in [Messages -> Nat] /\ unacknowledged \in [Messages -> Nat]
           /\ queue \in [Messages -> RowType] /\ retry \in [Workers -> RetryType]
BY DEF TypeOK, RowType, RetryType

\* A send is counted: the message was fresh, and is told, or failing.
LEMMA SendCounts ==
    ASSUME TypeOK, Shape, \A m \in Messages : CountOf(m),
           NEW i \in Incidents, NEW k \in Kinds, NEW c \in Channels, Send(i, k, c)
    PROVE  \A m \in Messages : CountOf(m)'
<1> DEFINE n == Msg(i, k, c)
<1>1. /\ c \in task[i][k].todo /\ task[i][k].at \in {"send", "ticket"}
      /\ UNCHANGED <<queue, retry, enqueued>>
  BY DEF Send, Sending
<1>2. c \in Audience(k)
  BY <1>1 DEF TypeOK
<1>3. n \in Messages /\ n.incident = i /\ n.kind = k /\ n.channel = c
  BY <1>2, MsgType
<1>4. ShapeOf(i, k)
  BY DEF Shape
<1>5. \/ Dealt(i, k, c, {}) /\ Receive(n) /\ UNCHANGED unacknowledged
      \/ Dealt(i, k, c, {c}) /\ UNCHANGED <<received, unacknowledged>>
      \/ /\ Dealt(i, k, c, {c}) /\ Receive(n)
         /\ unacknowledged' = [unacknowledged EXCEPT ![n] = @ + 1]
  BY DEF Send
<1>6. \E f \in SUBSET {c} :
        /\ OnlyTask(i, k) /\ task'[i][k].at = task[i][k].at
        /\ task'[i][k].todo = task[i][k].todo \ {c} /\ task'[i][k].failed = f
  <2>1. \E f \in SUBSET {c} : Dealt(i, k, c, f)
    BY <1>5
  <2> QED BY <2>1, DealtAfter
<1>n. Fresh(n) /\ ~Fresh(n)'
  BY <1>1, <1>3, <1>4, <1>6 DEF Fresh, ShapeOf
<1>7. received[n] = 0 /\ unacknowledged[n] = 0 /\ queue[n].status = "none" /\ n \notin enqueued
  BY <1>3, <1>n DEF CountOf
<1>8. ASSUME NEW m \in Messages, m # n, received'[m] = received[m],
             unacknowledged'[m] = unacknowledged[m]
      PROVE  CountOf(m)'
  <2>1. m.incident \in Incidents /\ m.kind \in Kinds /\ m = Msg(m.incident, m.kind, m.channel)
    BY MsgFields
  <2>2. (Fresh(m)' => Fresh(m)) /\ (Failing(m)' => Failing(m))
    <3>1. CASE m.incident = i /\ m.kind = k
      BY <1>6, <1>8, <2>1, <3>1 DEF Fresh, Failing
    <3>2. CASE m.incident # i \/ m.kind # k
      BY <1>6, <2>1, <3>2 DEF Fresh, Failing, OnlyTask
    <3> QED BY <3>1, <3>2
  <2>3. InSent(m)' <=> InSent(m)
    BY <1>1 DEF InSent
  <2> QED BY <1>1, <1>8, <2>2, <2>3, CountFrame
<1>9. ASSUME received'[n] \in Nat, unacknowledged'[n] \in Nat,
             unacknowledged'[n] <= received'[n], received'[n] <= 1 + unacknowledged'[n],
             Failing(n)' => received'[n] = unacknowledged'[n]
      PROVE  CountOf(n)'
  BY <1>1, <1>7, <1>9, <1>n DEF CountOf
<1>d. ASSUME NEW f \in SUBSET {c}, Dealt(i, k, c, f) PROVE Failing(n)' <=> f # {}
  BY <1>3, <1>d, DealtAfter DEF Failing
<1>10. CASE Dealt(i, k, c, {}) /\ Receive(n) /\ UNCHANGED unacknowledged
  <2>1. received'[n] = 1 /\ unacknowledged'[n] = 0
    BY <1>3, <1>7, <1>10, Ledgers DEF Receive
  <2>2. ~Failing(n)'
    BY <1>d, <1>10
  <2>3. \A m \in Messages : m # n => received'[m] = received[m] /\ unacknowledged'[m] = unacknowledged[m]
    BY <1>3, <1>10, Ledgers DEF Receive
  <2>4. CountOf(n)'
    BY <1>9, <2>1, <2>2
  <2> QED BY <1>8, <2>3, <2>4
<1>11. CASE Dealt(i, k, c, {c}) /\ UNCHANGED <<received, unacknowledged>>
  <2>1. CountOf(n)'
    BY <1>7, <1>9, <1>11
  <2> QED BY <1>8, <1>11, <2>1
<1>12. CASE /\ Dealt(i, k, c, {c}) /\ Receive(n)
            /\ unacknowledged' = [unacknowledged EXCEPT ![n] = @ + 1]
  <2>1. received'[n] = 1 /\ unacknowledged'[n] = 1
    BY <1>3, <1>7, <1>12, Ledgers DEF Receive
  <2>2. \A m \in Messages : m # n => received'[m] = received[m] /\ unacknowledged'[m] = unacknowledged[m]
    BY <1>3, <1>12, Ledgers DEF Receive
  <2>3. CountOf(n)'
    BY <1>9, <2>1
  <2> QED BY <1>8, <2>2, <2>3
<1> QED BY <1>5, <1>10, <1>11, <1>12

\* A failure that is queued, or not, is counted.
LEMMA EnqueueCounts ==
    ASSUME TypeOK, Shape, Passes, \A m \in Messages : CountOf(m),
           NEW i \in Incidents, NEW k \in Kinds, NEW c \in Channels, EnqueueRetry(i, k, c)
    PROVE  \A m \in Messages : CountOf(m)'
<1> DEFINE n == Msg(i, k, c)
<1>1. /\ c \in task[i][k].failed /\ task' = [task EXCEPT ![i][k].failed = {}]
      /\ UNCHANGED <<retry, received, unacknowledged>>
      /\ \/ /\ queue' = [queue EXCEPT ![n] = NewRow]
            /\ enqueued' = enqueued \union {n}
         \/ UNCHANGED <<queue, enqueued>>
  BY DEF EnqueueRetry
<1>2. c \in Audience(k)
  BY <1>1 DEF TypeOK
<1>3. n \in Messages /\ n.incident = i /\ n.kind = k /\ n.channel = c
  BY <1>2, MsgType
<1>4. /\ OnlyTask(i, k) /\ task'[i][k].at = task[i][k].at
      /\ task'[i][k].todo = task[i][k].todo /\ task'[i][k].failed = {}
  BY <1>1, QueuedAfter
<1>5. Failing(n) /\ ~Fresh(n)
  <2>1. Failing(n)
    BY <1>1, <1>3 DEF Failing
  <2> QED BY <1>3, <2>1, FailingNotFresh
<1>6. ~Failing(n)' /\ ~Fresh(n)'
  BY <1>3, <1>4, <1>5 DEF Failing, Fresh
<1>7. received[n] = unacknowledged[n] /\ queue[n].status = "none" /\ n \notin enqueued
  BY <1>3, <1>5 DEF CountOf
<1>8. ~InSent(n)'
  BY <1>1, <1>7 DEF InSent, Passes
<1>9. received[n] \in Nat /\ unacknowledged[n] \in Nat
  BY <1>3, Ledgers
<1>10. CountOf(n)'
  <2>1. CASE UNCHANGED <<queue, enqueued>>
    BY <1>1, <1>6, <1>7, <1>9, <2>1 DEF CountOf
  <2>2. CASE queue' = [queue EXCEPT ![n] = NewRow]
    <3>1. queue'[n].status = "pending"
      BY <1>3, <2>2, Ledgers DEF NewRow
    <3> QED BY <1>1, <1>6, <1>7, <1>8, <1>9, <3>1 DEF CountOf
  <2> QED BY <1>1, <2>1, <2>2
<1>11. ASSUME NEW m \in Messages, m # n PROVE CountOf(m)'
  <2>1. m.incident \in Incidents /\ m.kind \in Kinds
    BY MsgFields
  <2>2. (Fresh(m)' => Fresh(m)) /\ (Failing(m)' => Failing(m))
    BY <1>4, <2>1 DEF Fresh, Failing, OnlyTask
  <2>3. queue'[m] = queue[m] /\ (m \in enqueued' <=> m \in enqueued)
    BY <1>1, <1>11, Ledgers
  <2>4. InSent(m)' <=> InSent(m)
    BY <1>1 DEF InSent
  <2> QED BY <1>1, <2>2, <2>3, <2>4, CountFrame
<1> QED BY <1>10, <1>11

\* An attempt of the retry pass is counted: the row was pending and not sent.
LEMMA AttemptCounts ==
    ASSUME TypeOK, Passes, \A m \in Messages : CountOf(m),
           NEW w \in Workers, NEW n \in Messages, AttemptSend(w, n)
    PROVE  \A m \in Messages : CountOf(m)'
<1>1. n \in retry[w].todo /\ UNCHANGED <<task, queue, enqueued>>
  BY DEF AttemptSend
<1>2. \A m \in Messages : (Fresh(m)' <=> Fresh(m)) /\ (Failing(m)' <=> Failing(m))
  BY <1>1 DEF Fresh, Failing
<1>3. retry[w].on /\ queue[n].status = "pending" /\ ~InSent(n)
  BY <1>1 DEF Passes, InSent
<1>4. /\ received[n] = unacknowledged[n] /\ ~Fresh(n) /\ ~Failing(n)
      /\ received[n] \in Nat /\ unacknowledged[n] \in Nat
  BY <1>3, Ledgers DEF CountOf
<1>5. ASSUME NEW s \in SUBSET {n}, NEW f \in SUBSET {n}, Tried(w, n, s, f)
      PROVE  \A m \in Messages : InSent(m)' <=> InSent(m) \/ m \in s
  <2>1. /\ \A v \in Workers : v # w => retry'[v] = retry[v]
        /\ retry'[w].sent = retry[w].sent \union s
    BY <1>5, TriedAfter, Zenon
  <2> QED BY <2>1 DEF InSent
<1>6. ASSUME NEW m \in Messages, received'[m] = received[m],
             unacknowledged'[m] = unacknowledged[m], InSent(m)' <=> InSent(m)
      PROVE  CountOf(m)'
  BY <1>1, <1>2, <1>6, CountFrame
<1>7. CASE Receive(n) /\ Tried(w, n, {n}, {}) /\ UNCHANGED unacknowledged
  <2>1. received'[n] = received[n] + 1 /\ \A m \in Messages : m # n => received'[m] = received[m]
    BY <1>7, Ledgers DEF Receive
  <2>2. \A m \in Messages : InSent(m)' <=> InSent(m) \/ m \in {n}
    <3>1. {n} \in SUBSET {n} /\ {} \in SUBSET {n}
      OBVIOUS
    <3> QED BY <1>5, <1>7, <3>1
  <2>3. CountOf(n)'
    BY <1>1, <1>2, <1>3, <1>4, <1>7, <2>1, <2>2 DEF CountOf
  <2> QED BY <1>6, <1>7, <2>1, <2>2, <2>3
<1>8. CASE Tried(w, n, {}, {n}) /\ UNCHANGED <<received, unacknowledged>>
  <2>1. \A m \in Messages : InSent(m)' <=> InSent(m)
    <3>1. {n} \in SUBSET {n} /\ {} \in SUBSET {n}
      OBVIOUS
    <3> QED BY <1>5, <1>8, <3>1
  <2> QED BY <1>6, <1>8, <2>1
<1>9. CASE /\ Receive(n) /\ Tried(w, n, {}, {n})
           /\ unacknowledged' = [unacknowledged EXCEPT ![n] = @ + 1]
  <2>1. /\ received'[n] = received[n] + 1 /\ unacknowledged'[n] = unacknowledged[n] + 1
        /\ \A m \in Messages : m # n => /\ received'[m] = received[m]
                                        /\ unacknowledged'[m] = unacknowledged[m]
    BY <1>9, Ledgers DEF Receive
  <2>2. \A m \in Messages : InSent(m)' <=> InSent(m)
    <3>1. {n} \in SUBSET {n} /\ {} \in SUBSET {n}
      OBVIOUS
    <3> QED BY <1>5, <1>9, <3>1
  <2>3. CountOf(n)'
    BY <1>1, <1>2, <1>3, <1>4, <2>1, <2>2 DEF CountOf
  <2> QED BY <1>6, <2>1, <2>2, <2>3
<1> QED BY <1>7, <1>8, <1>9 DEF AttemptSend

\* A pass that ends is counted: what it sent is known, or rolled back.
LEMMA EndCounts ==
    ASSUME TypeOK, Passes, \A m \in Messages : CountOf(m),
           NEW w \in Workers, CommitRetries(w) \/ AbortRetries(w)
    PROVE  \A m \in Messages : CountOf(m)'
<1>1. retry[w].on /\ retry' = [retry EXCEPT ![w] = NoRetry] /\ UNCHANGED <<task, received, enqueued>>
  BY DEF CommitRetries, AbortRetries, ledger
<1>2. \A m \in Messages : (Fresh(m)' <=> Fresh(m)) /\ (Failing(m)' <=> Failing(m))
  BY <1>1 DEF Fresh, Failing
<1>3. \A m \in Messages : ~InSent(m)' /\ (InSent(m) <=> m \in retry[w].sent)
  BY <1>1, EndAfter DEF InSent
<1>4. \A m \in retry[w].sent \union retry[w].failed :
        m \in Messages => queue[m].status = "pending"
  BY DEF Passes
<1> TAKE m \in Messages
<1>5. received[m] \in Nat /\ unacknowledged[m] \in Nat
  BY Ledgers
<1>6. CASE CommitRetries(w)
  <2>1. UNCHANGED unacknowledged
    BY <1>6 DEF CommitRetries, ledger
  <2>2. queue'[m] = IF m \in retry[w].sent THEN NoRow
                    ELSE IF m \in retry[w].failed THEN Failed(queue[m]) ELSE queue[m]
    BY <1>6 DEF CommitRetries
  <2>3. CASE m \in retry[w].sent
    <3>1. queue[m].status = "pending" /\ queue'[m].status = "none"
      BY <1>4, <2>2, <2>3 DEF NoRow
    <3>2. received[m] = unacknowledged[m] + 1 /\ ~Fresh(m) /\ ~Failing(m)
      BY <1>3, <2>3, <3>1 DEF CountOf
    <3> QED BY <1>1, <1>2, <1>5, <2>1, <3>1, <3>2 DEF CountOf
  <2>4. CASE m \notin retry[w].sent
    <3>1. (queue[m].status = "none") <=> (queue'[m].status = "none")
      BY <1>4, <2>2, <2>4 DEF Failed
    <3> QED BY <1>1, <1>2, <1>3, <2>1, <2>4, <3>1, CountFrame
  <2> QED BY <2>3, <2>4
<1>7. CASE AbortRetries(w)
  <2>1. /\ UNCHANGED queue
        /\ unacknowledged'[m] = IF m \in retry[w].sent THEN unacknowledged[m] + 1
                                ELSE unacknowledged[m]
    BY <1>7 DEF AbortRetries
  <2>2. CASE m \in retry[w].sent
    <3>1. queue[m].status = "pending"
      BY <1>4, <2>2
    <3>2. received[m] = unacknowledged[m] + 1 /\ ~Fresh(m) /\ ~Failing(m)
      BY <1>3, <2>2, <3>1 DEF CountOf
    <3> QED BY <1>1, <1>2, <1>3, <1>5, <2>1, <2>2, <3>1, <3>2 DEF CountOf
  <2>3. CASE m \notin retry[w].sent
    BY <1>1, <1>2, <1>3, <2>1, <2>3, CountFrame
  <2> QED BY <2>2, <2>3
<1> QED BY <1>6, <1>7

\* Every step keeps the counts.
LEMMA CountStep ==
    TypeOK /\ Shape /\ Passes /\ (\A m \in Messages : CountOf(m)) /\ [Next]_vars
        => \A m \in Messages : CountOf(m)'
<1> SUFFICES ASSUME TypeOK, Shape, Passes, \A m \in Messages : CountOf(m), [Next]_vars
             PROVE  \A m \in Messages : CountOf(m)'
  OBVIOUS
<1> USE DEF ledger, work
<1>k. "create" \in Kinds /\ "resolve" \in Kinds
  BY DEF Kinds
<1>f. ASSUME \A m \in Messages : (Fresh(m)' => Fresh(m)) /\ (Failing(m)' => Failing(m)),
             UNCHANGED <<queue, retry, received, unacknowledged, enqueued>>
      PROVE  \A m \in Messages : CountOf(m)'
  BY <1>f, CountFrame DEF InSent
<1>u. ASSUME UNCHANGED <<task, queue, retry, received, unacknowledged, enqueued>>
      PROVE  \A m \in Messages : CountOf(m)'
  BY <1>u, <1>f DEF Fresh, Failing
<1>1. ASSUME NEW i \in Incidents,
             CreateIncident(i) \/ \E c \in Channels : Withhold(i, c)
      PROVE  \A m \in Messages : CountOf(m)'
  <2>1. UNCHANGED <<queue, retry, received, unacknowledged, enqueued>>
    BY <1>1 DEF CreateIncident, Withhold
  <2>2. \A m \in Messages : (Fresh(m)' => Fresh(m)) /\ (Failing(m)' => Failing(m))
    BY <1>1, <1>k, MovesOn
  <2> QED BY <1>f, <2>1, <2>2
<1>2. ASSUME NEW i \in Incidents, ResolveIncident(i) \/ TicketLookup(i)
      PROVE  \A m \in Messages : CountOf(m)'
  <2>1. UNCHANGED <<queue, retry, received, unacknowledged, enqueued>>
    BY <1>2 DEF ResolveIncident, TicketLookup
  <2>2. \A m \in Messages : (Fresh(m)' => Fresh(m)) /\ (Failing(m)' => Failing(m))
    BY <1>2, <1>k, MovesOn
  <2> QED BY <1>f, <2>1, <2>2
<1>3. ASSUME NEW i \in Incidents, NEW k \in Kinds, Lookup(i, k) \/ EndTask(i, k) \/ LoseTask(i, k)
      PROVE  \A m \in Messages : CountOf(m)'
  <2>1. UNCHANGED <<queue, retry, received, unacknowledged, enqueued>>
    BY <1>3 DEF Lookup, EndTask, LoseTask
  <2>2. \A m \in Messages : (Fresh(m)' => Fresh(m)) /\ (Failing(m)' => Failing(m))
    BY <1>3, MovesOn
  <2> QED BY <1>f, <2>1, <2>2
<1>4. ASSUME NEW m \in Messages, ElapseBackoff(m)
      PROVE  \A n \in Messages : CountOf(n)'
  <2>1. UNCHANGED <<task, retry, received, unacknowledged, enqueued>>
    BY <1>4 DEF ElapseBackoff
  <2>2. \A n \in Messages : queue'[n].status = queue[n].status
    BY <1>4, ElapseAfter
  <2> QED BY <2>1, <2>2, CountFrame DEF Fresh, Failing, InSent
<1>5. ASSUME NEW w \in Workers, BeginRetries(w)
      PROVE  \A m \in Messages : CountOf(m)'
  <2>1. /\ UNCHANGED <<task, queue, received, unacknowledged, enqueued>>
        /\ \A v \in Workers : retry[v].sent = {}
    BY <1>5 DEF BeginRetries, RetryLockFree, Passes
  <2>2. \A v \in Workers : retry'[v].sent = {}
    BY <1>5, <2>1, BeginAfter
  <2> QED BY <2>1, <2>2, CountFrame DEF Fresh, Failing, InSent
<1>6. CASE \/ UNCHANGED vars \/ Dusk \/ Dawn
           \/ \E c \in Channels : SetChannel(c)
           \/ \E w \in Workers : BeginDigests(w) \/ CommitDigests(w) \/ AbortDigests(w)
           \/ \E w \in Workers, c \in Channels : SkipChannel(w, c) \/ SendDigest(w, c)
  <2>1. UNCHANGED <<task, queue, retry, received, unacknowledged, enqueued>>
    BY <1>6 DEF vars, SetChannel, Dusk, Dawn, BeginDigests, CommitDigests, AbortDigests,
                SkipChannel, SendDigest
  <2> QED BY <1>u, <2>1
<1> QED BY <1>1, <1>2, <1>3, <1>4, <1>5, <1>6, SendCounts, EnqueueCounts, AttemptCounts,
           EndCounts DEF Next

\* A platform with no incidents yet has nothing sent or queued.
LEMMA InitDelivery == Init => Shape /\ Passes /\ \A m \in Messages : CountOf(m)
<1> SUFFICES ASSUME Init PROVE Shape /\ Passes /\ \A m \in Messages : CountOf(m)
  OBVIOUS
<1>1. \A i \in Incidents, k \in Kinds : task[i][k] = NoTask /\ incident[i] = "absent"
  BY DEF Init
<1>2. \A w \in Workers : retry[w] = NoRetry
  BY DEF Init
<1>3. \A m \in Messages : /\ queue[m] = NoRow /\ received[m] = 0 /\ unacknowledged[m] = 0
                          /\ m \notin enqueued
  BY DEF Init
<1>4. Shape
  BY <1>1 DEF Shape, ShapeOf, NoTask
<1>5. Passes
  BY <1>2 DEF Passes, NoRetry
<1>6. \A m \in Messages : ~Failing(m) /\ ~InSent(m)
  BY <1>1, <1>2, MsgFields DEF Failing, InSent, NoTask, NoRetry
<1>7. \A m \in Messages : CountOf(m)
  BY <1>3, <1>6 DEF CountOf, NoRow
<1> QED BY <1>4, <1>5, <1>7

\* The counts, with what makes them inductive, hold in every reachable state.
THEOREM DeliveryAlways == Spec => []DeliveryInv
<1>1. Init => DeliveryInv
  BY InitTyped, InitDelivery DEF DeliveryInv
<1>2. DeliveryInv /\ [Next]_vars => DeliveryInv'
  BY TypeStep, ShapeStep, PassesStep, CountStep DEF DeliveryInv
<1> QED BY <1>1, <1>2, PTL DEF Spec

\* A message is received twice only when the platform could not know of the
\* first receipt.
THEOREM DuplicatesExplained == Spec => []EveryDuplicateExplained
<1>1. DeliveryInv => EveryDuplicateExplained
  BY DEF DeliveryInv, CountOf, EveryDuplicateExplained
<1> QED BY <1>1, DeliveryAlways, PTL

\* A queued message stays queued, or flagged, until its delivery is known.
THEOREM QueueKeeps == Spec => []NothingQueuedIsLost
<1>1. DeliveryInv => NothingQueuedIsLost
  <2> SUFFICES ASSUME DeliveryInv, NEW m \in enqueued
               PROVE  \/ queue[m].status \in {"pending", "exhausted"}
                      \/ received[m] > unacknowledged[m]
    BY DEF NothingQueuedIsLost
  <2>1. m \in Messages /\ CountOf(m)
    BY DEF DeliveryInv, TypeOK
  <2>2. queue[m].status \in {"none", "pending", "exhausted"}
    BY <2>1, Ledgers DEF DeliveryInv, RowType
  <2> QED BY <2>1, <2>2 DEF CountOf
<1> QED BY <1>1, DeliveryAlways, PTL

-----------------------------------------------------------------------------
(* The digest. *)

\* A chat's message that a pass has marked, or that is digested, was told.
MarkedWasTold ==
    /\ \A w \in Workers : \A m \in digest[w].marked : m.channel \in Chats => m \in told
    /\ DigestedWasTold

\* Every step keeps it: a digest is sent before its messages are marked.
LEMMA ToldStep == TypeOK /\ MarkedWasTold /\ [Next]_vars => MarkedWasTold'
<1> SUFFICES ASSUME TypeOK, MarkedWasTold, [Next]_vars PROVE MarkedWasTold'
  OBVIOUS
<1> USE DEF ledger, work
<1>0. digest \in [Workers -> DigestType] /\ suppressed \in [Messages -> {"none", "held", "digested"}]
  BY DEF TypeOK, DigestType
<1>t. \A v \in Workers : digest[v].marked \subseteq Messages
  BY <1>0 DEF DigestType
<1>u. ASSUME UNCHANGED <<digest, suppressed, told>> PROVE MarkedWasTold'
  BY <1>u DEF MarkedWasTold, DigestedWasTold
<1>d. ASSUME NEW w \in Workers, NEW q \in DigestType, digest' = [digest EXCEPT ![w] = q],
             UNCHANGED suppressed, told \subseteq told',
             \A m \in q.marked : m \in digest[w].marked \/ (m.channel \in Chats => m \in told')
      PROVE  MarkedWasTold'
  <2>1. \A v \in Workers : digest'[v] = IF v = w THEN q ELSE digest[v]
    BY <1>0, <1>d
  <2>2. \A v \in Workers : \A m \in digest'[v].marked : m.channel \in Chats => m \in told'
    BY <1>d, <2>1 DEF MarkedWasTold
  <2> QED BY <1>d, <2>2 DEF MarkedWasTold, DigestedWasTold
<1>1. ASSUME NEW i \in Incidents, NEW c \in Channels, Withhold(i, c) PROVE MarkedWasTold'
  <2>1. /\ UNCHANGED <<digest, told>>
        /\ \/ suppressed' = [suppressed EXCEPT ![Msg(i, "create", c)] = "held"]
           \/ UNCHANGED suppressed
    BY <1>1 DEF Withhold
  <2>2. \A m \in Messages : suppressed'[m] = "digested" => suppressed[m] = "digested"
    BY <1>0, <2>1
  <2> QED BY <2>1, <2>2 DEF MarkedWasTold, DigestedWasTold
<1>2. ASSUME NEW w \in Workers, BeginDigests(w) PROVE MarkedWasTold'
  <2> DEFINE q == [on |-> TRUE, marked |-> {},
                   todo |-> {c \in Channels : channel[c].enabled /\ channel[c].quiet}]
  <2>1. q \in DigestType /\ q.marked = {}
    BY DEF DigestType
  <2>2. digest' = [digest EXCEPT ![w] = q] /\ UNCHANGED <<suppressed, told>>
    BY <1>2 DEF BeginDigests
  <2> HIDE DEF q
  <2> QED BY <1>d, <2>1, <2>2
<1>3. ASSUME NEW w \in Workers, NEW c \in Channels, SkipChannel(w, c) PROVE MarkedWasTold'
  <2> DEFINE q == [digest[w] EXCEPT !.todo = @ \ {c}]
  <2>0. digest[w] \in DigestType
    BY <1>0
  <2>1. q \in DigestType /\ q.marked = digest[w].marked
    BY <2>0 DEF DigestType
  <2>2. digest' = [digest EXCEPT ![w] = q] /\ UNCHANGED <<suppressed, told>>
    BY <1>3 DEF SkipChannel
  <2> HIDE DEF q
  <2> QED BY <1>d, <2>1, <2>2
<1>4. ASSUME NEW w \in Workers, NEW c \in Channels, SendDigest(w, c) PROVE MarkedWasTold'
  <2>0. digest[w] \in DigestType /\ UNCHANGED suppressed
    BY <1>0, <1>4 DEF SendDigest
  <2>1. CASE /\ digest' = [digest EXCEPT ![w] =
                             [on |-> TRUE, todo |-> digest[w].todo \ {c},
                              marked |-> digest[w].marked \union Held(c)]]
             /\ told' = IF c \in Pagers THEN told ELSE told \union Held(c)
    <3> DEFINE q == [on |-> TRUE, todo |-> digest[w].todo \ {c},
                     marked |-> digest[w].marked \union Held(c)]
    <3>1. q \in DigestType /\ q.marked = digest[w].marked \union Held(c)
      BY <2>0 DEF DigestType, Held
    <3>2. digest' = [digest EXCEPT ![w] = q]
      BY <2>1
    <3>3. \A m \in Held(c) : m.channel \in Chats => m \in told'
      BY <2>1, ConstantsOK DEF Held
    <3> HIDE DEF q
    <3> QED BY <1>d, <2>0, <2>1, <3>1, <3>2, <3>3
  <2>2. CASE digest' = [digest EXCEPT ![w].todo = @ \ {c}] /\ UNCHANGED told
    <3> DEFINE q == [digest[w] EXCEPT !.todo = @ \ {c}]
    <3>1. q \in DigestType /\ q.marked = digest[w].marked
      BY <2>0 DEF DigestType
    <3>2. digest' = [digest EXCEPT ![w] = q]
      BY <2>2
    <3> HIDE DEF q
    <3> QED BY <1>d, <2>0, <2>2, <3>1, <3>2
  <2> QED BY <1>4, <2>1, <2>2 DEF SendDigest
<1>5. ASSUME NEW w \in Workers, CommitDigests(w) \/ AbortDigests(w) PROVE MarkedWasTold'
  <2>1. /\ digest' = [digest EXCEPT ![w] = NoDigest] /\ UNCHANGED told
        /\ \A m \in Messages : suppressed'[m] = "digested" =>
             m \in digest[w].marked \/ suppressed[m] = "digested"
    BY <1>5 DEF CommitDigests, AbortDigests
  <2>2. \A v \in Workers : digest'[v] = digest[v] \/ digest'[v].marked = {}
    BY <1>0, <2>1 DEF NoDigest
  <2> QED BY <2>1, <2>2 DEF MarkedWasTold, DigestedWasTold
<1>6. CASE \/ UNCHANGED vars \/ Dusk \/ Dawn
           \/ \E c \in Channels : SetChannel(c)
           \/ \E i \in Incidents : CreateIncident(i) \/ ResolveIncident(i) \/ TicketLookup(i)
           \/ \E i \in Incidents, k \in Kinds : Lookup(i, k) \/ EndTask(i, k) \/ LoseTask(i, k)
  BY <1>6, <1>u DEF vars, Dusk, Dawn, SetChannel, CreateIncident, ResolveIncident, TicketLookup,
                    Lookup, EndTask, LoseTask
<1>7. CASE \/ \E i \in Incidents, k \in Kinds, c \in Channels : Send(i, k, c) \/ EnqueueRetry(i, k, c)
           \/ \E m \in Messages : ElapseBackoff(m)
           \/ \E w \in Workers : BeginRetries(w) \/ CommitRetries(w) \/ AbortRetries(w)
           \/ \E w \in Workers, m \in Messages : AttemptSend(w, m)
  BY <1>7, <1>u, ZenonT(40) DEF Send, EnqueueRetry, ElapseBackoff, BeginRetries, CommitRetries,
                    AbortRetries, AttemptSend
<1> QED BY <1>1, <1>2, <1>3, <1>4, <1>5, <1>6, <1>7 DEF Next

\* A chat's withheld message is marked digested only after a digest told it.
THEOREM DigestTold == Spec => []DigestedWasTold
<1>1. Init => MarkedWasTold
  BY DEF Init, MarkedWasTold, DigestedWasTold, NoDigest
<1>2. MarkedWasTold => DigestedWasTold
  BY DEF MarkedWasTold
<1> QED BY <1>1, <1>2, ToldStep, TypeCorrect, PTL DEF Spec
================================================================================
