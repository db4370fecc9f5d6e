------------------------- MODULE PostPublishing_proofs -------------------------
(***************************************************************************)
(* Proofs about PostPublishing, for any posts, publishers and gates.       *)
(***************************************************************************)
EXTENDS PostPublishing, FiniteSetTheorems, TLAPS

-----------------------------------------------------------------------------
(* Types. *)

PublisherType == [todo : SUBSET Posts, at : {"next", "posting", "posted"},
                  post : Posts \union {NoPost}]
GateType == [todo : SUBSET Posts, post : Posts \union {NoPost}]

\* A publisher that goes on is free to read its next row.
LEMMA GoesOnFact ==
    ASSUME TypeOK, NEW w \in Publishers, NEW p \in Posts, GoesOn(w, p)
    PROVE  /\ publisher' \in [Publishers -> PublisherType]
           /\ publisher'[w].at = "next" /\ publisher'[w].post = NoPost
           /\ \A v \in Publishers : v # w => publisher'[v] = publisher[v]
BY DEF GoesOn, TypeOK, FreePublisher, PublisherType

\* A gate that goes on drops one row and holds none.
LEMMA GateGoesOnFact ==
    ASSUME TypeOK, NEW g \in Gates, NEW p \in Posts, GateGoesOn(g, p)
    PROVE  /\ gate' \in [Gates -> GateType]
           /\ gate'[g].todo = gate[g].todo \ {p} /\ gate'[g].post = NoPost
           /\ \A h \in Gates : h # g => gate'[h] = gate[h]
BY ZenonT(40) DEF GateGoesOn, TypeOK, GateType

\* Starting a gate leaves the others as they were.
LEMMA StartGateFact ==
    ASSUME TypeOK, NEW ps \in SUBSET Posts, StartGate(ps)
    PROVE  /\ gate' \in [Gates -> GateType]
           /\ \A g \in Gates : gate'[g].post \in gate'[g].todo \union {NoPost}
           /\ \E g \in Gates : ps \subseteq gate'[g].todo
           /\ \A g \in Gates : gate[g].todo \subseteq gate'[g].todo
<1>1. PICK g \in Gates : gate[g] = FreeGate /\ gate' = [gate EXCEPT ![g].todo = ps]
  BY DEF StartGate
<1>2. gate[g].todo = {} /\ gate[g].post = NoPost
  BY <1>1 DEF FreeGate
<1>3. gate'[g].todo = ps /\ gate'[g].post = NoPost /\ \A h \in Gates : h # g => gate'[h] = gate[h]
  BY <1>1, <1>2 DEF TypeOK
<1>4. gate' \in [Gates -> GateType]
  BY <1>1 DEF TypeOK, GateType
<1> QED BY <1>2, <1>3, <1>4 DEF TypeOK

\* SetStatus changes the status of the rows it is given and nothing else.
LEMMA SetStatusFact ==
    ASSUME TypeOK, NEW ps \in SUBSET Posts, NEW s \in Decided, SetStatus(ps, s),
           \A p \in ps : queue[p].status # "published"
    PROVE  /\ queue' \in [Posts -> Row]
           /\ \A p \in Posts : queue'[p].stamped => queue'[p].status = "published"
           /\ \A p \in ps : queue'[p].status = s /\ queue'[p].image = queue[p].image
           /\ \A p \in Posts \ ps : queue'[p] = queue[p]
BY DEF SetStatus, TypeOK, Row, Decided

\* Dates passing or moved change neither status nor image.
LEMMA DueFact ==
    ASSUME TypeOK, NEW q \in Posts, ComesDue(q) \/ Reschedule(q)
    PROVE  \A x \in Posts : queue'[x].status = queue[x].status /\ queue'[x].image = queue[x].image
<1>1. PICK b \in BOOLEAN : queue' = [queue EXCEPT ![q].due = b]
  <2>1. CASE ComesDue(q)
    BY <2>1 DEF ComesDue
  <2>2. CASE Reschedule(q)
    BY <2>2 DEF Reschedule
  <2> QED BY <2>1, <2>2
<1> QED BY <1>1 DEF TypeOK, Row

-----------------------------------------------------------------------------
\* A reviewer's step keeps the types.
LEMMA ReviewTypes ==
    ASSUME TypeOK, NEW p \in Posts, ReviewStep(p)
    PROVE  TypeOK'
<1>1. CASE Draft(p)
  <2>1. PICK i \in BOOLEAN : queue' = [queue EXCEPT ![p] = [NoRow EXCEPT !.status = "pending_review", !.image = i]]
    BY <1>1 DEF Draft
  <2> QED BY <1>1, <2>1 DEF Draft, TypeOK, Row, NoRow, Decided, history
<1>2. CASE ComesDue(p)
  BY <1>2, ZenonT(40) DEF ComesDue, TypeOK, Row, history
<1>3. CASE Decide(p)
  <2>1. PICK s \in Decided :
          /\ SetStatus({p}, s)
          /\ IF s = "approved" THEN StartGate({p}) \/ MissGate({p})
             ELSE UNCHANGED <<gate, faults, ungated>>
    BY <1>3 DEF Decide
  <2>2. /\ queue' \in [Posts -> Row]
        /\ \A x \in Posts : queue'[x].stamped => queue'[x].status = "published"
    BY <1>3, <2>1, SetStatusFact DEF Decide, Editable
  <2>3. /\ gate' \in [Gates -> GateType]
        /\ \A g \in Gates : gate'[g].post \in gate'[g].todo \union {NoPost}
        /\ faults' \in Nat /\ ungated' \subseteq Posts
    <3>1. CASE StartGate({p})
      BY <3>1, StartGateFact DEF StartGate, TypeOK
    <3>2. CASE MissGate({p})
      BY <3>2 DEF MissGate, Fault, TypeOK, GateType
    <3>3. CASE UNCHANGED <<gate, faults, ungated>>
      BY <3>3 DEF TypeOK, GateType
    <3> QED BY <2>1, <3>1, <3>2, <3>3
  <2> QED BY <1>3, <2>2, <2>3 DEF Decide, Edit, TypeOK, GateType
<1>4. CASE Reschedule(p)
  <2>1. /\ queue' \in [Posts -> Row]
        /\ \A x \in Posts : queue'[x].stamped => queue'[x].status = "published"
    <3>1. queue \in [Posts -> Row] /\ queue' = [queue EXCEPT ![p].due = FALSE]
      BY <1>4 DEF Reschedule, TypeOK
    <3>2. [queue[p] EXCEPT !.due = FALSE] \in Row
      BY <3>1 DEF Row
    <3>3. queue' \in [Posts -> Row]
      BY <3>1, <3>2
    <3>4. \A x \in Posts : /\ queue'[x].status = queue[x].status
                           /\ queue'[x].stamped = queue[x].stamped
      BY <1>4, DueFact, <3>1 DEF Row
    <3> QED BY <3>3, <3>4 DEF TypeOK
  <2>2. edits' \in Nat
    BY <1>4 DEF Reschedule, Edit, TypeOK
  <2> QED BY <1>4, <2>1, <2>2 DEF Reschedule, TypeOK, history
<1> QED BY <1>1, <1>2, <1>3, <1>4 DEF ReviewStep

\* A batch approval keeps the types.
LEMMA BatchTypes ==
    ASSUME TypeOK, BatchApprove
    PROVE  TypeOK'
<1>1. Pending \subseteq Posts /\ \A p \in Pending : queue[p].status # "published"
  BY DEF Pending
<1>2. /\ queue' \in [Posts -> Row]
      /\ \A x \in Posts : queue'[x].stamped => queue'[x].status = "published"
  BY <1>1, SetStatusFact DEF BatchApprove, Decided
<1>3. /\ gate' \in [Gates -> GateType]
      /\ \A g \in Gates : gate'[g].post \in gate'[g].todo \union {NoPost}
      /\ faults' \in Nat /\ ungated' \subseteq Posts
  <2>1. CASE StartGate(Pending)
    BY <1>1, <2>1, StartGateFact DEF StartGate, TypeOK
  <2>2. CASE MissGate(Pending)
    BY <1>1, <2>2 DEF MissGate, Fault, TypeOK, GateType
  <2> QED BY <2>1, <2>2 DEF BatchApprove
<1> QED BY <1>2, <1>3 DEF BatchApprove, Edit, TypeOK, GateType

\* What the gate's UPDATE leaves: the row it was given, if it was approved.
LEMMA GateWriteTypes ==
    ASSUME TypeOK, NEW g \in Gates, NEW row \in Row, GateWrites(g, row),
           gate[g].post # NoPost => row.stamped = queue[gate[g].post].stamped
    PROVE  TypeOK'
<1> DEFINE p == gate[g].post
<1>1. p \in Posts /\ p \in gate[g].todo
  BY DEF GateWrites, TypeOK
<1>2. queue' \in [Posts -> Row]
  BY <1>1 DEF GateWrites, TypeOK
<1>3. \A x \in Posts : queue'[x].stamped => queue'[x].status = "published"
  <2>1. \A x \in Posts : queue[x].status = "approved" => ~queue[x].stamped
    BY DEF TypeOK, Row
  <2> QED BY <1>1, <2>1 DEF GateWrites, TypeOK, Row
<1>4. /\ gate' \in [Gates -> GateType]
      /\ \A h \in Gates : gate'[h].post \in gate'[h].todo \union {NoPost}
  <2>1. GateGoesOn(g, p)
    BY DEF GateWrites
  <2> QED BY <1>1, <2>1, GateGoesOnFact DEF TypeOK
<1> QED BY <1>2, <1>3, <1>4 DEF GateWrites, TypeOK, GateType, history

\* The three rows a gate may write.
LEMMA GateWritesWhat ==
    ASSUME TypeOK, NEW g \in Gates, GateAttach(g) \/ GateFlag(g) \/ GateFail(g)
    PROVE  \E row \in Row :
             /\ GateWrites(g, row)
             /\ gate[g].post \in Posts /\ row.stamped = queue[gate[g].post].stamped
             /\ row.image \/ row.status = "pending_review"
<1> DEFINE p == gate[g].post
<1>1. p \in Posts
  BY DEF GateAttach, GateFlag, GateFail, GateWrites, TypeOK
<1>2. queue[p] \in Row
  BY <1>1 DEF TypeOK
<1>3. CASE GateAttach(g)
  <2> DEFINE row == [queue[p] EXCEPT !.image = TRUE]
  <2>1. row \in Row /\ row.image /\ row.stamped = queue[p].stamped
    BY <1>2 DEF Row
  <2>2. GateWrites(g, row)
    BY <1>3 DEF GateAttach
  <2> QED BY <1>1, <2>1, <2>2
<1>4. CASE GateFlag(g)
  <2> DEFINE row == [queue[p] EXCEPT !.status = "pending_review", !.image = TRUE]
  <2>1. row \in Row /\ row.image /\ row.stamped = queue[p].stamped
    BY <1>2 DEF Row, Decided
  <2>2. GateWrites(g, row)
    BY <1>4 DEF GateFlag
  <2> QED BY <1>1, <2>1, <2>2
<1>5. CASE GateFail(g)
  <2> DEFINE row == [queue[p] EXCEPT !.status = "pending_review"]
  <2>1. row \in Row /\ row.status = "pending_review" /\ row.stamped = queue[p].stamped
    BY <1>2 DEF Row, Decided
  <2>2. GateWrites(g, row)
    BY <1>5 DEF GateFail
  <2> QED BY <1>1, <2>1, <2>2
<1> QED BY <1>3, <1>4, <1>5

\* A gate's step keeps the types.
LEMMA GateTypes ==
    ASSUME TypeOK, NEW g \in Gates, GateStep(g)
    PROVE  TypeOK'
<1>1. ASSUME NEW p \in Posts, GateRead(g, p) PROVE TypeOK'
  <2>1. CASE GateGoesOn(g, p)
    <3>1. /\ gate' \in [Gates -> GateType]
          /\ \A h \in Gates : gate'[h].post \in gate'[h].todo \union {NoPost}
      BY <2>1, GateGoesOnFact DEF TypeOK
    <3> QED BY <1>1, <3>1 DEF GateRead, TypeOK, GateType, history
  <2>2. CASE gate' = [gate EXCEPT ![g].post = p]
    BY <1>1, <2>2 DEF GateRead, TypeOK, history
  <2> QED BY <1>1, <2>1, <2>2 DEF GateRead
<1>2. CASE GateAttach(g) \/ GateFlag(g) \/ GateFail(g)
  BY <1>2, GateWritesWhat, GateWriteTypes
<1>3. CASE GateDies(g)
  BY <1>3 DEF GateDies, Fault, FreeGate, TypeOK
<1> QED BY <1>1, <1>2, <1>3 DEF GateStep

\* A publisher's step keeps the types.
LEMMA PublisherTypes ==
    ASSUME TypeOK, NEW w \in Publishers, PublisherStep(w)
    PROVE  TypeOK'
<1>t. publisher \in [Publishers -> PublisherType]
  BY DEF TypeOK, PublisherType
<1>h. publisher[w].at # "next" => publisher[w].post \in Posts
  BY DEF TypeOK
<1>1. ASSUME NEW p \in Posts, Press(w, p) PROVE TypeOK'
  BY <1>1 DEF Press, FreePublisher, TypeOK, history
<1>2. CASE Dispatch(w)
  <2> DEFINE Due == {p \in Posts : queue[p].status = "approved" /\ queue[p].due /\ ~queue[p].stamped}
  <2>1. publisher[w] = FreePublisher /\ publisher' = [publisher EXCEPT ![w].todo = Due] /\ Due \subseteq Posts
    BY <1>2 DEF Dispatch
  <2> HIDE DEF Due
  <2> QED BY <1>2, <2>1 DEF Dispatch, FreePublisher, TypeOK, history
<1>3. ASSUME NEW p \in Posts, ReadRow(w, p) PROVE TypeOK'
  <2>1. publisher' \in [Publishers -> PublisherType]
    BY <1>t, <1>3 DEF ReadRow, PublisherType
  <2>2. \A v \in Publishers :
          IF publisher'[v].at = "next" THEN publisher'[v].post = NoPost
          ELSE publisher'[v].post \in publisher'[v].todo \ Carousels
    BY <1>3 DEF ReadRow, TypeOK
  <2>3. overlaps' \in [Posts -> Nat]
    BY <1>3 DEF ReadRow, TypeOK
  <2> QED BY <1>3, <2>1, <2>2, <2>3 DEF ReadRow, TypeOK, PublisherType
<1>4. ASSUME NEW p \in Posts, Refuse(w, p) PROVE TypeOK'
  BY <1>4, GoesOnFact DEF Refuse, TypeOK, history, PublisherType
<1>5. CASE PostRow(w)
  <2>1. posted' \in [Posts -> Nat]
    BY <1>5, <1>h DEF PostRow, TypeOK
  <2> QED BY <1>5, <2>1 DEF PostRow, TypeOK
<1>6. CASE PostFails(w)
  <2>1. posted' \in [Posts -> Nat] /\ unmarked' \in [Posts -> Nat]
    BY <1>6, <1>h DEF PostFails, TypeOK
  <2>2. GoesOn(w, publisher[w].post) /\ faults' \in Nat
    BY <1>6 DEF PostFails, Fault, TypeOK
  <2> QED BY <1>6, <1>h, <2>1, <2>2, GoesOnFact DEF PostFails, TypeOK, PublisherType
<1>7. CASE MarkPublished(w)
  <2>1. /\ queue' \in [Posts -> Row]
        /\ \A x \in Posts : queue'[x].stamped => queue'[x].status = "published"
    BY <1>7, <1>h DEF MarkPublished, TypeOK, Row, Decided
  <2> QED BY <1>7, <1>h, <2>1, GoesOnFact, SMTT(20) DEF MarkPublished, TypeOK, PublisherType, history
<1>8. CASE MarkFails(w)
  <2>1. unmarked' \in [Posts -> Nat] /\ faults' \in Nat
    BY <1>8, <1>h DEF MarkFails, Fault, TypeOK
  <2> QED BY <1>8, <1>h, <2>1, GoesOnFact DEF MarkFails, TypeOK, PublisherType
<1>9. CASE PublisherDies(w)
  <2>1. unmarked' \in [Posts -> Nat] /\ faults' \in Nat
    BY <1>9, <1>h DEF PublisherDies, Fault, TypeOK
  <2> QED BY <1>9, <2>1 DEF PublisherDies, FreePublisher, TypeOK
<1> QED BY <1>1, <1>2, <1>3, <1>4, <1>5, <1>6, <1>7, <1>8, <1>9 DEF PublisherStep

\* Every step keeps the types.
LEMMA TypeStep == TypeOK /\ [Next]_vars => TypeOK'
<1> SUFFICES ASSUME TypeOK, [Next]_vars PROVE TypeOK'
  OBVIOUS
<1>1. CASE UNCHANGED vars
  BY <1>1 DEF vars, history, TypeOK
<1> QED BY <1>1, ReviewTypes, BatchTypes, GateTypes, PublisherTypes DEF Next

\* Every reachable state of the queue is type-correct.
THEOREM TypeCorrect == Spec => []TypeOK
<1>1. Init => TypeOK
  BY DEF Init, TypeOK, NoRow, Row, FreePublisher, FreeGate
<1> QED BY <1>1, TypeStep, PTL DEF Spec

-----------------------------------------------------------------------------
(* The image gate. *)

\* A row that needs a gate has one, or lost it.
Gated(p) ==
    queue[p].status = "approved" /\ ~queue[p].image =>
      p \in ungated \/ \E g \in Gates : p \in gate[g].todo

\* A step that gives a row no new need of a gate and takes no gate from it
\* keeps it gated.
LEMMA StaysGated ==
    ASSUME NEW p \in Posts, Gated(p),
           queue'[p].status = "approved" /\ ~queue'[p].image =>
             queue[p].status = "approved" /\ ~queue[p].image,
           ungated \subseteq ungated',
           \A g \in Gates : p \in gate[g].todo => p \in gate'[g].todo \/ p \in ungated'
    PROVE  Gated(p)'
BY DEF Gated

\* A review gives the rows it approves a gate, or counts it as missed.
LEMMA ReviewGates ==
    ASSUME TypeOK, NEW ps \in SUBSET Posts, NEW p \in Posts, Gated(p),
           \A q \in Posts \ ps : queue'[q] = queue[q],
           StartGate(ps) \/ MissGate(ps)
    PROVE  Gated(p)'
<1>1. CASE StartGate(ps)
  <2>1. \E g \in Gates : ps \subseteq gate'[g].todo
    BY <1>1, StartGateFact
  <2>2. \A g \in Gates : gate[g].todo \subseteq gate'[g].todo
    BY <1>1, StartGateFact
  <2>3. CASE p \in ps
    BY <2>1, <2>3 DEF Gated
  <2>4. CASE p \notin ps
    BY <1>1, <2>2, <2>4 DEF StartGate, Gated
  <2> QED BY <2>3, <2>4
<1>2. CASE MissGate(ps)
  BY <1>2 DEF MissGate, Gated
<1> QED BY <1>1, <1>2

\* Every step keeps every text post gated.
LEMMA GatedStep ==
    ASSUME TypeOK, [Next]_vars, NEW p \in Posts \ Carousels, Gated(p)
    PROVE  Gated(p)'
<1>1. ASSUME NEW q \in Posts, ReviewStep(q) PROVE Gated(p)'
  <2>1. CASE Draft(q) \/ ComesDue(q) \/ Reschedule(q)
    <3>1. queue'[p].status = "approved" /\ ~queue'[p].image =>
            queue[p].status = "approved" /\ ~queue[p].image
      <4>1. CASE Draft(q)
        <5>1. PICK i \in BOOLEAN : queue' = [queue EXCEPT ![q] = [NoRow EXCEPT !.status = "pending_review", !.image = i]]
          BY <4>1 DEF Draft
        <5>2. queue'[q].status = "pending_review" /\ (p # q => queue'[p] = queue[p])
          BY <5>1 DEF TypeOK, NoRow
        <5> QED BY <5>2
      <4>2. CASE ComesDue(q) \/ Reschedule(q)
        BY <4>2, DueFact
      <4> QED BY <2>1, <4>1, <4>2
    <3> QED BY <2>1, <3>1 DEF Draft, ComesDue, Reschedule, history, Gated
  <2>2. CASE Decide(q)
    <3>1. PICK s \in Decided :
            /\ SetStatus({q}, s)
            /\ IF s = "approved" THEN StartGate({q}) \/ MissGate({q})
               ELSE UNCHANGED <<gate, faults, ungated>>
      BY <2>2 DEF Decide
    <3>2. /\ queue'[q].status = s
          /\ \A x \in Posts \ {q} : queue'[x] = queue[x]
      <4>1. {q} \in SUBSET Posts /\ \A x \in {q} : queue[x].status # "published"
        BY <1>1, <2>2 DEF Decide, Editable
      <4>2. SetStatus({q}, s)
        BY <3>1
      <4> QED BY <4>1, <4>2, SetStatusFact
    <3>3. CASE s = "approved"
      BY <3>1, <3>2, <3>3, ReviewGates
    <3>4. CASE s # "approved"
      BY <3>1, <3>2, <3>4 DEF Gated
    <3> QED BY <3>3, <3>4
  <2> QED BY <1>1, <2>1, <2>2 DEF ReviewStep
<1>2. CASE BatchApprove
  <2>1. Pending \in SUBSET Posts /\ \A x \in Posts \ Pending : queue'[x] = queue[x]
    BY <1>2, SetStatusFact DEF BatchApprove, Pending, Decided
  <2> QED BY <1>2, <2>1, ReviewGates DEF BatchApprove
<1>3. ASSUME NEW g \in Gates, GateStep(g) PROVE Gated(p)'
  <2>1. ASSUME NEW q \in Posts, GateRead(g, q) PROVE Gated(p)'
    <3>1. queue' = queue /\ ungated' = ungated
      BY <2>1 DEF GateRead, history
    <3>2. CASE GateGoesOn(g, q) /\ (q \in Carousels \/ queue[q].image)
      <4>1. CASE p = q
        BY <3>1, <3>2, <4>1 DEF Gated
      <4>2. CASE p # q
        <5>1. \A h \in Gates : p \in gate[h].todo => p \in gate'[h].todo
          BY <3>2, <4>2, GateGoesOnFact
        <5> QED BY <3>1, <5>1 DEF Gated
      <4> QED BY <4>1, <4>2
    <3>3. CASE gate' = [gate EXCEPT ![g].post = q]
      <4>1. \A h \in Gates : gate'[h].todo = gate[h].todo
        BY <3>3 DEF TypeOK
      <4> QED BY <3>1, <4>1 DEF Gated
    <3> QED BY <2>1, <3>2, <3>3 DEF GateRead
  <2>2. CASE GateAttach(g) \/ GateFlag(g) \/ GateFail(g)
    <3>1. PICK row \in Row :
            /\ GateWrites(g, row)
            /\ gate[g].post \in Posts
            /\ row.image \/ row.status = "pending_review"
      BY <2>2, GateWritesWhat
    <3> DEFINE q == gate[g].post
    <3>2. /\ queue' = IF queue[q].status = "approved" THEN [queue EXCEPT ![q] = row] ELSE queue
          /\ GateGoesOn(g, q) /\ ungated' = ungated
      BY <3>1 DEF GateWrites, history
    <3>3. \A h \in Gates : p # q /\ p \in gate[h].todo => p \in gate'[h].todo
      BY <3>1, <3>2, GateGoesOnFact
    <3>4. CASE p = q
      <4>1. ~(queue'[p].status = "approved" /\ ~queue'[p].image)
        BY <3>1, <3>2, <3>4 DEF TypeOK
      <4> QED BY <4>1 DEF Gated
    <3>5. CASE p # q
      <4>1. queue'[p] = queue[p]
        BY <3>1, <3>2, <3>5 DEF TypeOK
      <4> QED BY <3>2, <3>3, <3>5, <4>1 DEF Gated
    <3> QED BY <3>4, <3>5
  <2>3. CASE GateDies(g)
    <3>1. /\ queue' = queue /\ ungated' = ungated \union gate[g].todo
          /\ \A h \in Gates : h # g => gate'[h].todo = gate[h].todo
      BY <2>3 DEF GateDies, TypeOK
    <3> QED BY <3>1 DEF Gated
  <2> QED BY <1>3, <2>1, <2>2, <2>3 DEF GateStep
<1>4. ASSUME NEW w \in Publishers, PublisherStep(w) PROVE Gated(p)'
  <2>1. gate' = gate /\ ungated' = ungated
    BY <1>4 DEF PublisherStep, Press, ReadRow, Refuse, Dispatch, PostRow, PostFails,
                MarkPublished, MarkFails, PublisherDies, history
  <2>2. queue' = queue \/ MarkPublished(w)
    BY <1>4 DEF PublisherStep, Press, ReadRow, Refuse, Dispatch, PostRow, PostFails,
                MarkFails, PublisherDies
  <2>3. queue'[p].status = "approved" => queue'[p] = queue[p]
    <3>1. CASE MarkPublished(w)
      BY <3>1 DEF MarkPublished, TypeOK
    <3> QED BY <2>2, <3>1
  <2> QED BY <2>1, <2>3 DEF Gated
<1>5. CASE UNCHANGED vars
  BY <1>5 DEF vars, history, Gated
<1> QED BY <1>1, <1>2, <1>3, <1>4, <1>5 DEF Next

\* No order of approvals, returns to review, gates and crashes leaves a text
\* post approved with no image, no gate to come and no gate lost.
THEOREM GateReachesAll == Spec => []ApprovedIsGated
<1>1. Init => ApprovedIsGated
  BY DEF Init, ApprovedIsGated, NoRow
<1>2. TypeOK /\ ApprovedIsGated /\ [Next]_vars => ApprovedIsGated'
  <2> SUFFICES ASSUME TypeOK, ApprovedIsGated, [Next]_vars,
                      NEW p \in Posts \ Carousels
               PROVE  Gated(p)'
    BY DEF ApprovedIsGated, Gated
  <2>1. Gated(p)
    BY DEF ApprovedIsGated, Gated
  <2> QED BY <2>1, GatedStep
<1> QED BY <1>1, <1>2, TypeCorrect, PTL DEF Spec

-----------------------------------------------------------------------------
(* Reposts. *)

InHandOf(p) == {w \in Publishers : publisher[w].post = p}
Posting(p) == {w \in InHandOf(p) : publisher[w].at = "posting"}

\* The posts a row has, and those being made, are at most one more than its
\* accidents explain; and none more while the row may still be read by a
\* publisher with nobody else's help.
OnceEach(p) ==
    /\ posted[p] + Cardinality(Posting(p)) <= unmarked[p] + overlaps[p] + 1
    /\ InHandOf(p) = {} /\ queue[p].status # "published"
         => posted[p] <= unmarked[p] + overlaps[p]

RepostInv == TypeOK /\ \A p \in Posts : OnceEach(p)

\* The counts are numbers, now and after a step that keeps the types.
LEMMA Counts ==
    ASSUME TypeOK, TypeOK', NEW p \in Posts
    PROVE  /\ posted[p] \in Nat /\ unmarked[p] \in Nat /\ overlaps[p] \in Nat
           /\ posted'[p] \in Nat /\ unmarked'[p] \in Nat /\ overlaps'[p] \in Nat
           /\ IsFiniteSet(Posting(p)) /\ Cardinality(Posting(p)) \in Nat
           /\ IsFiniteSet(Posting(p)') /\ Cardinality(Posting(p)') \in Nat
<1>1. Posting(p) \subseteq Publishers /\ Posting(p)' \subseteq Publishers
  BY DEF Posting, InHandOf
<1>2. IsFiniteSet(Posting(p)) /\ IsFiniteSet(Posting(p)')
  BY <1>1, FS_Subset, PublishingAssumption
<1> QED BY <1>2, FS_CardinalityType DEF TypeOK

\* A step that changes neither the hands nor the counts, and publishes but
\* never takes back, keeps it.
LEMMA QuietOnce ==
    ASSUME NEW p \in Posts, OnceEach(p),
           InHandOf(p)' = InHandOf(p), Posting(p)' = Posting(p),
           posted'[p] = posted[p], unmarked'[p] = unmarked[p], overlaps'[p] = overlaps[p],
           queue[p].status = "published" => queue'[p].status = "published"
    PROVE  OnceEach(p)'
BY DEF OnceEach

\* A row that a publisher lets go of, whatever came of it.
LEMMA LetGo ==
    ASSUME TypeOK, TypeOK', NEW p \in Posts, NEW w \in Publishers, OnceEach(p),
           w \in InHandOf(p), InHandOf(p)' = InHandOf(p) \ {w},
           Posting(p)' = Posting(p) \ {w},
           overlaps'[p] = overlaps[p],
           queue[p].status = "published" => queue'[p].status = "published",
           NEW made \in {0, 1}, NEW lost \in {0, 1},
           posted'[p] = posted[p] + made, unmarked'[p] = unmarked[p] + lost,
           \/ w \in Posting(p) /\ made = lost
           \/ w \notin Posting(p) /\ made = 0 /\ (lost = 1 \/ queue'[p].status = "published")
    PROVE  OnceEach(p)'
<1> DEFINE n == Cardinality(Posting(p))
           k == Cardinality(Posting(p)')
<1>1. /\ posted[p] \in Nat /\ unmarked[p] \in Nat /\ overlaps[p] \in Nat
      /\ n \in Nat /\ k \in Nat /\ IsFiniteSet(Posting(p))
  BY Counts
<1>2. posted[p] + n <= unmarked[p] + overlaps[p] + 1
  BY DEF OnceEach
<1>3. k = IF w \in Posting(p) THEN n - 1 ELSE n
  <2>1. CASE w \in Posting(p)
    BY <1>1, <2>1, FS_RemoveElement
  <2>2. CASE w \notin Posting(p)
    <3>1. Posting(p)' = Posting(p)
      BY <2>2
    <3> QED BY <2>2, <3>1
  <2> QED BY <2>1, <2>2
<1> HIDE DEF n, k
<1>4. posted'[p] + k <= unmarked'[p] + overlaps'[p] + 1
  BY <1>1, <1>2, <1>3
<1>5. queue'[p].status # "published" => posted'[p] <= unmarked'[p] + overlaps'[p]
  BY <1>1, <1>2, <1>3
<1> QED BY <1>4, <1>5 DEF OnceEach, k

\* Reviews and gates put no published row back, and touch nothing else.
LEMMA ReviewOnce ==
    ASSUME TypeOK, NEW p \in Posts, OnceEach(p),
           (\E q \in Posts : ReviewStep(q)) \/ BatchApprove \/ (\E g \in Gates : GateStep(g))
    PROVE  OnceEach(p)'
<1>1. queue[p].status = "published" => queue'[p].status = "published"
  <2>1. ASSUME NEW q \in Posts, Draft(q)
        PROVE queue[p].status = "published" => queue'[p].status = "published"
    BY <2>1 DEF Draft, TypeOK
  <2>2. ASSUME NEW q \in Posts, ComesDue(q) \/ Reschedule(q)
        PROVE queue[p].status = "published" => queue'[p].status = "published"
    BY <2>2, DueFact
  <2>3. ASSUME NEW q \in Posts, Decide(q)
        PROVE queue[p].status = "published" => queue'[p].status = "published"
    BY <2>3 DEF Decide, Editable, SetStatus
  <2>4. CASE BatchApprove
    BY <2>4 DEF BatchApprove, SetStatus, Pending
  <2>5. ASSUME NEW g \in Gates, GateStep(g)
        PROVE queue[p].status = "published" => queue'[p].status = "published"
    <3>1. CASE queue' = queue
      BY <3>1
    <3>2. CASE GateAttach(g) \/ GateFlag(g) \/ GateFail(g)
      <4>1. PICK row \in Row : GateWrites(g, row)
        BY <3>2, GateWritesWhat
      <4> QED BY <4>1 DEF GateWrites, TypeOK
    <3> QED BY <2>5, <3>1, <3>2 DEF GateStep, GateRead, GateDies
  <2> QED BY <2>1, <2>2, <2>3, <2>4, <2>5 DEF ReviewStep
<1>2. UNCHANGED <<publisher, posted, unmarked, overlaps>>
  BY DEF ReviewStep, Draft, ComesDue, Decide, Reschedule, BatchApprove, GateStep, GateRead,
         GateAttach, GateFlag, GateFail, GateWrites, GateDies, history
<1>3. InHandOf(p)' = InHandOf(p) /\ Posting(p)' = Posting(p)
  BY <1>2 DEF InHandOf, Posting
<1> QED BY <1>1, <1>2, <1>3, QuietOnce

\* The hands of a row after a publisher goes on: without that publisher.
LEMMA HandsAfter ==
    ASSUME TypeOK, NEW w \in Publishers, NEW p \in Posts,
           publisher'[w].post = NoPost,
           \A v \in Publishers : v # w => publisher'[v] = publisher[v]
    PROVE  InHandOf(p)' = InHandOf(p) \ {w} /\ Posting(p)' = Posting(p) \ {w}
BY PublishingAssumption DEF InHandOf, Posting

\* A publisher with a row in hand lets go of it, and of no other row.
LEMMA PublisherOnce ==
    ASSUME TypeOK, TypeOK', NEW p \in Posts, OnceEach(p), NEW w \in Publishers, PublisherStep(w)
    PROVE  OnceEach(p)'
<1>h. publisher[w].at # "next" => publisher[w].post \in Posts
  BY DEF TypeOK
<1>c. /\ posted[p] \in Nat /\ unmarked[p] \in Nat /\ overlaps[p] \in Nat
      /\ IsFiniteSet(Posting(p)) /\ Cardinality(Posting(p)) \in Nat
  BY Counts
<1>1. ASSUME (\E q \in Posts : Press(w, q) \/ Refuse(w, q)) \/ Dispatch(w)
      PROVE OnceEach(p)'
  <2>1. UNCHANGED <<queue, posted, unmarked, overlaps>>
    BY <1>1 DEF Press, Refuse, Dispatch, history
  <2>2. publisher[w].post = NoPost
    BY <1>1 DEF Press, Refuse, Dispatch, FreePublisher, TypeOK
  <2>3. publisher'[w].post = NoPost /\ \A v \in Publishers : v # w => publisher'[v] = publisher[v]
    <3>1. ASSUME NEW q \in Posts, Press(w, q)
          PROVE publisher'[w].post = NoPost /\ \A v \in Publishers : v # w => publisher'[v] = publisher[v]
      BY <2>2, <3>1 DEF Press, TypeOK
    <3>2. ASSUME NEW q \in Posts, Refuse(w, q)
          PROVE publisher'[w].post = NoPost /\ \A v \in Publishers : v # w => publisher'[v] = publisher[v]
      BY <3>2, GoesOnFact DEF Refuse
    <3>3. CASE Dispatch(w)
      BY <2>2, <3>3 DEF Dispatch, TypeOK
    <3> QED BY <1>1, <3>1, <3>2, <3>3
  <2>4. InHandOf(p)' = InHandOf(p) /\ Posting(p)' = Posting(p)
    <3>1. w \notin InHandOf(p) /\ w \notin Posting(p)
      BY <2>2, PublishingAssumption DEF InHandOf, Posting
    <3>2. InHandOf(p)' = InHandOf(p) \ {w} /\ Posting(p)' = Posting(p) \ {w}
      BY <2>3, HandsAfter
    <3> QED BY <3>1, <3>2
  <2> QED BY <2>1, <2>4, QuietOnce
<1>2. ASSUME NEW q \in Posts, ReadRow(w, q) PROVE OnceEach(p)'
  <2>1. /\ publisher[w].post = NoPost /\ publisher'[w].post = q /\ publisher'[w].at = "posting"
        /\ \A v \in Publishers : v # w => publisher'[v] = publisher[v]
    BY <1>2 DEF ReadRow, TypeOK
  <2>2. UNCHANGED <<queue, posted, unmarked>>
    BY <1>2 DEF ReadRow
  <2>3. CASE p # q
    <3>1. InHandOf(p)' = InHandOf(p) /\ Posting(p)' = Posting(p)
      BY <2>1, <2>3, PublishingAssumption DEF InHandOf, Posting
    <3>2. overlaps'[p] = overlaps[p]
      BY <1>2, <2>3 DEF ReadRow, TypeOK
    <3> QED BY <2>2, <3>1, <3>2, QuietOnce
  <2>4. CASE p = q
    <3>1. /\ Posting(p)' = Posting(p) \union {w} /\ w \notin Posting(p)
          /\ InHandOf(p)' # {}
      BY <2>1, <2>4, PublishingAssumption DEF InHandOf, Posting
    <3>2. Cardinality(Posting(p)') = Cardinality(Posting(p)) + 1
      BY <1>c, <3>1, FS_AddElement
    <3>3. CASE InHandOf(p) = {}
      <4>1. Posting(p) = {} /\ Cardinality({}) = 0
        BY <3>3, FS_EmptySet DEF Posting
      <4>2. overlaps'[p] = overlaps[p] /\ queue[p].status = "approved"
        BY <1>2, <2>4, <3>3 DEF ReadRow, InHand, InHandOf
      <4>3. posted[p] <= unmarked[p] + overlaps[p]
        BY <3>3, <4>2 DEF OnceEach
      <4> QED BY <1>c, <2>2, <3>1, <3>2, <4>1, <4>2, <4>3 DEF OnceEach
    <3>4. CASE InHandOf(p) # {}
      <4>1. overlaps'[p] = overlaps[p] + 1
        BY <1>2, <2>4, <3>4 DEF ReadRow, InHand, InHandOf, TypeOK
      <4>2. posted[p] + Cardinality(Posting(p)) <= unmarked[p] + overlaps[p] + 1
        BY DEF OnceEach
      <4> DEFINE n == Cardinality(Posting(p))
                 k == Cardinality(Posting(p)')
      <4> HIDE DEF n, k
      <4>3. posted'[p] + k <= unmarked'[p] + overlaps'[p] + 1
        BY <1>c, <2>2, <3>2, <4>1, <4>2 DEF n, k
      <4> QED BY <3>1, <4>3 DEF OnceEach, k
    <3> QED BY <3>3, <3>4
  <2> QED BY <2>3, <2>4
<1>3. CASE PostRow(w)
  <2> DEFINE q == publisher[w].post
  <2>1. q \in Posts /\ publisher[w].at = "posting"
    BY <1>3, <1>h DEF PostRow
  <2>2. /\ publisher'[w].post = q /\ publisher'[w].at = "posted"
        /\ \A v \in Publishers : v # w => publisher'[v] = publisher[v]
        /\ UNCHANGED <<queue, unmarked, overlaps>>
    BY <1>3 DEF PostRow, TypeOK
  <2>3. InHandOf(p)' = InHandOf(p)
    BY <2>2 DEF InHandOf
  <2>4. CASE p # q
    <3>1. Posting(p)' = Posting(p) /\ posted'[p] = posted[p]
      BY <1>3, <2>2, <2>4 DEF PostRow, Posting, InHandOf, TypeOK
    <3> QED BY <2>2, <2>3, <3>1, QuietOnce
  <2>5. CASE p = q
    <3>1. Posting(p)' = Posting(p) \ {w} /\ w \in Posting(p) /\ w \in InHandOf(p)
      BY <2>1, <2>2, <2>5 DEF Posting, InHandOf
    <3>2. Cardinality(Posting(p)') = Cardinality(Posting(p)) - 1
      BY <1>c, <3>1, FS_RemoveElement
    <3>3. posted'[p] = posted[p] + 1
      BY <1>3, <2>5 DEF PostRow, TypeOK
    <3> DEFINE n == Cardinality(Posting(p))
               k == Cardinality(Posting(p)')
    <3>4. n \in Nat /\ k = n - 1 /\ posted[p] + n <= unmarked[p] + overlaps[p] + 1
      BY <1>c, <3>2 DEF OnceEach
    <3> HIDE DEF n, k
    <3>5. posted'[p] + k <= unmarked'[p] + overlaps'[p] + 1
      BY <1>c, <2>2, <3>3, <3>4
    <3>6. InHandOf(p)' # {}
      BY <2>3, <3>1
    <3> QED BY <3>5, <3>6 DEF OnceEach, k
  <2> QED BY <2>4, <2>5
<1>4. ASSUME PostFails(w) \/ MarkPublished(w) \/ MarkFails(w) \/ (PublisherDies(w) /\ publisher[w].at # "next")
      PROVE OnceEach(p)'
  <2> DEFINE q == publisher[w].post
  <2>1. q \in Posts
    BY <1>4, <1>h DEF PostFails, MarkPublished, MarkFails
  <2>2. /\ publisher'[w].post = NoPost
        /\ \A v \in Publishers : v # w => publisher'[v] = publisher[v]
    <3>1. CASE GoesOn(w, q)
      BY <2>1, <3>1, GoesOnFact
    <3>2. CASE PublisherDies(w)
      BY <3>2 DEF PublisherDies, FreePublisher, TypeOK
    <3> QED BY <1>4, <3>1, <3>2 DEF PostFails, MarkPublished, MarkFails
  <2>3. InHandOf(p)' = InHandOf(p) \ {w} /\ Posting(p)' = Posting(p) \ {w}
    BY <2>2, HandsAfter
  <2>4. overlaps' = overlaps
    BY <1>4 DEF PostFails, MarkPublished, MarkFails, PublisherDies, history
  <2>5. queue[p].status = "published" => queue'[p].status = "published"
    <3>1. CASE MarkPublished(w)
      BY <3>1 DEF MarkPublished, TypeOK, Row
    <3>2. CASE queue' = queue
      BY <3>2
    <3> QED BY <1>4, <3>1, <3>2 DEF PostFails, MarkFails, PublisherDies
  <2>6. CASE p # q
    <3>1. posted'[p] = posted[p] /\ unmarked'[p] = unmarked[p]
      BY <1>4, <2>6 DEF PostFails, MarkPublished, MarkFails, PublisherDies, TypeOK, history
    <3>2. InHandOf(p)' = InHandOf(p) /\ Posting(p)' = Posting(p)
      BY <2>3, <2>6 DEF InHandOf, Posting
    <3> QED BY <2>4, <2>5, <3>1, <3>2, QuietOnce
  <2>7. CASE p = q
    <3>1. w \in InHandOf(p)
      BY <2>7 DEF InHandOf
    <3>2. CASE PostFails(w)
      <4>1. w \in Posting(p)
        BY <3>1, <3>2 DEF PostFails, Posting
      <4>2. PICK made \in {0, 1} : posted'[p] = posted[p] + made /\ unmarked'[p] = unmarked[p] + made
        BY <2>7, <3>2 DEF PostFails, TypeOK
      <4> QED BY <2>3, <2>4, <2>5, <3>1, <4>1, <4>2, LetGo
    <3>3. CASE MarkPublished(w)
      <4>1. w \notin Posting(p) /\ queue'[p].status = "published"
        BY <2>7, <3>3 DEF MarkPublished, Posting, TypeOK
      <4>2. posted'[p] = posted[p] + 0 /\ unmarked'[p] = unmarked[p] + 0
        BY <1>c, <3>3 DEF MarkPublished, history
      <4> QED BY <2>3, <2>4, <2>5, <3>1, <4>1, <4>2, LetGo
    <3>4. CASE MarkFails(w)
      <4>1. w \notin Posting(p)
        BY <3>4 DEF MarkFails, Posting
      <4>2. posted'[p] = posted[p] + 0 /\ unmarked'[p] = unmarked[p] + 1
        BY <1>c, <2>7, <3>4 DEF MarkFails, TypeOK
      <4> QED BY <2>3, <2>4, <2>5, <3>1, <4>1, <4>2, LetGo
    <3>5. CASE PublisherDies(w) /\ publisher[w].at = "posting"
      <4>1. w \in Posting(p)
        BY <3>1, <3>5 DEF Posting
      <4>2. posted'[p] = posted[p] + 0 /\ unmarked'[p] = unmarked[p] + 0
        BY <1>c, <3>5 DEF PublisherDies
      <4> QED BY <2>3, <2>4, <2>5, <3>1, <4>1, <4>2, LetGo
    <3>6. CASE PublisherDies(w) /\ publisher[w].at = "posted"
      <4>1. w \notin Posting(p)
        BY <3>6 DEF Posting
      <4>2. posted'[p] = posted[p] + 0 /\ unmarked'[p] = unmarked[p] + 1
        BY <1>c, <2>7, <3>6 DEF PublisherDies, TypeOK
      <4> QED BY <2>3, <2>4, <2>5, <3>1, <4>1, <4>2, LetGo
    <3> QED BY <1>4, <3>2, <3>3, <3>4, <3>5, <3>6 DEF TypeOK
  <2> QED BY <2>6, <2>7
<1>5. CASE PublisherDies(w) /\ publisher[w].at = "next"
  <2>1. publisher[w].post = NoPost
    BY <1>5 DEF TypeOK
  <2>2. /\ publisher'[w].post = NoPost
        /\ \A v \in Publishers : v # w => publisher'[v] = publisher[v]
        /\ UNCHANGED <<queue, posted, unmarked, overlaps>>
    BY <1>5 DEF PublisherDies, FreePublisher, TypeOK
  <2>3. InHandOf(p)' = InHandOf(p) /\ Posting(p)' = Posting(p)
    <3>1. w \notin InHandOf(p) /\ w \notin Posting(p)
      BY <2>1, PublishingAssumption DEF InHandOf, Posting
    <3>2. InHandOf(p)' = InHandOf(p) \ {w} /\ Posting(p)' = Posting(p) \ {w}
      BY <2>2, HandsAfter
    <3> QED BY <3>1, <3>2
  <2> QED BY <2>2, <2>3, QuietOnce
<1> QED BY <1>1, <1>2, <1>3, <1>4, <1>5 DEF PublisherStep

\* Every step keeps the reposts explained.
LEMMA RepostStep == RepostInv /\ [Next]_vars => RepostInv'
<1> SUFFICES ASSUME RepostInv, [Next]_vars PROVE RepostInv'
  OBVIOUS
<1>1. TypeOK /\ TypeOK'
  BY TypeStep DEF RepostInv
<1>2. ASSUME NEW p \in Posts PROVE OnceEach(p)'
  <2>1. OnceEach(p)
    BY DEF RepostInv
  <2>2. CASE UNCHANGED vars
    BY <2>1, <2>2 DEF vars, history, OnceEach, Posting, InHandOf
  <2>3. CASE \E w \in Publishers : PublisherStep(w)
    BY <1>1, <2>1, <2>3, PublisherOnce
  <2> QED BY <1>1, <2>1, <2>2, <2>3, ReviewOnce DEF Next
<1> QED BY <1>1, <1>2 DEF RepostInv

\* The count of posts under way is kept in every reachable state.
THEOREM RepostsAlways == Spec => []RepostInv
<1>1. Init => RepostInv
  <2> SUFFICES ASSUME Init PROVE RepostInv
    OBVIOUS
  <2>1. TypeOK
    BY DEF Init, TypeOK, NoRow, Row, FreePublisher, FreeGate
  <2>2. ASSUME NEW p \in Posts PROVE OnceEach(p)
    <3>1. Posting(p) = {} /\ Cardinality({}) = 0
      BY FS_EmptySet, PublishingAssumption DEF Init, Posting, InHandOf, FreePublisher
    <3>2. posted[p] = 0 /\ unmarked[p] = 0 /\ overlaps[p] = 0
      BY DEF Init
    <3> QED BY <3>1, <3>2 DEF OnceEach
  <2> QED BY <2>1, <2>2 DEF RepostInv
<1> QED BY <1>1, RepostStep, PTL DEF Spec

\* A row is on LinkedIn more than once only after a lost answer or UPDATE, or
\* two publishers at once: for any number of them, of reviewers and of gates.
THEOREM RepostsExplained == Spec => []EveryRepostExplained
<1>1. RepostInv => EveryRepostExplained
  <2> SUFFICES ASSUME RepostInv, NEW p \in Posts
               PROVE  posted[p] <= 1 + unmarked[p] + overlaps[p]
    BY DEF EveryRepostExplained
  <2> DEFINE n == Cardinality(Posting(p))
  <2>1. posted[p] + n <= unmarked[p] + overlaps[p] + 1
    BY DEF RepostInv, OnceEach
  <2>2. posted[p] \in Nat /\ unmarked[p] \in Nat /\ overlaps[p] \in Nat
    BY DEF RepostInv, TypeOK
  <2>3. n \in Nat
    <3>1. Posting(p) \subseteq Publishers
      BY DEF Posting, InHandOf
    <3> QED BY <3>1, FS_Subset, FS_CardinalityType, PublishingAssumption
  <2> HIDE DEF n
  <2> QED BY <2>1, <2>2, <2>3
<1> QED BY <1>1, RepostsAlways, PTL
================================================================================
