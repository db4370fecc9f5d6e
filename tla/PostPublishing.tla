---------------------------- MODULE PostPublishing ----------------------------
(***************************************************************************)
(* The LinkedIn queue: drafting (agents/marketing/mkt_li1_linkedin_brand), *)
(* review by the backend's routes (api/routes/internal_marketing.py) or by *)
(* the dashboard's own writes (ceo-dashboard/app/api/linkedin-queue), the  *)
(* image gate that follows an approval, and publishing by the button or by *)
(* the dispatcher that runs every quarter of an hour.                      *)
(*                                                                         *)
(* No statement shares a transaction with another.  A publisher reads the  *)
(* row, posts it and then marks it; a gate reads the row, has an image     *)
(* made, which takes minutes, and then writes it.                          *)
(***************************************************************************)
EXTENDS Naturals, FiniteSets

CONSTANTS
    Posts,          \* rows of linkedin_content_queue
    Carousels,      \* those whose format is document_carousel
    Publishers,     \* publish requests and dispatcher runs in progress at once
    Gates,          \* image-gate tasks in progress at once
    NoPost,         \* not a row
    MaxEdits,       \* bound on the reviewers' calls
    MaxFaults       \* bound on crashes, errors and lost answers

ASSUME PublishingAssumption ==
    /\ Carousels \subseteq Posts
    /\ NoPost \notin Posts /\ IsFiniteSet(Publishers)
    /\ {MaxEdits, MaxFaults} \subseteq Nat

VARIABLES
    queue,          \* the rows
    publisher,      \* rows left, the row in hand, and how far it is
    gate,           \* rows left, and the row an image is being made for
    edits, faults,  \* how much of the bounds is used
    \* history, for the properties only
    posted,         \* posts of a row that LinkedIn shows
    unmarked,       \* those of them whose answer or UPDATE was lost
    overlaps,       \* reads of a row that another publisher had in hand
    ungated         \* rows whose gate died, or was never reached

history == <<posted, unmarked, overlaps, ungated>>
vars == <<queue, publisher, gate, edits, faults, history>>

Decided == {"pending_review", "approved", "rejected", "published"}
Row == [status : Decided \union {"absent"}, image : BOOLEAN, due : BOOLEAN, stamped : BOOLEAN]

NoRow == [status |-> "absent", image |-> FALSE, due |-> FALSE, stamped |-> FALSE]
FreePublisher == [todo |-> {}, at |-> "next", post |-> NoPost]
FreeGate == [todo |-> {}, post |-> NoPost]

Init ==
    /\ queue = [p \in Posts |-> NoRow]
    /\ publisher = [w \in Publishers |-> FreePublisher]
    /\ gate = [g \in Gates |-> FreeGate]
    /\ edits = 0 /\ faults = 0
    /\ posted = [p \in Posts |-> 0]
    /\ unmarked = [p \in Posts |-> 0]
    /\ overlaps = [p \in Posts |-> 0]
    /\ ungated = {}

Edit == edits < MaxEdits /\ edits' = edits + 1
Fault == faults < MaxFaults /\ faults' = faults + 1

SetStatus(ps, s) == queue' = [p \in Posts |-> IF p \in ps THEN [queue[p] EXCEPT !.status = s] ELSE queue[p]]

-----------------------------------------------------------------------------
(* Drafting and the calendar. *)

\* The agent drafts a post, makes its image first (a failure leaves none; a
\* carousel has none), and queues it for review with a date to come.
Draft(p) ==
    /\ queue[p].status = "absent"
    /\ \E i \in IF p \in Carousels THEN {FALSE} ELSE BOOLEAN :
         queue' = [queue EXCEPT ![p] = [NoRow EXCEPT !.status = "pending_review", !.image = i]]
    /\ UNCHANGED <<publisher, gate, edits, faults, history>>

\* scheduled_for passes.
ComesDue(p) ==
    /\ queue[p].status # "absent" /\ ~queue[p].due
    /\ queue' = [queue EXCEPT ![p].due = TRUE]
    /\ UNCHANGED <<publisher, gate, edits, faults, history>>

-----------------------------------------------------------------------------
(* Review. *)

\* A bug to check against: the UPDATE has no condition on the status.
BadEditable(p) == queue[p].status # "absent"

\* WHERE id = ... AND status != 'published'
Editable(p) == queue[p].status \notin {"absent", "published"}

Pending == {p \in Posts : queue[p].status = "pending_review"}

\* Approved rows go through a gate task: the same request's, or the one that
\* the dashboard's call to generate-images starts.
StartGate(ps) ==
    /\ \E g \in Gates :
         /\ gate[g] = FreeGate
         /\ gate' = [gate EXCEPT ![g].todo = ps]
    /\ UNCHANGED <<faults, ungated>>

\* The dashboard's call fails, or the process dies before its gate: the
\* approval stands all the same.
MissGate(ps) ==
    /\ Fault
    /\ ungated' = ungated \union ps
    /\ UNCHANGED gate

\* PATCH: any of the four statuses may be set by hand; approving starts a gate.
Decide(p) ==
    /\ Editable(p) /\ Edit
    /\ \E s \in Decided :
         /\ SetStatus({p}, s)
         /\ IF s = "approved" THEN StartGate({p}) \/ MissGate({p})
            ELSE UNCHANGED <<gate, faults, ungated>>
    /\ UNCHANGED <<publisher, posted, unmarked, overlaps>>

\* PATCH of scheduled_for to a later date.
Reschedule(p) ==
    /\ Editable(p) /\ queue[p].due /\ Edit
    /\ queue' = [queue EXCEPT ![p].due = FALSE]
    /\ UNCHANGED <<publisher, gate, faults, history>>

\* Every pending row of the month is approved in one UPDATE.
BatchApprove ==
    /\ Pending # {} /\ Edit
    /\ SetStatus(Pending, "approved")
    /\ StartGate(Pending) \/ MissGate(Pending)
    /\ UNCHANGED <<publisher, posted, unmarked, overlaps>>

-----------------------------------------------------------------------------
(* The image gate. *)

GateGoesOn(g, p) == gate' = [gate EXCEPT ![g].todo = @ \ {p}, ![g].post = NoPost]

\* It reads the row; carousels and rows that have an image need nothing.
GateRead(g, p) ==
    /\ gate[g].post = NoPost /\ p \in gate[g].todo
    /\ IF p \in Carousels \/ queue[p].image
       THEN GateGoesOn(g, p)
       ELSE gate' = [gate EXCEPT ![g].post = p]
    /\ UNCHANGED <<queue, publisher, edits, faults, history>>

\* Its UPDATEs, each with AND status = 'approved'.
GateWrites(g, row) ==
    LET p == gate[g].post IN
    /\ p # NoPost
    /\ queue' = IF queue[p].status = "approved" THEN [queue EXCEPT ![p] = row] ELSE queue
    /\ GateGoesOn(g, p)
    /\ UNCHANGED <<publisher, edits, faults, history>>

GateAttach(g) == GateWrites(g, [queue[gate[g].post] EXCEPT !.image = TRUE])

\* The image was found wanting twice: it is kept, and the row reviewed again.
GateFlag(g) ==
    GateWrites(g, [queue[gate[g].post] EXCEPT !.status = "pending_review", !.image = TRUE])

\* A bug to check against: the failure is logged and nothing else.
BadGateFail(g) == GateWrites(g, queue[gate[g].post])

\* No image could be made: the row goes back to review.
GateFail(g) ==
    GateWrites(g, [queue[gate[g].post] EXCEPT !.status = "pending_review"])

\* The process dies: nothing takes its rows up again.
GateDies(g) ==
    /\ gate[g].todo # {} /\ Fault
    /\ ungated' = ungated \union gate[g].todo
    /\ gate' = [gate EXCEPT ![g] = FreeGate]
    /\ UNCHANGED <<queue, publisher, edits, posted, unmarked, overlaps>>

-----------------------------------------------------------------------------
(* Publishing. *)

InHand(w, p) == publisher[w].post = p

\* The row in hand is dealt with, in whatever way.
GoesOn(w, p) ==
    publisher' = [publisher EXCEPT ![w] = [FreePublisher EXCEPT !.todo = publisher[w].todo \ {p}]]

\* Somebody presses the button: of any row, whatever its status.
Press(w, p) ==
    /\ publisher[w] = FreePublisher /\ queue[p].status # "absent"
    /\ publisher' = [publisher EXCEPT ![w].todo = {p}]
    /\ UNCHANGED <<queue, gate, edits, faults, history>>

\* A run of the dispatcher lists what is approved, due and not published.
Dispatch(w) ==
    LET Due == {p \in Posts : queue[p].status = "approved" /\ queue[p].due /\ ~queue[p].stamped} IN
    /\ publisher[w] = FreePublisher /\ Due # {}
    /\ publisher' = [publisher EXCEPT ![w].todo = Due]
    /\ UNCHANGED <<queue, gate, edits, faults, history>>

\* publish_queue_row reads the row; it goes on with an approved one that is
\* not a carousel.
ReadRow(w, p) ==
    /\ publisher[w].at = "next" /\ p \in publisher[w].todo
    /\ queue[p].status = "approved" /\ p \notin Carousels
    /\ publisher' = [publisher EXCEPT ![w].at = "posting", ![w].post = p]
    /\ overlaps' = IF \E v \in Publishers : InHand(v, p)
                   THEN [overlaps EXCEPT ![p] = @ + 1] ELSE overlaps
    /\ UNCHANGED <<queue, gate, edits, faults, posted, unmarked, ungated>>

\* PublishError before anything is posted: the row is not approved, a
\* carousel, or LinkedIn is not connected.
Refuse(w, p) ==
    /\ publisher[w].at = "next" /\ p \in publisher[w].todo
    /\ GoesOn(w, p)
    /\ UNCHANGED <<queue, gate, edits, faults, history>>

\* LinkedIn creates the post and says so.
PostRow(w) ==
    /\ publisher[w].at = "posting"
    /\ publisher' = [publisher EXCEPT ![w].at = "posted"]
    /\ posted' = [posted EXCEPT ![publisher[w].post] = @ + 1]
    /\ UNCHANGED <<queue, gate, edits, faults, unmarked, overlaps, ungated>>

\* Its answer is an error or never comes, with the post made or not: the row
\* stays approved, to be tried again.
PostFails(w) ==
    /\ publisher[w].at = "posting" /\ Fault
    /\ LET p == publisher[w].post IN
       /\ \E made \in {0, 1} :
            /\ posted' = [posted EXCEPT ![p] = @ + made]
            /\ unmarked' = [unmarked EXCEPT ![p] = @ + made]
       /\ GoesOn(w, p)
    /\ UNCHANGED <<queue, gate, edits, overlaps, ungated>>

\* UPDATE ... SET status = 'published' WHERE id = ..., whatever the status is.
MarkPublished(w) ==
    /\ publisher[w].at = "posted"
    /\ LET p == publisher[w].post IN
       /\ queue' = [queue EXCEPT ![p].status = "published", ![p].stamped = TRUE]
       /\ GoesOn(w, p)
    /\ UNCHANGED <<gate, edits, faults, history>>

\* The UPDATE raises; the dispatcher goes on with its next row.
MarkFails(w) ==
    /\ publisher[w].at = "posted" /\ Fault
    /\ LET p == publisher[w].post IN
       /\ unmarked' = [unmarked EXCEPT ![p] = @ + 1]
       /\ GoesOn(w, p)
    /\ UNCHANGED <<queue, gate, edits, posted, overlaps, ungated>>

\* The request or the run dies where it stands.
PublisherDies(w) ==
    /\ publisher[w] # FreePublisher /\ Fault
    /\ publisher' = [publisher EXCEPT ![w] = FreePublisher]
    /\ unmarked' = IF publisher[w].at = "posted"
                   THEN [unmarked EXCEPT ![publisher[w].post] = @ + 1] ELSE unmarked
    /\ UNCHANGED <<queue, gate, edits, posted, overlaps, ungated>>

-----------------------------------------------------------------------------
ReviewStep(p) == Draft(p) \/ ComesDue(p) \/ Decide(p) \/ Reschedule(p)

GateStep(g) ==
    \/ \E p \in Posts : GateRead(g, p)
    \/ GateAttach(g) \/ GateFlag(g) \/ GateFail(g) \/ GateDies(g)

PublisherStep(w) ==
    \/ \E p \in Posts : Press(w, p) \/ ReadRow(w, p) \/ Refuse(w, p)
    \/ Dispatch(w)
    \/ PostRow(w) \/ PostFails(w) \/ MarkPublished(w) \/ MarkFails(w) \/ PublisherDies(w)

Next ==
    \/ \E p \in Posts : ReviewStep(p)
    \/ BatchApprove
    \/ \E g \in Gates : GateStep(g)
    \/ \E w \in Publishers : PublisherStep(w)

Spec == Init /\ [][Next]_vars

-----------------------------------------------------------------------------
(* Properties. *)

\* Rows, publishers and gates keep their types; a publisher has a row in hand
\* exactly while it posts and marks it; a stamped row is published.
TypeOK ==
    /\ queue \in [Posts -> Row]
    /\ \A p \in Posts : queue[p].stamped => queue[p].status = "published"
    /\ publisher \in [Publishers -> [todo : SUBSET Posts, at : {"next", "posting", "posted"},
                                     post : Posts \union {NoPost}]]
    /\ \A w \in Publishers :
         IF publisher[w].at = "next" THEN publisher[w].post = NoPost
         ELSE publisher[w].post \in publisher[w].todo \ Carousels
    /\ gate \in [Gates -> [todo : SUBSET Posts, post : Posts \union {NoPost}]]
    /\ \A g \in Gates : gate[g].post \in gate[g].todo \union {NoPost}
    /\ edits \in Nat /\ faults \in Nat
    /\ {posted, unmarked, overlaps} \subseteq [Posts -> Nat]
    /\ ungated \subseteq Posts

\* A row appears on LinkedIn more than once only if an answer or an UPDATE was
\* lost, or if a publisher read it while another one had it in hand: whatever
\* reviewers, batches and gates do, they never put a published row back.
EveryRepostExplained ==
    \A p \in Posts : posted[p] <= 1 + unmarked[p] + overlaps[p]

\* An approved row has its image, or a gate will still look at it, or its gate
\* was lost: no order of approvals, returns to review and gates leaves one out.
ApprovedIsGated ==
    \A p \in Posts \ Carousels :
      queue[p].status = "approved" /\ ~queue[p].image =>
        p \in ungated \/ \E g \in Gates : p \in gate[g].todo
================================================================================
