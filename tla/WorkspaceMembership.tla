-------------------------- MODULE WorkspaceMembership --------------------------
(***************************************************************************)
(* The seats of one workspace and the subscription that pays for them:     *)
(* invitations and their acceptance (api/routes/workspace_members.py), the *)
(* seat check (core/compliance.py), provisioning (api/routes/scim.py), and *)
(* the handlers of Stripe's events (api/routes/stripe_billing.py), which   *)
(* remove members when the plan shrinks (core/member_deactivation.py).     *)
(* The platform's administrators write the same row's tier and status      *)
(* (api/routes/internal_workspaces.py), without Stripe and without checks. *)
(*                                                                         *)
(* Every statement is a transaction of its own: a handler reads, and acts  *)
(* later on what it read.  Stripe delivers an event at least once and in   *)
(* no particular order.                                                    *)
(***************************************************************************)
EXTENDS Integers, FiniteSets, Sequences

CONSTANTS
    Members,        \* e-mail addresses that may belong to the workspace
    Slots,          \* requests of the members' routes in progress at once
    Hooks,          \* deliveries of Stripe's events in progress at once
    MaxSeats,       \* TIER_LIMITS[tier]["max_seats"]; Unlimited is -1
    OnSale,         \* the tiers a checkout buys in this instance
    Updates,        \* what an update reports in this instance: tier and status
    MaxEvents,      \* bound on the events of the subscription
    Grants,         \* the tiers an administrator sets in this instance
    MaxActs         \* bound on what administrators do to the workspace

Tiers == {"starter", "growth", "enterprise"}
Unlimited == -1
NoTier == "none"
OutOfOrder == -1

\* _TIER_RANK
Rank(t) == CASE t = "starter" -> 0 [] t = "growth" -> 1 [] t = "enterprise" -> 2

Blocked == {"pending_payment", "canceled", "suspended"}
Statuses == Blocked \union {"active", "past_due"}

ASSUME ConstantsOK ==
    /\ IsFiniteSet(Members)
    /\ IsFiniteSet(Slots) /\ Slots # {}
    /\ MaxSeats \in [Tiers -> Nat \union {Unlimited}]
    /\ OnSale \subseteq Tiers
    /\ Updates \subseteq (Tiers \union {NoTier}) \X {"active", "past_due", "unpaid"}
    /\ MaxEvents \in Nat
    /\ Grants \subseteq Tiers
    /\ MaxActs \in Nat

\* A larger plan has no fewer seats (TIER_LIMITS: 3, 15, unlimited).
ASSUME LargerPlansSeatMore ==
    \A t, u \in Tiers : (Rank(t) <= Rank(u) /\ MaxSeats[u] # Unlimited)
        => (MaxSeats[t] # Unlimited /\ MaxSeats[t] <= MaxSeats[u])

VARIABLES
    member,         \* status of the rows of workspace_members
    created,        \* created_at, as the row's number in that order
    workspace,      \* the workspace's row: tier, status, has it a customer id
    request,        \* request[r]: an invitation or an acceptance in progress
    hook,           \* hook[h]: the handling of one event of Stripe's
    stripe,         \* what Stripe knows of the subscription
    events,         \* what Stripe told of it, in the order it happened
    \* history, for the properties only
    had,            \* tiers the workspace has had
    provisioned,    \* members whom SCIM gave a seat
    unguarded,      \* a seat was taken, or a cap lowered, behind a check's back
    applied,        \* the events written, or that they were not in order
    admin           \* what administrators did: acts, columns still theirs, suspended

roster == <<member, created>>
handlers == <<request, hook>>
subscription == <<stripe, events>>
seats == <<provisioned, unguarded>>
billing == <<had, applied, admin>>
vars == <<roster, workspace, handlers, subscription, seats, billing>>

NoRequest == [at |-> "idle", member |-> "none", limit |-> 0]
NoHook == [at |-> "idle", event |-> 0, victims |-> {}]

EventType == [kind : {"checkout", "updated", "deleted", "payment_failed"},
              tier : Tiers \union {NoTier},
              status : {"active", "past_due", "unpaid", "canceled"}]

\* One type invariant: what each row, request and handler may hold.
TypeOK ==
    /\ member \in [Members -> {"none", "invited", "active", "deactivated"}]
    /\ created \in [Members -> Nat]
    /\ workspace \in [tier : Tiers, status : Statuses, customer : BOOLEAN]
    /\ request \in [Slots -> [at : {"idle", "counting", "inserting", "accepting"},
                              member : Members \union {"none"},
                              limit : Nat]]
    /\ \A r \in Slots : request[r].at # "idle" => request[r].member \in Members
    /\ hook \in [Hooks -> [at : {"idle", "customer", "tier", "list", "remove", "write"},
                           event : 0..Len(events), victims : SUBSET Members]]
    /\ \A h \in Hooks : hook[h].at # "idle" => hook[h].event # 0
    /\ stripe \in [tier : Tiers,
                   status : {"none", "active", "past_due", "unpaid", "canceled"}]
    /\ events \in Seq(EventType)
    /\ had \subseteq Tiers
    /\ provisioned \subseteq Members
    /\ unguarded \in BOOLEAN
    /\ applied \in {OutOfOrder} \union 0..Len(events)
    /\ admin \in [acts : 0..MaxActs, columns : SUBSET {"tier", "status"},
                  suspended : BOOLEAN]

\* A workspace as it is created: unpaid, on the lowest tier, without members.
Init ==
    /\ member = [m \in Members |-> "none"]
    /\ created = [m \in Members |-> 0]
    /\ workspace = [tier |-> "starter", status |-> "pending_payment", customer |-> FALSE]
    /\ request = [r \in Slots |-> NoRequest]
    /\ hook = [h \in Hooks |-> NoHook]
    /\ stripe = [tier |-> "starter", status |-> "none"]
    /\ events = <<>>
    /\ had = {"starter"}
    /\ provisioned = {}
    /\ unguarded = FALSE
    /\ applied = 0
    /\ admin = [acts |-> 0, columns |-> {}, suspended |-> FALSE]

\* The rows that occupy a seat.
Seated == {m \in Members : member[m] \in {"invited", "active"}}

Capped(t) == MaxSeats[t] # Unlimited

\* Is t a smaller plan than the row's?
Lowers(t) == Capped(t) /\ Rank(t) < Rank(workspace.tier)

(***************************************************************************)
(* Stripe (external).                                                      *)
(***************************************************************************)
Emit(kind, tier, status) ==
    /\ Len(events) < MaxEvents
    /\ events' = Append(events, [kind |-> kind, tier |-> tier, status |-> status])
    /\ stripe' = [tier |-> IF tier = NoTier THEN stripe.tier ELSE tier,
                  status |-> status]
    /\ UNCHANGED <<roster, workspace, handlers, seats, billing>>

\* A customer completes a checkout; the route refuses it to a workspace that is
\* canceled or suspended, not to one that already has a subscription.
Checkout(t) ==
    /\ workspace.status \notin {"canceled", "suspended"}
    /\ Emit("checkout", t, "active")

\* The customer changes the plan, perhaps to a price that names no tier, or the
\* status of the subscription changes.
Update(t, s) ==
    /\ stripe.status \notin {"none", "canceled"}
    /\ Emit("updated", t, s)

Delete ==
    /\ stripe.status \notin {"none", "canceled"}
    /\ Emit("deleted", NoTier, "canceled")

FailPayment ==
    /\ stripe.status \in {"active", "past_due"}
    /\ Emit("payment_failed", NoTier, "past_due")

(***************************************************************************)
(* The routes of api/routes/workspace_members.py.                          *)
(***************************************************************************)
\* Does anybody else act on a count, a tier or a list that was read before?
Overlap(r) ==
    \/ \E s \in Slots \ {r} : request[s].at \in {"counting", "inserting"}
    \/ \E h \in Hooks : hook[h].at \in {"list", "remove", "write"}

\* invite_member: assert_seat_available reads the tier ...
InviteReadTier(r, m) ==
    /\ request[r].at = "idle"
    /\ workspace.status \notin Blocked
    /\ request' = [request EXCEPT ![r] =
                     [at |-> IF Capped(workspace.tier) THEN "counting" ELSE "inserting",
                      member |-> m,
                      limit |-> IF Capped(workspace.tier) THEN MaxSeats[workspace.tier] ELSE 0]]
    /\ UNCHANGED <<roster, workspace, hook, subscription, seats, billing>>

\* An invitation not yet accepted taken for no seat at all.
BadInviteCountActiveOnly(r) ==
    /\ request[r].at = "counting"
    /\ IF Cardinality({m \in Members : member[m] = "active"}) >= request[r].limit
       THEN request' = [request EXCEPT ![r] = NoRequest]
       ELSE request' = [request EXCEPT ![r] =
                          [at |-> "inserting", member |-> request[r].member, limit |-> 0]]
    /\ UNCHANGED <<roster, workspace, hook, subscription, seats, billing>>

\* ... and counts the seats taken: 403, or go on.
InviteCount(r) ==
    /\ request[r].at = "counting"
    /\ IF Cardinality(Seated) >= request[r].limit
       THEN request' = [request EXCEPT ![r] = NoRequest]
       ELSE request' = [request EXCEPT ![r] =
                          [at |-> "inserting", member |-> request[r].member, limit |-> 0]]
    /\ UNCHANGED <<roster, workspace, hook, subscription, seats, billing>>

NextCreated == 1 + Cardinality({m \in Members : member[m] # "none"})

\* The row is inserted as invited, whether or not the e-mail can be sent after
\* it; a row of that address ends the request with a 409, or the INSERT with a
\* violated UNIQUE.
InsertInvited(r) ==
    LET m == request[r].member
    IN /\ request[r].at = "inserting"
       /\ request' = [request EXCEPT ![r] = NoRequest]
       /\ IF member[m] = "none"
          THEN /\ member' = [member EXCEPT ![m] = "invited"]
               /\ created' = [created EXCEPT ![m] = NextCreated]
               /\ unguarded' = (unguarded \/ Overlap(r))
          ELSE UNCHANGED <<roster, unguarded>>
       /\ UNCHANGED <<workspace, hook, subscription, provisioned, billing>>

\* accept_invite looks for the pending invitation; no subscription is needed.
AcceptFind(r, m) ==
    /\ request[r].at = "idle"
    /\ member[m] = "invited"
    /\ request' = [request EXCEPT ![r] = [at |-> "accepting", member |-> m, limit |-> 0]]
    /\ UNCHANGED <<roster, workspace, hook, subscription, seats, billing>>

\* The UPDATE by id does not look at the status again: a member removed in
\* between comes back.
AcceptWrite(r) ==
    LET m == request[r].member
    IN /\ request[r].at = "accepting"
       /\ member' = [member EXCEPT ![m] = "active"]
       /\ unguarded' = (unguarded \/ member[m] = "deactivated")
       /\ request' = [request EXCEPT ![r] = NoRequest]
       /\ UNCHANGED <<created, workspace, hook, subscription,
                      provisioned, billing>>

\* A statement fails or the process dies.
LoseRequest(r) ==
    /\ request[r].at # "idle"
    /\ request' = [request EXCEPT ![r] = NoRequest]
    /\ UNCHANGED <<roster, workspace, hook, subscription, seats, billing>>

\* deactivate_member: its SELECT refuses a member already deactivated, which its
\* unconditional UPDATE would not change: the two statements act as one.
Deactivate(m) ==
    /\ workspace.status \notin Blocked
    /\ member[m] \in {"invited", "active"}
    /\ member' = [member EXCEPT ![m] = "deactivated"]
    /\ UNCHANGED <<created, workspace, handlers, subscription, seats, billing>>

(***************************************************************************)
(* SCIM: the identity provider writes the rows, and no seat is counted.    *)
(***************************************************************************)
Provision(m, s) ==
    /\ member' = [member EXCEPT ![m] = s]
    /\ IF s = "active" /\ m \notin Seated
       THEN /\ provisioned' = provisioned \union {m}
            /\ unguarded' = TRUE
       ELSE UNCHANGED seats

ScimCreate(m, s) ==
    /\ member[m] = "none"
    /\ Provision(m, s)
    /\ created' = [created EXCEPT ![m] = NextCreated]
    /\ UNCHANGED <<workspace, handlers, subscription, billing>>

\* PUT, PATCH and DELETE of a user: the status is set, whatever it was.
ScimSet(m, s) ==
    /\ member[m] \notin {"none", s}
    /\ Provision(m, s)
    /\ UNCHANGED <<created, workspace, handlers, subscription, billing>>

(***************************************************************************)
(* stripe_webhook and its handlers.                                        *)
(***************************************************************************)
Event(h) == events[hook[h].event]

\* Stripe sends an event until it is answered, and sometimes again, in whatever
\* order; an answer is not kept here, so any event may be sent at any time.
Deliver(h, n) ==
    /\ hook[h].at = "idle"
    /\ hook' = [hook EXCEPT ![h] =
                  [at |-> IF events[n].kind = "checkout" THEN "write" ELSE "customer",
                   event |-> n, victims |-> {}]]
    /\ UNCHANGED <<roster, workspace, request, subscription, seats, billing>>

\* _workspace_id_for_customer: an event of a customer not known yet is answered
\* with a 200 and forgotten.
FindCustomer(h) ==
    /\ hook[h].at = "customer"
    /\ IF workspace.customer
       THEN hook' = [hook EXCEPT ![h].at =
                       IF Event(h).kind = "updated" /\ Event(h).tier # NoTier
                       THEN "tier" ELSE "write"]
       ELSE hook' = [hook EXCEPT ![h] = NoHook]
    /\ UNCHANGED <<roster, workspace, request, subscription, seats, billing>>

\* Is the event a downgrade of the tier in the row?
ReadTier(h) ==
    /\ hook[h].at = "tier"
    /\ hook' = [hook EXCEPT ![h].at =
                  IF Rank(Event(h).tier) < Rank(workspace.tier) /\ Capped(Event(h).tier)
                  THEN "list" ELSE "write"]
    /\ UNCHANGED <<roster, workspace, request, subscription, seats, billing>>

\* The k members of S whose rows were created last.
Newest(S, k) == {m \in S : Cardinality({v \in S : created[v] > created[m]}) < k}

\* One member too few.
BadListMembers(h) ==
    /\ hook[h].at = "list"
    /\ hook' = [hook EXCEPT ![h] =
                  [at |-> "remove", event |-> hook[h].event,
                   victims |-> Newest(Seated, Cardinality(Seated) - 1 - MaxSeats[Event(h).tier])]]
    /\ UNCHANGED <<roster, workspace, request, subscription, seats, billing>>

\* The seated members beyond the new cap, newest first.
ListMembers(h) ==
    /\ hook[h].at = "list"
    /\ hook' = [hook EXCEPT ![h] =
                  [at |-> "remove", event |-> hook[h].event,
                   victims |-> Newest(Seated, Cardinality(Seated) - MaxSeats[Event(h).tier])]]
    /\ UNCHANGED <<roster, workspace, request, subscription, seats, billing>>

\* deactivate_member_row, a transaction for each of them.
RemoveMember(h) ==
    /\ hook[h].at = "remove"
    /\ \E m \in Newest(hook[h].victims, 1) :
         /\ member' = [member EXCEPT ![m] = "deactivated"]
         /\ hook' = [hook EXCEPT ![h].victims = @ \ {m}]
    /\ UNCHANGED <<created, workspace, request, subscription, seats, billing>>

LocalStatus(s) == IF s = "unpaid" THEN "suspended" ELSE s

\* A price that names no tier taken for the default one.
BadTierAfter(e) == IF e.tier = NoTier THEN "starter" ELSE e.tier

\* An unrecognized price, and an event without items, leave the tier as it is.
TierAfter(e) == IF e.tier = NoTier THEN workspace.tier ELSE e.tier

\* _update_workspace_billing: whatever the row holds by now, and however old the
\* event is.  A checkout alone sets the customer; it removes nobody.
WriteBilling(h) ==
    LET e == Event(h)
        t == TierAfter(e)
    IN /\ hook[h].at = "write" \/ (hook[h].at = "remove" /\ hook[h].victims = {})
       /\ workspace' = [tier |-> t, status |-> LocalStatus(e.status),
                        customer |-> workspace.customer \/ e.kind = "checkout"]
       /\ hook' = [hook EXCEPT ![h] = NoHook]
       /\ had' = had \union {t}
       /\ unguarded' = (unguarded \/ (Lowers(t) /\
                          \/ hook[h].at = "write"
                          \/ \E r \in Slots : request[r].at \in {"counting", "inserting"}))
       /\ applied' = IF applied # OutOfOrder /\ hook[h].event \in {applied, applied + 1}
                     THEN hook[h].event ELSE OutOfOrder
       /\ admin' = [admin EXCEPT !.columns =
                      @ \ (IF e.tier = NoTier THEN {"status"} ELSE {"tier", "status"})]
       /\ UNCHANGED <<roster, request, subscription, provisioned>>

\* A handler raises or its process dies: Stripe sends the event again.
FailHook(h) ==
    /\ hook[h].at # "idle"
    /\ hook' = [hook EXCEPT ![h] = NoHook]
    /\ UNCHANGED <<roster, workspace, request, subscription, seats, billing>>

(***************************************************************************)
(* api/routes/internal_workspaces.py: the platform's administrators.       *)
(***************************************************************************)
\* An administrator writes these columns of the row, whatever it holds.
Act(columns, suspended) ==
    /\ admin.acts < MaxActs
    /\ admin' = [acts |-> admin.acts + 1, columns |-> admin.columns \union columns,
                 suspended |-> suspended]
    /\ UNCHANGED <<roster, handlers, subscription, provisioned, applied>>

\* set_workspace_tier: no seat is counted, nobody is removed.
SetTier(t) ==
    /\ Act({"tier"}, admin.suspended)
    /\ workspace' = [workspace EXCEPT !.tier = t]
    /\ had' = had \union {t}
    /\ unguarded' = (unguarded \/ Lowers(t))

\* suspend_workspace and reactivate_workspace: _set_subscription_status.
Suspend ==
    /\ Act({"status"}, TRUE)
    /\ workspace' = [workspace EXCEPT !.status = "suspended"]
    /\ UNCHANGED <<had, unguarded>>

Reactivate ==
    /\ Act({"status"}, FALSE)
    /\ workspace' = [workspace EXCEPT !.status = "active"]
    /\ UNCHANGED <<had, unguarded>>

Next ==
    \/ \E t \in OnSale : Checkout(t)
    \/ \E u \in Updates : Update(u[1], u[2])
    \/ Delete
    \/ FailPayment
    \/ \E r \in Slots :
         \/ \E m \in Members : InviteReadTier(r, m) \/ AcceptFind(r, m)
         \/ InviteCount(r)
         \/ InsertInvited(r)
         \/ AcceptWrite(r)
         \/ LoseRequest(r)
    \/ \E m \in Members :
         \/ Deactivate(m)
         \/ \E s \in {"active", "deactivated"} : ScimCreate(m, s) \/ ScimSet(m, s)
    \/ \E h \in Hooks :
         \/ \E n \in 1..Len(events) : Deliver(h, n)
         \/ FindCustomer(h)
         \/ ReadTier(h)
         \/ ListMembers(h)
         \/ RemoveMember(h)
         \/ WriteBilling(h)
         \/ FailHook(h)
    \/ \E t \in Grants : SetTier(t)
    \/ Suspend
    \/ Reactivate

Spec == Init /\ [][Next]_vars

(***************************************************************************)
(* Properties.                                                             *)
(***************************************************************************)
\* Members some request is about to give a seat.
Pending == {m \in Members : \E r \in Slots :
              request[r].at \in {"inserting", "accepting"} /\ request[r].member = m}

\* The check and the INSERT are two statements, and still no more seats are
\* taken than the largest plan the workspace has had allows, plus one for each
\* further request served at the same time; what SCIM provisions is not counted.
SeatOverrunBounded ==
    \E t \in had :
        Capped(t) => Cardinality((Seated \union Pending) \ provisioned)
                        <= MaxSeats[t] + Cardinality(Slots) - 1

\* A workspace is over its plan's seats only after one of the steps that take no
\* account of them: two requests or a request and a downgrade at the same time,
\* an acceptance of a member just removed, SCIM, a checkout of a smaller plan, a
\* smaller plan set by an administrator, or an event whose handler compared its
\* plan with a tier that has been replaced since.  A late, repeated or
\* half-handled event of Stripe's alone never does it.
OverSeatsOnlyUnguarded ==
    (Capped(workspace.tier) /\ Cardinality(Seated) > MaxSeats[workspace.tier])
        => unguarded

\* When every event was written in the order it happened, however often, and
\* whatever administrators did in between, the workspace has the tier Stripe
\* bills, unless an administrator has set one after the last event that named a
\* tier was written, and is locked out exactly when Stripe gave its payments up,
\* unless an administrator has suspended or reactivated it after the last write.
InOrderBillingAgrees ==
    (events # <<>> /\ applied = Len(events)) =>
        /\ "tier" \in admin.columns \/ workspace.tier = stripe.tier
        /\ \/ "status" \in admin.columns
           \/ workspace.status \in Blocked <=> stripe.status \in {"unpaid", "canceled"}

\* What the offboarding procedure and the route's docstring say of a suspension:
\* it is independent of Stripe, and reversed by a reactivation.
SuspensionHolds == admin.suspended => workspace.status \in Blocked

(***************************************************************************)
(* The inductive invariants behind OverSeatsOnlyUnguarded and              *)
(* InOrderBillingAgrees.                                                   *)
(***************************************************************************)
Fits(n) == Capped(workspace.tier) => n <= MaxSeats[workspace.tier]

\* Until a check is passed by: a request that has been let through leaves room
\* for its member, one that is being checked is compared with no more than the
\* plan has, and a downgrade that removes members leaves those that fit.
SeatsGuarded ==
    /\ Fits(Cardinality(Seated))
    /\ \A r \in Slots :
         /\ request[r].at = "counting" => Fits(request[r].limit)
         /\ request[r].at = "inserting" => Fits(Cardinality(Seated) + 1)
    /\ \A h \in Hooks : hook[h].at = "remove" =>
         Cardinality(Seated \ hook[h].victims) <= MaxSeats[Event(h).tier]

\* An acceptance is of a row that exists, a removal for a plan with a cap.
HandlersAct ==
    /\ \A r \in Slots : request[r].at = "accepting" => member[request[r].member] # "none"
    /\ \A h \in Hooks :
         /\ hook[h].at \in {"tier", "list", "remove"} => Event(h).tier \in Tiers
         /\ hook[h].at \in {"list", "remove"} => Capped(Event(h).tier)

GuardInv == HandlersAct /\ (~unguarded => SeatsGuarded)

\* t is the tier after the first n events: the last that one of them names.
TierAfterFirst(n, t) ==
    \/ /\ t = "starter"
       /\ \A i \in 1..n : events[i].tier = NoTier
    \/ \E i \in 1..n : /\ events[i].tier = t
                       /\ \A j \in (i + 1)..n : events[j].tier = NoTier

\* Stripe is where its last event says, and the workspace, while nothing was
\* written out of order, where the last event written says.
BillingInv ==
    /\ TierAfterFirst(Len(events), stripe.tier)
    /\ events # <<>> => stripe.status = events[Len(events)].status
    /\ applied # OutOfOrder =>
         /\ "tier" \in admin.columns \/ TierAfterFirst(applied, workspace.tier)
         /\ applied # 0 => \/ "status" \in admin.columns
                           \/ workspace.status = LocalStatus(events[applied].status)
===============================================================================
