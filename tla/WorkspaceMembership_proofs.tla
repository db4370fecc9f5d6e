----------------------- MODULE WorkspaceMembership_proofs -----------------------
(***************************************************************************)
(* Proofs about WorkspaceMembership, for any members, requests, deliveries *)
(* and seat limits: its types, the bound on the seats taken, what takes a  *)
(* workspace over its plan, and what events written in order lead to.      *)
(***************************************************************************)
EXTENDS WorkspaceMembership, FiniteSetTheorems, WellFoundedInduction, TLAPS

-----------------------------------------------------------------------------
(* Types. *)

\* What TypeOK says of one request, and of one delivery among n events.
RequestType == [at : {"idle", "counting", "inserting", "accepting"},
                member : Members \union {"none"}, limit : Nat]
HookType(n) == [at : {"idle", "customer", "tier", "list", "remove", "write"},
                event : 0..n, victims : SUBSET Members]

\* A request may be given any record whose member is one when it is not idle.
LEMMA RequestTyped ==
    ASSUME TypeOK, NEW r \in Slots, NEW q \in RequestType,
           q.at # "idle" => q.member \in Members
    PROVE  /\ [request EXCEPT ![r] = q] \in [Slots -> RequestType]
           /\ \A s \in Slots : [request EXCEPT ![r] = q][s].at # "idle"
                => [request EXCEPT ![r] = q][s].member \in Members
BY DEF TypeOK, RequestType

\* A delivery may be given any record whose event is one when it is not idle.
LEMMA HookTyped ==
    ASSUME TypeOK, NEW h \in Hooks, NEW q \in HookType(Len(events)),
           q.at # "idle" => q.event # 0
    PROVE  /\ [hook EXCEPT ![h] = q] \in [Hooks -> HookType(Len(events))]
           /\ \A k \in Hooks : [hook EXCEPT ![h] = q][k].at # "idle"
                => [hook EXCEPT ![h] = q][k].event # 0
BY DEF TypeOK, HookType

\* The event a delivery handles is one that happened.
LEMMA EventTyped ==
    ASSUME TypeOK, NEW h \in Hooks, hook[h].at # "idle"
    PROVE  /\ hook[h] \in HookType(Len(events)) /\ hook[h].event # 0
           /\ Event(h) \in EventType
<1>1. hook[h] \in HookType(Len(events)) /\ hook[h].event # 0
  BY DEF TypeOK, HookType
<1>2. hook[h].event \in 1..Len(events)
  BY <1>1 DEF HookType, TypeOK
<1>3. events \in Seq(EventType)
  BY DEF TypeOK
<1> QED BY <1>1, <1>2, <1>3 DEF Event

\* A step of Stripe's keeps the types.
LEMMA EmitTyped ==
    ASSUME TypeOK, NEW kind \in {"checkout", "updated", "deleted", "payment_failed"},
           NEW tier \in Tiers \union {NoTier},
           NEW status \in {"active", "past_due", "unpaid", "canceled"},
           Emit(kind, tier, status)
    PROVE  TypeOK'
<1> DEFINE e == [kind |-> kind, tier |-> tier, status |-> status]
<1>1. e \in EventType
  BY DEF EventType
<1>2. events \in Seq(EventType) /\ events' = Append(events, e)
  BY DEF TypeOK, Emit
<1>3. /\ events' \in Seq(EventType) /\ Len(events') = Len(events) + 1
      /\ Len(events) \in Nat
  BY <1>1, <1>2
<1>4. stripe' \in [tier : Tiers,
                   status : {"none", "active", "past_due", "unpaid", "canceled"}]
  <2>1. stripe.tier \in Tiers
    BY DEF TypeOK
  <2>2. stripe' = [tier |-> IF tier = NoTier THEN stripe.tier ELSE tier,
                   status |-> status]
    BY DEF Emit
  <2> QED BY <2>1, <2>2
<1>5. UNCHANGED <<member, created, workspace, request, hook, had, provisioned,
                  unguarded, applied, admin>>
  BY DEF Emit, roster, handlers, seats, billing
<1>6. 0..Len(events) \subseteq 0..Len(events')
  BY <1>3
<1>7. /\ hook' \in [Hooks -> [at : {"idle", "customer", "tier", "list", "remove", "write"},
                              event : 0..Len(events'), victims : SUBSET Members]]
      /\ \A h \in Hooks : hook'[h].at # "idle" => hook'[h].event # 0
  <2> DEFINE H(n) == [at : {"idle", "customer", "tier", "list", "remove", "write"},
                      event : 0..n, victims : SUBSET Members]
  <2>1. H(Len(events)) \subseteq H(Len(events'))
    BY <1>6
  <2>2. hook \in [Hooks -> H(Len(events))]
    BY DEF TypeOK
  <2>3. hook \in [Hooks -> H(Len(events'))]
    <3> HIDE DEF H
    <3> QED BY <2>1, <2>2
  <2> QED BY <2>3, <1>5 DEF TypeOK
<1>8. applied' \in {OutOfOrder} \union 0..Len(events')
  BY <1>5, <1>6 DEF TypeOK
<1> QED BY <1>3, <1>4, <1>5, <1>7, <1>8 DEF TypeOK

\* A step of a request keeps the types.
LEMMA RequestsTyped ==
    ASSUME TypeOK, NEW r \in Slots, NEW m \in Members,
           \/ InviteReadTier(r, m) \/ AcceptFind(r, m) \/ InviteCount(r)
           \/ InsertInvited(r) \/ AcceptWrite(r) \/ LoseRequest(r)
    PROVE  TypeOK'
<1> USE DEF roster, subscription, seats, billing
<1>1. NoRequest \in RequestType /\ NoRequest.at = "idle"
  BY DEF NoRequest, RequestType
<1>2. workspace.tier \in Tiers
  BY DEF TypeOK
<1>3. request[r] \in RequestType /\ (request[r].at # "idle" => request[r].member \in Members)
  BY DEF TypeOK, RequestType
<1>q. ASSUME NEW q \in RequestType, q.at # "idle" => q.member \in Members,
             request' = [request EXCEPT ![r] = q],
             UNCHANGED <<roster, workspace, hook, subscription, seats, billing>>
      PROVE  TypeOK'
  <2>1. /\ request' \in [Slots -> RequestType]
        /\ \A s \in Slots : request'[s].at # "idle" => request'[s].member \in Members
    BY <1>q, RequestTyped
  <2> QED BY <1>q, <2>1 DEF TypeOK, RequestType
<1>4. CASE InviteReadTier(r, m)
  <2> DEFINE q == [at |-> IF Capped(workspace.tier) THEN "counting" ELSE "inserting",
                   member |-> m,
                   limit |-> IF Capped(workspace.tier) THEN MaxSeats[workspace.tier] ELSE 0]
  <2>1. Capped(workspace.tier) => MaxSeats[workspace.tier] \in Nat
    BY <1>2, ConstantsOK DEF Capped
  <2>2. q \in RequestType /\ q.member \in Members
    BY <2>1 DEF RequestType
  <2>3. /\ request' = [request EXCEPT ![r] = q]
        /\ UNCHANGED <<roster, workspace, hook, subscription, seats, billing>>
    BY <1>4 DEF InviteReadTier
  <2> HIDE DEF q
  <2> QED BY <2>2, <2>3, <1>q
<1>5. CASE AcceptFind(r, m)
  <2> DEFINE q == [at |-> "accepting", member |-> m, limit |-> 0]
  <2>1. q \in RequestType /\ q.member \in Members
    BY DEF RequestType
  <2>2. /\ request' = [request EXCEPT ![r] = q]
        /\ UNCHANGED <<roster, workspace, hook, subscription, seats, billing>>
    BY <1>5 DEF AcceptFind
  <2> HIDE DEF q
  <2> QED BY <2>1, <2>2, <1>q
<1>6. CASE InviteCount(r)
  <2> DEFINE q == [at |-> "inserting", member |-> request[r].member, limit |-> 0]
  <2>1. request[r].member \in Members
    BY <1>3, <1>6 DEF InviteCount
  <2>2. q \in RequestType /\ q.member \in Members
    BY <2>1 DEF RequestType
  <2>3. /\ \/ request' = [request EXCEPT ![r] = q]
           \/ request' = [request EXCEPT ![r] = NoRequest]
        /\ UNCHANGED <<roster, workspace, hook, subscription, seats, billing>>
    BY <1>6 DEF InviteCount
  <2> HIDE DEF q
  <2> QED BY <2>2, <2>3, <1>1, <1>q
<1>7. CASE LoseRequest(r)
  BY <1>1, <1>7, <1>q DEF LoseRequest
<1>8. ASSUME request' = [request EXCEPT ![r] = NoRequest],
             member' \in [Members -> {"none", "invited", "active", "deactivated"}],
             created' \in [Members -> Nat], unguarded' \in BOOLEAN,
             UNCHANGED <<workspace, hook, subscription, provisioned, billing>>
      PROVE  TypeOK'
  <2>1. /\ request' \in [Slots -> RequestType]
        /\ \A s \in Slots : request'[s].at # "idle" => request'[s].member \in Members
    BY <1>1, <1>8, RequestTyped
  <2> QED BY <1>8, <2>1 DEF TypeOK, RequestType
<1>9. CASE InsertInvited(r)
  <2>1. NextCreated \in Nat
    <3>1. {v \in Members : member[v] # "none"} \subseteq Members
      OBVIOUS
    <3> QED BY <3>1, FS_Subset, FS_CardinalityType, ConstantsOK DEF NextCreated
  <2>2. member' \in [Members -> {"none", "invited", "active", "deactivated"}]
    <3>1. \/ member' = [member EXCEPT ![request[r].member] = "invited"]
          \/ member' = member
      BY <1>9 DEF InsertInvited
    <3> QED BY <3>1 DEF TypeOK
  <2>3. created' \in [Members -> Nat]
    BY <1>9, <2>1 DEF InsertInvited, TypeOK
  <2>4. unguarded' \in BOOLEAN
    BY <1>9 DEF InsertInvited, TypeOK
  <2>5. /\ request' = [request EXCEPT ![r] = NoRequest]
        /\ UNCHANGED <<workspace, hook, subscription, provisioned, billing>>
    BY <1>9 DEF InsertInvited
  <2> QED BY <1>8, <2>2, <2>3, <2>4, <2>5
<1>10. CASE AcceptWrite(r)
  BY <1>8, <1>10 DEF AcceptWrite, TypeOK
<1> QED BY <1>4, <1>5, <1>6, <1>7, <1>9, <1>10

\* A removal, and a step of the identity provider, keep the types.
LEMMA RosterTyped ==
    ASSUME TypeOK, NEW m \in Members, NEW s \in {"active", "deactivated"},
           Deactivate(m) \/ ScimCreate(m, s) \/ ScimSet(m, s)
    PROVE  TypeOK'
<1>1. NextCreated \in Nat
  <2>1. {v \in Members : member[v] # "none"} \subseteq Members
    OBVIOUS
  <2> QED BY <2>1, FS_Subset, FS_CardinalityType, ConstantsOK DEF NextCreated
<1>2. member' \in [Members -> {"none", "invited", "active", "deactivated"}]
  <2>1. member' = [member EXCEPT ![m] = s] \/ member' = [member EXCEPT ![m] = "deactivated"]
    BY DEF Deactivate, ScimCreate, ScimSet, Provision
  <2> QED BY <2>1 DEF TypeOK
<1>3. created' \in [Members -> Nat]
  BY <1>1 DEF Deactivate, ScimCreate, ScimSet, TypeOK
<1>4. provisioned' \subseteq Members /\ unguarded' \in BOOLEAN
  <2>1. \/ provisioned' = provisioned \union {m} /\ unguarded' = TRUE
        \/ provisioned' = provisioned /\ unguarded' = unguarded
    BY DEF Deactivate, ScimCreate, ScimSet, Provision, seats
  <2> QED BY <2>1 DEF TypeOK
<1>5. UNCHANGED <<workspace, handlers, subscription, billing>>
  BY DEF Deactivate, ScimCreate, ScimSet
<1> QED BY <1>2, <1>3, <1>4, <1>5 DEF TypeOK, handlers, subscription, billing

\* A step of a delivery keeps the types.
LEMMA HooksTyped ==
    ASSUME TypeOK, NEW h \in Hooks,
           \/ \E n \in 1..Len(events) : Deliver(h, n)
           \/ FindCustomer(h) \/ ReadTier(h) \/ ListMembers(h)
           \/ RemoveMember(h) \/ WriteBilling(h) \/ FailHook(h)
    PROVE  TypeOK'
<1> USE DEF roster, subscription, seats, billing
<1>1. NoHook \in HookType(Len(events)) /\ NoHook.at = "idle"
  <2>1. Len(events) \in Nat
    BY DEF TypeOK
  <2> QED BY <2>1 DEF NoHook, HookType
<1>q. ASSUME NEW q \in HookType(Len(events)), q.at # "idle" => q.event # 0,
             hook' = [hook EXCEPT ![h] = q],
             member' \in [Members -> {"none", "invited", "active", "deactivated"}],
             UNCHANGED <<created, workspace, request, subscription, seats, billing>>
      PROVE  TypeOK'
  <2>1. /\ hook' \in [Hooks -> HookType(Len(events))]
        /\ \A k \in Hooks : hook'[k].at # "idle" => hook'[k].event # 0
    BY <1>q, HookTyped
  <2> QED BY <1>q, <2>1 DEF TypeOK, HookType
<1>2. ASSUME NEW n \in 1..Len(events), Deliver(h, n) PROVE TypeOK'
  <2> DEFINE q == [at |-> IF events[n].kind = "checkout" THEN "write" ELSE "customer",
                   event |-> n, victims |-> {}]
  <2>1. q \in HookType(Len(events)) /\ q.event # 0
    BY DEF HookType, TypeOK
  <2>2. /\ hook' = [hook EXCEPT ![h] = q] /\ member' = member
        /\ UNCHANGED <<created, workspace, request, subscription, seats, billing>>
    BY <1>2 DEF Deliver
  <2> HIDE DEF q
  <2> QED BY <2>1, <2>2, <1>q DEF TypeOK
<1>w. ASSUME hook[h].at # "idle", NEW a \in {"tier", "write", "list"},
             hook' = [hook EXCEPT ![h].at = a], member' = member,
             UNCHANGED <<created, workspace, request, subscription, seats, billing>>
      PROVE  TypeOK'
  <2> DEFINE q == [hook[h] EXCEPT !.at = a]
  <2>1. q \in HookType(Len(events)) /\ q.event # 0
    BY <1>w, EventTyped DEF HookType
  <2>2. hook' = [hook EXCEPT ![h] = q]
    BY <1>w
  <2> HIDE DEF q
  <2> QED BY <1>w, <2>1, <2>2, <1>q DEF TypeOK
<1>3. CASE FindCustomer(h)
  <2>1. CASE hook' = [hook EXCEPT ![h] = NoHook]
    BY <1>1, <1>3, <2>1, <1>q DEF FindCustomer, TypeOK
  <2>2. CASE workspace.customer
    BY <1>3, <2>2, <1>w DEF FindCustomer
  <2> QED BY <1>3, <2>1, <2>2 DEF FindCustomer
<1>4. CASE ReadTier(h)
  BY <1>4, <1>w DEF ReadTier
<1>5. CASE ListMembers(h)
  <2> DEFINE q == [at |-> "remove", event |-> hook[h].event,
                   victims |-> Newest(Seated, Cardinality(Seated) - MaxSeats[Event(h).tier])]
  <2>1. q \in HookType(Len(events)) /\ q.event # 0
    <3>1. hook[h].event \in 0..Len(events) /\ hook[h].event # 0
      BY <1>5, EventTyped DEF ListMembers, HookType
    <3>2. q.victims \subseteq Members
      BY DEF Newest, Seated
    <3> QED BY <3>1, <3>2 DEF HookType
  <2>2. /\ hook' = [hook EXCEPT ![h] = q] /\ member' = member
        /\ UNCHANGED <<created, workspace, request, subscription, seats, billing>>
    BY <1>5 DEF ListMembers
  <2> HIDE DEF q
  <2> QED BY <2>1, <2>2, <1>q DEF TypeOK
<1>6. CASE RemoveMember(h)
  <2>1. PICK m \in Newest(hook[h].victims, 1) :
           /\ member' = [member EXCEPT ![m] = "deactivated"]
           /\ hook' = [hook EXCEPT ![h].victims = @ \ {m}]
    BY <1>6 DEF RemoveMember
  <2> DEFINE q == [hook[h] EXCEPT !.victims = hook[h].victims \ {m}]
  <2>2. q \in HookType(Len(events)) /\ q.event # 0
    BY <1>6, EventTyped DEF HookType, RemoveMember
  <2>3. hook' = [hook EXCEPT ![h] = q]
    BY <2>1
  <2>4. member' \in [Members -> {"none", "invited", "active", "deactivated"}]
    BY <2>1 DEF TypeOK
  <2>5. UNCHANGED <<created, workspace, request, subscription, seats, billing>>
    BY <1>6 DEF RemoveMember
  <2> HIDE DEF q
  <2> QED BY <2>2, <2>3, <2>4, <2>5, <1>q
<1>7. CASE WriteBilling(h)
  <2>1. hook[h].event \in 0..Len(events) /\ Event(h) \in EventType
    BY <1>7, EventTyped DEF WriteBilling, HookType
  <2>2. TierAfter(Event(h)) \in Tiers
    <3>1. workspace.tier \in Tiers /\ Event(h).tier \in Tiers \union {NoTier}
      BY <2>1 DEF TypeOK, EventType
    <3> QED BY <3>1 DEF TierAfter
  <2>3. LocalStatus(Event(h).status) \in Statuses
    BY <2>1 DEF EventType, LocalStatus, Statuses, Blocked
  <2>4. workspace' \in [tier : Tiers, status : Statuses, customer : BOOLEAN]
    <3>1. workspace' = [tier |-> TierAfter(Event(h)), status |-> LocalStatus(Event(h).status),
                        customer |-> workspace.customer \/ Event(h).kind = "checkout"]
      BY <1>7 DEF WriteBilling
    <3> QED BY <2>2, <2>3, <3>1
  <2>5. applied' \in {OutOfOrder} \union 0..Len(events)
    BY <1>7, <2>1 DEF WriteBilling
  <2>6. /\ hook' \in [Hooks -> HookType(Len(events))]
        /\ \A k \in Hooks : hook'[k].at # "idle" => hook'[k].event # 0
    BY <1>1, <1>7, HookTyped DEF WriteBilling
  <2>7. had' \subseteq Tiers /\ unguarded' \in BOOLEAN
    BY <1>7, <2>2 DEF WriteBilling, TypeOK
  <2>8. UNCHANGED <<member, created, request, events, stripe, provisioned>>
    BY <1>7 DEF WriteBilling
  <2>9. admin' \in [acts : 0..MaxActs, columns : SUBSET {"tier", "status"},
                    suspended : BOOLEAN]
    <3>1. PICK C : admin' = [admin EXCEPT !.columns = @ \ C]
      BY <1>7 DEF WriteBilling
    <3> QED BY <3>1 DEF TypeOK
  <2> QED BY <2>4, <2>5, <2>6, <2>7, <2>8, <2>9 DEF TypeOK, HookType
<1>8. CASE FailHook(h)
  BY <1>1, <1>8, <1>q DEF FailHook, TypeOK
<1> QED BY <1>2, <1>3, <1>4, <1>5, <1>6, <1>7, <1>8

\* What administrators do.
Acts == (\E t \in Grants : SetTier(t)) \/ Suspend \/ Reactivate

\* An administrator writes the row, and nothing else but history: a smaller plan
\* is a gap.
LEMMA ActFact ==
    ASSUME TypeOK, Acts
    PROVE  /\ workspace' \in [tier : Tiers, status : Statuses, customer : BOOLEAN]
           /\ admin' \in [acts : 0..MaxActs, columns : SUBSET {"tier", "status"},
                           suspended : BOOLEAN]
           /\ workspace'.tier # workspace.tier => "tier" \in admin'.columns
           /\ workspace'.status # workspace.status => "status" \in admin'.columns
           /\ admin.columns \subseteq admin'.columns
           /\ had \subseteq had' /\ had' \subseteq Tiers
           /\ \/ workspace'.tier = workspace.tier /\ had' = had
              \/ workspace'.tier \in had'
           /\ unguarded' \in BOOLEAN
           /\ \/ unguarded' = unguarded /\ workspace'.tier = workspace.tier
              \/ unguarded' = (unguarded \/ Lowers(workspace'.tier))
           /\ UNCHANGED <<roster, handlers, subscription, provisioned, applied>>
<1>1. workspace \in [tier : Tiers, status : Statuses, customer : BOOLEAN]
  BY DEF TypeOK
<1>2. ASSUME NEW C \in SUBSET {"tier", "status"}, NEW b \in BOOLEAN, Act(C, b)
      PROVE  /\ admin' \in [acts : 0..MaxActs, columns : SUBSET {"tier", "status"},
                             suspended : BOOLEAN]
             /\ admin'.columns = admin.columns \union C
             /\ UNCHANGED <<roster, handlers, subscription, provisioned, applied>>
  <2>0. admin \in [acts : 0..MaxActs, columns : SUBSET {"tier", "status"},
                   suspended : BOOLEAN]
    BY DEF TypeOK
  <2>r. admin.acts + 1 \in 0..MaxActs
    BY <1>2, <2>0, ConstantsOK DEF Act
  <2>1. admin.acts + 1 \in 0..MaxActs /\ admin.columns \union C \in SUBSET {"tier", "status"}
    BY <2>0, <2>r
  <2>2. admin' = [acts |-> admin.acts + 1, columns |-> admin.columns \union C, suspended |-> b]
    BY <1>2 DEF Act
  <2> QED BY <1>2, <2>1, <2>2 DEF Act
<1>3. ASSUME NEW t \in Grants, SetTier(t)
      PROVE  /\ Act({"tier"}, admin.suspended) /\ admin.suspended \in BOOLEAN
             /\ t \in Tiers /\ had' = had \union {t}
             /\ workspace' = [workspace EXCEPT !.tier = t]
             /\ unguarded' = (unguarded \/ Lowers(t))
  BY <1>3, ConstantsOK DEF SetTier, TypeOK
<1>4. CASE \E t \in Grants : SetTier(t)
  <2>1. PICK t \in Grants : SetTier(t)
    BY <1>4
  <2>2. workspace'.tier = t /\ workspace'.status = workspace.status
        /\ workspace' \in [tier : Tiers, status : Statuses, customer : BOOLEAN]
    BY <1>1, <1>3, <2>1
  <2>3. had' \subseteq Tiers /\ t \in had' /\ had \subseteq had'
    BY <1>3, <2>1 DEF TypeOK
  <2>4. unguarded' = (unguarded \/ Lowers(workspace'.tier))
    BY <1>3, <2>1, <2>2
  <2>5. unguarded' \in BOOLEAN
    BY <2>4 DEF Lowers
  <2>6. /\ admin' \in [acts : 0..MaxActs, columns : SUBSET {"tier", "status"},
                        suspended : BOOLEAN]
        /\ admin'.columns = admin.columns \union {"tier"}
        /\ UNCHANGED <<roster, handlers, subscription, provisioned, applied>>
    <3>1. Act({"tier"}, admin.suspended) /\ admin.suspended \in BOOLEAN
      BY <1>3, <2>1
    <3>2. {"tier"} \in SUBSET {"tier", "status"}
      OBVIOUS
    <3> QED BY <1>2, <3>1, <3>2
  <2> QED BY <2>2, <2>3, <2>4, <2>5, <2>6
<1>5. CASE Suspend \/ Reactivate
  <2>1. \E b \in BOOLEAN : Act({"status"}, b)
    BY <1>5 DEF Suspend, Reactivate
  <2>2. PICK s \in {"suspended", "active"} : workspace' = [workspace EXCEPT !.status = s]
    BY <1>5 DEF Suspend, Reactivate
  <2>3. workspace'.tier = workspace.tier
        /\ workspace' \in [tier : Tiers, status : Statuses, customer : BOOLEAN]
    BY <1>1, <2>2 DEF Statuses, Blocked
  <2>4. had' = had /\ unguarded' = unguarded /\ had \subseteq Tiers /\ unguarded \in BOOLEAN
    BY <1>5 DEF Suspend, Reactivate, TypeOK
  <2> QED BY <1>2, <2>1, <2>3, <2>4
<1> QED BY <1>4, <1>5 DEF Acts

\* Every step keeps the types.
LEMMA TypeStep == TypeOK /\ [Next]_vars => TypeOK'
<1> SUFFICES ASSUME TypeOK, [Next]_vars PROVE TypeOK'
  OBVIOUS
<1>1. CASE UNCHANGED vars
  BY <1>1 DEF vars, roster, handlers, subscription, seats, billing, TypeOK
<1>2. ASSUME NEW t \in OnSale, Checkout(t) PROVE TypeOK'
  BY <1>2, EmitTyped, ConstantsOK DEF Checkout
<1>3. ASSUME NEW u \in Updates, Update(u[1], u[2]) PROVE TypeOK'
  BY <1>3, EmitTyped, ConstantsOK DEF Update
<1>4. CASE Delete \/ FailPayment
  BY <1>4, EmitTyped DEF Delete, FailPayment
<1>5. ASSUME NEW r \in Slots,
             \/ \E m \in Members : InviteReadTier(r, m) \/ AcceptFind(r, m)
             \/ InviteCount(r) \/ InsertInvited(r) \/ AcceptWrite(r) \/ LoseRequest(r)
      PROVE  TypeOK'
  <2>1. CASE \E m \in Members : InviteReadTier(r, m) \/ AcceptFind(r, m)
    BY <2>1, RequestsTyped
  <2>2. CASE InviteCount(r) \/ InsertInvited(r) \/ AcceptWrite(r) \/ LoseRequest(r)
    <3>1. request[r].at # "idle"
      BY <2>2 DEF InviteCount, InsertInvited, AcceptWrite, LoseRequest
    <3>2. request[r].member \in Members
      BY <3>1 DEF TypeOK
    <3> QED BY <2>2, <3>2, RequestsTyped
  <2> QED BY <1>5, <2>1, <2>2
<1>6. ASSUME NEW m \in Members,
             \/ Deactivate(m)
             \/ \E s \in {"active", "deactivated"} : ScimCreate(m, s) \/ ScimSet(m, s)
      PROVE  TypeOK'
  BY <1>6, RosterTyped
<1>7. ASSUME NEW h \in Hooks,
             \/ \E n \in 1..Len(events) : Deliver(h, n)
             \/ FindCustomer(h) \/ ReadTier(h) \/ ListMembers(h)
             \/ RemoveMember(h) \/ WriteBilling(h) \/ FailHook(h)
      PROVE  TypeOK'
  BY <1>7, HooksTyped
<1>8. CASE Acts
  BY <1>8, ActFact DEF TypeOK, roster, handlers, subscription
<1> QED BY <1>1, <1>2, <1>3, <1>4, <1>5, <1>6, <1>7, <1>8 DEF Next, Acts

\* A new workspace is type-correct.
LEMMA InitTyped == Init => TypeOK
<1> SUFFICES ASSUME Init PROVE TypeOK
  OBVIOUS
<1>1. events = << >> /\ Len(events) = 0 /\ events \in Seq(EventType)
  BY DEF Init
<1>2. /\ \A r \in Slots : request[r] = NoRequest
      /\ request \in [Slots -> RequestType]
  BY DEF Init, NoRequest, RequestType
<1>3. /\ \A h \in Hooks : hook[h] = NoHook
      /\ hook \in [Hooks -> HookType(Len(events))]
  BY <1>1 DEF Init, NoHook, HookType
<1>4. workspace \in [tier : Tiers, status : Statuses, customer : BOOLEAN]
  BY DEF Init, Tiers, Statuses, Blocked
<1>5. /\ stripe \in [tier : Tiers,
                      status : {"none", "active", "past_due", "unpaid", "canceled"}]
      /\ applied \in {OutOfOrder} \union 0..Len(events)
  BY <1>1 DEF Init, Tiers
<1>6. /\ member \in [Members -> {"none", "invited", "active", "deactivated"}]
      /\ created \in [Members -> Nat]
      /\ had \subseteq Tiers /\ provisioned \subseteq Members /\ unguarded \in BOOLEAN
  BY DEF Init, Tiers
<1>7. admin \in [acts : 0..MaxActs, columns : SUBSET {"tier", "status"},
                 suspended : BOOLEAN]
  <2>1. 0 \in 0..MaxActs /\ {} \in SUBSET {"tier", "status"} /\ FALSE \in BOOLEAN
    BY ConstantsOK
  <2>2. admin = [acts |-> 0, columns |-> {}, suspended |-> FALSE]
    BY DEF Init
  <2> QED BY <2>1, <2>2
<1> QED BY <1>1, <1>2, <1>3, <1>4, <1>5, <1>6, <1>7
        DEF TypeOK, RequestType, HookType, NoRequest, NoHook

\* Every reachable state of the membership is type-correct.
THEOREM TypeCorrect == Spec => []TypeOK
BY InitTyped, TypeStep, PTL DEF Spec

-----------------------------------------------------------------------------
(* Seats. *)

\* Members that hold a seat or are about to, other than those SCIM provisioned.
Claimed == (Seated \union Pending) \ provisioned

\* The bound for one tier the workspace has had.
BoundedBy(t) == Capped(t) => Cardinality(Claimed) <= MaxSeats[t] + Cardinality(Slots) - 1

\* A seat check in progress compares with the cap of a tier the workspace has
\* had: what makes the bound inductive.
SeatInv ==
    /\ TypeOK
    /\ workspace.tier \in had
    /\ \A r \in Slots : request[r].at = "counting" =>
          \E t \in had : Capped(t) /\ request[r].limit = MaxSeats[t]
    /\ \E t \in had : BoundedBy(t)

\* Sets of members are finite.
LEMMA MemberSets ==
    /\ IsFiniteSet(Seated) /\ IsFiniteSet(Claimed)
    /\ Cardinality(Seated) \in Nat /\ Cardinality(Claimed) \in Nat
    /\ Cardinality(Slots) \in Nat /\ Cardinality(Slots) >= 1
<1>1. Seated \subseteq Members /\ Claimed \subseteq Members
  BY DEF Seated, Claimed, Pending
<1>2. Cardinality(Slots) # 0
  BY FS_EmptySet, ConstantsOK
<1> QED BY <1>1, <1>2, FS_Subset, FS_CardinalityType, ConstantsOK

\* The same after a step.
LEMMA MemberSetsAfter ==
    /\ IsFiniteSet(Seated') /\ IsFiniteSet(Claimed')
    /\ Cardinality(Seated') \in Nat /\ Cardinality(Claimed') \in Nat
<1>1. Seated' \subseteq Members /\ Claimed' \subseteq Members
  BY DEF Seated, Claimed, Pending
<1> QED BY <1>1, FS_Subset, FS_CardinalityType, ConstantsOK

\* The requests about to give a seat are for no more members than there are
\* requests.
LEMMA PendingPerRequest ==
    ASSUME TypeOK
    PROVE  IsFiniteSet(Pending) /\ Cardinality(Pending) <= Cardinality(Slots)
<1> DEFINE S == {r \in Slots : request[r].at \in {"inserting", "accepting"}}
           f == [r \in S |-> request[r].member]
<1>1. IsFiniteSet(S) /\ Cardinality(S) <= Cardinality(Slots)
  BY FS_Subset, ConstantsOK
<1>2. f \in Surjection(S, Pending)
  <2>1. f \in [S -> Pending]
    <3>1. \A r \in S : request[r].member \in Pending
      BY DEF TypeOK, Pending
    <3> QED BY <3>1
  <2>2. \A m \in Pending : \E r \in S : f[r] = m
    BY DEF Pending
  <2> QED BY <2>1, <2>2 DEF Surjection
<1>3. IsFiniteSet(Pending) /\ Cardinality(Pending) <= Cardinality(S)
  <2> HIDE DEF S, f
  <2> QED BY <1>1, <1>2, FS_Surjection
<1>4. Cardinality(S) \in Nat /\ Cardinality(Pending) \in Nat
  BY <1>1, <1>3, FS_CardinalityType
<1> HIDE DEF S
<1> QED BY <1>1, <1>3, <1>4, MemberSets

\* A step under which nobody new claims a seat keeps the bound.
LEMMA NoNewClaim ==
    ASSUME \E t \in had : BoundedBy(t), had \subseteq had',
           Claimed' \subseteq Claimed, had \subseteq Tiers
    PROVE  \E t \in had' : BoundedBy(t)'
<1>1. PICK t \in had : BoundedBy(t)
  OBVIOUS
<1>2. Cardinality(Claimed') <= Cardinality(Claimed)
  BY MemberSets, FS_Subset
<1>3. Capped(t) => MaxSeats[t] \in Nat
  BY ConstantsOK DEF Capped
<1>4. BoundedBy(t)'
  BY <1>1, <1>2, <1>3, MemberSets, MemberSetsAfter DEF BoundedBy, Capped
<1> QED BY <1>1, <1>4

\* The INSERT that follows a count may overrun the cap it was compared with by
\* the other requests' members only.
LEMMA CountBounds ==
    ASSUME SeatInv, TypeOK', NEW r \in Slots, InviteCount(r),
           Cardinality(Seated) < request[r].limit
    PROVE  \E t \in had' : BoundedBy(t)'
<1>1. PICK t \in had : Capped(t) /\ request[r].limit = MaxSeats[t]
  BY DEF SeatInv, InviteCount
<1>2. had' = had /\ Seated' = Seated /\ provisioned' = provisioned
  BY DEF InviteCount, billing, roster, seats, Seated
<1>3. IsFiniteSet(Pending') /\ Cardinality(Pending') <= Cardinality(Slots)
  <2>1. TypeOK' => (IsFiniteSet(Pending) /\ Cardinality(Pending) <= Cardinality(Slots))'
    BY PendingPerRequest, PTL
  <2> QED BY <2>1
<1>4. /\ IsFiniteSet(Seated' \union Pending')
      /\ Cardinality(Seated' \union Pending')
            = Cardinality(Seated') + Cardinality(Pending')
                - Cardinality(Seated' \cap Pending')
  BY <1>3, MemberSetsAfter, FS_Union
<1>5. /\ Cardinality(Seated' \cap Pending') \in Nat
      /\ Cardinality(Pending') \in Nat
      /\ Cardinality(Seated' \union Pending') \in Nat
  BY <1>3, <1>4, FS_Intersection, FS_CardinalityType, MemberSetsAfter
<1>6. Cardinality(Claimed') <= Cardinality(Seated' \union Pending')
  <2>1. Claimed' \subseteq Seated' \union Pending'
    BY DEF Claimed
  <2> QED BY <1>4, <2>1, FS_Subset
<1>7. MaxSeats[t] \in Nat
  <2>1. had \subseteq Tiers
    BY DEF SeatInv, TypeOK
  <2> QED BY <1>1, <2>1, ConstantsOK DEF Capped
<1>8. Cardinality(Claimed') <= MaxSeats[t] + Cardinality(Slots) - 1
  BY <1>1, <1>2, <1>3, <1>4, <1>5, <1>6, <1>7, MemberSets, MemberSetsAfter
<1> QED BY <1>1, <1>2, <1>8 DEF BoundedBy

\* Every step keeps the bound on the seats.
LEMMA SeatStep == SeatInv /\ [Next]_vars => SeatInv'
<1> SUFFICES ASSUME SeatInv, [Next]_vars PROVE SeatInv'
  OBVIOUS
<1> USE DEF roster, subscription, seats, billing, handlers
<1>0. TypeOK /\ TypeOK' /\ had \subseteq Tiers
  BY TypeStep DEF SeatInv, TypeOK
\* What a step owes that changes no tier and starts no count.
<1>q. ASSUME had' = had, workspace'.tier = workspace.tier, Claimed' \subseteq Claimed,
             \A s \in Slots : request'[s].at = "counting" => request'[s] = request[s]
      PROVE  SeatInv'
  <2>1. \E t \in had' : BoundedBy(t)'
    BY <1>0, <1>q, NoNewClaim DEF SeatInv
  <2>2. \A s \in Slots : request'[s].at = "counting" =>
          \E t \in had' : Capped(t) /\ request'[s].limit = MaxSeats[t]
    BY <1>q DEF SeatInv
  <2> QED BY <1>0, <1>q, <2>1, <2>2 DEF SeatInv, Capped
<1>1. CASE UNCHANGED vars
  BY <1>1, <1>q DEF vars, Claimed, Seated, Pending
<1>2. ASSUME NEW t \in Tiers \union {NoTier},
             \E k \in {"checkout", "updated", "deleted", "payment_failed"},
                s \in {"active", "past_due", "unpaid", "canceled"} : Emit(k, t, s)
      PROVE  SeatInv'
  BY <1>2, <1>q DEF Emit, Claimed, Seated, Pending
<1>3. ASSUME NEW t \in OnSale, Checkout(t) PROVE SeatInv'
  BY <1>2, <1>3, ConstantsOK DEF Checkout
<1>4. ASSUME NEW u \in Updates, Update(u[1], u[2]) PROVE SeatInv'
  BY <1>2, <1>4, ConstantsOK DEF Update
<1>5. CASE Delete \/ FailPayment
  BY <1>2, <1>5 DEF Delete, FailPayment
<1>6. ASSUME NEW r \in Slots, NEW m \in Members, InviteReadTier(r, m) PROVE SeatInv'
  <2>1. UNCHANGED <<had, workspace, member, provisioned>>
    BY <1>6 DEF InviteReadTier
  <2>2. \A s \in Slots : s # r => request'[s] = request[s]
    BY <1>0, <1>6 DEF InviteReadTier, TypeOK
  <2>3. workspace.tier \in had
    BY DEF SeatInv
  <2>4. \A s \in Slots : request'[s].at = "counting" =>
          \E t \in had' : Capped(t) /\ request'[s].limit = MaxSeats[t]
    <3> SUFFICES ASSUME NEW s \in Slots, request'[s].at = "counting"
                 PROVE  \E t \in had' : Capped(t) /\ request'[s].limit = MaxSeats[t]
      OBVIOUS
    <3>1. CASE s # r
      BY <2>1, <2>2, <3>1 DEF SeatInv
    <3>2. CASE s = r
      BY <1>0, <1>6, <2>1, <2>3, <3>2 DEF InviteReadTier, TypeOK
    <3> QED BY <3>1, <3>2
  <2>5. \E t \in had' : BoundedBy(t)'
    <3>1. CASE Capped(workspace.tier)
      <4>1. Claimed' \subseteq Claimed
        BY <1>0, <1>6, <2>1, <2>2, <3>1
           DEF InviteReadTier, Claimed, Seated, Pending, TypeOK
      <4> QED BY <1>0, <2>1, <4>1, NoNewClaim DEF SeatInv
    <3>2. CASE ~Capped(workspace.tier)
      BY <2>1, <2>3, <3>2 DEF BoundedBy, Capped
    <3> QED BY <3>1, <3>2
  <2> QED BY <1>0, <2>1, <2>3, <2>4, <2>5 DEF SeatInv, Capped
<1>7. ASSUME NEW r \in Slots, NEW m \in Members, AcceptFind(r, m) PROVE SeatInv'
  <2>1. \A s \in Slots : s # r => request'[s] = request[s]
    BY <1>0, <1>7 DEF AcceptFind, TypeOK
  <2>2. request'[r] = [at |-> "accepting", member |-> m, limit |-> 0]
    BY <1>0, <1>7 DEF AcceptFind, TypeOK
  <2>3. m \in Seated /\ UNCHANGED <<had, workspace, member, provisioned>>
    BY <1>7 DEF AcceptFind, Seated
  <2>4. Claimed' \subseteq Claimed
    BY <2>1, <2>2, <2>3 DEF Claimed, Seated, Pending
  <2> QED BY <1>q, <2>1, <2>2, <2>3, <2>4
<1>8. ASSUME NEW r \in Slots, InviteCount(r) PROVE SeatInv'
  <2>1. \A s \in Slots : s # r => request'[s] = request[s]
    BY <1>0, <1>8 DEF InviteCount, TypeOK
  <2>2. UNCHANGED <<had, workspace, member, provisioned>>
    BY <1>8 DEF InviteCount
  <2>3. CASE Cardinality(Seated) >= request[r].limit
    <3>1. request'[r] = NoRequest
      BY <1>0, <1>8, <2>3 DEF InviteCount, TypeOK
    <3>2. Claimed' \subseteq Claimed
      BY <2>1, <2>2, <3>1 DEF Claimed, Seated, Pending, NoRequest
    <3> QED BY <1>q, <2>1, <2>2, <3>1, <3>2 DEF NoRequest
  <2>4. CASE ~(Cardinality(Seated) >= request[r].limit)
    <3>1. request'[r].at = "inserting"
      BY <1>0, <1>8, <2>4 DEF InviteCount, TypeOK
    <3>2. Cardinality(Seated) < request[r].limit
      BY <1>0, <2>4, MemberSets DEF TypeOK
    <3>3. \E t \in had' : BoundedBy(t)'
      BY <1>0, <1>8, <3>2, CountBounds
    <3>4. \A s \in Slots : request'[s].at = "counting" =>
            \E t \in had' : Capped(t) /\ request'[s].limit = MaxSeats[t]
      BY <2>1, <2>2, <3>1 DEF SeatInv
    <3> QED BY <1>0, <2>2, <3>3, <3>4 DEF SeatInv, Capped
  <2> QED BY <2>3, <2>4
\* A request that ends, its member seated or not.
<1>9. ASSUME NEW r \in Slots, InsertInvited(r) \/ AcceptWrite(r) \/ LoseRequest(r)
      PROVE  SeatInv'
  <2>1. \A s \in Slots : s # r => request'[s] = request[s]
    BY <1>0, <1>9 DEF InsertInvited, AcceptWrite, LoseRequest, TypeOK
  <2>2. request'[r] = NoRequest
    BY <1>0, <1>9 DEF InsertInvited, AcceptWrite, LoseRequest, TypeOK
  <2>3. UNCHANGED <<had, workspace, provisioned>>
    BY <1>9 DEF InsertInvited, AcceptWrite, LoseRequest
  <2>4. Seated' \subseteq Seated \union Pending
    <3>1. CASE LoseRequest(r)
      BY <3>1 DEF LoseRequest, Seated
    <3>2. CASE InsertInvited(r) \/ AcceptWrite(r)
      <4>1. request[r].member \in Pending
        BY <1>0, <3>2 DEF InsertInvited, AcceptWrite, Pending, TypeOK
      <4>2. \A v \in Members : v # request[r].member => member'[v] = member[v]
        BY <1>0, <3>2 DEF InsertInvited, AcceptWrite, TypeOK
      <4> QED BY <4>1, <4>2 DEF Seated
    <3> QED BY <1>9, <3>1, <3>2
  <2>5. Pending' \subseteq Pending
    BY <2>1, <2>2 DEF Pending, NoRequest
  <2>6. Claimed' \subseteq Claimed
    BY <2>3, <2>4, <2>5 DEF Claimed
  <2> QED BY <1>q, <2>1, <2>2, <2>3, <2>6 DEF NoRequest
<1>10. ASSUME NEW m \in Members, Deactivate(m) PROVE SeatInv'
  <2>1. Seated' \subseteq Seated
    BY <1>0, <1>10 DEF Deactivate, Seated, TypeOK
  <2>2. UNCHANGED <<had, workspace, request, provisioned>>
    BY <1>10 DEF Deactivate
  <2> QED BY <1>q, <2>1, <2>2 DEF Claimed, Pending
<1>11. ASSUME NEW m \in Members, NEW s \in {"active", "deactivated"},
              ScimCreate(m, s) \/ ScimSet(m, s)
       PROVE  SeatInv'
  <2>1. /\ member' = [member EXCEPT ![m] = s]
        /\ IF s = "active" /\ m \notin Seated
           THEN provisioned' = provisioned \union {m}
           ELSE provisioned' = provisioned
    BY <1>11 DEF ScimCreate, ScimSet, Provision
  <2>2. UNCHANGED <<had, workspace, request>>
    BY <1>11 DEF ScimCreate, ScimSet
  <2>3. Seated' \subseteq Seated \union provisioned'
    BY <1>0, <2>1 DEF Seated, TypeOK
  <2>4. Claimed' \subseteq Claimed
    BY <2>1, <2>2, <2>3 DEF Claimed, Pending
  <2> QED BY <1>q, <2>2, <2>4
<1>12. ASSUME NEW h \in Hooks,
              \/ \E n \in 1..Len(events) : Deliver(h, n)
              \/ FindCustomer(h) \/ ReadTier(h) \/ ListMembers(h) \/ FailHook(h)
       PROVE  SeatInv'
  <2>1. UNCHANGED <<had, workspace, request, member, provisioned>>
    BY <1>12 DEF Deliver, FindCustomer, ReadTier, ListMembers, FailHook
  <2> QED BY <1>q, <2>1 DEF Claimed, Seated, Pending
<1>13. ASSUME NEW h \in Hooks, RemoveMember(h) PROVE SeatInv'
  <2>1. UNCHANGED <<had, workspace, request, provisioned>>
    BY <1>13 DEF RemoveMember
  <2>2. Seated' \subseteq Seated
    BY <1>0, <1>13 DEF RemoveMember, Seated, TypeOK
  <2> QED BY <1>q, <2>1, <2>2 DEF Claimed, Pending
<1>14. ASSUME NEW h \in Hooks, WriteBilling(h) PROVE SeatInv'
  <2>1. UNCHANGED <<request, member, provisioned>>
    BY <1>14 DEF WriteBilling
  <2>2. workspace'.tier \in had' /\ had \subseteq had'
    BY <1>14 DEF WriteBilling
  <2>3. Claimed' \subseteq Claimed
    BY <2>1 DEF Claimed, Seated, Pending
  <2>4. \E t \in had' : BoundedBy(t)'
    BY <1>0, <2>2, <2>3, NoNewClaim DEF SeatInv
  <2>5. \A s \in Slots : request'[s].at = "counting" =>
          \E t \in had' : Capped(t) /\ request'[s].limit = MaxSeats[t]
    BY <2>1, <2>2 DEF SeatInv
  <2> QED BY <1>0, <2>2, <2>4, <2>5 DEF SeatInv, Capped
<1>15. CASE Acts
  <2>1. UNCHANGED <<request, member, provisioned>>
    BY <1>0, <1>15, ActFact
  <2>2. workspace'.tier \in had' /\ had \subseteq had'
    BY <1>0, <1>15, ActFact DEF SeatInv
  <2>3. Claimed' \subseteq Claimed
    BY <2>1 DEF Claimed, Seated, Pending
  <2>4. \E t \in had' : BoundedBy(t)'
    BY <1>0, <2>2, <2>3, NoNewClaim DEF SeatInv
  <2>5. \A s \in Slots : request'[s].at = "counting" =>
          \E t \in had' : Capped(t) /\ request'[s].limit = MaxSeats[t]
    BY <2>1, <2>2 DEF SeatInv
  <2> QED BY <1>0, <2>2, <2>4, <2>5 DEF SeatInv, Capped
<1> QED BY <1>1, <1>3, <1>4, <1>5, <1>6, <1>7, <1>8, <1>9, <1>10, <1>11, <1>12,
           <1>13, <1>14, <1>15 DEF Next, Acts

\* Every seat check in progress uses a cap the workspace has had, and the seats
\* claimed are bounded, in every reachable state.
THEOREM SeatsAlways == Spec => []SeatInv
<1>1. Init => SeatInv
  <2> SUFFICES ASSUME Init PROVE SeatInv
    OBVIOUS
  <2>1. TypeOK
    BY InitTyped
  <2>2. Claimed = {}
    BY DEF Init, Claimed, Seated, Pending, NoRequest
  <2>3. Cardinality(Claimed) = 0
    BY <2>2, FS_EmptySet
  <2>4. Capped("starter") => MaxSeats["starter"] \in Nat
    BY ConstantsOK DEF Capped, Tiers
  <2>5. BoundedBy("starter") /\ "starter" \in had /\ workspace.tier \in had
    BY <2>3, <2>4, MemberSets DEF BoundedBy, Init
  <2>6. \A r \in Slots : request[r].at # "counting"
    BY DEF Init, NoRequest
  <2> QED BY <2>1, <2>5, <2>6 DEF SeatInv
<1> QED BY <1>1, SeatStep, PTL DEF Spec

\* For any number of members, requests and events: the seats taken exceed the
\* largest plan the workspace has had by less than the requests served at once.
THEOREM SeatBoundHolds == Spec => []SeatOverrunBounded
<1>1. SeatInv => SeatOverrunBounded
  BY DEF SeatInv, SeatOverrunBounded, BoundedBy, Claimed
<1> QED BY <1>1, SeatsAlways, PTL

-----------------------------------------------------------------------------
(* Room for a seat. *)

\* Of a finite set of members that is not empty, one has the fewest rows of S
\* created after its own.
LEMMA FewestNewer ==
    ASSUME TypeOK, NEW S \in SUBSET Members, NEW L \in SUBSET S, L # {}
    PROVE  \E m \in L : \A v \in L :
             Cardinality({x \in S : created[x] > created[m]})
               <= Cardinality({x \in S : created[x] > created[v]})
<1> DEFINE N(m) == {x \in S : created[x] > created[m]}
           T == {Cardinality(N(m)) : m \in L}
<1>1. IsFiniteSet(S)
  BY FS_Subset, ConstantsOK
<1>2. \A m \in L : IsFiniteSet(N(m)) /\ Cardinality(N(m)) \in Nat
  <2> TAKE m \in L
  <2>1. N(m) \subseteq S
    OBVIOUS
  <2> QED BY <1>1, <2>1, FS_Subset, FS_CardinalityType
<1>3. T \subseteq Nat /\ T # {}
  BY <1>2
<1> HIDE DEF N
<1>4. PICK t \in T : \A u \in T : ~ (<<u, t>> \in OpToRel(<, Nat))
  BY <1>3, WFMin, NatLessThanWellFounded
<1>5. \A u, v \in Nat : u < v => <<u, v>> \in OpToRel(<, Nat)
  BY DEF OpToRel
<1>6. \A u \in T : t <= u
  <2> SUFFICES ASSUME NEW u \in T  PROVE t <= u
    OBVIOUS
  <2>1. t \in Nat /\ u \in Nat
    BY <1>3
  <2>2. ~(u < t)
    BY <1>4, <1>5, <2>1
  <2> QED BY <2>1, <2>2
<1>7. PICK m \in L : t = Cardinality(N(m))
  OBVIOUS
<1>8. \A v \in L : Cardinality(N(m)) <= Cardinality(N(v))
  BY <1>6, <1>7
<1> QED BY <1>8 DEF N

\* Removing the newest members beyond a cap leaves no more than the cap, rows
\* created at the same time included.
LEMMA NewestLeavesCap ==
    ASSUME TypeOK, NEW S \in SUBSET Members, NEW cap \in Nat
    PROVE  Cardinality(S \ Newest(S, Cardinality(S) - cap)) <= cap
<1> DEFINE k == Cardinality(S) - cap
           N(m) == {x \in S : created[x] > created[m]}
           L == {m \in S : ~(Cardinality(N(m)) < k)}
<1>1. IsFiniteSet(S) /\ Cardinality(S) \in Nat
  BY FS_Subset, FS_CardinalityType, ConstantsOK
<1>2. S \ Newest(S, k) = L
  BY DEF Newest
<1>3. \A m \in S : N(m) \in SUBSET S /\ IsFiniteSet(N(m)) /\ Cardinality(N(m)) \in Nat
  <2> TAKE m \in S
  <2>1. N(m) \in SUBSET S
    OBVIOUS
  <2> QED BY <1>1, <2>1, FS_Subset, FS_CardinalityType
<1>4. L \in SUBSET S /\ IsFiniteSet(L) /\ Cardinality(L) \in Nat
      /\ Cardinality(L) <= Cardinality(S)
  <2>1. L \in SUBSET S
    OBVIOUS
  <2> QED BY <1>1, <2>1, FS_Subset, FS_CardinalityType
<1> SUFFICES Cardinality(L) <= cap
  BY <1>2
<1>5. CASE k <= 0
  <2> HIDE DEF L
  <2> QED BY <1>1, <1>4, <1>5
<1>6. CASE L = {}
  <2> HIDE DEF L
  <2> QED BY <1>6, FS_EmptySet
<1>7. CASE L # {} /\ ~(k <= 0)
  <2>1. PICK m \in L : \A v \in L : Cardinality(N(m)) <= Cardinality(N(v))
    BY <1>4, <1>7, FewestNewer
  <2>2. N(m) \cap L = {}
    <3> SUFFICES ASSUME NEW v \in L, v \in N(m)  PROVE FALSE
      OBVIOUS
    <3>1. created \in [Members -> Nat] /\ m \in Members /\ v \in Members
      BY DEF TypeOK
    <3>2. created[v] > created[m]
      OBVIOUS
    <3>3. N(v) \in SUBSET N(m) /\ v \in N(m) /\ v \notin N(v)
      BY <3>1, <3>2
    <3> HIDE DEF N
    <3>4. IsFiniteSet(N(m)) /\ Cardinality(N(m)) \in Nat /\ Cardinality(N(v)) \in Nat
      BY <1>3, <1>4
    <3>5. Cardinality(N(v)) <= Cardinality(N(m)) /\ Cardinality(N(v)) # Cardinality(N(m))
      BY <3>3, <3>4, FS_Subset
    <3> QED BY <2>1, <3>4, <3>5
  <2>3. L \in SUBSET (S \ N(m))
    BY <2>2
  <2>4. IsFiniteSet(S \ N(m)) /\ Cardinality(S \ N(m)) = Cardinality(S) - Cardinality(N(m))
    <3>1. m \in S
      OBVIOUS
    <3>2. S \cap N(m) = N(m)
      OBVIOUS
    <3>3. /\ IsFiniteSet(S \ N(m))
          /\ Cardinality(S \ N(m)) = Cardinality(S) - Cardinality(S \cap N(m))
      <4> HIDE DEF N
      <4> QED BY <1>1, FS_Difference
    <3> QED BY <3>2, <3>3
  <2>5. Cardinality(L) <= Cardinality(S \ N(m))
    <3> HIDE DEF N, L
    <3> QED BY <2>3, <2>4, FS_Subset
  <2>6. ~(Cardinality(N(m)) < k) /\ Cardinality(N(m)) \in Nat
    BY <1>3
  <2> HIDE DEF N, L
  <2> QED BY <1>1, <1>4, <2>4, <2>5, <2>6
<1> QED BY <1>5, <1>6, <1>7

\* Fewer seats fit where more do.
LEMMA FitsLess ==
    ASSUME TypeOK, NEW n \in Nat, NEW m \in Nat, m <= n, Fits(n)
    PROVE  Fits(m)
<1>1. Capped(workspace.tier) => MaxSeats[workspace.tier] \in Nat
  BY ConstantsOK DEF TypeOK, Capped
<1> QED BY <1>1 DEF Fits

\* Sets of seats are finite, before and after a step.
LEMMA SeatsFinite ==
    /\ IsFiniteSet(Seated) /\ Cardinality(Seated) \in Nat
    /\ \A V : /\ IsFiniteSet(Seated \ V) /\ Cardinality(Seated \ V) \in Nat
              /\ Cardinality(Seated \ V) <= Cardinality(Seated)
    /\ IsFiniteSet(Seated') /\ Cardinality(Seated') \in Nat
    /\ \A V : IsFiniteSet(Seated' \ V) /\ Cardinality(Seated' \ V) \in Nat
<1>1. IsFiniteSet(Seated) /\ IsFiniteSet(Seated')
  BY MemberSets, MemberSetsAfter
<1>2. \A V : Seated \ V \in SUBSET Seated /\ Seated' \ V \in SUBSET Seated'
  OBVIOUS
<1> QED BY <1>1, <1>2, FS_Subset, FS_CardinalityType

\* What a handler in progress stands on is not taken from under it.
LEMMA HandlersActKept ==
    ASSUME HandlersAct,
           \A m \in Members : member[m] # "none" => member'[m] # "none",
           \A r \in Slots : request'[r].at = "accepting" =>
             /\ request'[r].member \in Members
             /\ member[request'[r].member] # "none",
           \A h \in Hooks :
             \/ hook'[h].at = hook[h].at /\ Event(h)' = Event(h)
             \/ hook'[h].at \notin {"tier", "list", "remove"}
             \/ hook'[h].at = "tier" /\ Event(h)'.tier \in Tiers
             \/ hook'[h].at \in {"list", "remove"} /\ Event(h)'.tier \in Tiers
                  /\ Capped(Event(h)'.tier)
    PROVE  HandlersAct'
<1>1. \A r \in Slots : request'[r].at = "accepting" => member'[request'[r].member] # "none"
  OBVIOUS
<1>2. ASSUME NEW h \in Hooks
      PROVE  /\ hook'[h].at \in {"tier", "list", "remove"} => Event(h)'.tier \in Tiers
             /\ hook'[h].at \in {"list", "remove"} => Capped(Event(h)'.tier)
  BY DEF HandlersAct
<1> QED BY <1>1, <1>2 DEF HandlersAct, Capped

\* A step under which no seat is taken and no tier changes leaves room where
\* there was room.
LEMMA RoomKept ==
    ASSUME TypeOK, SeatsGuarded, workspace' = workspace, Seated' \subseteq Seated,
           \A r \in Slots :
             \/ request'[r] = request[r]
             \/ request'[r].at \notin {"counting", "inserting"}
             \/ request'[r].at = "counting" /\ Fits(request'[r].limit)
             \/ request'[r].at = "inserting" /\ Fits(Cardinality(Seated) + 1),
           \A h \in Hooks : hook'[h].at = "remove" =>
             \/ /\ hook[h].at = "remove" /\ Event(h)' = Event(h)
                /\ Seated' \ hook'[h].victims \subseteq Seated \ hook[h].victims
                /\ MaxSeats[Event(h).tier] \in Int
             \/ Cardinality(Seated \ hook'[h].victims) <= MaxSeats[Event(h)'.tier]
                  /\ Seated' = Seated
    PROVE  SeatsGuarded'
<1>1. Cardinality(Seated') <= Cardinality(Seated)
  BY SeatsFinite, FS_Subset
<1>2. \A n : Fits(n) <=> Fits(n)'
  BY DEF Fits, Capped
<1>3. Fits(Cardinality(Seated'))
  BY <1>1, SeatsFinite, FitsLess DEF SeatsGuarded
<1>4. Fits(Cardinality(Seated) + 1) => Fits(Cardinality(Seated') + 1)
  BY <1>1, SeatsFinite, FitsLess
<1>5. ASSUME NEW r \in Slots
      PROVE  /\ request'[r].at = "counting" => Fits(request'[r].limit)
             /\ request'[r].at = "inserting" => Fits(Cardinality(Seated') + 1)
  BY <1>4 DEF SeatsGuarded
<1>6. ASSUME NEW h \in Hooks, hook'[h].at = "remove"
      PROVE  Cardinality(Seated' \ hook'[h].victims) <= MaxSeats[Event(h)'.tier]
  <2>1. CASE /\ hook[h].at = "remove" /\ Event(h)' = Event(h)
             /\ Seated' \ hook'[h].victims \subseteq Seated \ hook[h].victims
             /\ MaxSeats[Event(h).tier] \in Int
    <3>1. Cardinality(Seated' \ hook'[h].victims) <= Cardinality(Seated \ hook[h].victims)
      BY <2>1, SeatsFinite, FS_Subset
    <3>2. Cardinality(Seated \ hook[h].victims) <= MaxSeats[Event(h).tier]
      BY <2>1 DEF SeatsGuarded
    <3>3. /\ Cardinality(Seated' \ hook'[h].victims) \in Nat
          /\ Cardinality(Seated \ hook[h].victims) \in Nat
      BY SeatsFinite
    <3>4. MaxSeats[Event(h)'.tier] = MaxSeats[Event(h).tier]
      BY <2>1
    <3> DEFINE a == Cardinality(Seated' \ hook'[h].victims)
               b == Cardinality(Seated \ hook[h].victims)
               c == MaxSeats[Event(h).tier]
    <3>5. a \in Nat /\ b \in Nat /\ c \in Int /\ a <= b /\ b <= c
      BY <2>1, <3>1, <3>2, <3>3
    <3> HIDE DEF a, b, c
    <3>6. a <= c
      BY <3>5
    <3> QED BY <3>4, <3>6 DEF a, c
  <2> QED BY <1>6, <2>1
<1> QED BY <1>3, <1>5, <1>6 DEF SeatsGuarded, Fits, Capped

\* Event(h) of a delivery in progress is the event it was, whatever else
\* happens.
LEMMA EventStays ==
    ASSUME TypeOK, NEW h \in Hooks, hook[h].at # "idle", hook'[h].event = hook[h].event,
           \A i \in 1..Len(events) : events'[i] = events[i]
    PROVE  Event(h)' = Event(h)
<1>1. hook[h].event \in 1..Len(events)
  BY EventTyped DEF HookType, TypeOK
<1> QED BY <1>1 DEF Event

\* Stripe takes no seat.
LEMMA EmitGuarded ==
    ASSUME TypeOK, GuardInv, NEW kind, NEW tier, NEW status, Emit(kind, tier, status)
    PROVE  GuardInv'
<1>1. UNCHANGED <<member, workspace, request, hook, unguarded>>
  BY DEF Emit, roster, handlers, seats
<1>2. /\ events \in Seq(EventType)
      /\ \E e : events' = Append(events, e)
  BY DEF TypeOK, Emit
<1>3. \A i \in 1..Len(events) : events'[i] = events[i]
  BY <1>2
<1>4. \A h \in Hooks : hook'[h].at = hook[h].at
                         /\ (hook[h].at # "idle" => Event(h)' = Event(h))
  BY <1>1, <1>3, EventStays
<1>5. Seated' = Seated
  BY <1>1 DEF Seated
<1>6. HandlersAct'
  <2>1. \A r \in Slots : request[r].at = "accepting" => request[r].member \in Members
    BY DEF TypeOK
  <2> QED BY <1>1, <1>4, <2>1, HandlersActKept DEF GuardInv, HandlersAct
<1>7. ASSUME ~unguarded' PROVE SeatsGuarded'
  <2>1. \A h \in Hooks : hook[h].at = "remove" => MaxSeats[Event(h).tier] \in Int
    BY ConstantsOK DEF GuardInv, HandlersAct, Unlimited
  <2> QED BY <1>1, <1>4, <1>5, <1>7, <2>1, RoomKept DEF GuardInv
<1> QED BY <1>6, <1>7 DEF GuardInv

\* A delivery that is left alone stands where it stood.
LEMMA HooksStand ==
    ASSUME TypeOK, HandlersAct, UNCHANGED <<hook, events>>, Seated' \subseteq Seated
    PROVE  \A h \in Hooks :
             /\ hook'[h].at = hook[h].at /\ Event(h)' = Event(h)
             /\ hook'[h].at = "remove" =>
                  /\ hook[h].at = "remove" /\ Event(h)' = Event(h)
                  /\ Seated' \ hook'[h].victims \subseteq Seated \ hook[h].victims
                  /\ MaxSeats[Event(h).tier] \in Int
<1>1. \A h \in Hooks : hook[h].at = "remove" => MaxSeats[Event(h).tier] \in Int
  BY ConstantsOK DEF HandlersAct, Unlimited
<1> QED BY <1>1 DEF Event

\* The routes of the members leave room where they found room.
LEMMA RoutesGuarded ==
    ASSUME TypeOK, TypeOK', GuardInv, NEW r \in Slots,
           \/ \E m \in Members : InviteReadTier(r, m) \/ AcceptFind(r, m)
           \/ InviteCount(r) \/ InsertInvited(r) \/ AcceptWrite(r) \/ LoseRequest(r)
    PROVE  GuardInv'
<1> USE DEF roster, subscription, seats, billing
<1>0. /\ \A s \in Slots : s # r => request'[s] = request[s]
      /\ UNCHANGED <<workspace, hook, events>>
      /\ HandlersAct /\ (unguarded => unguarded')
      /\ \A s \in Slots : request[s].at # "idle" => request[s].member \in Members
      /\ \A s \in Slots : request'[s].at # "idle" => request'[s].member \in Members
  BY DEF InviteReadTier, AcceptFind, InviteCount, InsertInvited, AcceptWrite, LoseRequest,
         TypeOK, GuardInv
<1>1. \A s \in Slots : request[s].at = "accepting" => member[request[s].member] # "none"
  BY <1>0 DEF HandlersAct
\* What a step owes that takes no seat.
<1>q. ASSUME Seated' = Seated,
             \A m \in Members : member[m] # "none" => member'[m] # "none",
             request'[r].at = "accepting" => member[request'[r].member] # "none",
             ~unguarded' =>
               \/ request'[r].at \notin {"counting", "inserting"}
               \/ request'[r].at = "counting" /\ Fits(request'[r].limit)
               \/ request'[r].at = "inserting" /\ Fits(Cardinality(Seated) + 1)
      PROVE  GuardInv'
  <2>1. HandlersAct'
    BY <1>0, <1>1, <1>q, HooksStand, HandlersActKept
  <2>2. ASSUME ~unguarded' PROVE SeatsGuarded'
    BY <1>0, <1>q, <2>2, HooksStand, RoomKept DEF GuardInv
  <2> QED BY <2>1, <2>2 DEF GuardInv
<1>2. ASSUME NEW m \in Members, InviteReadTier(r, m) PROVE GuardInv'
  <2>1. member' = member /\ Seated' = Seated
    BY <1>2 DEF InviteReadTier, Seated
  <2>2. request'[r] = [at |-> IF Capped(workspace.tier) THEN "counting" ELSE "inserting",
                       member |-> m,
                       limit |-> IF Capped(workspace.tier) THEN MaxSeats[workspace.tier] ELSE 0]
    BY <1>2 DEF InviteReadTier, TypeOK
  <2>3. CASE Capped(workspace.tier)
    <3>1. request'[r].at = "counting" /\ request'[r].limit = MaxSeats[workspace.tier]
      BY <2>2, <2>3
    <3>2. MaxSeats[workspace.tier] \in Nat
      BY <2>3, ConstantsOK DEF Capped, TypeOK
    <3>3. Fits(request'[r].limit)
      BY <3>1, <3>2 DEF Fits
    <3> QED BY <1>q, <2>1, <3>1, <3>3
  <2>4. CASE ~Capped(workspace.tier)
    BY <1>q, <2>1, <2>2, <2>4 DEF Fits
  <2> QED BY <2>3, <2>4
<1>3. ASSUME NEW m \in Members, AcceptFind(r, m) PROVE GuardInv'
  <2>1. member' = member /\ Seated' = Seated /\ member[m] = "invited"
    BY <1>3 DEF AcceptFind, Seated
  <2>2. request'[r] = [at |-> "accepting", member |-> m, limit |-> 0]
    BY <1>3 DEF AcceptFind, TypeOK
  <2> QED BY <1>q, <2>1, <2>2
<1>4. CASE InviteCount(r)
  <2>1. member' = member /\ Seated' = Seated /\ unguarded' = unguarded
        /\ request[r].at = "counting" /\ request[r].limit \in Nat
    BY <1>4 DEF InviteCount, Seated, TypeOK
  <2>2. CASE request' = [request EXCEPT ![r] = NoRequest]
    <3>1. request'[r].at = "idle"
      BY <2>2 DEF TypeOK, NoRequest
    <3> QED BY <1>q, <2>1, <3>1
  <2>3. CASE ~(Cardinality(Seated) >= request[r].limit)
    <3>1. request'[r].at = "inserting"
      BY <1>4, <2>3 DEF InviteCount, TypeOK
    <3>2. ~unguarded => Fits(request[r].limit)
      BY <2>1 DEF GuardInv, SeatsGuarded
    <3>3. ~unguarded => Fits(Cardinality(Seated) + 1)
      BY <2>1, <2>3, <3>2, FitsLess, SeatsFinite
    <3> QED BY <1>q, <2>1, <3>1, <3>3
  <2> QED BY <1>4, <2>2, <2>3 DEF InviteCount
<1>5. CASE LoseRequest(r)
  <2>1. member' = member /\ Seated' = Seated /\ request'[r].at = "idle"
    BY <1>5 DEF LoseRequest, Seated, TypeOK, NoRequest
  <2> QED BY <1>q, <2>1
<1>6. CASE AcceptWrite(r)
  <2> DEFINE v == request[r].member
  <2>1. request'[r].at = "idle" /\ v \in Members /\ member[v] # "none"
    BY <1>0, <1>1, <1>6 DEF AcceptWrite, TypeOK, NoRequest
  <2>2. /\ member' = [member EXCEPT ![v] = "active"]
        /\ unguarded' = (unguarded \/ member[v] = "deactivated")
    BY <1>6 DEF AcceptWrite
  <2>3. \A m \in Members : member[m] # "none" => member'[m] # "none"
    BY <2>2 DEF TypeOK
  <2> HIDE DEF v
  <2>4. CASE unguarded'
    <3>1. HandlersAct'
      <4>1. \A h \in Hooks : hook'[h].at = hook[h].at /\ Event(h)' = Event(h)
        BY <1>0 DEF Event
      <4> QED BY <1>0, <1>1, <2>1, <2>3, <4>1, HandlersActKept
    <3> QED BY <2>4, <3>1 DEF GuardInv
  <2>5. CASE ~unguarded'
    <3>1. member[v] \in {"invited", "active"}
      BY <2>1, <2>2, <2>5 DEF TypeOK
    <3>2. Seated' = Seated
      BY <2>1, <2>2, <3>1 DEF Seated, TypeOK
    <3> QED BY <1>q, <2>1, <2>3, <3>2
  <2> QED BY <2>4, <2>5
<1>7. CASE InsertInvited(r)
  <2> DEFINE v == request[r].member
  <2>1. request'[r].at = "idle" /\ v \in Members /\ request[r].at = "inserting"
    BY <1>0, <1>7 DEF InsertInvited, TypeOK, NoRequest
  <2>2. CASE member[v] # "none"
    <3>1. member' = member /\ Seated' = Seated
      BY <1>7, <2>2 DEF InsertInvited, Seated
    <3> QED BY <1>q, <2>1, <3>1
  <2>3. CASE member[v] = "none"
    <3>1. /\ member' = [member EXCEPT ![v] = "invited"]
          /\ unguarded' = (unguarded \/ Overlap(r))
      BY <1>7, <2>3 DEF InsertInvited
    <3>2. \A m \in Members : member[m] # "none" => member'[m] # "none"
      BY <3>1 DEF TypeOK
    <3> HIDE DEF v
    <3>3. Seated' = Seated \union {v} /\ v \notin Seated
      BY <2>1, <2>3, <3>1 DEF Seated, TypeOK
    <3>4. HandlersAct'
      <4>1. \A h \in Hooks : hook'[h].at = hook[h].at /\ Event(h)' = Event(h)
        BY <1>0 DEF Event
      <4> QED BY <1>0, <1>1, <2>1, <3>2, <4>1, HandlersActKept
    <3>5. ASSUME ~unguarded' PROVE SeatsGuarded'
      <4>1. ~unguarded /\ ~Overlap(r)
        BY <3>1, <3>5
      <4>2. Cardinality(Seated') = Cardinality(Seated) + 1
        BY <3>3, SeatsFinite, FS_AddElement
      <4>3. Fits(Cardinality(Seated'))
        BY <2>1, <4>1, <4>2 DEF GuardInv, SeatsGuarded
      <4>4. \A s \in Slots : request'[s].at \notin {"counting", "inserting"}
        BY <1>0, <2>1, <4>1 DEF Overlap
      <4>5. \A h \in Hooks : hook'[h].at # "remove"
        BY <1>0, <4>1 DEF Overlap
      <4> QED BY <1>0, <4>3, <4>4, <4>5 DEF SeatsGuarded, Fits, Capped
    <3> QED BY <3>4, <3>5 DEF GuardInv
  <2> QED BY <2>2, <2>3
<1> QED BY <1>2, <1>3, <1>4, <1>5, <1>6, <1>7

\* A removal frees a seat, and the identity provider's are not guarded.
LEMMA RosterGuarded ==
    ASSUME TypeOK, TypeOK', GuardInv, NEW m \in Members, NEW s \in {"active", "deactivated"},
           Deactivate(m) \/ ScimCreate(m, s) \/ ScimSet(m, s)
    PROVE  GuardInv'
<1> USE DEF subscription, seats, handlers
<1>1. /\ UNCHANGED <<workspace, request, hook, events>> /\ HandlersAct
      /\ \A r \in Slots : request[r].at # "idle" => request[r].member \in Members
  BY DEF Deactivate, ScimCreate, ScimSet, GuardInv, TypeOK
<1>2. \/ member' = [member EXCEPT ![m] = "deactivated"] /\ unguarded' = unguarded
      \/ /\ member' = [member EXCEPT ![m] = s]
         /\ s = "active" /\ m \notin Seated => unguarded' = TRUE
         /\ ~(s = "active" /\ m \notin Seated) => unguarded' = unguarded
  BY DEF Deactivate, ScimCreate, ScimSet, Provision
<1>3. \A v \in Members : member[v] # "none" => member'[v] # "none"
  BY <1>2 DEF TypeOK
<1>4. HandlersAct'
  <2>1. \A h \in Hooks : hook'[h].at = hook[h].at /\ Event(h)' = Event(h)
    BY <1>1 DEF Event
  <2>2. \A r \in Slots : request'[r].at = "accepting" =>
          request'[r].member \in Members /\ member[request'[r].member] # "none"
    BY <1>1 DEF HandlersAct
  <2> QED BY <1>1, <1>3, <2>1, <2>2, HandlersActKept
<1>5. ASSUME ~unguarded' PROVE SeatsGuarded'
  <2>1. Seated' \subseteq Seated /\ ~unguarded
    BY <1>2, <1>5 DEF Seated, TypeOK
  <2> QED BY <1>1, <2>1, HooksStand, RoomKept DEF GuardInv
<1> QED BY <1>4, <1>5 DEF GuardInv

\* The steps of a delivery that write no billing stand on the event they handle,
\* and remove what their plan does not fit.
LEMMA DeliveriesGuarded ==
    ASSUME TypeOK, TypeOK', GuardInv, NEW h \in Hooks,
           \/ \E n \in 1..Len(events) : Deliver(h, n)
           \/ FindCustomer(h) \/ ReadTier(h) \/ ListMembers(h)
           \/ RemoveMember(h) \/ FailHook(h)
    PROVE  GuardInv'
<1> USE DEF roster, subscription, seats, billing
<1>0. /\ \A k \in Hooks : k # h => hook'[k] = hook[k]
      /\ UNCHANGED <<workspace, request, events, unguarded>> /\ HandlersAct
      /\ \A r \in Slots : request[r].at = "accepting" =>
           request[r].member \in Members /\ member[request[r].member] # "none"
  BY DEF Deliver, FindCustomer, ReadTier, ListMembers, RemoveMember, FailHook, TypeOK,
         GuardInv, HandlersAct
<1>1. Seated' \subseteq Seated /\ \A m \in Members : member[m] # "none" => member'[m] # "none"
  BY DEF Deliver, FindCustomer, ReadTier, ListMembers, RemoveMember, FailHook, Seated, TypeOK
<1>2. \A k \in Hooks : k # h => hook'[k].at = hook[k].at /\ Event(k)' = Event(k)
  BY <1>0 DEF Event
<1>3. \A k \in Hooks : hook[k].at = "remove" => MaxSeats[Event(k).tier] \in Int
  BY <1>0, ConstantsOK DEF HandlersAct, Unlimited
\* What a step owes that neither lists nor removes.
<1>q. ASSUME Seated' = Seated,
             \/ hook'[h].at \notin {"tier", "list", "remove"}
             \/ hook'[h].at = "tier" /\ Event(h)'.tier \in Tiers
             \/ hook'[h].at = "list" /\ Event(h)'.tier \in Tiers /\ Capped(Event(h)'.tier)
             \/ /\ hook'[h].at = "remove" /\ Event(h)'.tier \in Tiers /\ Capped(Event(h)'.tier)
                /\ Cardinality(Seated \ hook'[h].victims) <= MaxSeats[Event(h)'.tier]
      PROVE  GuardInv'
  <2>1. HandlersAct'
    BY <1>0, <1>1, <1>2, <1>q, HandlersActKept
  <2>2. ASSUME NEW k \in Hooks, hook'[k].at = "remove"
        PROVE  \/ /\ hook[k].at = "remove" /\ Event(k)' = Event(k)
                  /\ Seated' \ hook'[k].victims \subseteq Seated \ hook[k].victims
                  /\ MaxSeats[Event(k).tier] \in Int
               \/ Cardinality(Seated \ hook'[k].victims) <= MaxSeats[Event(k)'.tier]
                    /\ Seated' = Seated
    BY <1>0, <1>1, <1>2, <1>3, <1>q, <2>2
  <2>3. ASSUME ~unguarded' PROVE SeatsGuarded'
    BY <1>0, <1>1, <2>2, <2>3, RoomKept DEF GuardInv
  <2> QED BY <2>1, <2>3 DEF GuardInv
<1>4. ASSUME NEW n \in 1..Len(events), Deliver(h, n) PROVE GuardInv'
  <2>1. hook'[h].at \in {"write", "customer"} /\ Seated' = Seated
    BY <1>4 DEF Deliver, TypeOK, Seated
  <2> QED BY <1>q, <2>1
<1>e. ASSUME hook[h].at # "idle", hook'[h].event = hook[h].event
      PROVE  Event(h)' = Event(h) /\ Event(h) \in EventType
  BY <1>0, <1>e, EventStays, EventTyped
<1>5. CASE FindCustomer(h)
  <2>1. Seated' = Seated
    BY <1>5 DEF FindCustomer, Seated
  <2>2. CASE ~workspace.customer
    <3>1. hook'[h].at = "idle"
      BY <1>5, <2>2 DEF FindCustomer, TypeOK, NoHook
    <3> QED BY <1>q, <2>1, <3>1
  <2>3. CASE workspace.customer
    <3>1. /\ hook'[h].event = hook[h].event /\ hook[h].at # "idle"
          /\ hook'[h].at = IF Event(h).kind = "updated" /\ Event(h).tier # NoTier
                           THEN "tier" ELSE "write"
      BY <1>5, <2>3 DEF FindCustomer, TypeOK
    <3>2. hook'[h].at = "tier" => Event(h)'.tier \in Tiers
      BY <1>e, <3>1 DEF EventType
    <3> QED BY <1>q, <2>1, <3>1, <3>2
  <2> QED BY <2>2, <2>3
<1>6. CASE ReadTier(h)
  <2>1. /\ Seated' = Seated /\ hook[h].at = "tier" /\ hook'[h].event = hook[h].event
        /\ hook'[h].at = IF Rank(Event(h).tier) < Rank(workspace.tier) /\ Capped(Event(h).tier)
                         THEN "list" ELSE "write"
    BY <1>6 DEF ReadTier, Seated, TypeOK
  <2>2. Event(h)' = Event(h) /\ Event(h).tier \in Tiers
    BY <1>0, <1>e, <2>1 DEF HandlersAct
  <2> QED BY <1>q, <2>1, <2>2
<1>7. CASE ListMembers(h)
  <2> DEFINE cap == MaxSeats[Event(h).tier]
  <2>1. /\ Seated' = Seated /\ hook[h].at = "list" /\ hook'[h].event = hook[h].event
        /\ hook'[h].at = "remove"
        /\ hook'[h].victims = Newest(Seated, Cardinality(Seated) - cap)
    BY <1>7 DEF ListMembers, Seated, TypeOK
  <2>2. Event(h)' = Event(h) /\ Event(h).tier \in Tiers /\ Capped(Event(h).tier)
    BY <1>0, <1>e, <2>1 DEF HandlersAct
  <2>3. cap \in Nat
    BY <2>2, ConstantsOK DEF Capped
  <2>4. Seated \subseteq Members
    BY DEF Seated
  <2> HIDE DEF cap
  <2>5. Cardinality(Seated \ hook'[h].victims) <= cap
    BY <2>1, <2>3, <2>4, NewestLeavesCap
  <2> QED BY <1>q, <2>1, <2>2, <2>5 DEF cap
<1>8. CASE RemoveMember(h)
  <2>1. PICK m \in Newest(hook[h].victims, 1) :
           /\ member' = [member EXCEPT ![m] = "deactivated"]
           /\ hook' = [hook EXCEPT ![h].victims = @ \ {m}]
    BY <1>8 DEF RemoveMember
  <2>2. /\ hook[h].at = "remove" /\ hook'[h].at = "remove" /\ hook'[h].event = hook[h].event
        /\ hook'[h].victims = hook[h].victims \ {m}
    BY <1>8, <2>1 DEF RemoveMember, TypeOK
  <2>3. Event(h)' = Event(h)
    BY <1>e, <2>2
  <2>4. m \notin Seated'
    BY <2>1 DEF Seated, TypeOK
  <2>5. Seated' \ hook'[h].victims \subseteq Seated \ hook[h].victims
    BY <1>1, <2>2, <2>4
  <2>6. HandlersAct'
    <3>1. \A k \in Hooks : hook'[k].at = hook[k].at /\ Event(k)' = Event(k)
      BY <1>2, <2>2, <2>3
    <3> QED BY <1>0, <1>1, <3>1, HandlersActKept
  <2>7. ASSUME NEW k \in Hooks, hook'[k].at = "remove"
        PROVE  /\ hook[k].at = "remove" /\ Event(k)' = Event(k)
               /\ Seated' \ hook'[k].victims \subseteq Seated \ hook[k].victims
               /\ MaxSeats[Event(k).tier] \in Int
    BY <1>0, <1>1, <1>2, <1>3, <2>2, <2>3, <2>5, <2>7
  <2>8. ASSUME ~unguarded' PROVE SeatsGuarded'
    BY <1>0, <1>1, <2>7, <2>8, RoomKept DEF GuardInv
  <2> QED BY <2>6, <2>8 DEF GuardInv
<1>9. CASE FailHook(h)
  <2>1. hook'[h].at = "idle" /\ Seated' = Seated
    BY <1>9 DEF FailHook, TypeOK, Seated, NoHook
  <2> QED BY <1>q, <2>1
<1> QED BY <1>4, <1>5, <1>6, <1>7, <1>8, <1>9

\* A plan that is not lowered fits what fitted before.
LEMMA RaisedFits ==
    ASSUME TypeOK, NEW n \in Nat, Fits(n), workspace'.tier \in Tiers,
           ~(Capped(workspace'.tier) /\ Rank(workspace'.tier) < Rank(workspace.tier))
    PROVE  Fits(n)'
<1> DEFINE t == workspace.tier
           u == workspace'.tier
<1>1. t \in Tiers /\ u \in Tiers
  BY DEF TypeOK
<1>2. CASE ~Capped(u)
  BY <1>2 DEF Fits, Capped
<1>3. CASE Capped(u)
  <2>1. Rank(t) \in Nat /\ Rank(u) \in Nat
    BY <1>1 DEF Rank, Tiers
  <2>2. Rank(t) <= Rank(u)
    BY <1>3, <2>1
  <2>3. MaxSeats[t] # Unlimited /\ MaxSeats[t] <= MaxSeats[u]
    BY <1>1, <1>3, <2>2, LargerPlansSeatMore DEF Capped
  <2>4. MaxSeats[t] \in Nat /\ MaxSeats[u] \in Nat
    BY <1>1, <1>3, <2>3, ConstantsOK DEF Capped
  <2>5. n <= MaxSeats[t]
    BY <2>3 DEF Fits, Capped
  <2> QED BY <2>3, <2>4, <2>5 DEF Fits, Capped
<1> QED BY <1>2, <1>3

\* A plan is lowered below the seats taken only behind a check's back.
LEMMA WriteGuarded ==
    ASSUME TypeOK, TypeOK', GuardInv, NEW h \in Hooks, WriteBilling(h)
    PROVE  GuardInv'
<1> DEFINE t == TierAfter(Event(h))
           lowers == Lowers(t)
<1>0. /\ UNCHANGED <<member, request, events>> /\ HandlersAct
      /\ workspace'.tier = t /\ t \in Tiers
      /\ \A r \in Slots : request[r].at = "accepting" =>
           request[r].member \in Members /\ member[request[r].member] # "none"
  BY DEF WriteBilling, roster, subscription, GuardInv, HandlersAct, TypeOK
<1>1. /\ hook'[h].at = "idle" /\ \A k \in Hooks : k # h => hook'[k] = hook[k]
  BY DEF WriteBilling, TypeOK, NoHook
<1>2. \A k \in Hooks : k # h => hook'[k].at = hook[k].at /\ Event(k)' = Event(k)
  BY <1>0, <1>1 DEF Event
<1>3. Seated' = Seated
  BY <1>0 DEF Seated
<1>4. unguarded' = (unguarded \/ (lowers /\
                          \/ hook[h].at = "write"
                          \/ \E r \in Slots : request[r].at \in {"counting", "inserting"}))
  BY DEF WriteBilling
<1>5. HandlersAct'
  BY <1>0, <1>1, <1>2, HandlersActKept
<1>6. ASSUME ~unguarded' PROVE SeatsGuarded'
  <2>1. SeatsGuarded
    BY <1>4, <1>6 DEF GuardInv
  <2>2. Fits(Cardinality(Seated)) /\ Cardinality(Seated) \in Nat
    BY <2>1, SeatsFinite DEF SeatsGuarded
  <2>3. Fits(Cardinality(Seated))'
    <3>1. CASE ~lowers
      <4>1. \A n \in Nat : Fits(n) => Fits(n)'
        BY <1>0, <3>1, RaisedFits DEF Lowers
      <4>2. (Capped(workspace.tier) => Cardinality(Seated) <= MaxSeats[workspace.tier])'
        BY <1>3, <2>2, <4>1 DEF Fits
      <4> QED BY <1>3, <4>2 DEF Fits
    <3>2. CASE lowers
      <4>1. hook[h].at = "remove" /\ hook[h].victims = {}
        BY <1>4, <1>6, <3>2 DEF WriteBilling
      <4>2. Event(h).tier = t
        BY <1>0, <4>1 DEF HandlersAct, TierAfter, Tiers, NoTier
      <4>3. Cardinality(Seated \ {}) <= MaxSeats[t]
        BY <2>1, <4>1, <4>2 DEF SeatsGuarded
      <4>4. Seated \ {} = Seated
        OBVIOUS
      <4> QED BY <1>0, <1>3, <4>3, <4>4 DEF Fits
    <3> QED BY <3>1, <3>2
  <2>4. ASSUME NEW r \in Slots
        PROVE  (/\ request[r].at = "counting" => Fits(request[r].limit)
                /\ request[r].at = "inserting" => Fits(Cardinality(Seated) + 1))'
    <3>1. CASE request[r].at \notin {"counting", "inserting"}
      BY <1>0, <3>1
    <3>2. CASE request[r].at \in {"counting", "inserting"}
      <4>1. ~lowers
        BY <1>4, <1>6, <3>2
      <4>2. \A n \in Nat : Fits(n) => Fits(n)'
        BY <1>0, <4>1, RaisedFits DEF Lowers
      <4>3. /\ request[r].at = "counting" => Fits(request[r].limit)
            /\ request[r].at = "inserting" => Fits(Cardinality(Seated) + 1)
            /\ request[r].limit \in Nat /\ Cardinality(Seated) + 1 \in Nat
        BY <2>1, <2>2 DEF SeatsGuarded, TypeOK
      <4> QED BY <1>0, <1>3, <4>2, <4>3 DEF Fits
    <3> QED BY <3>1, <3>2
  <2>5. ASSUME NEW k \in Hooks
        PROVE  (hook[k].at = "remove" =>
                  Cardinality(Seated \ hook[k].victims) <= MaxSeats[Event(k).tier])'
    BY <1>1, <1>2, <1>3, <2>1 DEF SeatsGuarded
  <2> QED BY <2>3, <2>4, <2>5 DEF SeatsGuarded
<1> QED BY <1>5, <1>6 DEF GuardInv

\* An administrator leaves room, unless the plan set is a smaller one.
LEMMA ActsGuarded ==
    ASSUME TypeOK, TypeOK', GuardInv, Acts
    PROVE  GuardInv'
<1>0. /\ UNCHANGED <<member, request, hook, events>> /\ HandlersAct
      /\ workspace'.tier \in Tiers
      /\ \A r \in Slots : request[r].at = "accepting" =>
           request[r].member \in Members /\ member[request[r].member] # "none"
  BY ActFact DEF roster, handlers, subscription, GuardInv, HandlersAct, TypeOK
<1>1. Seated' = Seated /\ Cardinality(Seated) \in Nat
  BY <1>0, SeatsFinite DEF Seated
<1>2. \A k \in Hooks : hook'[k].at = hook[k].at /\ Event(k)' = Event(k)
  BY <1>0 DEF Event
<1>3. HandlersAct'
  BY <1>0, <1>2, HandlersActKept
<1>4. ASSUME ~unguarded' PROVE SeatsGuarded'
  <2>1. SeatsGuarded
    BY <1>4, ActFact DEF GuardInv
  <2>2. ~(Capped(workspace'.tier) /\ Rank(workspace'.tier) < Rank(workspace.tier))
    <3>1. workspace'.tier = workspace.tier \/ ~Lowers(workspace'.tier)
      BY <1>4, ActFact
    <3>2. ~(Rank(workspace.tier) < Rank(workspace.tier))
      BY DEF Rank, TypeOK, Tiers
    <3> QED BY <3>1, <3>2 DEF Lowers
  <2>3. \A n \in Nat : Fits(n) => Fits(n)'
    BY <1>0, <2>2, RaisedFits
  <2>4. Fits(Cardinality(Seated))'
    <3>1. Fits(Cardinality(Seated))
      BY <2>1 DEF SeatsGuarded
    <3>2. Capped(workspace'.tier) => Cardinality(Seated) <= MaxSeats[workspace'.tier]
      BY <1>1, <2>3, <3>1 DEF Fits
    <3> QED BY <1>1, <3>2 DEF Fits
  <2>5. ASSUME NEW r \in Slots
        PROVE  (/\ request[r].at = "counting" => Fits(request[r].limit)
                /\ request[r].at = "inserting" => Fits(Cardinality(Seated) + 1))'
    <3>1. /\ request[r].at = "counting" => Fits(request[r].limit)
          /\ request[r].at = "inserting" => Fits(Cardinality(Seated) + 1)
          /\ request[r].limit \in Nat /\ Cardinality(Seated) + 1 \in Nat
      BY <1>1, <2>1 DEF SeatsGuarded, TypeOK
    <3> QED BY <1>0, <1>1, <2>3, <3>1 DEF Fits
  <2>6. ASSUME NEW k \in Hooks
        PROVE  (hook[k].at = "remove" =>
                  Cardinality(Seated \ hook[k].victims) <= MaxSeats[Event(k).tier])'
    BY <1>0, <1>1, <1>2, <2>1 DEF SeatsGuarded
  <2> QED BY <2>4, <2>5, <2>6 DEF SeatsGuarded
<1> QED BY <1>3, <1>4 DEF GuardInv

\* Every step leaves room, or goes behind a check's back.
LEMMA GuardStep == TypeOK /\ GuardInv /\ [Next]_vars => GuardInv'
<1> SUFFICES ASSUME TypeOK, GuardInv, [Next]_vars PROVE GuardInv'
  OBVIOUS
<1>0. TypeOK'
  BY TypeStep
<1>1. CASE UNCHANGED vars
  BY <1>1 DEF vars, roster, handlers, subscription, seats, GuardInv, HandlersAct,
              SeatsGuarded, Seated, Fits, Event
<1>2. CASE \/ \E t \in OnSale : Checkout(t)
           \/ \E u \in Updates : Update(u[1], u[2])
           \/ Delete \/ FailPayment
  BY <1>2, EmitGuarded DEF Checkout, Update, Delete, FailPayment
<1>3. ASSUME NEW r \in Slots,
             \/ \E m \in Members : InviteReadTier(r, m) \/ AcceptFind(r, m)
             \/ InviteCount(r) \/ InsertInvited(r) \/ AcceptWrite(r) \/ LoseRequest(r)
      PROVE  GuardInv'
  BY <1>0, <1>3, RoutesGuarded
<1>4. ASSUME NEW m \in Members,
             \/ Deactivate(m)
             \/ \E s \in {"active", "deactivated"} : ScimCreate(m, s) \/ ScimSet(m, s)
      PROVE  GuardInv'
  BY <1>0, <1>4, RosterGuarded
<1>5. ASSUME NEW h \in Hooks,
             \/ \E n \in 1..Len(events) : Deliver(h, n)
             \/ FindCustomer(h) \/ ReadTier(h) \/ ListMembers(h)
             \/ RemoveMember(h) \/ WriteBilling(h) \/ FailHook(h)
      PROVE  GuardInv'
  BY <1>0, <1>5, DeliveriesGuarded, WriteGuarded
<1>6. CASE Acts
  BY <1>0, <1>6, ActsGuarded
<1> QED BY <1>1, <1>2, <1>3, <1>4, <1>5, <1>6 DEF Next, Acts

\* In every reachable state, as long as no step went behind a check's back, what
\* the checks in progress let through still fits the plan.
THEOREM GuardAlways == Spec => []GuardInv
<1>1. Init => GuardInv
  <2> SUFFICES ASSUME Init PROVE GuardInv
    OBVIOUS
  <2>1. Seated = {} /\ Cardinality(Seated) = 0
    BY FS_EmptySet DEF Init, Seated
  <2>2. /\ \A r \in Slots : request[r].at = "idle"
        /\ \A h \in Hooks : hook[h].at = "idle"
    BY DEF Init, NoRequest, NoHook
  <2>3. Fits(0)
    BY InitTyped, ConstantsOK DEF Fits, Capped, TypeOK
  <2> QED BY <2>1, <2>2, <2>3 DEF GuardInv, HandlersAct, SeatsGuarded
<1> QED BY <1>1, GuardStep, InitTyped, TypeStep, PTL DEF Spec

\* For any members, requests, deliveries and caps: a workspace is over its
\* plan's seats only after a step that takes no account of them.
THEOREM OverSeatsUnguarded == Spec => []OverSeatsOnlyUnguarded
<1>1. TypeOK /\ GuardInv => OverSeatsOnlyUnguarded
  <2> SUFFICES ASSUME TypeOK, GuardInv, ~unguarded, Capped(workspace.tier)
               PROVE  ~(Cardinality(Seated) > MaxSeats[workspace.tier])
    BY DEF OverSeatsOnlyUnguarded
  <2>1. Cardinality(Seated) <= MaxSeats[workspace.tier]
    BY DEF GuardInv, SeatsGuarded, Fits
  <2>2. MaxSeats[workspace.tier] \in Nat /\ Cardinality(Seated) \in Nat
    BY SeatsFinite, ConstantsOK DEF TypeOK, Capped
  <2> QED BY <2>1, <2>2
<1> QED BY <1>1, TypeCorrect, GuardAlways, PTL

-----------------------------------------------------------------------------
(* Billing. *)

\* The tier after the first events is one tier, not two.
LEMMA TierAfterUnique ==
    ASSUME NEW n \in Nat, NEW t \in Tiers, NEW u \in Tiers,
           TierAfterFirst(n, t), TierAfterFirst(n, u)
    PROVE  t = u
<1>0. t # NoTier /\ u # NoTier
  BY DEF Tiers, NoTier
<1>1. CASE \A i \in 1..n : events[i].tier = NoTier
  BY <1>0, <1>1 DEF TierAfterFirst
<1>2. CASE ~\A i \in 1..n : events[i].tier = NoTier
  <2>1. PICK i \in 1..n : /\ events[i].tier = t
                          /\ \A j \in (i + 1)..n : events[j].tier = NoTier
    BY <1>2 DEF TierAfterFirst
  <2>2. PICK k \in 1..n : /\ events[k].tier = u
                          /\ \A j \in (k + 1)..n : events[j].tier = NoTier
    BY <1>2 DEF TierAfterFirst
  <2>3. i = k
    BY <1>0, <2>1, <2>2
  <2> QED BY <2>1, <2>2, <2>3
<1> QED BY <1>1, <1>2

\* What happens at Stripe is told by the event it emits.
LEMMA EmitBilling ==
    ASSUME TypeOK, BillingInv, NEW kind, NEW tier \in Tiers \union {NoTier}, NEW status,
           Emit(kind, tier, status)
    PROVE  BillingInv'
<1> DEFINE e == [kind |-> kind, tier |-> tier, status |-> status]
           n == Len(events)
<1>1. /\ events \in Seq(EventType) /\ n \in Nat
      /\ events' = Append(events, e)
  BY DEF TypeOK, Emit
<1>2. /\ Len(events') = n + 1 /\ events'[n + 1] = e
      /\ \A i \in 1..n : events'[i] = events[i]
  BY <1>1
<1>3. e.tier = tier /\ e.status = status
  OBVIOUS
<1> HIDE DEF e, n
<1>4. UNCHANGED <<workspace, applied, admin>>
  BY DEF Emit, billing
<1>5. stripe'.status = status /\ stripe'.tier = IF tier = NoTier THEN stripe.tier ELSE tier
  BY DEF Emit
<1>6. TierAfterFirst(n, stripe.tier)
  BY DEF BillingInv, n
<1>7. TierAfterFirst(Len(events), stripe.tier)'
  <2>1. CASE tier = NoTier
    <3>1. CASE stripe.tier = "starter" /\ \A i \in 1..n : events[i].tier = NoTier
      BY <1>1, <1>2, <1>3, <1>5, <2>1, <3>1 DEF TierAfterFirst
    <3>2. CASE \E i \in 1..n : /\ events[i].tier = stripe.tier
                               /\ \A j \in (i + 1)..n : events[j].tier = NoTier
      <4>1. PICK i \in 1..n : /\ events[i].tier = stripe.tier
                              /\ \A j \in (i + 1)..n : events[j].tier = NoTier
        BY <3>2
      <4>2. i \in 1..(n + 1) /\ events'[i].tier = stripe'.tier
        BY <1>1, <1>2, <1>5, <2>1, <4>1
      <4>3. \A j \in (i + 1)..(n + 1) : events'[j].tier = NoTier
        BY <1>1, <1>2, <1>3, <2>1, <4>1
      <4> QED BY <1>2, <4>2, <4>3 DEF TierAfterFirst
    <3> QED BY <1>6, <3>1, <3>2 DEF TierAfterFirst
  <2>2. CASE tier # NoTier
    BY <1>1, <1>2, <1>3, <1>5, <2>2 DEF TierAfterFirst
  <2> QED BY <2>1, <2>2
<1>8. (events # <<>> => stripe.status = events[Len(events)].status)'
  BY <1>2, <1>3, <1>5
<1>9. ASSUME applied # OutOfOrder
      PROVE  /\ "tier" \in admin.columns \/ TierAfterFirst(applied, workspace.tier)'
             /\ applied' # 0 => \/ "status" \in admin.columns
                                \/ workspace'.status = LocalStatus(events'[applied'].status)
  <2>1. applied \in 0..n
    BY <1>9 DEF TypeOK, n
  <2>2. \A i \in 1..applied : events'[i] = events[i]
    BY <1>1, <1>2, <2>1
  <2>3. "tier" \in admin.columns \/ TierAfterFirst(applied, workspace.tier)
    BY <1>9 DEF BillingInv
  <2>4. "tier" \in admin.columns \/ TierAfterFirst(applied, workspace.tier)'
    BY <1>4, <2>1, <2>2, <2>3 DEF TierAfterFirst
  <2> QED BY <1>4, <1>9, <2>1, <2>2, <2>4 DEF BillingInv
<1> QED BY <1>4, <1>7, <1>8, <1>9 DEF BillingInv

\* A row written for the last event written, again, or for the next one, is the
\* row that event leads to.
LEMMA WriteBillingKeeps ==
    ASSUME TypeOK, BillingInv, NEW h \in Hooks, WriteBilling(h)
    PROVE  BillingInv'
<1> DEFINE n == hook[h].event
           e == Event(h)
<1>1. n \in 1..Len(events) /\ e = events[n]
  BY EventTyped DEF WriteBilling, HookType, Event, TypeOK
<1>2. UNCHANGED <<events, stripe>>
  BY DEF WriteBilling, subscription
<1>3. workspace'.tier = TierAfter(e) /\ workspace'.status = LocalStatus(e.status)
  BY DEF WriteBilling
<1>4. applied' = IF applied # OutOfOrder /\ n \in {applied, applied + 1} THEN n ELSE OutOfOrder
  BY DEF WriteBilling
<1>w. admin'.columns = admin.columns \ (IF e.tier = NoTier THEN {"status"}
                                         ELSE {"tier", "status"})
  BY DEF WriteBilling, TypeOK
<1> HIDE DEF n, e
<1>5. ASSUME applied' # OutOfOrder
      PROVE  /\ "tier" \in admin'.columns \/ TierAfterFirst(applied, workspace.tier)'
             /\ applied' # 0 => workspace'.status = LocalStatus(events'[applied'].status)
  <2>1. applied # OutOfOrder /\ applied' = n /\ (n = applied \/ n = applied + 1)
    BY <1>4, <1>5
  <2>r. applied \in 0..Len(events)
    BY <2>1 DEF TypeOK
  <2>s. applied' # 0 => workspace'.status = LocalStatus(events'[applied'].status)
    BY <1>1, <1>2, <1>3, <2>1
  <2> SUFFICES ASSUME "tier" \notin admin'.columns
               PROVE  TierAfterFirst(applied, workspace.tier)'
    BY <2>s
  <2>3. CASE e.tier # NoTier
    BY <1>1, <1>2, <1>3, <2>1, <2>3 DEF TierAfterFirst, TierAfter
  <2>4. CASE e.tier = NoTier
    <3>r. TierAfterFirst(applied, workspace.tier)
      BY <1>w, <2>1, <2>4 DEF BillingInv
    <3>1. workspace'.tier = workspace.tier
      BY <1>3, <2>4 DEF TierAfter
    <3>2. CASE n = applied
      BY <1>2, <2>1, <2>r, <3>r, <3>1, <3>2 DEF TierAfterFirst
    <3>3. CASE n = applied + 1
      <4>1. CASE workspace.tier = "starter" /\ \A i \in 1..applied : events[i].tier = NoTier
        BY <1>1, <1>2, <2>1, <2>r, <2>4, <3>1, <3>3, <4>1 DEF TierAfterFirst
      <4>2. CASE \E i \in 1..applied :
                    /\ events[i].tier = workspace.tier
                    /\ \A j \in (i + 1)..applied : events[j].tier = NoTier
        <5>1. PICK i \in 1..applied :
                    /\ events[i].tier = workspace.tier
                    /\ \A j \in (i + 1)..applied : events[j].tier = NoTier
          BY <4>2
        <5>2. \A j \in (i + 1)..n : events[j].tier = NoTier
          BY <1>1, <2>r, <2>4, <3>3, <5>1
        <5> QED BY <1>2, <2>1, <2>r, <3>1, <3>3, <5>1, <5>2 DEF TierAfterFirst
      <4> QED BY <3>r, <4>1, <4>2 DEF TierAfterFirst
    <3> QED BY <2>1, <3>2, <3>3
  <2> QED BY <2>3, <2>4
<1> QED BY <1>2, <1>5 DEF BillingInv, TierAfterFirst

\* Every step keeps the tiers and the statuses told by the events.
LEMMA BillingStep == TypeOK /\ BillingInv /\ [Next]_vars => BillingInv'
<1> SUFFICES ASSUME TypeOK, BillingInv, [Next]_vars PROVE BillingInv'
  OBVIOUS
<1> USE DEF roster, subscription, seats, billing, handlers
<1>1. ASSUME UNCHANGED <<events, stripe, applied, workspace, admin>> PROVE BillingInv'
  BY <1>1 DEF BillingInv, TierAfterFirst
<1>2. CASE UNCHANGED vars
  BY <1>1, <1>2 DEF vars
<1>3. ASSUME NEW t \in OnSale, Checkout(t) PROVE BillingInv'
  BY <1>3, EmitBilling, ConstantsOK DEF Checkout
<1>4. ASSUME NEW u \in Updates, Update(u[1], u[2]) PROVE BillingInv'
  BY <1>4, EmitBilling, ConstantsOK DEF Update
<1>5. CASE Delete \/ FailPayment
  BY <1>5, EmitBilling DEF Delete, FailPayment
<1>6. ASSUME NEW r \in Slots, NEW m \in Members,
             \/ InviteReadTier(r, m) \/ AcceptFind(r, m) \/ InviteCount(r)
             \/ InsertInvited(r) \/ AcceptWrite(r) \/ LoseRequest(r)
      PROVE  BillingInv'
  BY <1>1, <1>6 DEF InviteReadTier, AcceptFind, InviteCount, InsertInvited, AcceptWrite,
                    LoseRequest
<1>7. ASSUME NEW m \in Members, NEW s \in {"active", "deactivated"},
             Deactivate(m) \/ ScimCreate(m, s) \/ ScimSet(m, s)
      PROVE  BillingInv'
  BY <1>1, <1>7 DEF Deactivate, ScimCreate, ScimSet
<1>8. ASSUME NEW h \in Hooks,
             \/ \E n \in 1..Len(events) : Deliver(h, n)
             \/ FindCustomer(h) \/ ReadTier(h) \/ ListMembers(h)
             \/ RemoveMember(h) \/ FailHook(h)
      PROVE  BillingInv'
  BY <1>1, <1>8 DEF Deliver, FindCustomer, ReadTier, ListMembers, RemoveMember, FailHook
<1>9. ASSUME NEW h \in Hooks, WriteBilling(h) PROVE BillingInv'
  BY <1>9, WriteBillingKeeps
<1>10. ASSUME NEW r \in Slots, InviteCount(r) \/ InsertInvited(r) \/ AcceptWrite(r) \/ LoseRequest(r)
       PROVE  BillingInv'
  BY <1>1, <1>10 DEF InviteCount, InsertInvited, AcceptWrite, LoseRequest
<1>11. CASE Acts
  BY <1>11, ActFact DEF BillingInv, TierAfterFirst
<1> QED BY <1>2, <1>3, <1>4, <1>5, <1>6, <1>7, <1>8, <1>9, <1>10, <1>11 DEF Next, Acts

\* In every reachable state the row says what the last event written led to, as
\* long as every event was written in order, but for the columns an administrator
\* has written since.
THEOREM BillingAlways == Spec => []BillingInv
<1>1. Init => BillingInv
  BY DEF Init, BillingInv, TierAfterFirst, OutOfOrder
<1> QED BY <1>1, BillingStep, InitTyped, TypeStep, PTL DEF Spec

\* For any tiers and any number of events, deliveries and acts of administrators:
\* events written in order, however often, leave the workspace on the tier Stripe
\* bills, locked out exactly when Stripe gave its payments up, but for the columns
\* an administrator has written since.
THEOREM InOrderBilling == Spec => []InOrderBillingAgrees
<1>1. TypeOK /\ BillingInv => InOrderBillingAgrees
  <2> SUFFICES ASSUME TypeOK, BillingInv, events # <<>>, applied = Len(events)
               PROVE  /\ "tier" \in admin.columns \/ workspace.tier = stripe.tier
                      /\ \/ "status" \in admin.columns
                         \/ workspace.status \in Blocked
                              <=> stripe.status \in {"unpaid", "canceled"}
    BY DEF InOrderBillingAgrees
  <2>1. events \in Seq(EventType) /\ Len(events) \in Nat /\ Len(events) # 0
    BY DEF TypeOK
  <2>2. applied # OutOfOrder /\ applied # 0
    BY <2>1 DEF OutOfOrder
  <2>3. "tier" \in admin.columns \/ workspace.tier = stripe.tier
    BY <2>1, <2>2, TierAfterUnique DEF BillingInv, TypeOK
  <2>4. /\ "status" \in admin.columns \/ workspace.status = LocalStatus(stripe.status)
        /\ stripe.status \in {"active", "past_due", "unpaid", "canceled"}
    <3>1. events[Len(events)] \in EventType
      BY <2>1
    <3> QED BY <2>2, <3>1 DEF BillingInv, EventType
  <2> QED BY <2>3, <2>4 DEF LocalStatus, Blocked
<1> QED BY <1>1, TypeCorrect, BillingAlways, PTL
=============================================================================
