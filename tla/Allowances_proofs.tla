--------------------------- MODULE Allowances_proofs ---------------------------
(***************************************************************************)
(* Proofs about the two components that keep a workspace within what it is *)
(* allowed: TokenBudget, which lets calls to the model start, for any      *)
(* runs, operators, costs, budget and number of slots, and EmailSequences, *)
(* which lets e-mails go out, for any subscribers, sequences, templates,   *)
(* processes and requests.                                                 *)
(***************************************************************************)
EXTENDS TokenBudget, EmailSequences, FiniteSetTheorems, WellFoundedInduction, TLAPS

(***************************************************************************)
(* The month's tokens.                                                     *)
(***************************************************************************)
-----------------------------------------------------------------------------
(* Arithmetic. *)

\* A charge moves the spend by a whole number of cents, no more than the most
\* expensive call, and at most half a cent away from what the call cost.
LEMMA RoundingFact ==
    ASSUME NEW c \in Costs \cup {0}
    PROVE  /\ c \in Nat
           /\ Cents(c) \in Nat /\ Cents(c) <= MaxCharge
           /\ 2 * (c - Cent * Cents(c)) <= Cent
           /\ 2 * (Cent * Cents(c) - c) <= Cent
<1>1. c \in Nat
  BY BudgetAssumption
<1>2. /\ Cents(c) \in Nat
      /\ 2 * (c - Cent * Cents(c)) <= Cent
      /\ 2 * (Cent * Cents(c) - c) <= Cent
  BY <1>1 DEF Cents, Cent
<1>3. Cents(c) <= MaxCharge
  <2>1. CASE c = 0
    <3>1. Cents(0) = 0
      BY DEF Cents, Cent
    <3> QED BY <2>1, <3>1, BudgetAssumption
  <2>2. CASE c \in Costs
    BY <2>2, BudgetAssumption
  <2> QED BY <2>1, <2>2
<1> QED BY <1>1, <1>2, <1>3

\* Products with the greatest charge are monotone and step by it.
LEMMA Products ==
    ASSUME NEW m \in Nat, NEW a \in Nat, NEW b \in Nat, a <= b
    PROVE  /\ m * a \in Nat /\ m * b \in Nat /\ m * a <= m * b
           /\ m * (a + 1) = m * a + m
<1>1. PICK d \in Nat : b = a + d
  <2>1. b - a \in Nat /\ b = a + (b - a)
    OBVIOUS
  <2> QED BY <2>1
<1>2. m * b = m * a + m * d /\ m * d \in Nat
  BY <1>1
<1> QED BY <1>2

\* The bound of the overshoot moves with the spend and with the calls under way.
LEMMA RoomStays ==
    ASSUME NEW s \in Nat, NEW t \in Nat, NEW s1 \in Nat, NEW t1 \in Nat,
           NEW a \in Nat, NEW b \in Nat, NEW room \in Nat,
           s - t + a <= room, s1 - t1 <= s - t, b <= a
    PROVE  s1 - t1 + b <= room
OBVIOUS

-----------------------------------------------------------------------------
(* Types. *)

\* Every step keeps the types.
LEMMA TypeStep == BudgetTypeOK /\ [BudgetNext]_budgetVars => BudgetTypeOK'
<1> SUFFICES ASSUME BudgetTypeOK, [BudgetNext]_budgetVars PROVE BudgetTypeOK'
  OBVIOUS
<1> USE DEF BudgetTypeOK, InFlight
<1>1. ASSUME NEW r \in Runs, Enter(r) PROVE BudgetTypeOK'
  BY <1>1 DEF Enter, Go, Bookkeeping, Meters
<1>2. ASSUME NEW r \in Runs, Check(r) PROVE BudgetTypeOK'
  BY <1>2 DEF Check, Go, Bookkeeping, Meters
<1>3. ASSUME NEW r \in Runs, Diagnose(r) PROVE BudgetTypeOK'
  BY <1>3 DEF Diagnose, Go, Bookkeeping, Meters
<1>4. ASSUME NEW r \in Runs, FailToParse(r) PROVE BudgetTypeOK'
  BY <1>4 DEF FailToParse, Go, Bookkeeping, Meters
<1>5. ASSUME NEW r \in Runs, RecordDiagnosis(r) PROVE BudgetTypeOK'
  <2>1. cost[r] \in Nat /\ Cents(cost[r]) \in Nat
    BY RoundingFact
  <2> QED BY <1>5, <2>1 DEF RecordDiagnosis, Charge, Go
<1>6. ASSUME NEW r \in Runs, OpenIncident(r) PROVE BudgetTypeOK'
  BY <1>6 DEF OpenIncident, Go, Bookkeeping, Meters
<1>7. ASSUME NEW r \in Runs, RecordUsage(r) PROVE BudgetTypeOK'
  <2>1. cost[r] \in Nat /\ Cents(cost[r]) \in Nat
    BY RoundingFact
  <2> QED BY <1>7, <2>1 DEF RecordUsage, Charge, Go
<1>8. ASSUME NEW r \in Runs, Lose(r) PROVE BudgetTypeOK'
  BY <1>8 DEF Lose, Go, Bookkeeping, Meters, Running
<1>9. ASSUME NEW o \in Operators, NEW r \in Runs, DecisionStep(o, r) PROVE BudgetTypeOK'
  <2> USE DEF Decisions, Bookkeeping, Meters
  <2>1. CASE CheckPending(o, r)
    BY <1>9, <2>1 DEF CheckPending
  <2>2. CASE Approve(o, r)
    BY <1>9, <2>2 DEF Approve
  <2>3. CASE RecordAgain(o, r)
    <3>1. cost[r] \in Nat /\ Cents(cost[r]) \in Nat
      BY RoundingFact
    <3> QED BY <2>3, <3>1 DEF RecordAgain, Charge
  <2>4. CASE LoseResume(o, r)
    BY <1>9, <2>4 DEF LoseResume
  <2> QED BY <1>9, <2>1, <2>2, <2>3, <2>4 DEF DecisionStep
<1>10. CASE Renew
  BY <1>10, BudgetAssumption DEF Renew, Meters
<1>11. CASE UNCHANGED budgetVars
  BY <1>11 DEF budgetVars
<1> QED BY <1>1, <1>2, <1>3, <1>4, <1>5, <1>6, <1>7, <1>8, <1>9, <1>10, <1>11
        DEF BudgetNext, RunStep

\* Every reachable state of the breaker is type-correct.
THEOREM BudgetTypeCorrect == BudgetSpec => []BudgetTypeOK
<1>1. BudgetInit => BudgetTypeOK
  BY BudgetAssumption DEF BudgetInit, BudgetTypeOK, InFlight, Decisions
<1> QED BY <1>1, TypeStep, PTL DEF BudgetSpec

-----------------------------------------------------------------------------
(* The two meters. *)

\* Every charge adds at most half a cent to the drift between the meters.
LEMMA DriftStep == BudgetTypeOK /\ MeterDriftBounded /\ [BudgetNext]_budgetVars => MeterDriftBounded'
<1> SUFFICES ASSUME BudgetTypeOK, MeterDriftBounded, [BudgetNext]_budgetVars PROVE MeterDriftBounded'
  OBVIOUS
<1>1. ASSUME NEW r \in Runs, Charge(cost[r]) PROVE MeterDriftBounded'
  <2> DEFINE c == cost[r]
             q == Cents(c)
  <2>1. /\ c \in Nat /\ q \in Nat
        /\ 2 * (c - Cent * q) <= Cent
        /\ 2 * (Cent * q - c) <= Cent
    BY RoundingFact DEF BudgetTypeOK
  <2>2. /\ ledger' = ledger + c /\ spend' = spend + q /\ charges' = charges + 1
        /\ spend \in Nat /\ ledger \in Nat /\ charges \in Nat
    BY <1>1 DEF Charge, BudgetTypeOK
  <2> HIDE DEF c, q
  <2> QED BY <2>1, <2>2 DEF MeterDriftBounded, Cent
<1>2. CASE UNCHANGED <<spend, ledger, charges>>
  BY <1>2 DEF MeterDriftBounded
<1>3. \/ \E r \in Runs : Charge(cost[r])
      \/ UNCHANGED <<spend, ledger, charges>>
  BY DEF BudgetNext, RunStep, DecisionStep, Enter, Check, Diagnose, FailToParse,
         RecordDiagnosis, OpenIncident, RecordUsage, Lose, CheckPending, Approve,
         RecordAgain, LoseResume, Renew, Bookkeeping, Meters, budgetVars
<1> QED BY <1>1, <1>2, <1>3

\* The spend the breaker reads and the ledger customers are shown are never
\* more than half a cent a charge apart.
THEOREM DriftIsBounded == BudgetSpec => []MeterDriftBounded
<1>1. BudgetInit => MeterDriftBounded
  BY DEF BudgetInit, MeterDriftBounded, Cent
<1> QED BY <1>1, BudgetTypeCorrect, DriftStep, PTL DEF BudgetSpec

-----------------------------------------------------------------------------
(* The overshoot. *)

\* The semaphores hold, and the spend leaves room for a call of each run that
\* has passed the check: what makes the bound inductive.
OvershootInv ==
    /\ BudgetTypeOK
    /\ Cardinality(Running) <= Slots
    /\ spend - repeated + MaxCharge * Cardinality(Uncharged)
          <= Budget + MaxCharge * Slots

\* Sets of runs are finite, and a set of runs is no larger than one it is
\* part of.
LEMMA RunSets ==
    /\ IsFiniteSet(Running) /\ IsFiniteSet(Uncharged) /\ Uncharged \subseteq Running
    /\ Cardinality(Running) \in Nat /\ Cardinality(Uncharged) \in Nat
    /\ Cardinality(Uncharged) <= Cardinality(Running)
<1>1. Running \subseteq Runs /\ Uncharged \subseteq Running
  BY DEF Running, Uncharged
<1>2. IsFiniteSet(Running)
  BY <1>1, FS_Subset, BudgetAssumption
<1> QED BY <1>1, <1>2, FS_Subset, FS_CardinalityType

\* The same of the sets after a step.
LEMMA RunSetsAfter ==
    /\ IsFiniteSet(Running') /\ IsFiniteSet(Uncharged') /\ Uncharged' \subseteq Running'
    /\ Cardinality(Running') \in Nat /\ Cardinality(Uncharged') \in Nat
    /\ Cardinality(Uncharged') <= Cardinality(Running')
<1>1. Running' \subseteq Runs /\ Uncharged' \subseteq Running'
  BY DEF Running, Uncharged
<1>2. IsFiniteSet(Running')
  BY <1>1, FS_Subset, BudgetAssumption
<1> QED BY <1>1, <1>2, FS_Subset, FS_CardinalityType

\* A step that starts no run and lets none past the check keeps the bound when
\* it adds to the spend no more than it adds to what is repeated.
LEMMA QuietStep ==
    ASSUME OvershootInv, BudgetTypeOK',
           Running' \subseteq Running, Uncharged' \subseteq Uncharged,
           spend' - repeated' <= spend - repeated
    PROVE  OvershootInv'
<1>1. Cardinality(Running') <= Cardinality(Running)
  BY RunSets, FS_Subset
<1>2. Cardinality(Uncharged') <= Cardinality(Uncharged)
  BY RunSets, FS_Subset
<1>3. /\ Cardinality(Running') \in Nat /\ Cardinality(Uncharged') \in Nat
      /\ Cardinality(Running) \in Nat /\ Cardinality(Uncharged) \in Nat
  BY RunSets, RunSetsAfter
<1> DEFINE n == Cardinality(Uncharged)
           k == Cardinality(Uncharged')
           room == Budget + MaxCharge * Slots
<1>4. MaxCharge * k <= MaxCharge * n /\ MaxCharge * k \in Nat /\ MaxCharge * n \in Nat
  BY <1>2, <1>3, Products, BudgetAssumption
<1>5. room \in Nat
  BY Products, BudgetAssumption
<1>6. /\ spend \in Nat /\ repeated \in Nat /\ spend' \in Nat /\ repeated' \in Nat
      /\ spend - repeated + MaxCharge * n <= room
  BY DEF OvershootInv, BudgetTypeOK
<1>7. Cardinality(Running') <= Slots
  BY <1>1, <1>3, BudgetAssumption DEF OvershootInv
<1> HIDE DEF n, k, room
<1>8. spend' - repeated' + MaxCharge * k <= room
  BY <1>4, <1>5, <1>6, RoomStays
<1> QED BY <1>7, <1>8 DEF OvershootInv, n, k, room

\* Every step keeps the slots, and the room left for the calls under way.
LEMMA OvershootStep == OvershootInv /\ [BudgetNext]_budgetVars => OvershootInv'
<1> SUFFICES ASSUME OvershootInv, [BudgetNext]_budgetVars PROVE OvershootInv'
  OBVIOUS
<1>0. BudgetTypeOK /\ BudgetTypeOK'
  BY TypeStep DEF OvershootInv
<1>n. spend \in Nat /\ repeated \in Nat /\ spend' \in Nat /\ repeated' \in Nat
  BY <1>0 DEF BudgetTypeOK
<1>1. ASSUME NEW r \in Runs, Enter(r) PROVE OvershootInv'
  <2>1. Running' = Running \cup {r} /\ r \notin Running /\ Uncharged' = Uncharged
    BY <1>0, <1>1 DEF Enter, Go, Running, Uncharged, InFlight, BudgetTypeOK
  <2>2. Cardinality(Running') = Cardinality(Running) + 1
    BY <2>1, RunSets, FS_AddElement
  <2>3. Cardinality(Running') <= Slots
    BY <1>1, <2>2, RunSets, BudgetAssumption DEF Enter
  <2>4. spend' = spend /\ repeated' = repeated
    BY <1>1 DEF Enter, Bookkeeping, Meters
  <2> QED BY <1>0, <2>1, <2>3, <2>4 DEF OvershootInv
<1>2. ASSUME NEW r \in Runs, Check(r) PROVE OvershootInv'
  <2>1. spend' = spend /\ repeated' = repeated
    BY <1>2 DEF Check, Bookkeeping, Meters
  <2>2. CASE ~Available
    <3>1. Running' \subseteq Running /\ Uncharged' \subseteq Uncharged
      BY <1>0, <1>2, <2>2 DEF Check, Go, Running, Uncharged, InFlight, BudgetTypeOK
    <3> QED BY <1>0, <1>n, <2>1, <3>1, QuietStep
  <2>3. CASE Available
    <3>1. Running' = Running
      BY <1>0, <1>2, <2>3 DEF Check, Go, Running, InFlight, BudgetTypeOK
    <3>2. spend <= Budget
      <4>1. 10000 * spend + Estimate <= 10000 * Budget
        BY <2>3 DEF Available, Cent
      <4>2. Estimate \in Nat /\ Budget \in Nat
        BY BudgetAssumption
      <4> QED BY <4>1, <4>2, <1>n
    <3> DEFINE k == Cardinality(Uncharged')
    <3>3. k \in Nat /\ k <= Slots /\ Cardinality(Running') <= Slots
      BY <3>1, RunSets, RunSetsAfter, BudgetAssumption DEF OvershootInv
    <3>4. /\ MaxCharge * k <= MaxCharge * Slots
          /\ MaxCharge * k \in Nat /\ MaxCharge * Slots \in Nat /\ Budget \in Nat
      BY <3>3, Products, BudgetAssumption
    <3> HIDE DEF k
    <3>5. spend' - repeated' + MaxCharge * k <= Budget + MaxCharge * Slots
      BY <1>n, <2>1, <3>2, <3>4
    <3> QED BY <1>0, <3>3, <3>5 DEF OvershootInv, k
  <2> QED BY <2>2, <2>3
<1>3. ASSUME NEW r \in Runs, Diagnose(r) \/ FailToParse(r) \/ OpenIncident(r) \/ Lose(r)
      PROVE OvershootInv'
  <2>1. Running' \subseteq Running /\ Uncharged' \subseteq Uncharged
    BY <1>0, <1>3 DEF Diagnose, FailToParse, OpenIncident, Lose, Go, Running,
                      Uncharged, InFlight, BudgetTypeOK
  <2>2. spend' = spend /\ repeated' = repeated
    BY <1>3 DEF Diagnose, FailToParse, OpenIncident, Lose, Bookkeeping, Meters
  <2> QED BY <1>0, <1>n, <2>1, <2>2, QuietStep
<1>4. ASSUME NEW r \in Runs, RecordDiagnosis(r) PROVE OvershootInv'
  <2>1. Running' \subseteq Running /\ Uncharged' \subseteq Uncharged
    BY <1>0, <1>4 DEF RecordDiagnosis, Go, Running, Uncharged, InFlight, BudgetTypeOK
  <2>2. /\ Cents(cost[r]) \in Nat
        /\ spend' = spend + Cents(cost[r]) /\ repeated' = repeated + Cents(cost[r])
    BY <1>0, <1>4, RoundingFact DEF RecordDiagnosis, Charge, BudgetTypeOK
  <2>3. spend' - repeated' <= spend - repeated
    BY <1>n, <2>2
  <2> QED BY <1>0, <2>1, <2>3, QuietStep
<1>5. ASSUME NEW r \in Runs, RecordUsage(r) PROVE OvershootInv'
  <2>1. Uncharged' = Uncharged \ {r} /\ r \in Uncharged /\ Running' \subseteq Running
    BY <1>0, <1>5 DEF RecordUsage, Go, Running, Uncharged, InFlight, BudgetTypeOK
  <2> DEFINE n == Cardinality(Uncharged)
             k == Cardinality(Uncharged')
             q == Cents(cost[r])
             room == Budget + MaxCharge * Slots
  <2>2. k = n - 1 /\ n \in Nat /\ k \in Nat
    BY <2>1, RunSets, RunSetsAfter, FS_RemoveElement
  <2>3. MaxCharge * (k + 1) = MaxCharge * k + MaxCharge /\ MaxCharge * k \in Nat
    BY <2>2, Products, BudgetAssumption
  <2>4. q \in Nat /\ q <= MaxCharge /\ MaxCharge \in Nat
    BY <1>0, RoundingFact, BudgetAssumption DEF BudgetTypeOK
  <2>5. spend' = spend + q /\ repeated' = repeated
    BY <1>5 DEF RecordUsage, Charge
  <2>6. spend - repeated + MaxCharge * n <= room /\ room \in Nat
    BY Products, BudgetAssumption DEF OvershootInv
  <2>7. n = k + 1
    BY <2>2
  <2>8. Cardinality(Running') <= Slots
    <3>1. Cardinality(Running') <= Cardinality(Running)
      BY <2>1, RunSets, FS_Subset
    <3> QED BY <3>1, RunSets, RunSetsAfter, BudgetAssumption DEF OvershootInv
  <2> HIDE DEF n, k, q, room
  <2>9. MaxCharge * n = MaxCharge * k + MaxCharge
    BY <2>3, <2>7
  <2>10. spend' - repeated' + MaxCharge * k <= room
    BY <1>n, <2>3, <2>4, <2>5, <2>6, <2>9
  <2> QED BY <1>0, <2>8, <2>10 DEF OvershootInv, k, room
<1>6. ASSUME NEW o \in Operators, NEW r \in Runs, DecisionStep(o, r) PROVE OvershootInv'
  <2>1. Running' = Running /\ Uncharged' = Uncharged
    BY <1>6 DEF DecisionStep, CheckPending, Approve, RecordAgain, LoseResume,
                Running, Uncharged
  <2>2. spend' - repeated' <= spend - repeated
    <3>1. CASE RecordAgain(o, r)
      <4>1. /\ Cents(cost[r]) \in Nat
            /\ spend' = spend + Cents(cost[r]) /\ repeated' = repeated + Cents(cost[r])
        BY <1>0, <3>1, RoundingFact DEF RecordAgain, Charge, BudgetTypeOK
      <4> QED BY <1>n, <4>1
    <3>2. CASE ~RecordAgain(o, r)
      <4>1. spend' = spend /\ repeated' = repeated
        BY <1>6, <3>2 DEF DecisionStep, CheckPending, Approve, LoseResume, Bookkeeping, Meters
      <4> QED BY <1>n, <4>1
    <3> QED BY <3>1, <3>2
  <2> QED BY <1>0, <2>1, <2>2, QuietStep
<1>7. CASE Renew \/ UNCHANGED budgetVars
  <2>1. UNCHANGED <<at, spend, repeated>>
    BY <1>7 DEF Renew, Meters, budgetVars
  <2> QED BY <1>0, <1>n, <2>1, QuietStep DEF Running, Uncharged
<1> QED BY <1>1, <1>2, <1>3, <1>4, <1>5, <1>6, <1>7 DEF BudgetNext, RunStep

\* The slots hold and the room is there in every reachable state.
THEOREM RoomAlways == BudgetSpec => []OvershootInv
<1>1. BudgetInit => OvershootInv
  <2> SUFFICES ASSUME BudgetInit PROVE OvershootInv
    OBVIOUS
  <2>1. BudgetTypeOK
    BY BudgetAssumption DEF BudgetInit, BudgetTypeOK, InFlight, Decisions
  <2>2. Running = {} /\ Uncharged = {}
    BY DEF BudgetInit, Running, Uncharged, InFlight
  <2>3. Cardinality({}) = 0
    BY FS_EmptySet
  <2>4. MaxCharge * 0 = 0 /\ MaxCharge * Slots \in Nat
    BY Products, BudgetAssumption
  <2>5. spend = 0 /\ repeated = 0
    BY DEF BudgetInit
  <2> QED BY <2>1, <2>2, <2>3, <2>4, <2>5, BudgetAssumption DEF OvershootInv
<1> QED BY <1>1, OvershootStep, PTL DEF BudgetSpec

\* Repeated charges apart, the month's spend exceeds its budget by at most one
\* call for each slot, for any number of runs, crashes and approvals.
THEOREM OvershootHolds == BudgetSpec => []OvershootBounded
<1>1. OvershootInv => OvershootBounded
  <2> SUFFICES ASSUME OvershootInv PROVE OvershootBounded
    OBVIOUS
  <2> DEFINE n == Cardinality(Uncharged)
             room == Budget + MaxCharge * Slots
  <2>1. MaxCharge * n \in Nat /\ room \in Nat
    BY RunSets, Products, BudgetAssumption
  <2>2. spend - repeated + MaxCharge * n <= room /\ spend \in Nat /\ repeated \in Nat
    BY DEF OvershootInv, BudgetTypeOK
  <2>3. spend - repeated <= room
    <3> HIDE DEF n, room
    <3> QED BY <2>1, <2>2
  <2> QED BY <2>3 DEF OvershootBounded
<1> QED BY <1>1, RoomAlways, PTL

(***************************************************************************)
(* The day's e-mails.                                                      *)
(***************************************************************************)
-----------------------------------------------------------------------------
(* Lines *)

\* A non-empty set of numbers has a least.
LEMMA LeastExists ==
    ASSUME NEW S \in SUBSET Nat, S # {}
    PROVE  \E m \in S : \A n \in S : m <= n
<1>1. PICK m \in S : \A n \in S : ~ (<<n, m>> \in OpToRel(<, Nat))
  BY WFMin, NatLessThanWellFounded
<1>2. \A n \in S : ~ (n < m) /\ n \in Nat /\ m \in Nat
  BY <1>1 DEF OpToRel
<1>3. \A n \in S : m <= n
  BY <1>2
<1> QED BY <1>3

\* How many of K are among the first n.
Upto(K, n) == Cardinality({k \in K : k <= n})

\* That counts up by one with each member of K ...
LEMMA UptoParts ==
    ASSUME NEW N \in Nat, NEW K \in SUBSET (1..N)
    PROVE  /\ IsFiniteSet(K) /\ Cardinality(K) \in Nat
           /\ \A n \in 0..N : Upto(K, n) \in Nat
           /\ Upto(K, 0) = 0 /\ Upto(K, N) = Cardinality(K)
           /\ \A n \in 1..N : Upto(K, n) = IF n \in K THEN Upto(K, n - 1) + 1 ELSE Upto(K, n - 1)
<1>0. \A k \in K : k \in Int /\ 1 <= k /\ k <= N
  OBVIOUS
<1>1. IsFiniteSet(K)
  <2>1. IsFiniteSet(1..N)
    BY FS_Interval
  <2> QED BY <2>1, FS_Subset
<1>2. \A n : IsFiniteSet({k \in K : k <= n})
  <2> SUFFICES ASSUME NEW n
               PROVE  IsFiniteSet({k \in K : k <= n})
    OBVIOUS
  <2>1. {k \in K : k <= n} \subseteq K
    OBVIOUS
  <2> QED BY <1>1, <2>1, FS_Subset
<1>3. Upto(K, 0) = 0
  <2>1. {k \in K : k <= 0} = {}
    <3>1. \A k \in K : ~ (k <= 0)
      BY <1>0
    <3> QED BY <3>1, Zenon
  <2> QED BY <2>1, FS_EmptySet DEF Upto
<1>4. Upto(K, N) = Cardinality(K)
  <2>1. {k \in K : k <= N} = K
    BY <1>0
  <2> QED BY <2>1 DEF Upto
<1>5. ASSUME NEW n \in 1..N
      PROVE  Upto(K, n) = IF n \in K THEN Upto(K, n - 1) + 1 ELSE Upto(K, n - 1)
  <2> DEFINE A == {k \in K : k <= n - 1}
  <2>1. {k \in K : k <= n} = IF n \in K THEN A \union {n} ELSE A
    <3>1. \A k \in K : k <= n <=> (k <= n - 1 \/ k = n)
      BY <1>0
    <3>2. n <= n
      OBVIOUS
    <3> QED BY <3>1, <3>2, Zenon
  <2>2. IsFiniteSet(A) /\ n \notin A
    <3>1. ~ (n <= n - 1)
      OBVIOUS
    <3> QED BY <1>2, <3>1, Zenon
  <2>3. Cardinality(A \union {n}) = Cardinality(A) + 1
    BY <2>2, FS_AddElement
  <2> QED BY <2>1, <2>3 DEF Upto
<1> QED BY <1>1, <1>2, <1>3, <1>4, <1>5, FS_CardinalityType DEF Upto

\* ... so that it never falls, and reaches each number up to the size of K at a member.
LEMMA UptoGrows ==
    ASSUME NEW N \in Nat, NEW K \in SUBSET (1..N), NEW m \in 0..N, NEW n \in 0..N, m <= n
    PROVE  Upto(K, m) <= Upto(K, n)
<1>1. {k \in K : k <= m} \subseteq {k \in K : k <= n}
  <2>1. \A k \in K : k <= m => k <= n
    OBVIOUS
  <2> QED BY <2>1, Zenon
<1>2. IsFiniteSet({k \in K : k <= n})
  <2>1. IsFiniteSet(K) /\ {k \in K : k <= n} \subseteq K
    BY UptoParts
  <2> QED BY <2>1, FS_Subset
<1> QED BY <1>1, <1>2, FS_Subset DEF Upto

\* For every place up to the number of members there is a member of that rank.
LEMMA MemberOfRank ==
    ASSUME NEW N \in Nat, NEW K \in SUBSET (1..N), NEW i \in 1..Cardinality(K)
    PROVE  \E n \in K : Upto(K, n) = i
<1> DEFINE S == {n \in 0..N : Upto(K, n) >= i}
<1>1. /\ Cardinality(K) \in Nat /\ i \in Nat /\ i # 0
      /\ \A n \in 0..N : Upto(K, n) \in Nat
      /\ Upto(K, 0) = 0 /\ Upto(K, N) = Cardinality(K)
      /\ \A n \in 1..N : Upto(K, n) = IF n \in K THEN Upto(K, n - 1) + 1 ELSE Upto(K, n - 1)
  BY UptoParts
<1>2. N \in S /\ S \in SUBSET Nat
  BY <1>1
<1>3. PICK n \in S : \A m \in S : n <= m
  BY <1>2, LeastExists
<1>4. n \in 1..N
  <2>1. n # 0
    BY <1>1
  <2> QED BY <2>1
<1>5. n - 1 \in 0..N /\ n - 1 \notin S
  BY <1>3, <1>4
<1>6. ~ (Upto(K, n - 1) >= i) /\ Upto(K, n) >= i
  BY <1>5
<1>7. Upto(K, n - 1) \in Nat /\ Upto(K, n) \in Nat
  BY <1>1, <1>4, <1>5
<1>8. Upto(K, n) = IF n \in K THEN Upto(K, n - 1) + 1 ELSE Upto(K, n - 1)
  BY <1>1, <1>4
<1> HIDE DEF S
<1>9. n \in K /\ Upto(K, n) = i
  BY <1>1, <1>6, <1>7, <1>8
<1> QED BY <1>9

\* Positions can be counted through in their order.
LEMMA OrderExists ==
    ASSUME NEW N \in Nat, NEW K \in SUBSET (1..N)
    PROVE  \E f \in [1..Cardinality(K) -> K] :
               \A i, j \in 1..Cardinality(K) : i < j => f[i] < f[j]
<1> DEFINE f == [i \in 1..Cardinality(K) |-> CHOOSE n \in K : Upto(K, n) = i]
<1>1. \A i \in 1..Cardinality(K) : f[i] \in K /\ Upto(K, f[i]) = i
  BY MemberOfRank
<1>2. f \in [1..Cardinality(K) -> K]
  BY <1>1
<1>3. ASSUME NEW i \in 1..Cardinality(K), NEW j \in 1..Cardinality(K), i < j
      PROVE  f[i] < f[j]
  <2>1. f[i] \in 0..N /\ f[j] \in 0..N /\ Upto(K, f[i]) = i /\ Upto(K, f[j]) = j
    <3>1. f[i] \in K /\ f[j] \in K /\ Upto(K, f[i]) = i /\ Upto(K, f[j]) = j
      BY <1>1, Zenon
    <3>2. \A k \in K : k \in 0..N
      OBVIOUS
    <3> HIDE DEF f
    <3> QED BY <3>1, <3>2
  <2>2. f[j] <= f[i] => j <= i
    BY <2>1, UptoGrows
  <2>3. Cardinality(K) \in Nat
    BY UptoParts
  <2> HIDE DEF f
  <2> QED BY <1>3, <2>1, <2>2, <2>3
<1> QED BY <1>2, <1>3

\* What is kept of a sequence is in it and wanted, and twice only if it was.
LEMMA OnlyParts ==
    ASSUME NEW X, NEW seq \in Seq(X), NEW S
    PROVE  /\ Only(seq, S) \in Seq(X)
           /\ \A i \in 1..Len(Only(seq, S)) :
                Only(seq, S)[i] \in S /\ \E n \in 1..Len(seq) : Only(seq, S)[i] = seq[n]
           /\ (\A m, n \in 1..Len(seq) : seq[m] = seq[n] => m = n) =>
                \A i, j \in 1..Len(Only(seq, S)) : Only(seq, S)[i] = Only(seq, S)[j] => i = j
<1> DEFINE K == {n \in 1..Len(seq) : seq[n] \in S}
           increasing(f) == \A i, j \in 1..Cardinality(K) : i < j => f[i] < f[j]
           order == CHOOSE f \in [1..Cardinality(K) -> K] : increasing(f)
<1>1. Len(seq) \in Nat /\ K \in SUBSET (1..Len(seq))
  OBVIOUS
<1>2. Cardinality(K) \in Nat
  BY <1>1, UptoParts
<1>3. order \in [1..Cardinality(K) -> K] /\ increasing(order)
  <2>1. \E f \in [1..Cardinality(K) -> K] : increasing(f)
    BY <1>1, OrderExists
  <2> HIDE DEF increasing, K
  <2> QED BY <2>1
<1>4. Only(seq, S) = [i \in 1..Cardinality(K) |-> seq[order[i]]]
  BY DEF Only
<1> HIDE DEF order
<1>5. \A i \in 1..Cardinality(K) : order[i] \in 1..Len(seq) /\ seq[order[i]] \in S /\ seq[order[i]] \in X
  BY <1>1, <1>3
<1>6. \A i, j \in 1..Cardinality(K) : order[i] = order[j] => i = j
  <2> SUFFICES ASSUME NEW i \in 1..Cardinality(K), NEW j \in 1..Cardinality(K), i # j
               PROVE  order[i] # order[j]
    OBVIOUS
  <2>1. order[i] \in Nat /\ order[j] \in Nat /\ (i < j \/ j < i)
    BY <1>2, <1>5
  <2>2. (i < j => order[i] < order[j]) /\ (j < i => order[j] < order[i])
    BY <1>3
  <2> QED BY <2>1, <2>2
<1> HIDE DEF K
<1>7. Only(seq, S) \in Seq(X) /\ Len(Only(seq, S)) = Cardinality(K)
  <2>1. \A i \in 1..Cardinality(K) : seq[order[i]] \in X
    BY <1>5
  <2> DEFINE kept == [i \in 1..Cardinality(K) |-> seq[order[i]]]
  <2>2. kept \in [1..Cardinality(K) -> X]
    BY <2>1
  <2>3. kept \in Seq(X) /\ Len(kept) = Cardinality(K)
    <3> HIDE DEF kept
    <3> QED BY <1>2, <2>2
  <2> QED BY <1>4, <2>3
<1>8. \A i \in 1..Cardinality(K) : Only(seq, S)[i] = seq[order[i]]
  BY <1>4
<1>9. \A i \in 1..Cardinality(K) :
          Only(seq, S)[i] \in S /\ \E n \in 1..Len(seq) : Only(seq, S)[i] = seq[n]
  BY <1>5, <1>8
<1>10. (\A m, n \in 1..Len(seq) : seq[m] = seq[n] => m = n) =>
          \A i, j \in 1..Cardinality(K) : Only(seq, S)[i] = Only(seq, S)[j] => i = j
  BY <1>5, <1>6, <1>8
<1> QED BY <1>7, <1>9, <1>10

\* Without what is taken out.
LEMMA WithoutParts ==
    ASSUME NEW X, NEW seq \in Seq(X), NEW S
    PROVE  /\ Without(seq, S) \in Seq(X)
           /\ \A i \in 1..Len(Without(seq, S)) :
                Without(seq, S)[i] \notin S /\ \E n \in 1..Len(seq) : Without(seq, S)[i] = seq[n]
           /\ (\A m, n \in 1..Len(seq) : seq[m] = seq[n] => m = n) =>
                \A i, j \in 1..Len(Without(seq, S)) :
                    Without(seq, S)[i] = Without(seq, S)[j] => i = j
<1> DEFINE T == Elements(seq) \ S
<1>1. Without(seq, S) = Only(seq, T)
  BY DEF Without
<1>2. \A x \in T : x \notin S
  OBVIOUS
<1> HIDE DEF T
<1> QED BY <1>1, <1>2, OnlyParts

-----------------------------------------------------------------------------
(* Passes and handlers, typed *)

AnyPass == UNION {Pass(E) : E \in SUBSET Enrollments}

AnyHandler == [to : Subscribers \union {"nobody"}, ops : Seq(Ops)]

\* A pass is of the type that says which rows it may name.
LEMMA PassTypes ==
    ASSUME TypeOK
    PROVE  pass \in [Workers -> AnyPass]
BY DEF TypeOK, AnyPass

\* What is a pass everywhere is a function of passes, each about some rows.
LEMMA PassTyped ==
    ASSUME NEW f \in [Workers -> AnyPass]
    PROVE  /\ f = [w \in Workers |-> f[w]]
           /\ \A w \in Workers : \E E \in SUBSET Enrollments : f[w] \in Pass(E)
BY DEF AnyPass

\* A row is of a subscriber in a sequence.
LEMMA EnrollmentParts ==
    ASSUME NEW e \in Enrollments
    PROVE  e[1] \in Subscribers /\ e[2] \in Sequences /\ e = <<e[1], e[2]>>
BY DEF Enrollments

\* What is in a pass.
LEMMA PassParts ==
    ASSUME NEW p \in AnyPass
    PROVE  /\ p.at \in {"off", "next", "send"} /\ p.todo \in Seq(Claimed)
           /\ DOMAIN p.wrote \subseteq Enrollments /\ p.wrote \in [DOMAIN p.wrote -> Row]
           /\ p.again \subseteq DOMAIN p.wrote /\ p.sent \subseteq DOMAIN p.wrote
           /\ p = [at |-> p.at, todo |-> p.todo, wrote |-> p.wrote, again |-> p.again,
                   sent |-> p.sent]
<1>1. PICK E \in SUBSET Enrollments : p \in Pass(E)
  BY DEF AnyPass
<1>2. DOMAIN p.wrote = E
  BY <1>1 DEF Pass
<1> QED BY <1>1, <1>2 DEF Pass

\* A record of these parts is a pass.
LEMMA PassMade ==
    ASSUME NEW where \in {"off", "next", "send"}, NEW todo \in Seq(Claimed),
           NEW E \in SUBSET Enrollments, NEW wrote \in [E -> Row],
           NEW again \in SUBSET E, NEW done \in SUBSET E
    PROVE  [at |-> where, todo |-> todo, wrote |-> wrote, again |-> again, sent |-> done] \in AnyPass
<1>1. [at |-> where, todo |-> todo, wrote |-> wrote, again |-> again, sent |-> done] \in Pass(E)
  BY DEF Pass
<1> QED BY <1>1 DEF AnyPass

\* The pass that is none.
LEMMA NoPassParts ==
    /\ NoPass \in AnyPass /\ NoPass.at = "off" /\ NoPass.todo = <<>> /\ Len(NoPass.todo) = 0
    /\ NoPass.again = {} /\ NoPass.sent = {} /\ DOMAIN NoPass.wrote = {}
<1>1. <<>> \in [{} -> Row] /\ <<>> \in Seq(Claimed) /\ DOMAIN <<>> = {} /\ Len(<<>>) = 0
  OBVIOUS
<1>2. NoPass \in AnyPass
  BY <1>1, PassMade DEF NoPass
<1> QED BY <1>1, <1>2 DEF NoPass

\* The claim a pass is at, and those after it.
LEMMA TodoParts ==
    ASSUME TypeOK, NEW w \in Workers, pass[w].todo # <<>>
    PROVE  /\ 1 \in 1..Len(pass[w].todo) /\ Len(pass[w].todo) \in Nat
           /\ Current(w) = pass[w].todo[1].row /\ Current(w) \in Enrollments
           /\ NextStep(w) = pass[w].todo[1].step + 1 /\ pass[w].todo[1].step \in Nat
           /\ NextStep(w) \in Nat
           /\ Tail(pass[w].todo) \in Seq(Claimed)
           /\ Len(Tail(pass[w].todo)) = Len(pass[w].todo) - 1
           /\ \A i \in 1..Len(Tail(pass[w].todo)) :
                i + 1 \in 1..Len(pass[w].todo) /\ Tail(pass[w].todo)[i] = pass[w].todo[i + 1]
<1> DEFINE todo == pass[w].todo
<1>1. todo \in Seq(Claimed)
  BY PassTypes, PassParts
<1>2. todo # <<>>
  OBVIOUS
<1>3. Current(w) = Head(todo).row /\ NextStep(w) = Head(todo).step + 1
  BY DEF Current, NextStep
<1> HIDE DEF todo
<1>4. /\ Len(todo) \in Nat /\ Len(todo) # 0 /\ Head(todo) = todo[1]
      /\ Tail(todo) \in Seq(Claimed) /\ Len(Tail(todo)) = Len(todo) - 1
      /\ \A i \in 1..Len(Tail(todo)) : Tail(todo)[i] = todo[i + 1]
  BY <1>1, <1>2
<1>5. 1 \in 1..Len(todo) /\ \A i \in 1..Len(Tail(todo)) : i + 1 \in 1..Len(todo)
  BY <1>4
<1>6. todo[1].row \in Enrollments /\ todo[1].step \in Nat
  <2>1. todo[1] \in Claimed
    BY <1>1, <1>5
  <2> QED BY <2>1 DEF Claimed
<1>7. todo[1].step + 1 \in Nat
  BY <1>6
<1> QED BY <1>3, <1>4, <1>5, <1>6, <1>7 DEF todo

\* A row as a pass sees it.
LEMMA SeenParts ==
    ASSUME TypeOK, NEW w \in Workers, NEW e \in Enrollments
    PROVE  /\ Seen(w, e) \in Row
           /\ e \in DOMAIN pass[w].wrote => Seen(w, e) = pass[w].wrote[e]
           /\ e \notin DOMAIN pass[w].wrote => Seen(w, e) = enrollment[e]
<1>1. pass[w].wrote \in [DOMAIN pass[w].wrote -> Row]
  BY PassTypes, PassParts
<1> QED BY <1>1 DEF Seen, TypeOK

\* Rows with new contents.
LEMMA WriteParts ==
    ASSUME TypeOK, NEW w \in Workers, NEW F \in SUBSET Enrollments, NEW new \in [F -> Row]
    PROVE  /\ Write(w, new) \in [DOMAIN pass[w].wrote \union F -> Row]
           /\ DOMAIN pass[w].wrote \union F \in SUBSET Enrollments
           /\ \A e \in F : Write(w, new)[e] = new[e]
           /\ \A e \in DOMAIN pass[w].wrote \ F : Write(w, new)[e] = pass[w].wrote[e]
<1>1. pass[w].wrote \in [DOMAIN pass[w].wrote -> Row] /\ DOMAIN pass[w].wrote \subseteq Enrollments
  BY PassTypes, PassParts
<1> QED BY <1>1 DEF Write

-----------------------------------------------------------------------------
(* What is left alone stays true *)

PassInv == OnePass /\ StepsTold /\ DayInv /\ LateInv

\* Steps that touch no pass, row or e-mail.
LEMMA PassesKept ==
    ASSUME PassInv, RowsOnce,
           UNCHANGED <<enrollment, line, suppression, mailed, pass, sent, received, unrecorded, late>>
    PROVE  PassInv' /\ RowsOnce'
BY DEF PassInv, OnePass, RowsOnce, StepsTold, DayInv, LateInv, Current

\* Nor handlers and reasons.
LEMMA HandlersKept ==
    ASSUME HandlersWork, ReasonInv, BounceHeld, UNCHANGED <<handler, suppression, reasons>>
    PROVE  HandlersWork' /\ ReasonInv' /\ BounceHeld'
BY DEF HandlersWork, ReasonInv, BounceHeld

\* The invariant is what passes owe, what rows owe and what handlers owe.
LEMMA Together ==
    EmailInv <=> PassInv /\ RowsOnce /\ HandlersWork /\ ReasonInv /\ BounceHeld
BY DEF EmailInv, PassInv

\* The same of the next state.
LEMMA TogetherNext ==
    ASSUME PassInv', RowsOnce', HandlersWork', ReasonInv', BounceHeld'
    PROVE  EmailInv'
BY DEF EmailInv, PassInv

-----------------------------------------------------------------------------
(* Time and operators *)

\* ElapseDelay: a row joins the line that is not in it.
LEMMA ElapseDelayKeeps ==
    ASSUME TypeOK, EmailInv, NEW e \in Enrollments, ElapseDelay(e)
    PROVE  TypeOK' /\ EmailInv'
<1>1. /\ line' = Append(line, e) /\ e \notin Elements(line)
      /\ UNCHANGED <<enrollment, running, suppression, workspace, mailed, pass, handler, sent,
                     received, unrecorded, late, reasons>>
  BY DEF ElapseDelay, world, history
<1>2. line \in Seq(Enrollments) /\ Len(line) \in Nat
  BY DEF TypeOK
<1>3. /\ line' \in Seq(Enrollments) /\ Len(line') = Len(line) + 1
      /\ line'[Len(line) + 1] = e /\ \A i \in 1..Len(line) : line'[i] = line[i]
  BY <1>1, <1>2
<1>4. \A i \in 1..Len(line) : line[i] # e
  BY <1>1 DEF Elements
<1>5. \A i, j \in 1..Len(line') : line'[i] = line'[j] => i = j
  <2>1. \A i, j \in 1..Len(line) : line[i] = line[j] => i = j
    BY DEF EmailInv, RowsOnce
  <2>2. \A i \in 1..Len(line') : i \in 1..Len(line) \/ i = Len(line) + 1
    BY <1>2, <1>3
  <2> QED BY <1>3, <1>4, <2>1, <2>2
<1>6. RowsOnce'
  BY <1>1, <1>5 DEF EmailInv, RowsOnce
<1>7. PassInv'
  BY <1>1 DEF EmailInv, PassInv, OnePass, StepsTold, DayInv, LateInv, Current
<1>8. TypeOK'
  BY <1>1, <1>3 DEF TypeOK
<1> QED BY <1>1, <1>6, <1>7, <1>8, HandlersKept, Together, TogetherNext

\* Tomorrow: the counts of the day begin anew, with no pass under way.
LEMMA TomorrowKeeps ==
    ASSUME TypeOK, EmailInv, Tomorrow
    PROVE  TypeOK' /\ EmailInv'
<1>1. /\ UNCHANGED <<enrollment, line, running, suppression, workspace, pass, handler, sent, late,
                     reasons>>
      /\ mailed' = {} /\ received' = [s \in Subscribers |-> 0]
      /\ unrecorded' = [s \in Subscribers |-> 0]
      /\ \A w \in Workers : pass[w].at = "off"
  BY DEF Tomorrow, rows, world
<1>2. \A w \in Workers : pass[w].sent = {}
  BY <1>1, NoPassParts DEF EmailInv, OnePass
<1>3. DayInv'
  BY <1>1, <1>2 DEF DayInv
<1>4. OnePass' /\ RowsOnce' /\ StepsTold' /\ LateInv'
  BY <1>1 DEF EmailInv, OnePass, RowsOnce, StepsTold, LateInv, Current
<1>5. TypeOK'
  BY <1>1 DEF TypeOK
<1> QED BY <1>1, <1>3, <1>4, <1>5, HandlersKept, TogetherNext DEF EmailInv, PassInv

\* Switch and PaymentRecovered.
LEMMA SwitchKeeps ==
    ASSUME TypeOK, EmailInv, NEW q \in Sequences, Switch(q)
    PROVE  TypeOK' /\ EmailInv'
<1>1. /\ UNCHANGED <<enrollment, line, suppression, workspace, mailed, pass, handler, sent,
                     received, unrecorded, late, reasons>>
      /\ running' \subseteq Sequences
  BY DEF Switch, rows, history, TypeOK
<1>2. TypeOK'
  BY <1>1 DEF TypeOK
<1> QED BY <1>1, <1>2, PassesKept, HandlersKept, Together, TogetherNext

\* A payment that succeeds changes the status of a workspace only.
LEMMA PaymentRecoveredKeeps ==
    ASSUME TypeOK, EmailInv, NEW s \in Subscribers, PaymentRecovered(s)
    PROVE  TypeOK' /\ EmailInv'
<1>1. /\ UNCHANGED <<enrollment, line, running, suppression, mailed, pass, handler, sent,
                     received, unrecorded, late, reasons>>
      /\ workspace' \in [Subscribers -> {"pending_payment", "active", "past_due", "canceled"}]
  BY DEF PaymentRecovered, rows, history, TypeOK
<1>2. TypeOK'
  BY <1>1 DEF TypeOK
<1> QED BY <1>1, <1>2, PassesKept, HandlersKept, Together, TogetherNext

-----------------------------------------------------------------------------
(* Handlers *)

\* A handler is typed and may do what it set out to.
LEMMA StartKeeps ==
    ASSUME TypeOK, EmailInv, NEW h \in Handlers, NEW s \in Subscribers, NEW ops \in Seq(Ops),
           Start(h, s, ops),
           \A n \in 1..Len(ops) : ops[n].do = "clear" => "unsubscribe" \in reasons[s],
           workspace' \in [Subscribers -> {"pending_payment", "active", "past_due", "canceled"}]
    PROVE  TypeOK' /\ EmailInv'
<1> DEFINE T == {o \in Elements(ops) : o.do \in {"enroll", "exit"} => o.what \in Sequences}
           mine == Only(ops, T)
           new == IF mine = <<>> THEN NoHandler ELSE [to |-> s, ops |-> mine]
<1>1. /\ UNCHANGED <<enrollment, line, running, suppression, mailed, pass, sent, received,
                     unrecorded, late, reasons>>
      /\ handler' = [handler EXCEPT ![h] = new]
  BY DEF Start, rows, history
<1>2. /\ mine \in Seq(Ops)
      /\ \A i \in 1..Len(mine) : mine[i] \in T /\ \E n \in 1..Len(ops) : mine[i] = ops[n]
  <2> HIDE DEF T
  <2> QED BY OnlyParts
<1>3. \A o \in T : o.do \in {"enroll", "exit"} => o.what \in Sequences
  OBVIOUS
<1> HIDE DEF T, mine
<1>4. new \in AnyHandler
  <2>1. <<>> \in Seq(Ops)
    OBVIOUS
  <2> QED BY <1>2, <2>1 DEF AnyHandler, NoHandler
<1>5. \A n \in 1..Len(new.ops) :
          /\ new.to \in Subscribers
          /\ new.ops[n].do \in {"enroll", "exit"} => new.ops[n].what \in Sequences
          /\ new.ops[n].do = "clear" => "unsubscribe" \in reasons[new.to]
  <2>1. CASE mine = <<>>
    <3>1. new.ops = <<>> /\ Len(<<>>) = 0
      BY <2>1 DEF NoHandler
    <3> QED BY <3>1
  <2>2. CASE mine # <<>>
    <3>1. new.ops = mine /\ new.to = s
      BY <2>2
    <3> HIDE DEF new
    <3> QED BY <1>2, <1>3, <3>1
  <2> QED BY <2>1, <2>2
<1> HIDE DEF new
<1>6. handler \in [Handlers -> AnyHandler]
  BY DEF TypeOK, AnyHandler
<1>7. handler' \in [Handlers -> AnyHandler] /\ handler'[h] = new
      /\ \A g \in Handlers \ {h} : handler'[g] = handler[g]
  BY <1>1, <1>4, <1>6
<1>8. HandlersWork'
  <2> SUFFICES ASSUME NEW g \in Handlers, NEW n \in 1..Len(handler'[g].ops)
               PROVE  /\ handler'[g].to \in Subscribers
                      /\ handler'[g].ops[n].do \in {"enroll", "exit"} =>
                           handler'[g].ops[n].what \in Sequences
                      /\ handler'[g].ops[n].do = "clear" =>
                           "unsubscribe" \in reasons'[handler'[g].to]
    BY DEF HandlersWork
  <2>1. CASE g = h
    BY <1>1, <1>5, <1>7, <2>1
  <2>2. CASE g # h
    BY <1>1, <1>7, <2>2 DEF EmailInv, HandlersWork
  <2> QED BY <2>1, <2>2
<1>9. TypeOK'
  BY <1>1, <1>7 DEF TypeOK, AnyHandler
<1>10. ReasonInv' /\ BounceHeld'
  BY <1>1 DEF EmailInv, ReasonInv, BounceHeld
<1> QED BY <1>1, <1>8, <1>9, <1>10, PassesKept, Together, TogetherNext

\* The statements a handler sets out to execute.
LEMMA OpsParts ==
    /\ \A what \in SequenceKeys :
         Op("enroll", what) \in Ops /\ Op("exit", what) \in Ops
    /\ \A what \in {"all", "winback"} : Op("clear", what) \in Ops /\ Op("exit_all", what) \in Ops
    /\ \A what \in {"unsubscribe", "bounce"} : Op("suppress", what) \in Ops
    /\ \A do, what : Op(do, what).do = do /\ Op(do, what).what = what
BY DEF Op, Ops

\* Sequences of one, two and three statements.
LEMMA ShortSeqs ==
    ASSUME NEW X, NEW a \in X, NEW b \in X, NEW c \in X
    PROVE  /\ <<a>> \in Seq(X) /\ <<a, b>> \in Seq(X) /\ <<a, b, c>> \in Seq(X)
           /\ \A n \in 1..Len(<<a>>) : <<a>>[n] = a
           /\ \A n \in 1..Len(<<a, b>>) : <<a, b>>[n] \in {a, b}
           /\ \A n \in 1..Len(<<a, b, c>>) : <<a, b, c>>[n] \in {a, b, c}
OBVIOUS

\* A sign-up deletes a suppression only if that is an unsubscription.
LEMMA SubscribeKeeps ==
    ASSUME TypeOK, EmailInv, NEW h \in Handlers, NEW s \in Subscribers,
           NEW q \in {"newsletter", "trust_drip"}, Subscribe(h, s, q)
    PROVE  TypeOK' /\ EmailInv'
<1> DEFINE clear == Op("clear", "all")
           enroll == Op("enroll", q)
<1>1. /\ suppression[s] # "bounce"
      /\ Start(h, s, IF suppression[s] = "none" THEN <<enroll>> ELSE <<clear, enroll>>)
      /\ workspace' = workspace
  BY DEF Subscribe
<1>2. /\ clear \in Ops /\ enroll \in Ops /\ enroll.do = "enroll"
  BY OpsParts DEF SequenceKeys
<1>3. workspace' \in [Subscribers -> {"pending_payment", "active", "past_due", "canceled"}]
  BY <1>1 DEF TypeOK
<1> HIDE DEF clear, enroll
<1>4. CASE suppression[s] = "none"
  <2>1. Start(h, s, <<enroll>>)
    BY <1>1, <1>4
  <2>2. <<enroll>> \in Seq(Ops) /\ \A n \in 1..Len(<<enroll>>) : <<enroll>>[n] = enroll
    BY <1>2, ShortSeqs
  <2> QED BY <1>2, <1>3, <2>1, <2>2, StartKeeps
<1>5. CASE suppression[s] # "none"
  <2>1. Start(h, s, <<clear, enroll>>)
    BY <1>1, <1>5
  <2>2. <<clear, enroll>> \in Seq(Ops)
    BY <1>2, ShortSeqs
  <2>3. "unsubscribe" \in reasons[s]
    BY <1>1, <1>5 DEF TypeOK, EmailInv, ReasonInv
  <2> QED BY <1>3, <2>1, <2>2, <2>3, StartKeeps
<1> QED BY <1>4, <1>5

\* The other handlers clear nothing.
LEMMA SuppressKeeps ==
    ASSUME TypeOK, EmailInv, NEW h \in Handlers, NEW s \in Subscribers,
           NEW reason \in {"unsubscribe", "bounce"}, Suppress(h, s, reason)
    PROVE  TypeOK' /\ EmailInv'
<1> DEFINE a == Op("suppress", reason)
           b == Op("exit_all", "all")
<1>1. a \in Ops /\ b \in Ops /\ a.do # "clear" /\ b.do # "clear"
  BY OpsParts
<1>2. Start(h, s, <<a, b>>) /\ workspace' = workspace
  BY DEF Suppress
<1>3. workspace' \in [Subscribers -> {"pending_payment", "active", "past_due", "canceled"}]
  BY <1>2 DEF TypeOK
<1> HIDE DEF a, b
<1>4. <<a, b>> \in Seq(Ops) /\ \A n \in 1..Len(<<a, b>>) : <<a, b>>[n] \in {a, b}
  BY <1>1, ShortSeqs
<1> QED BY <1>1, <1>2, <1>3, <1>4, StartKeeps

\* A completed checkout has an enrolment and two exits to run.
LEMMA CheckoutCompletedKeeps ==
    ASSUME TypeOK, EmailInv, NEW h \in Handlers, NEW s \in Subscribers, CheckoutCompleted(h, s)
    PROVE  TypeOK' /\ EmailInv'
<1> DEFINE a == Op("enroll", "onboarding")
           b == Op("exit", "abandoned_checkout")
           c == Op("exit", "trust_drip")
<1>1. /\ a \in Ops /\ b \in Ops /\ c \in Ops
      /\ a.do # "clear" /\ b.do # "clear" /\ c.do # "clear"
  BY OpsParts DEF SequenceKeys
<1>2. Start(h, s, <<a, b, c>>) /\ workspace' = [workspace EXCEPT ![s] = "active"]
  BY DEF CheckoutCompleted
<1>3. workspace' \in [Subscribers -> {"pending_payment", "active", "past_due", "canceled"}]
  BY <1>2 DEF TypeOK
<1> HIDE DEF a, b, c
<1>4. <<a, b, c>> \in Seq(Ops) /\ \A n \in 1..Len(<<a, b, c>>) : <<a, b, c>>[n] \in {a, b, c}
  BY <1>1, ShortSeqs
<1> QED BY <1>1, <1>2, <1>3, <1>4, StartKeeps

\* A deleted subscription has an enrolment and an exit from the rest to run.
LEMMA SubscriptionDeletedKeeps ==
    ASSUME TypeOK, EmailInv, NEW h \in Handlers, NEW s \in Subscribers, SubscriptionDeleted(h, s)
    PROVE  TypeOK' /\ EmailInv'
<1> DEFINE a == Op("enroll", "winback")
           b == Op("exit_all", "winback")
<1>1. a \in Ops /\ b \in Ops /\ a.do # "clear" /\ b.do # "clear"
  BY OpsParts DEF SequenceKeys
<1>2. Start(h, s, <<a, b>>) /\ workspace' = [workspace EXCEPT ![s] = "canceled"]
  BY DEF SubscriptionDeleted
<1>3. workspace' \in [Subscribers -> {"pending_payment", "active", "past_due", "canceled"}]
  BY <1>2 DEF TypeOK
<1> HIDE DEF a, b
<1>4. <<a, b>> \in Seq(Ops) /\ \A n \in 1..Len(<<a, b>>) : <<a, b>>[n] \in {a, b}
  BY <1>1, ShortSeqs
<1> QED BY <1>1, <1>2, <1>3, <1>4, StartKeeps

\* A failed payment and the two scans enroll.
LEMMA EnrollingKeeps ==
    ASSUME TypeOK, EmailInv, NEW h \in Handlers, NEW s \in Subscribers,
           \/ PaymentFailed(h, s) \/ AbandonedCheckoutScan(h, s) \/ StallNudgeScan(h, s)
    PROVE  TypeOK' /\ EmailInv'
<1>1. PICK q \in {"dunning", "abandoned_checkout", "stall_nudges"} :
          /\ Start(h, s, <<Op("enroll", q)>>)
          /\ workspace' \in [Subscribers -> {"pending_payment", "active", "past_due", "canceled"}]
  BY DEF PaymentFailed, AbandonedCheckoutScan, StallNudgeScan, TypeOK
<1> DEFINE a == Op("enroll", q)
<1>2. a \in Ops /\ a.do # "clear"
  BY OpsParts DEF SequenceKeys
<1>3. Start(h, s, <<a>>)
  BY <1>1
<1> HIDE DEF a
<1>4. <<a>> \in Seq(Ops) /\ \A n \in 1..Len(<<a>>) : <<a>>[n] = a
  BY <1>2, ShortSeqs
<1> QED BY <1>1, <1>2, <1>3, <1>4, StartKeeps

\* What a handler has left to do.
LEMMA HandlerGoesOn ==
    ASSUME TypeOK, HandlersWork, NEW h \in Handlers, handler[h].ops # <<>>,
           handler' = [handler EXCEPT ![h] =
                         IF Len(@.ops) = 1 THEN NoHandler
                         ELSE [to |-> handler[h].to, ops |-> Tail(@.ops)]],
           \A s \in Subscribers : reasons[s] \subseteq reasons'[s]
    PROVE  /\ handler' \in [Handlers -> AnyHandler] /\ HandlersWork'
           /\ handler[h].to \in Subscribers /\ Head(handler[h].ops) \in Ops
           /\ Head(handler[h].ops).do \in {"enroll", "exit"} =>
                Head(handler[h].ops).what \in Sequences
           /\ Head(handler[h].ops).do = "clear" => "unsubscribe" \in reasons[handler[h].to]
<1> DEFINE ops == handler[h].ops
           new == IF Len(ops) = 1 THEN NoHandler ELSE [to |-> handler[h].to, ops |-> Tail(ops)]
<1>1. handler \in [Handlers -> AnyHandler]
  BY DEF TypeOK, AnyHandler
<1>2. handler[h] \in AnyHandler /\ ops \in Seq(Ops) /\ ops # <<>>
  BY <1>1 DEF AnyHandler
<1>3. \A n \in 1..Len(ops) :
          /\ handler[h].to \in Subscribers
          /\ ops[n].do \in {"enroll", "exit"} => ops[n].what \in Sequences
          /\ ops[n].do = "clear" => "unsubscribe" \in reasons[handler[h].to]
  BY DEF HandlersWork
<1>4. handler' = [handler EXCEPT ![h] = new]
  OBVIOUS
<1> HIDE DEF ops
<1>5. /\ Len(ops) \in Nat /\ 1 \in 1..Len(ops) /\ Head(ops) = ops[1] /\ Head(ops) \in Ops
      /\ Tail(ops) \in Seq(Ops) /\ Len(Tail(ops)) = Len(ops) - 1
      /\ \A i \in 1..Len(Tail(ops)) : Tail(ops)[i] = ops[i + 1]
  BY <1>2
<1>6. \A i \in 1..Len(Tail(ops)) : i + 1 \in 1..Len(ops)
  BY <1>5
<1>7. new \in AnyHandler /\ (new.ops = <<>> \/ (new.ops = Tail(ops) /\ new.to = handler[h].to))
  <2>1. <<>> \in Seq(Ops)
    OBVIOUS
  <2> QED BY <1>2, <1>5, <2>1 DEF AnyHandler, NoHandler
<1> HIDE DEF new
<1>8. handler' \in [Handlers -> AnyHandler] /\ handler'[h] = new
      /\ \A g \in Handlers \ {h} : handler'[g] = handler[g]
  BY <1>1, <1>4, <1>7
<1>9. HandlersWork'
  <2> SUFFICES ASSUME NEW g \in Handlers, NEW n \in 1..Len(handler'[g].ops)
               PROVE  /\ handler'[g].to \in Subscribers
                      /\ handler'[g].ops[n].do \in {"enroll", "exit"} =>
                           handler'[g].ops[n].what \in Sequences
                      /\ handler'[g].ops[n].do = "clear" =>
                           "unsubscribe" \in reasons'[handler'[g].to]
    BY DEF HandlersWork
  <2>1. CASE g = h
    <3>1. new.ops # <<>>
      <4>1. Len(<<>>) = 0 /\ 1..0 = {}
        OBVIOUS
      <4>2. n \in 1..Len(new.ops)
        BY <1>8, <2>1
      <4> QED BY <4>1, <4>2
    <3>2. n \in 1..Len(Tail(ops)) /\ handler'[g].ops[n] = ops[n + 1] /\ n + 1 \in 1..Len(ops)
          /\ handler'[g].to = handler[h].to
      BY <1>5, <1>6, <1>7, <1>8, <2>1, <3>1
    <3> QED BY <1>3, <3>2
  <2>2. CASE g # h
    <3>1. handler'[g] = handler[g]
      BY <1>8, <2>2
    <3> QED BY <3>1 DEF HandlersWork
  <2> QED BY <2>1, <2>2
<1>10. /\ handler[h].to \in Subscribers
       /\ Head(ops).do \in {"enroll", "exit"} => Head(ops).what \in Sequences
       /\ Head(ops).do = "clear" => "unsubscribe" \in reasons[handler[h].to]
  BY <1>3, <1>5
<1> QED BY <1>5, <1>8, <1>9, <1>10 DEF ops

\* LoseHandler: nothing is left.
LEMMA LoseHandlerKeeps ==
    ASSUME TypeOK, EmailInv, NEW h \in Handlers, LoseHandler(h)
    PROVE  TypeOK' /\ EmailInv'
<1>1. /\ UNCHANGED <<enrollment, line, running, suppression, workspace, mailed, pass, sent,
                     received, unrecorded, late, reasons>>
      /\ handler' = [handler EXCEPT ![h] = NoHandler]
  BY DEF LoseHandler, rows, world, history
<1>2. handler \in [Handlers -> AnyHandler]
  BY DEF TypeOK, AnyHandler
<1>3. NoHandler \in AnyHandler /\ NoHandler.ops = <<>>
  <2>1. <<>> \in Seq(Ops)
    OBVIOUS
  <2> QED BY <2>1 DEF AnyHandler, NoHandler
<1>4. handler' \in [Handlers -> AnyHandler] /\ handler'[h] = NoHandler
      /\ \A g \in Handlers \ {h} : handler'[g] = handler[g]
  BY <1>1, <1>2, <1>3
<1>5. HandlersWork'
  <2>1. Len(<<>>) = 0
    OBVIOUS
  <2> QED BY <1>1, <1>3, <1>4, <2>1 DEF EmailInv, HandlersWork
<1>6. TypeOK'
  BY <1>1, <1>4 DEF TypeOK, AnyHandler
<1>7. ReasonInv' /\ BounceHeld'
  BY <1>1 DEF EmailInv, ReasonInv, BounceHeld
<1> QED BY <1>1, <1>5, <1>6, <1>7, PassesKept, Together, TogetherNext

-----------------------------------------------------------------------------
(* Statements *)

\* The line without some rows, and with one of them at its end.
LEMMA LineParts ==
    ASSUME TypeOK, RowsOnce, NEW S
    PROVE  /\ Without(line, S) \in Seq(Enrollments)
           /\ \A i, j \in 1..Len(Without(line, S)) :
                Without(line, S)[i] = Without(line, S)[j] => i = j
           /\ \A i \in 1..Len(Without(line, S)) : Without(line, S)[i] \notin S
<1>1. line \in Seq(Enrollments) /\ \A i, j \in 1..Len(line) : line[i] = line[j] => i = j
  BY DEF TypeOK, RowsOnce
<1> QED BY <1>1, WithoutParts

\* What is not in a sequence without repetitions may be appended to it.
LEMMA AppendOnce ==
    ASSUME NEW X, NEW seq \in Seq(X), NEW x \in X,
           \A i, j \in 1..Len(seq) : seq[i] = seq[j] => i = j,
           \A i \in 1..Len(seq) : seq[i] # x
    PROVE  /\ Append(seq, x) \in Seq(X)
           /\ \A i, j \in 1..Len(Append(seq, x)) : Append(seq, x)[i] = Append(seq, x)[j] => i = j
<1>1. /\ Append(seq, x) \in Seq(X) /\ Len(seq) \in Nat /\ Len(Append(seq, x)) = Len(seq) + 1
      /\ Append(seq, x)[Len(seq) + 1] = x /\ \A i \in 1..Len(seq) : Append(seq, x)[i] = seq[i]
  OBVIOUS
<1>2. \A i \in 1..Len(Append(seq, x)) : i \in 1..Len(seq) \/ i = Len(seq) + 1
  BY <1>1
<1> QED BY <1>1, <1>2

\* A statement on a row starts it afresh ...
LEMMA EnrollKeeps ==
    ASSUME TypeOK, PassInv, RowsOnce, NEW e \in Enrollments, Enroll(e),
           UNCHANGED <<suppression, mailed, pass, received, unrecorded, late>>
    PROVE  /\ PassInv' /\ RowsOnce' /\ enrollment' \in [Enrollments -> Row]
           /\ line' \in Seq(Enrollments) /\ sent' \in [Enrollments -> SUBSET Nat]
<1>1. /\ enrollment' = [enrollment EXCEPT ![e] = Fresh] /\ sent' = [sent EXCEPT ![e] = {}]
      /\ line' = Append(Without(line, {e}), e)
  BY DEF Enroll
<1>2. /\ enrollment \in [Enrollments -> Row] /\ sent \in [Enrollments -> SUBSET Nat]
      /\ Fresh \in Row
  BY DEF TypeOK, Fresh, Row
<1>3. /\ enrollment' \in [Enrollments -> Row] /\ sent' \in [Enrollments -> SUBSET Nat]
      /\ sent'[e] = {}
      /\ \A f \in Enrollments \ {e} : sent'[f] = sent[f] /\ enrollment'[f] = enrollment[f]
  BY <1>1, <1>2
<1>4. /\ line' \in Seq(Enrollments)
      /\ \A i, j \in 1..Len(line') : line'[i] = line'[j] => i = j
  <2> DEFINE rest == Without(line, {e})
  <2>1. /\ rest \in Seq(Enrollments) /\ \A i, j \in 1..Len(rest) : rest[i] = rest[j] => i = j
        /\ \A i \in 1..Len(rest) : rest[i] # e
    <3>1. \A x : x \notin {e} => x # e
      OBVIOUS
    <3> QED BY <3>1, LineParts
  <2> HIDE DEF rest
  <2>2. /\ Append(rest, e) \in Seq(Enrollments)
        /\ \A i, j \in 1..Len(Append(rest, e)) : Append(rest, e)[i] = Append(rest, e)[j] => i = j
    BY <2>1, AppendOnce
  <2> QED BY <1>1, <2>2 DEF rest
<1>5. RowsOnce'
  BY <1>4 DEF RowsOnce
<1>6. StepsTold'
  <2> SUFFICES ASSUME NEW f \in Enrollments, NEW n \in sent'[f]
               PROVE  /\ \/ n <= enrollment'[f].step
                         \/ \E w \in Workers : f \in pass'[w].sent /\ n = pass'[w].wrote[f].step
                      /\ \A w \in Workers :
                           /\ f \in DOMAIN pass'[w].wrote => n <= pass'[w].wrote[f].step
                           /\ \A i \in 1..Len(pass'[w].todo) :
                                pass'[w].todo[i].row = f => n <= pass'[w].todo[i].step
    BY DEF StepsTold
  <2>1. f # e
    BY <1>3
  <2>2. n \in sent[f] /\ enrollment'[f] = enrollment[f]
    BY <1>3, <2>1
  <2> QED BY <2>2 DEF PassInv, StepsTold
<1>7. OnePass' /\ DayInv' /\ LateInv'
  BY DEF PassInv, OnePass, DayInv, LateInv, Current
<1> QED BY <1>3, <1>4, <1>5, <1>6, <1>7 DEF PassInv

\* ... or ends it where it is.
LEMMA ExitKeeps ==
    ASSUME TypeOK, PassInv, RowsOnce, NEW S \in SUBSET Enrollments, Exit(S),
           UNCHANGED <<suppression, mailed, pass, sent, received, unrecorded, late>>
    PROVE  /\ PassInv' /\ RowsOnce' /\ enrollment' \in [Enrollments -> Row]
           /\ line' \in Seq(Enrollments)
<1> DEFINE active == {e \in S : enrollment[e].status = "active"}
<1>1. /\ enrollment' = [e \in Enrollments |->
                          IF e \in active THEN [enrollment[e] EXCEPT !.status = "exited"]
                          ELSE enrollment[e]]
      /\ line' = Without(line, active)
  BY DEF Exit
<1> HIDE DEF active
<1>2. enrollment \in [Enrollments -> Row]
  BY DEF TypeOK
<1>3. /\ enrollment' \in [Enrollments -> Row]
      /\ \A f \in Enrollments : enrollment'[f].step = enrollment[f].step
  BY <1>1, <1>2 DEF Row
<1>4. /\ line' \in Seq(Enrollments)
      /\ \A i, j \in 1..Len(line') : line'[i] = line'[j] => i = j
  BY <1>1, LineParts
<1>5. RowsOnce'
  BY <1>4 DEF RowsOnce
<1>6. StepsTold'
  BY <1>3 DEF PassInv, StepsTold
<1>7. OnePass' /\ DayInv' /\ LateInv'
  BY DEF PassInv, OnePass, DayInv, LateInv, Current
<1> QED BY <1>3, <1>4, <1>5, <1>6, <1>7 DEF PassInv

\* ExecuteOp: a suppression is given a reason, and cleared only by its owner's wish.
LEMMA ExecuteOpKeeps ==
    ASSUME TypeOK, EmailInv, NEW h \in Handlers, ExecuteOp(h)
    PROVE  TypeOK' /\ EmailInv'
<1> DEFINE o == Head(handler[h].ops)
           s == handler[h].to
<1>1. /\ handler[h].ops # <<>>
      /\ handler' = [handler EXCEPT ![h] = IF Len(@.ops) = 1 THEN NoHandler
                                           ELSE [to |-> handler[h].to, ops |-> Tail(@.ops)]]
      /\ UNCHANGED <<running, workspace, mailed, pass, received, unrecorded>>
  BY DEF ExecuteOp, bounds
<1>2. \/ /\ o.do = "enroll" /\ Enroll(<<s, o.what>>)
         /\ UNCHANGED <<suppression, late, reasons>>
      \/ /\ o.do = "exit" /\ Exit({<<s, o.what>>})
         /\ UNCHANGED <<suppression, sent, late, reasons>>
      \/ /\ o.do = "exit_all"
         /\ Exit({e \in Enrollments : e[1] = s /\ e[2] # o.what})
         /\ UNCHANGED <<suppression, sent, late, reasons>>
      \/ /\ o.do = "suppress"
         /\ suppression' = [suppression EXCEPT ![s] = o.what]
         /\ late' = IF suppression[s] = "none" THEN [late EXCEPT ![s] = 0] ELSE late
         /\ reasons' = [reasons EXCEPT ![s] = @ \union {o.what}]
         /\ UNCHANGED <<enrollment, line, sent>>
      \/ /\ o.do = "clear"
         /\ suppression' = [suppression EXCEPT ![s] = "none"]
         /\ UNCHANGED <<enrollment, line, sent, late, reasons>>
  BY DEF ExecuteOp, rows
<1>3. /\ reasons \in [Subscribers -> SUBSET {"unsubscribe", "bounce"}]
      /\ suppression \in [Subscribers -> {"none", "unsubscribe", "bounce"}]
      /\ late \in [Subscribers -> Nat]
  BY DEF TypeOK
<1>4. \A t \in Subscribers : reasons[t] \subseteq reasons'[t]
  BY <1>2, <1>3
<1>5. /\ handler' \in [Handlers -> AnyHandler] /\ HandlersWork'
      /\ s \in Subscribers /\ o \in Ops
      /\ o.do \in {"enroll", "exit"} => o.what \in Sequences
      /\ o.do = "clear" => "unsubscribe" \in reasons[s]
  BY <1>1, <1>4, HandlerGoesOn DEF EmailInv
<1> HIDE DEF o, s
<1>6. o.do = "suppress" => o.what \in {"unsubscribe", "bounce"}
  BY <1>5 DEF Ops
<1>7. PassInv /\ RowsOnce /\ ReasonInv /\ BounceHeld
  BY Together
<1>8. ASSUME UNCHANGED <<suppression, late, reasons>>, PassInv', RowsOnce',
             enrollment' \in [Enrollments -> Row], line' \in Seq(Enrollments),
             sent' \in [Enrollments -> SUBSET Nat]
      PROVE  TypeOK' /\ EmailInv'
  <2>1. TypeOK'
    BY <1>1, <1>5, <1>8 DEF TypeOK, AnyHandler
  <2>2. ReasonInv' /\ BounceHeld'
    BY <1>7, <1>8 DEF ReasonInv, BounceHeld
  <2> QED BY <1>5, <1>8, <2>1, <2>2, TogetherNext
<1>9. CASE /\ o.do = "enroll" /\ Enroll(<<s, o.what>>)
           /\ UNCHANGED <<suppression, late, reasons>>
  <2>1. <<s, o.what>> \in Enrollments
    BY <1>5, <1>9 DEF Enrollments
  <2> QED BY <1>1, <1>7, <1>8, <1>9, <2>1, EnrollKeeps
<1>10. CASE /\ \/ o.do = "exit" /\ Exit({<<s, o.what>>})
               \/ o.do = "exit_all" /\ Exit({e \in Enrollments : e[1] = s /\ e[2] # o.what})
            /\ UNCHANGED <<suppression, sent, late, reasons>>
  <2>1. PICK S \in SUBSET Enrollments : Exit(S)
    <3>1. CASE o.do = "exit" /\ Exit({<<s, o.what>>})
      <4>1. {<<s, o.what>>} \in SUBSET Enrollments
        BY <1>5, <3>1 DEF Enrollments
      <4> QED BY <3>1, <4>1
    <3>2. CASE Exit({e \in Enrollments : e[1] = s /\ e[2] # o.what})
      BY <3>2
    <3> QED BY <1>10, <3>1, <3>2
  <2>2. sent' \in [Enrollments -> SUBSET Nat]
    BY <1>10 DEF TypeOK
  <2> QED BY <1>1, <1>7, <1>8, <1>10, <2>1, <2>2, ExitKeeps
<1>11. CASE /\ o.do \in {"suppress", "clear"} /\ UNCHANGED <<enrollment, line, sent>>
            /\ suppression' \in [Subscribers -> {"none", "unsubscribe", "bounce"}]
            /\ late' \in [Subscribers -> Nat]
            /\ reasons' \in [Subscribers -> SUBSET {"unsubscribe", "bounce"}]
            /\ \A t \in Subscribers :
                 /\ suppression'[t] # "none" =>
                      late'[t] = 0 \/ (suppression[t] # "none" /\ late'[t] = late[t])
                 /\ suppression'[t] \in reasons'[t] \union {"none"}
                 /\ ("bounce" \in reasons'[t] /\ suppression'[t] = "none")
                      => "unsubscribe" \in reasons'[t]
  <2>1. TypeOK'
    <3>1. /\ UNCHANGED <<enrollment, line, running, workspace, mailed, pass, sent, received,
                         unrecorded>>
          /\ suppression' \in [Subscribers -> {"none", "unsubscribe", "bounce"}]
          /\ {received, unrecorded, late'} \subseteq [Subscribers -> Nat]
          /\ reasons' \in [Subscribers -> SUBSET {"unsubscribe", "bounce"}]
      BY <1>1, <1>11 DEF TypeOK
    <3>2. handler' \in [Handlers -> [to : Subscribers \union {"nobody"}, ops : Seq(Ops)]]
      BY <1>5 DEF AnyHandler
    <3> QED BY <3>1, <3>2 DEF TypeOK
  <2>2. OnePass' /\ RowsOnce' /\ StepsTold' /\ DayInv'
    BY <1>1, <1>7, <1>11 DEF PassInv, OnePass, RowsOnce, StepsTold, DayInv, Current
  <2>3. LateInv'
    BY <1>1, <1>7, <1>11 DEF PassInv, LateInv, Current
  <2>4. ReasonInv' /\ BounceHeld'
    BY <1>11 DEF ReasonInv, BounceHeld
  <2> QED BY <1>5, <2>1, <2>2, <2>3, <2>4, TogetherNext DEF PassInv
<1>12. CASE /\ o.do = "suppress"
            /\ suppression' = [suppression EXCEPT ![s] = o.what]
            /\ late' = IF suppression[s] = "none" THEN [late EXCEPT ![s] = 0] ELSE late
            /\ reasons' = [reasons EXCEPT ![s] = @ \union {o.what}]
            /\ UNCHANGED <<enrollment, line, sent>>
  <2>1. /\ suppression' \in [Subscribers -> {"none", "unsubscribe", "bounce"}]
        /\ suppression'[s] = o.what /\ o.what # "none" /\ o.what \in reasons'[s]
        /\ \A t \in Subscribers \ {s} : suppression'[t] = suppression[t]
    BY <1>3, <1>5, <1>6, <1>12
  <2>2. /\ reasons' \in [Subscribers -> SUBSET {"unsubscribe", "bounce"}]
        /\ \A t \in Subscribers \ {s} : reasons'[t] = reasons[t]
    BY <1>3, <1>5, <1>6, <1>12
  <2>3. /\ late' \in [Subscribers -> Nat]
        /\ late'[s] = 0 \/ (suppression[s] # "none" /\ late'[s] = late[s])
        /\ \A t \in Subscribers \ {s} : late'[t] = late[t]
    BY <1>3, <1>5, <1>12
  <2>4. ASSUME NEW t \in Subscribers
        PROVE  /\ suppression'[t] # "none" =>
                    late'[t] = 0 \/ (suppression[t] # "none" /\ late'[t] = late[t])
               /\ suppression'[t] \in reasons'[t] \union {"none"}
               /\ ("bounce" \in reasons'[t] /\ suppression'[t] = "none")
                    => "unsubscribe" \in reasons'[t]
    <3>1. CASE t = s
      BY <2>1, <2>3, <3>1
    <3>2. CASE t # s
      BY <1>7, <2>1, <2>2, <2>3, <3>2 DEF ReasonInv, BounceHeld
    <3> QED BY <3>1, <3>2
  <2> QED BY <1>11, <1>12, <2>1, <2>2, <2>3, <2>4
<1>13. CASE /\ o.do = "clear"
            /\ suppression' = [suppression EXCEPT ![s] = "none"]
            /\ UNCHANGED <<enrollment, line, sent, late, reasons>>
  <2>1. /\ suppression' \in [Subscribers -> {"none", "unsubscribe", "bounce"}]
        /\ suppression'[s] = "none"
        /\ \A t \in Subscribers \ {s} : suppression'[t] = suppression[t]
    BY <1>3, <1>5, <1>13
  <2>2. ASSUME NEW t \in Subscribers
        PROVE  /\ suppression'[t] # "none" =>
                    late'[t] = 0 \/ (suppression[t] # "none" /\ late'[t] = late[t])
               /\ suppression'[t] \in reasons'[t] \union {"none"}
               /\ ("bounce" \in reasons'[t] /\ suppression'[t] = "none")
                    => "unsubscribe" \in reasons'[t]
    <3>1. CASE t = s
      BY <1>5, <1>13, <2>1, <3>1
    <3>2. CASE t # s
      BY <1>7, <1>13, <2>1, <3>2 DEF ReasonInv, BounceHeld
    <3> QED BY <3>1, <3>2
  <2> QED BY <1>3, <1>11, <1>13, <2>1, <2>2
<1> QED BY <1>2, <1>9, <1>10, <1>12, <1>13

-----------------------------------------------------------------------------
(* The one pass that runs *)

\* No other process is in a pass.
Others(w) == \A v \in Workers \ {w} : pass[v].at = "off"

\* The parts of the invariant, of a pass and what surrounds it.
PassOnce(p) ==
    /\ p.at = "off" => p = NoPass
    /\ p.at = "send" => p.todo # <<>>
    /\ IsFiniteSet(p.again)
    /\ \A i, j \in 1..Len(p.todo) : p.todo[i].row = p.todo[j].row => i = j
    /\ \A i \in 1..Len(p.todo) : p.todo[i].row \notin p.sent

ToldBy(p, done, table) ==
    \A e \in Enrollments : \A n \in done[e] :
        /\ n <= table[e].step \/ (e \in p.sent /\ n = p.wrote[e].step)
        /\ e \in DOMAIN p.wrote => n <= p.wrote[e].step
        /\ \A i \in 1..Len(p.todo) : p.todo[i].row = e => n <= p.todo[i].step

DayBy(p, mail, got, lost) ==
    /\ \A s \in Subscribers :
         got[s] <= lost[s] + IF s \in mail \/ \E e \in p.sent : e[1] = s THEN 1 ELSE 0
    /\ \A e, f \in p.sent : e[1] \notin mail /\ (e[1] = f[1] => e = f)
    /\ p.at = "send" => /\ Head(p.todo).row[1] \notin mail
                        /\ \A e \in p.sent : e[1] # Head(p.todo).row[1]

LateBy(p, refused, after) ==
    \A s \in Subscribers :
        refused[s] # "none" =>
            /\ after[s] <= 1
            /\ p.at = "send" /\ Head(p.todo).row[1] = s => after[s] = 0

\* While a pass runs, the others are off.
LEMMA Alone ==
    ASSUME EmailInv, NEW w \in Workers, pass[w].at # "off"
    PROVE  Others(w)
BY DEF EmailInv, OnePass, Others

\* The invariant is that of the pass that runs ...
LEMMA PassOnly ==
    ASSUME EmailInv, NEW w \in Workers, Others(w)
    PROVE  /\ PassOnce(pass[w]) /\ ToldBy(pass[w], sent, enrollment)
           /\ DayBy(pass[w], mailed, received, unrecorded) /\ LateBy(pass[w], suppression, late)
<1>1. \A v \in Workers \ {w} : pass[v] = NoPass /\ pass[v].sent = {}
  BY NoPassParts DEF EmailInv, OnePass, Others
<1>2. PassOnce(pass[w])
  BY DEF EmailInv, OnePass, RowsOnce, PassOnce
<1>3. ToldBy(pass[w], sent, enrollment)
  <2> SUFFICES ASSUME NEW e \in Enrollments, NEW n \in sent[e]
               PROVE  /\ \/ n <= enrollment[e].step
                         \/ e \in pass[w].sent /\ n = pass[w].wrote[e].step
                      /\ e \in DOMAIN pass[w].wrote => n <= pass[w].wrote[e].step
                      /\ \A i \in 1..Len(pass[w].todo) :
                           pass[w].todo[i].row = e => n <= pass[w].todo[i].step
    BY DEF ToldBy
  <2>1. \/ n <= enrollment[e].step
        \/ \E v \in Workers : e \in pass[v].sent /\ n = pass[v].wrote[e].step
    BY DEF EmailInv, StepsTold
  <2>2. /\ e \in DOMAIN pass[w].wrote => n <= pass[w].wrote[e].step
        /\ \A i \in 1..Len(pass[w].todo) :
             pass[w].todo[i].row = e => n <= pass[w].todo[i].step
    BY DEF EmailInv, StepsTold
  <2>3. \A v \in Workers : e \in pass[v].sent => v = w
    BY <1>1
  <2> QED BY <2>1, <2>2, <2>3
<1>4. DayBy(pass[w], mailed, received, unrecorded)
  <2>1. \A s \in Subscribers :
            (\E v \in Workers : \E e \in pass[v].sent : e[1] = s) <=>
            (\E e \in pass[w].sent : e[1] = s)
    BY <1>1
  <2> QED BY <2>1 DEF EmailInv, DayInv, DayBy, Current
<1>5. LateBy(pass[w], suppression, late)
  BY DEF EmailInv, LateInv, LateBy, Current
<1> QED BY <1>2, <1>3, <1>4, <1>5

\* ... and it is kept when that pass keeps it.
LEMMA PassMoves ==
    ASSUME TypeOK, EmailInv, NEW w \in Workers, Others(w), NEW p \in AnyPass,
           pass' = [pass EXCEPT ![w] = p],
           UNCHANGED <<running, suppression, workspace, handler, reasons>>,
           enrollment' \in [Enrollments -> Row], line' \in Seq(Enrollments),
           mailed' \subseteq Subscribers, sent' \in [Enrollments -> SUBSET Nat],
           received' \in [Subscribers -> Nat], unrecorded' \in [Subscribers -> Nat],
           late' \in [Subscribers -> Nat],
           \A i, j \in 1..Len(line') : line'[i] = line'[j] => i = j,
           PassOnce(p), ToldBy(p, sent', enrollment'),
           DayBy(p, mailed', received', unrecorded'), LateBy(p, suppression', late')
    PROVE  TypeOK' /\ EmailInv'
<1>1. pass \in [Workers -> AnyPass]
  BY PassTypes
<1>2. /\ pass' \in [Workers -> AnyPass] /\ pass'[w] = p
      /\ \A v \in Workers \ {w} : pass'[v] = pass[v]
  BY <1>1
<1>3. \A v \in Workers \ {w} : pass'[v] = NoPass
  BY <1>2 DEF EmailInv, OnePass, Others
<1>4. \A v \in Workers \ {w} : /\ pass'[v].at = "off" /\ pass'[v].sent = {}
                               /\ pass'[v].again = {} /\ DOMAIN pass'[v].wrote = {}
                               /\ 1..Len(pass'[v].todo) = {}
  <2>1. 1..0 = {}
    OBVIOUS
  <2> QED BY <1>3, <2>1, NoPassParts
<1>5. TypeOK'
  <2>1. /\ pass' = [v \in Workers |-> pass'[v]]
        /\ \A v \in Workers : \E E \in SUBSET Enrollments : pass'[v] \in Pass(E)
    BY <1>2, PassTyped
  <2>2. {received', unrecorded', late'} \subseteq [Subscribers -> Nat]
    OBVIOUS
  <2> QED BY <2>1, <2>2 DEF TypeOK
<1>6. OnePass'
  <2>1. \A v \in Workers : /\ pass'[v].at = "off" => pass'[v] = NoPass
                           /\ pass'[v].at = "send" => pass'[v].todo # <<>>
                           /\ IsFiniteSet(pass'[v].again)
    <3> SUFFICES ASSUME NEW v \in Workers
                 PROVE  /\ pass'[v].at = "off" => pass'[v] = NoPass
                        /\ pass'[v].at = "send" => pass'[v].todo # <<>>
                        /\ IsFiniteSet(pass'[v].again)
      OBVIOUS
    <3>1. CASE v = w
      BY <1>2, <3>1 DEF PassOnce
    <3>2. CASE v # w
      BY <1>3, <1>4, <3>2, FS_EmptySet
    <3> QED BY <3>1, <3>2
  <2>2. \A v, u \in Workers : pass'[v].at # "off" /\ pass'[u].at # "off" => v = u
    BY <1>4
  <2> QED BY <2>1, <2>2 DEF OnePass
<1>7. RowsOnce'
  <2>1. \A v \in Workers : /\ \A i, j \in 1..Len(pass'[v].todo) :
                                pass'[v].todo[i].row = pass'[v].todo[j].row => i = j
                           /\ \A i \in 1..Len(pass'[v].todo) :
                                pass'[v].todo[i].row \notin pass'[v].sent
    <3> SUFFICES ASSUME NEW v \in Workers
                 PROVE  /\ \A i, j \in 1..Len(pass'[v].todo) :
                             pass'[v].todo[i].row = pass'[v].todo[j].row => i = j
                        /\ \A i \in 1..Len(pass'[v].todo) :
                             pass'[v].todo[i].row \notin pass'[v].sent
      OBVIOUS
    <3>1. CASE v = w
      BY <1>2, <3>1 DEF PassOnce
    <3>2. CASE v # w
      BY <1>4, <3>2
    <3> QED BY <3>1, <3>2
  <2> QED BY <2>1 DEF RowsOnce
<1>8. StepsTold'
  <2> SUFFICES ASSUME NEW e \in Enrollments, NEW n \in sent'[e]
               PROVE  /\ \/ n <= enrollment'[e].step
                         \/ \E v \in Workers : e \in pass'[v].sent /\ n = pass'[v].wrote[e].step
                      /\ \A v \in Workers :
                           /\ e \in DOMAIN pass'[v].wrote => n <= pass'[v].wrote[e].step
                           /\ \A i \in 1..Len(pass'[v].todo) :
                                pass'[v].todo[i].row = e => n <= pass'[v].todo[i].step
    BY DEF StepsTold
  <2>1. /\ n <= enrollment'[e].step \/ (e \in pass'[w].sent /\ n = pass'[w].wrote[e].step)
        /\ e \in DOMAIN pass'[w].wrote => n <= pass'[w].wrote[e].step
        /\ \A i \in 1..Len(pass'[w].todo) :
             pass'[w].todo[i].row = e => n <= pass'[w].todo[i].step
    BY <1>2 DEF ToldBy
  <2>2. \A v \in Workers : v # w => /\ DOMAIN pass'[v].wrote = {}
                                    /\ 1..Len(pass'[v].todo) = {}
    BY <1>4
  <2> QED BY <2>1, <2>2
<1>9. DayInv'
  <2>1. \A s \in Subscribers :
            (\E v \in Workers : \E e \in pass'[v].sent : e[1] = s) <=>
            (\E e \in p.sent : e[1] = s)
    BY <1>2, <1>4
  <2>2. \A s \in Subscribers :
            received'[s] <= unrecorded'[s] + IF s \in mailed'
                                \/ \E v \in Workers : \E e \in pass'[v].sent : e[1] = s
                            THEN 1 ELSE 0
    BY <2>1 DEF DayBy
  <2>3. \A v \in Workers : \A e, f \in pass'[v].sent :
            e[1] \notin mailed' /\ (e[1] = f[1] => e = f)
    BY <1>2, <1>4 DEF DayBy
  <2>4. \A v \in Workers : pass'[v].at = "send" =>
            /\ Head(pass'[v].todo).row[1] \notin mailed'
            /\ \A e \in pass'[v].sent : e[1] # Head(pass'[v].todo).row[1]
    BY <1>2, <1>4 DEF DayBy
  <2> QED BY <2>2, <2>3, <2>4 DEF DayInv, Current
<1>10. LateInv'
  BY <1>2, <1>4 DEF LateBy, LateInv, Current
<1>11. HandlersWork' /\ ReasonInv' /\ BounceHeld'
  BY HandlersKept DEF EmailInv
<1> QED BY <1>5, <1>6, <1>7, <1>8, <1>9, <1>10, <1>11 DEF EmailInv

\* A pass that is done with the row it is at.
LEMMA TurnOver ==
    ASSUME TypeOK, EmailInv, NEW w \in Workers, pass[w].at # "off", pass[w].todo # <<>>,
           NEW p \in AnyPass, p.at = "next", p.todo = Tail(pass[w].todo), IsFiniteSet(p.again),
           p.sent \subseteq pass[w].sent \union {Current(w)}
    PROVE  /\ PassOnce(p) /\ Current(w) \notin pass[w].sent
           /\ \A i \in 1..Len(p.todo) : /\ p.todo[i].row # Current(w)
                                        /\ i + 1 \in 1..Len(pass[w].todo)
                                        /\ p.todo[i] = pass[w].todo[i + 1]
<1>1. PassOnce(pass[w])
  BY Alone, PassOnly
<1>2. /\ 1 \in 1..Len(pass[w].todo) /\ Current(w) = pass[w].todo[1].row
      /\ \A i \in 1..Len(p.todo) :
           i + 1 \in 1..Len(pass[w].todo) /\ p.todo[i] = pass[w].todo[i + 1]
  BY TodoParts
<1>3. Len(p.todo) \in Nat
  BY PassParts
<1>4. /\ \A i, j \in 1..Len(pass[w].todo) : pass[w].todo[i].row = pass[w].todo[j].row => i = j
      /\ \A i \in 1..Len(pass[w].todo) : pass[w].todo[i].row \notin pass[w].sent
  BY <1>1 DEF PassOnce
<1>5. \A i \in 1..Len(p.todo) : i + 1 # 1
  BY <1>3
<1>6. \A i \in 1..Len(p.todo) : p.todo[i].row # Current(w)
  BY <1>2, <1>4, <1>5
<1>7. \A i, j \in 1..Len(p.todo) : p.todo[i].row = p.todo[j].row => i = j
  <2> SUFFICES ASSUME NEW i \in 1..Len(p.todo), NEW j \in 1..Len(p.todo),
                      p.todo[i].row = p.todo[j].row
               PROVE  i = j
    OBVIOUS
  <2>1. i + 1 = j + 1
    BY <1>2, <1>4
  <2> QED BY <1>3, <2>1
<1>8. \A i \in 1..Len(p.todo) : p.todo[i].row \notin p.sent
  BY <1>2, <1>4, <1>6
<1>9. Current(w) \notin pass[w].sent
  BY <1>2, <1>4
<1> QED BY <1>2, <1>6, <1>7, <1>8, <1>9 DEF PassOnce

-----------------------------------------------------------------------------
(* The pass *)

\* What a step of the pass finds.
LEMMA AtWork ==
    ASSUME TypeOK, EmailInv, NEW w \in Workers, Others(w)
    PROVE  /\ pass[w] \in AnyPass /\ PassOnce(pass[w]) /\ ToldBy(pass[w], sent, enrollment)
           /\ DayBy(pass[w], mailed, received, unrecorded) /\ LateBy(pass[w], suppression, late)
           /\ pass \in [Workers -> AnyPass] /\ enrollment \in [Enrollments -> Row]
           /\ line \in Seq(Enrollments) /\ (\A i, j \in 1..Len(line) : line[i] = line[j] => i = j)
           /\ mailed \subseteq Subscribers /\ sent \in [Enrollments -> SUBSET Nat]
           /\ received \in [Subscribers -> Nat] /\ unrecorded \in [Subscribers -> Nat]
           /\ late \in [Subscribers -> Nat]
<1>1. pass \in [Workers -> AnyPass]
  BY PassTypes
<1>2. \A i, j \in 1..Len(line) : line[i] = line[j] => i = j
  BY DEF EmailInv, RowsOnce
<1>3. /\ enrollment \in [Enrollments -> Row] /\ line \in Seq(Enrollments)
      /\ mailed \subseteq Subscribers /\ sent \in [Enrollments -> SUBSET Nat]
      /\ received \in [Subscribers -> Nat] /\ unrecorded \in [Subscribers -> Nat]
      /\ late \in [Subscribers -> Nat]
  BY DEF TypeOK
<1> QED BY <1>1, <1>2, <1>3, PassOnly

\* Claim: the rows at the head of the line, as they are.
LEMMA ClaimKeeps ==
    ASSUME TypeOK, EmailInv, NEW w \in Workers, Claim(w)
    PROVE  TypeOK' /\ EmailInv'
<1> DEFINE n == IF Len(line) < Batch THEN Len(line) ELSE Batch
           todo == [k \in 1..n |-> [row |-> line[k], step |-> enrollment[line[k]].step]]
           p == [at |-> "next", todo |-> todo, wrote |-> <<>>, again |-> {}, sent |-> {}]
<1>1. /\ pass' = [pass EXCEPT ![w] = p]
      /\ UNCHANGED <<enrollment, line, running, suppression, workspace, mailed, handler, sent,
                     received, unrecorded, late, reasons>>
      /\ \A v \in Workers : pass[v].at = "off"
  BY DEF Claim, SchedulerLockFree, rows, world, history
<1>2. Others(w) /\ pass[w] = NoPass
  BY <1>1 DEF Others, EmailInv, OnePass
<1>3. n \in Nat /\ n <= Len(line) /\ line \in Seq(Enrollments)
  BY ConstantsOK DEF ConstantsOK, TypeOK
<1> HIDE DEF n
<1>4. \A k \in 1..n : k \in 1..Len(line) /\ line[k] \in Enrollments
  BY <1>3
<1>5. /\ todo \in Seq(Claimed) /\ Len(todo) = n
      /\ \A k \in 1..n : todo[k].row = line[k] /\ todo[k].step = enrollment[line[k]].step
  <2>1. \A k \in 1..n : [row |-> line[k], step |-> enrollment[line[k]].step] \in Claimed
    BY <1>4 DEF TypeOK, Row, Claimed
  <2>2. todo \in [1..n -> Claimed]
    BY <2>1
  <2>3. \A k \in 1..n : todo[k].row = line[k] /\ todo[k].step = enrollment[line[k]].step
    OBVIOUS
  <2> HIDE DEF todo
  <2> QED BY <1>3, <2>2, <2>3
<1> HIDE DEF todo
<1>6. p \in AnyPass /\ DOMAIN p.wrote = {}
  <2>1. <<>> \in [{} -> Row] /\ DOMAIN <<>> = {}
    OBVIOUS
  <2> QED BY <1>5, <2>1, PassMade
<1>7. p.at = "next" /\ p.todo = todo /\ p.again = {} /\ p.sent = {}
  OBVIOUS
<1> HIDE DEF p
<1>8. PassOnce(p)
  <2>1. \A i, j \in 1..Len(p.todo) : p.todo[i].row = p.todo[j].row => i = j
    BY <1>4, <1>5, <1>7 DEF EmailInv, RowsOnce
  <2> QED BY <1>7, <2>1, FS_EmptySet DEF PassOnce
<1>9. /\ ToldBy(pass[w], sent, enrollment) /\ DayBy(pass[w], mailed, received, unrecorded)
      /\ LateBy(pass[w], suppression, late)
  BY <1>2, PassOnly
<1>10. ToldBy(p, sent, enrollment)
  <2>1. \A e \in Enrollments : \A k \in sent[e] : k <= enrollment[e].step
    BY <1>2, <1>9, NoPassParts DEF ToldBy
  <2> QED BY <1>5, <1>6, <1>7, <2>1 DEF ToldBy
<1>11. DayBy(p, mailed, received, unrecorded)
  BY <1>2, <1>7, <1>9, NoPassParts DEF DayBy
<1>12. LateBy(p, suppression, late)
  BY <1>2, <1>7, <1>9, NoPassParts DEF LateBy
<1> QED BY <1>1, <1>2, <1>6, <1>8, <1>10, <1>11, <1>12, AtWork, PassMoves

\* Leave: the row stays as it is.
LEMMA LeaveKeeps ==
    ASSUME TypeOK, EmailInv, NEW w \in Workers, Leave(w)
    PROVE  TypeOK' /\ EmailInv'
<1> DEFINE q == pass[w]
           p == Onward(w, q.wrote, q.again, q.sent)
<1>1. /\ q.at = "next" /\ q.todo # <<>> /\ pass' = [pass EXCEPT ![w] = p]
      /\ UNCHANGED <<enrollment, line, running, suppression, workspace, mailed, handler, sent,
                     received, unrecorded, late, reasons>>
  BY DEF Leave, Considering, rows, world, history
<1>2. Others(w)
  BY <1>1, Alone
<1>3. q \in AnyPass /\ PassOnce(q) /\ ToldBy(q, sent, enrollment)
      /\ DayBy(q, mailed, received, unrecorded) /\ LateBy(q, suppression, late)
      /\ pass \in [Workers -> AnyPass]
  BY <1>2, AtWork
<1>4. /\ Tail(q.todo) \in Seq(Claimed)
      /\ p = [at |-> "next", todo |-> Tail(q.todo), wrote |-> q.wrote, again |-> q.again,
              sent |-> q.sent]
  BY <1>1, TodoParts DEF Onward
<1> HIDE DEF q, p
<1>5. p \in AnyPass
  BY <1>3, <1>4, PassParts, PassMade
<1>6. /\ p.at = "next" /\ p.todo = Tail(q.todo) /\ p.wrote = q.wrote /\ p.again = q.again
      /\ p.sent = q.sent
  BY <1>4
<1>7. /\ PassOnce(p)
      /\ \A i \in 1..Len(p.todo) : i + 1 \in 1..Len(q.todo) /\ p.todo[i] = q.todo[i + 1]
  <2>1. IsFiniteSet(p.again)
    BY <1>3, <1>6 DEF PassOnce
  <2> QED BY <1>1, <1>5, <1>6, <2>1, TurnOver DEF q
<1>8. ToldBy(p, sent, enrollment)
  BY <1>3, <1>6, <1>7 DEF ToldBy
<1>9. DayBy(p, mailed, received, unrecorded)
  BY <1>3, <1>6 DEF DayBy
<1>10. LateBy(p, suppression, late)
  BY <1>3, <1>6 DEF LateBy
<1> QED BY <1>1, <1>2, <1>5, <1>7, <1>8, <1>9, <1>10, AtWork, PassMoves

\* BeginSend: nothing withholds the e-mail.
LEMMA BeginSendKeeps ==
    ASSUME TypeOK, EmailInv, NEW w \in Workers, BeginSend(w)
    PROVE  TypeOK' /\ EmailInv'
<1> DEFINE q == pass[w]
           p == [at |-> "send", todo |-> q.todo, wrote |-> q.wrote, again |-> q.again,
                 sent |-> q.sent]
<1>1. /\ q.at = "next" /\ q.todo # <<>> /\ pass' = [pass EXCEPT ![w].at = "send"]
      /\ ~ Withheld(w, Current(w)[1])
      /\ UNCHANGED <<enrollment, line, running, suppression, workspace, mailed, handler, sent,
                     received, unrecorded, late, reasons>>
  BY DEF BeginSend, HasStep, Considering, rows, world, history
<1>2. Others(w)
  BY <1>1, Alone
<1>3. q \in AnyPass /\ PassOnce(q) /\ ToldBy(q, sent, enrollment)
      /\ DayBy(q, mailed, received, unrecorded) /\ LateBy(q, suppression, late)
      /\ pass \in [Workers -> AnyPass]
  BY <1>2, AtWork
<1>4. /\ suppression[Head(q.todo).row[1]] = "none" /\ Head(q.todo).row[1] \notin mailed
      /\ \A e \in q.sent : e[1] # Head(q.todo).row[1]
  BY <1>1 DEF Withheld, Current
<1> HIDE DEF q
<1>5. p \in AnyPass
  BY <1>3, PassParts, PassMade
<1>6. pass' = [pass EXCEPT ![w] = p]
  <2>1. pass' = [pass EXCEPT ![w] = [q EXCEPT !.at = "send"]]
    BY <1>1, <1>3 DEF q
  <2>2. q = [at |-> q.at, todo |-> q.todo, wrote |-> q.wrote, again |-> q.again, sent |-> q.sent]
    BY <1>3, PassParts
  <2>3. [q EXCEPT !.at = "send"] = p
    BY <2>2
  <2> HIDE DEF p
  <2> QED BY <2>1, <2>3
<1>7. /\ p.at = "send" /\ p.todo = q.todo /\ p.wrote = q.wrote /\ p.again = q.again
      /\ p.sent = q.sent
  OBVIOUS
<1> HIDE DEF p
<1>8. PassOnce(p)
  BY <1>1, <1>3, <1>7 DEF PassOnce
<1>9. ToldBy(p, sent, enrollment)
  BY <1>3, <1>7 DEF ToldBy
<1>10. DayBy(p, mailed, received, unrecorded)
  BY <1>3, <1>4, <1>7 DEF DayBy
<1>11. LateBy(p, suppression, late)
  BY <1>3, <1>4, <1>7 DEF LateBy
<1> QED BY <1>1, <1>2, <1>5, <1>6, <1>8, <1>9, <1>10, <1>11, AtWork, PassMoves

\* A pass done with its row, typed.
Done(p, w, wrote, again, done) ==
    /\ p \in AnyPass /\ p.at = "next" /\ p.todo = Tail(pass[w].todo) /\ p.wrote = wrote
    /\ p.again = again /\ p.sent = done

\* What a pass is after it has gone on to the next row.
LEMMA OnwardParts ==
    ASSUME TypeOK, NEW w \in Workers, pass[w].todo # <<>>,
           NEW E \in SUBSET Enrollments, NEW wrote \in [E -> Row], NEW again \in SUBSET E,
           NEW done \in SUBSET E
    PROVE  Done(Onward(w, wrote, again, done), w, wrote, again, done)
<1>1. Tail(pass[w].todo) \in Seq(Claimed)
  BY TodoParts
<1>2. Onward(w, wrote, again, done) \in AnyPass
  BY <1>1, PassMade DEF Onward
<1> QED BY <1>2 DEF Onward, Done

\* One row written, and the pass done with it.
Put(w, e, r) == Write(w, [f \in {e} |-> r])

Stepped(w, again, done) == Onward(w, Put(w, Current(w), Advanced(w)), again, done)

WroteOne(w, e, r, wrote) ==
    /\ wrote \in [DOMAIN pass[w].wrote \union {e} -> Row]
    /\ DOMAIN pass[w].wrote \union {e} \in SUBSET Enrollments
    /\ wrote[e] = r
    /\ \A f \in DOMAIN pass[w].wrote \ {e} : wrote[f] = pass[w].wrote[f]

\* What one more row written changes.
LEMMA OneWritten ==
    ASSUME TypeOK, NEW w \in Workers, NEW e \in Enrollments, NEW r \in Row
    PROVE  WroteOne(w, e, r, Put(w, e, r))
<1> DEFINE new == [f \in {e} |-> r]
<1>1. new \in [{e} -> Row] /\ new[e] = r /\ {e} \in SUBSET Enrollments
  OBVIOUS
<1> HIDE DEF new
<1>2. /\ Write(w, new) \in [DOMAIN pass[w].wrote \union {e} -> Row]
      /\ DOMAIN pass[w].wrote \union {e} \in SUBSET Enrollments
      /\ Write(w, new)[e] = r
      /\ \A f \in DOMAIN pass[w].wrote \ {e} : Write(w, new)[f] = pass[w].wrote[f]
  BY <1>1, WriteParts
<1> QED BY <1>2 DEF new, Put, WroteOne

\* PassOver and Send: the row is advanced over its step, and what was sent is of that step.
TookStep(w, p, done, told) ==
    /\ p \in AnyPass /\ p.at = "next" /\ p.sent = done
    /\ PassOnce(p) /\ ToldBy(p, told, enrollment) /\ Current(w) \notin pass[w].sent

\* A pass that is done with its current row, and has told of the step it sent, still
\* keeps what passes owe.
LEMMA StepTaken ==
    ASSUME TypeOK, EmailInv, NEW w \in Workers, pass[w].at # "off", pass[w].todo # <<>>,
           NEW again, again \subseteq pass[w].again \union {Current(w)}, IsFiniteSet(again),
           NEW done, done = pass[w].sent \/ done = pass[w].sent \union {Current(w)},
           NEW told \in [Enrollments -> SUBSET Nat],
           \A f \in Enrollments \ {Current(w)} : told[f] = sent[f],
           told[Current(w)] \subseteq sent[Current(w)] \union {NextStep(w)},
           told[Current(w)] \subseteq sent[Current(w)] \/ Current(w) \in done
    PROVE  TookStep(w, Stepped(w, again, done), done, told)
<1> DEFINE e == Current(w)
           q == pass[w]
           wrote == Put(w, e, Advanced(w))
           p == Onward(w, wrote, again, done)
<1>1. /\ e \in Enrollments /\ NextStep(w) = q.todo[1].step + 1 /\ q.todo[1].step \in Nat
      /\ 1 \in 1..Len(q.todo) /\ e = q.todo[1].row
  BY TodoParts
<1>2. Advanced(w) \in Row /\ Advanced(w).step = NextStep(w)
  <2>1. Seen(w, e) \in Row /\ NextStep(w) \in Nat
    BY <1>1, SeenParts
  <2> QED BY <2>1 DEF Advanced, Row
<1>3. Others(w) /\ q \in AnyPass /\ ToldBy(q, sent, enrollment)
  BY Alone, AtWork
<1>4. /\ q.again \subseteq DOMAIN q.wrote /\ q.sent \subseteq DOMAIN q.wrote
  BY <1>3, PassParts
<1> HIDE DEF e, q
<1>5. /\ wrote \in [DOMAIN q.wrote \union {e} -> Row] /\ wrote[e] = Advanced(w)
      /\ DOMAIN q.wrote \union {e} \in SUBSET Enrollments
      /\ \A f \in DOMAIN q.wrote \ {e} : wrote[f] = q.wrote[f]
  <2>1. WroteOne(w, e, Advanced(w), wrote)
    BY <1>1, <1>2, OneWritten, Zenon
  <2> HIDE DEF wrote
  <2> QED BY <2>1 DEF WroteOne, q
<1> HIDE DEF wrote
<1>6. again \in SUBSET (DOMAIN q.wrote \union {e}) /\ done \in SUBSET (DOMAIN q.wrote \union {e})
  BY <1>4 DEF e, q
<1>7. /\ p \in AnyPass /\ p.at = "next" /\ p.todo = Tail(q.todo) /\ p.wrote = wrote
      /\ p.again = again /\ p.sent = done
  <2>1. Done(p, w, wrote, again, done)
    BY <1>5, <1>6, OnwardParts DEF q
  <2> HIDE DEF p
  <2> QED BY <2>1 DEF Done, q
<1> HIDE DEF p
<1>8. /\ PassOnce(p) /\ e \notin q.sent
      /\ \A i \in 1..Len(p.todo) : /\ p.todo[i].row # e /\ i + 1 \in 1..Len(q.todo)
                                   /\ p.todo[i] = q.todo[i + 1]
  BY <1>7, TurnOver DEF e, q
<1>9. ToldBy(p, told, enrollment)
  <2> SUFFICES ASSUME NEW f \in Enrollments, NEW n \in told[f]
               PROVE  /\ n <= enrollment[f].step \/ (f \in p.sent /\ n = p.wrote[f].step)
                      /\ f \in DOMAIN p.wrote => n <= p.wrote[f].step
                      /\ \A i \in 1..Len(p.todo) : p.todo[i].row = f => n <= p.todo[i].step
    BY DEF ToldBy
  <2>1. CASE f # e
    <3>1. n \in sent[f]
      BY <2>1 DEF e
    <3>2. /\ n <= enrollment[f].step \/ (f \in q.sent /\ n = q.wrote[f].step)
          /\ f \in DOMAIN q.wrote => n <= q.wrote[f].step
          /\ \A i \in 1..Len(q.todo) : q.todo[i].row = f => n <= q.todo[i].step
      BY <1>3, <3>1 DEF ToldBy
    <3>3. (f \in DOMAIN p.wrote <=> f \in DOMAIN q.wrote) /\ (f \in q.sent => f \in p.sent)
          /\ (f \in DOMAIN q.wrote => p.wrote[f] = q.wrote[f])
      BY <1>5, <1>7, <2>1 DEF e, q
    <3> QED BY <1>4, <1>8, <3>2, <3>3
  <2>2. CASE f = e
    <3>1. p.wrote[e].step = NextStep(w) /\ \A i \in 1..Len(p.todo) : p.todo[i].row # e
      BY <1>2, <1>5, <1>7, <1>8
    <3>2. CASE n \in sent[e]
      <4>1. /\ n <= enrollment[e].step
            /\ \A i \in 1..Len(q.todo) : q.todo[i].row = e => n <= q.todo[i].step
        BY <1>1, <1>3, <1>8, <3>2 DEF ToldBy
      <4>2. n <= q.todo[1].step /\ n \in Nat
        BY <1>1, <2>2, <4>1
      <4>3. n <= NextStep(w)
        BY <1>1, <4>2
      <4> QED BY <2>2, <3>1, <4>1, <4>3
    <3>3. CASE n \notin sent[e]
      <4>1. n = NextStep(w) /\ e \in p.sent /\ n \in Nat
        BY <1>7, <2>2, <3>3 DEF e
      <4> QED BY <2>2, <3>1, <4>1
    <3> QED BY <3>2, <3>3
  <2> QED BY <2>1, <2>2
<1>10. TookStep(w, p, done, told)
  BY <1>7, <1>8, <1>9 DEF TookStep, e, q
<1> QED BY <1>10 DEF p, wrote, e, Stepped

\* PassOver.
LEMMA PassOverKeeps ==
    ASSUME TypeOK, EmailInv, NEW w \in Workers, PassOver(w)
    PROVE  TypeOK' /\ EmailInv'
<1> DEFINE q == pass[w]
<1>1. /\ q.at = "next" /\ q.todo # <<>>
      /\ UNCHANGED <<enrollment, line, running, suppression, workspace, mailed, handler, sent,
                     received, unrecorded, late, reasons>>
  BY DEF PassOver, HasStep, Considering, rows, world, history
<1>2. PICK moot \in BOOLEAN : pass' = [pass EXCEPT ![w] =
              Onward(w, Write(w, [f \in {Current(w)} |-> Advanced(w)]),
                     IF moot THEN q.again \union {Current(w)} ELSE q.again \ {Current(w)}, q.sent)]
  BY DEF PassOver
<1> DEFINE again == IF moot THEN q.again \union {Current(w)} ELSE q.again \ {Current(w)}
           p == Stepped(w, again, q.sent)
<1>3. pass' = [pass EXCEPT ![w] = p]
  BY <1>2 DEF Stepped, Put
<1>4. Others(w)
  BY <1>1, Alone
<1>5. /\ DayBy(q, mailed, received, unrecorded) /\ LateBy(q, suppression, late) /\ PassOnce(q)
      /\ sent \in [Enrollments -> SUBSET Nat]
  BY <1>4, AtWork
<1>6. again \subseteq q.again \union {Current(w)} /\ IsFiniteSet(again)
  <2>1. IsFiniteSet(q.again)
    BY <1>5 DEF PassOnce
  <2> QED BY <2>1, FS_AddElement, FS_RemoveElement
<1> HIDE DEF again
<1>7. /\ p \in AnyPass /\ p.at = "next" /\ p.sent = q.sent
      /\ PassOnce(p) /\ ToldBy(p, sent, enrollment)
  <2>1. /\ \A f \in Enrollments \ {Current(w)} : sent[f] = sent[f]
        /\ sent[Current(w)] \subseteq sent[Current(w)] \union {NextStep(w)}
        /\ sent[Current(w)] \subseteq sent[Current(w)]
    OBVIOUS
  <2>2. q.at # "off" /\ q.sent = pass[w].sent
    BY <1>1
  <2>3. TookStep(w, p, q.sent, sent)
    BY <1>1, <1>5, <1>6, <2>1, <2>2, StepTaken, Zenon
  <2> HIDE DEF p
  <2> QED BY <2>3 DEF TookStep
<1> HIDE DEF p, q
<1>8. DayBy(p, mailed, received, unrecorded)
  BY <1>5, <1>7 DEF DayBy
<1>9. LateBy(p, suppression, late)
  BY <1>5, <1>7 DEF LateBy
<1> QED BY <1>1, <1>3, <1>4, <1>7, <1>8, <1>9, AtWork, PassMoves

\* Send: one e-mail more to a subscriber who had none today, and none since a suppression.
LEMMA SendKeeps ==
    ASSUME TypeOK, EmailInv, NEW w \in Workers, Send(w)
    PROVE  TypeOK' /\ EmailInv'
<1> DEFINE e == Current(w)
           s == e[1]
           q == pass[w]
           arrived == /\ received' = [received EXCEPT ![s] = @ + 1]
                      /\ late' = IF suppression[s] = "none" THEN late
                                 ELSE [late EXCEPT ![s] = @ + 1]
<1>1. /\ q.at = "send"
      /\ UNCHANGED <<enrollment, line, running, suppression, workspace, mailed, handler, reasons>>
  BY DEF Send, rows, world
<1>2. PICK ok \in BOOLEAN :
          /\ pass' = [pass EXCEPT ![w] =
               Onward(w, Write(w, [f \in {e} |-> Advanced(w)]), q.again \ {e},
                      IF ok THEN q.sent \union {e} ELSE q.sent)]
          /\ \/ /\ ok
                /\ arrived
                /\ sent' = [sent EXCEPT ![e] = @ \union {NextStep(w)}]
                /\ unrecorded' = unrecorded
             \/ ~ ok /\ UNCHANGED <<sent, received, unrecorded, late>>
             \/ /\ ~ ok
                /\ arrived
                /\ unrecorded' = [unrecorded EXCEPT ![s] = @ + 1]
                /\ sent' = sent
  BY DEF Send, history
<1> DEFINE done == IF ok THEN q.sent \union {e} ELSE q.sent
           again == q.again \ {e}
           p == Stepped(w, again, done)
<1>3. pass' = [pass EXCEPT ![w] = p]
  BY <1>2 DEF Stepped, Put
<1>4. Others(w)
  BY <1>1, Alone
<1>5. /\ DayBy(q, mailed, received, unrecorded) /\ LateBy(q, suppression, late) /\ PassOnce(q)
      /\ sent \in [Enrollments -> SUBSET Nat] /\ received \in [Subscribers -> Nat]
      /\ unrecorded \in [Subscribers -> Nat] /\ late \in [Subscribers -> Nat]
  BY <1>4, AtWork
<1>6. q.todo # <<>> /\ again \subseteq q.again \union {e} /\ IsFiniteSet(again)
  BY <1>1, <1>5, FS_RemoveElement DEF PassOnce
<1>7. e \in Enrollments /\ NextStep(w) \in Nat /\ s \in Subscribers
  BY <1>6, TodoParts, EnrollmentParts
<1>8. /\ s \notin mailed /\ (\A f \in q.sent : f[1] # s)
      /\ suppression[s] # "none" => late[s] = 0
  BY <1>1, <1>5, <1>7 DEF DayBy, LateBy, Current
<1> HIDE DEF e, s
<1>9. /\ sent' \in [Enrollments -> SUBSET Nat] /\ received' \in [Subscribers -> Nat]
      /\ unrecorded' \in [Subscribers -> Nat] /\ late' \in [Subscribers -> Nat]
  BY <1>2, <1>5, <1>7
<1>10. /\ \A f \in Enrollments \ {e} : sent'[f] = sent[f]
       /\ sent'[e] \subseteq sent[e] \union {NextStep(w)}
       /\ sent'[e] \subseteq sent[e] \/ e \in done
  BY <1>2, <1>5, <1>7
<1>11. /\ p \in AnyPass /\ p.at = "next" /\ p.sent = done
       /\ PassOnce(p) /\ ToldBy(p, sent', enrollment)
  <2>1. q.at # "off" /\ (done = pass[w].sent \/ done = pass[w].sent \union {Current(w)})
    BY <1>1 DEF e
  <2> HIDE DEF done, again
  <2>2. TookStep(w, p, done, sent')
    BY <1>6, <1>9, <1>10, <2>1, StepTaken, Zenon DEF e
  <2> HIDE DEF p
  <2> QED BY <2>2 DEF TookStep
<1> HIDE DEF p
<1>12. DayBy(p, mailed, received', unrecorded')
  <2>1. \A t \in Subscribers : t # s => received'[t] = received[t] /\ unrecorded'[t] = unrecorded[t]
    BY <1>2, <1>5, <1>7
  <2>2. \A t \in Subscribers :
            received[t] <= unrecorded[t] + IF t \in mailed \/ \E f \in q.sent : f[1] = t
                                           THEN 1 ELSE 0
    BY <1>5 DEF DayBy
  <2>3. received[s] <= unrecorded[s] /\ received[s] \in Nat /\ unrecorded[s] \in Nat
    <3>1. received[s] \in Nat /\ unrecorded[s] \in Nat
      BY <1>5, <1>7
    <3> QED BY <1>7, <1>8, <2>2, <3>1
  <2>4. received'[s] <= unrecorded'[s] + IF s \in mailed \/ \E f \in done : f[1] = s
                                         THEN 1 ELSE 0
    <3>1. CASE /\ ok /\ unrecorded' = unrecorded
               /\ received' = [received EXCEPT ![s] = @ + 1]
      <4>1. \E f \in done : f[1] = s
        BY <3>1 DEF s
      <4> QED BY <1>5, <1>7, <2>3, <3>1, <4>1
    <3>2. CASE UNCHANGED <<received, unrecorded>>
      BY <1>7, <2>3, <3>2
    <3>3. CASE /\ unrecorded' = [unrecorded EXCEPT ![s] = @ + 1]
               /\ received' = [received EXCEPT ![s] = @ + 1]
      <4>1. received'[s] <= unrecorded'[s] /\ received'[s] \in Nat /\ unrecorded'[s] \in Nat
        BY <1>5, <1>7, <2>3, <3>3
      <4> QED BY <4>1
    <3> QED BY <1>2, <3>1, <3>2, <3>3
  <2>5. ASSUME NEW t \in Subscribers
        PROVE  received'[t] <= unrecorded'[t] + IF t \in mailed \/ \E f \in done : f[1] = t
                                                THEN 1 ELSE 0
    <3>1. CASE t = s
      BY <2>4, <3>1
    <3>2. CASE t # s
      <4>1. (\E f \in done : f[1] = t) <=> (\E f \in q.sent : f[1] = t)
        BY <3>2 DEF s
      <4> QED BY <2>1, <2>2, <3>2, <4>1
    <3> QED BY <3>1, <3>2
  <2>6. \A f, g \in done : f[1] \notin mailed /\ (f[1] = g[1] => f = g)
    <3>1. \A f, g \in q.sent : f[1] \notin mailed /\ (f[1] = g[1] => f = g)
      BY <1>5 DEF DayBy
    <3>2. e[1] \notin mailed /\ \A f \in q.sent : f[1] # e[1]
      BY <1>8 DEF s
    <3> QED BY <3>1, <3>2
  <2> QED BY <1>11, <2>5, <2>6 DEF DayBy
<1>13. LateBy(p, suppression, late')
  <2>1. \A t \in Subscribers : late'[t] = late[t] \/ (t = s /\ suppression[s] # "none" /\ late'[s] = late[s] + 1)
    BY <1>2, <1>5, <1>7
  <2>2. \A t \in Subscribers : suppression[t] # "none" => late[t] <= 1
    BY <1>5 DEF LateBy
  <2> QED BY <1>8, <1>11, <2>1, <2>2 DEF LateBy
<1> QED BY <1>1, <1>3, <1>4, <1>9, <1>11, <1>12, <1>13, AtWork, PassMoves

\* End writes rows without advancing them; a newsletter begun has no step sent.
LEMMA StepsKept ==
    ASSUME TypeOK, EmailInv, NEW w \in Workers, pass[w].at # "off", pass[w].todo # <<>>,
           NEW E \in SUBSET Enrollments, NEW wrote \in [E -> Row],
           DOMAIN pass[w].wrote \subseteq E,
           NEW again \in SUBSET E, IsFiniteSet(again),
           NEW told \in [Enrollments -> SUBSET Nat],
           \A f \in Enrollments : told[f] \subseteq sent[f],
           \A f \in E : \/ told[f] = {}
                        \/ wrote[f].step = IF f \in DOMAIN pass[w].wrote THEN pass[w].wrote[f].step
                                           ELSE enrollment[f].step
    PROVE  TookStep(w, Onward(w, wrote, again, pass[w].sent), pass[w].sent, told)
<1> DEFINE q == pass[w]
           p == Onward(w, wrote, again, q.sent)
<1>1. Others(w) /\ q \in AnyPass /\ ToldBy(q, sent, enrollment)
  BY Alone, AtWork
<1>2. q.sent \subseteq DOMAIN q.wrote
  BY <1>1, PassParts
<1>3. /\ p \in AnyPass /\ p.at = "next" /\ p.todo = Tail(q.todo) /\ p.wrote = wrote
      /\ p.again = again /\ p.sent = q.sent
  <2>1. q.sent \in SUBSET E
    BY <1>2
  <2>2. Done(p, w, wrote, again, q.sent)
    BY <2>1, OnwardParts
  <2> HIDE DEF p
  <2> QED BY <2>2 DEF Done
<1> HIDE DEF p
<1>4. /\ PassOnce(p) /\ Current(w) \notin q.sent
      /\ \A i \in 1..Len(p.todo) : i + 1 \in 1..Len(q.todo) /\ p.todo[i] = q.todo[i + 1]
  BY <1>3, TurnOver
<1>5. ToldBy(p, told, enrollment)
  <2> SUFFICES ASSUME NEW f \in Enrollments, NEW n \in told[f]
               PROVE  /\ n <= enrollment[f].step \/ (f \in p.sent /\ n = p.wrote[f].step)
                      /\ f \in DOMAIN p.wrote => n <= p.wrote[f].step
                      /\ \A i \in 1..Len(p.todo) : p.todo[i].row = f => n <= p.todo[i].step
    BY DEF ToldBy
  <2>1. n \in sent[f]
    OBVIOUS
  <2>2. /\ n <= enrollment[f].step \/ (f \in q.sent /\ n = q.wrote[f].step)
        /\ f \in DOMAIN q.wrote => n <= q.wrote[f].step
        /\ \A i \in 1..Len(q.todo) : q.todo[i].row = f => n <= q.todo[i].step
    BY <1>1, <2>1 DEF ToldBy
  <2>3. f \in E => wrote[f].step = IF f \in DOMAIN q.wrote THEN q.wrote[f].step
                                   ELSE enrollment[f].step
    OBVIOUS
  <2>4. DOMAIN p.wrote = E
    BY <1>3
  <2> QED BY <1>2, <1>3, <1>4, <2>2, <2>3, <2>4
<1>6. TookStep(w, p, q.sent, told)
  BY <1>3, <1>4, <1>5 DEF TookStep
<1> QED BY <1>6 DEF p

\* The pass goes on with no further e-mail sent.
LEMMA NothingSent ==
    ASSUME TypeOK, EmailInv, NEW w \in Workers, pass[w].at = "next", NEW p,
           TookStep(w, p, pass[w].sent, sent'), pass' = [pass EXCEPT ![w] = p],
           sent' \in [Enrollments -> SUBSET Nat],
           UNCHANGED <<enrollment, line, running, suppression, workspace, mailed, handler,
                       received, unrecorded, late, reasons>>
    PROVE  TypeOK' /\ EmailInv'
<1>1. Others(w)
  BY Alone
<1>2. DayBy(pass[w], mailed, received, unrecorded) /\ LateBy(pass[w], suppression, late)
  BY <1>1, AtWork
<1>3. /\ p \in AnyPass /\ p.at = "next" /\ p.sent = pass[w].sent
      /\ PassOnce(p) /\ ToldBy(p, sent', enrollment)
  BY DEF TookStep
<1>4. DayBy(p, mailed, received, unrecorded)
  BY <1>2, <1>3 DEF DayBy
<1>5. LateBy(p, suppression, late)
  BY <1>2, <1>3 DEF LateBy
<1> QED BY <1>1, <1>3, <1>4, <1>5, AtWork, PassMoves

\* A row written at the step it is at.
LEMMA RowKept ==
    ASSUME TypeOK, EmailInv, NEW w \in Workers, pass[w].at = "next", pass[w].todo # <<>>,
           NEW r \in Row, r.step = Seen(w, Current(w)).step,
           pass' = [pass EXCEPT ![w] =
                      Onward(w, Put(w, Current(w), r), pass[w].again, pass[w].sent)],
           UNCHANGED <<enrollment, line, running, suppression, workspace, mailed, handler, sent,
                       received, unrecorded, late, reasons>>
    PROVE  TypeOK' /\ EmailInv'
<1> DEFINE e == Current(w)
           D == DOMAIN pass[w].wrote
           wrote == Put(w, e, r)
           p == Onward(w, wrote, pass[w].again, pass[w].sent)
<1>1. e \in Enrollments
  BY TodoParts
<1>2. WroteOne(w, e, r, wrote)
  BY <1>1, OneWritten, Zenon
<1> HIDE DEF wrote
<1>3. /\ wrote \in [D \union {e} -> Row] /\ D \union {e} \in SUBSET Enrollments /\ wrote[e] = r
      /\ \A f \in D \ {e} : wrote[f] = pass[w].wrote[f]
  BY <1>2 DEF WroteOne
<1>4. /\ PassOnce(pass[w]) /\ pass[w] \in AnyPass
      /\ sent \in [Enrollments -> SUBSET Nat]
  BY Alone, AtWork
<1>5. pass[w].again \in SUBSET (D \union {e}) /\ IsFiniteSet(pass[w].again)
  BY <1>4, PassParts DEF PassOnce
<1>6. \A f \in D \union {e} : wrote[f].step = IF f \in D THEN pass[w].wrote[f].step
                                              ELSE enrollment[f].step
  <2> SUFFICES ASSUME NEW f \in D \union {e}
               PROVE  wrote[f].step = IF f \in D THEN pass[w].wrote[f].step
                                      ELSE enrollment[f].step
    OBVIOUS
  <2>1. CASE f # e
    BY <1>3, <2>1
  <2>2. CASE f = e
    BY <1>1, <1>3, <2>2, SeenParts
  <2> QED BY <2>1, <2>2
<1>7. TookStep(w, p, pass[w].sent, sent)
  <2>1. /\ \A f \in Enrollments : sent[f] \subseteq sent[f]
        /\ D \subseteq D \union {e} /\ pass[w].at # "off"
    OBVIOUS
  <2> HIDE DEF D, e
  <2>2. DOMAIN pass[w].wrote = D
    BY DEF D
  <2> DEFINE E == D \union {e}
  <2>3. /\ E \in SUBSET Enrollments /\ wrote \in [E -> Row] /\ D \subseteq E
        /\ pass[w].again \in SUBSET E
    BY <1>3, <1>5, <2>1
  <2>4. \A f \in E : \/ sent[f] = {}
                     \/ wrote[f].step = IF f \in DOMAIN pass[w].wrote THEN pass[w].wrote[f].step
                                        ELSE enrollment[f].step
    BY <1>6, <2>2
  <2> HIDE DEF E
  <2> QED BY <1>4, <1>5, <2>1, <2>2, <2>3, <2>4, StepsKept
<1> HIDE DEF p
<1>8. pass' = [pass EXCEPT ![w] = p] /\ sent' = sent
  BY DEF p, wrote, e
<1>9. TookStep(w, p, pass[w].sent, sent') /\ sent' \in [Enrollments -> SUBSET Nat]
  BY <1>4, <1>7, <1>8
<1> QED BY <1>8, <1>9, NothingSent

\* End.
LEMMA EndKeeps ==
    ASSUME TypeOK, EmailInv, NEW w \in Workers, End(w)
    PROVE  TypeOK' /\ EmailInv'
<1> DEFINE e == Current(w)
           news == <<e[1], "newsletter">>
           q == pass[w]
           gone == [Seen(w, e) EXCEPT !.status = "exited"]
           done == [Seen(w, e) EXCEPT !.status = "completed"]
           both == [f \in {e, news} |-> IF f = e THEN done ELSE Fresh]
<1>1. /\ q.at = "next" /\ q.todo # <<>>
      /\ UNCHANGED <<enrollment, line, running, suppression, workspace, mailed, handler, received,
                     unrecorded, late, reasons>>
  BY DEF End, Considering, rows, world
<1>2. \/ /\ pass' = [pass EXCEPT ![w] = Onward(w, Write(w, [f \in {e} |-> gone]), q.again, q.sent)]
         /\ sent' = sent
      \/ /\ pass' = [pass EXCEPT ![w] = Onward(w, q.wrote, q.again, q.sent)]
         /\ sent' = sent
      \/ /\ pass' = [pass EXCEPT ![w] = Onward(w, Write(w, [f \in {e} |-> done]), q.again, q.sent)]
         /\ sent' = sent
      \/ /\ e[2] = "trust_drip" /\ news \in Enrollments
         /\ pass' = [pass EXCEPT ![w] =
                       Onward(w, Write(w, both), q.again \union {news}, q.sent)]
         /\ sent' = [sent EXCEPT ![news] = {}]
  BY DEF End
<1>3. e \in Enrollments
  BY <1>1, TodoParts
<1>4. gone \in Row /\ done \in Row /\ gone.step = Seen(w, e).step /\ done.step = Seen(w, e).step
  <2>1. Seen(w, e) \in Row
    BY <1>3, SeenParts
  <2> QED BY <2>1 DEF Row
<1>5. /\ PassOnce(q) /\ q \in AnyPass /\ pass \in [Workers -> AnyPass]
      /\ sent \in [Enrollments -> SUBSET Nat]
  BY <1>1, Alone, AtWork
<1>6. /\ DOMAIN q.wrote \in SUBSET Enrollments /\ q.wrote \in [DOMAIN q.wrote -> Row]
      /\ q.again \in SUBSET DOMAIN q.wrote /\ IsFiniteSet(q.again)
  BY <1>5, PassParts DEF PassOnce
<1> HIDE DEF gone, done
<1>7. ASSUME NEW r \in Row, r.step = Seen(w, e).step, sent' = sent,
             pass' = [pass EXCEPT ![w] = Onward(w, Write(w, [f \in {e} |-> r]), q.again, q.sent)]
      PROVE  TypeOK' /\ EmailInv'
  <2>1. pass' = [pass EXCEPT ![w] = Onward(w, Put(w, Current(w), r), pass[w].again, pass[w].sent)]
    BY <1>7 DEF Put
  <2> QED BY <1>1, <1>7, <2>1, RowKept
<1>8. CASE /\ pass' = [pass EXCEPT ![w] = Onward(w, q.wrote, q.again, q.sent)]
           /\ sent' = sent
  <2> DEFINE p == Onward(w, q.wrote, q.again, q.sent)
  <2>1. TookStep(w, p, q.sent, sent)
    <3> DEFINE E == DOMAIN q.wrote
               wrote == q.wrote
    <3>1. E \in SUBSET Enrollments /\ wrote \in [E -> Row] /\ DOMAIN pass[w].wrote \subseteq E
          /\ q.again \in SUBSET E /\ pass[w].at # "off"
      BY <1>1, <1>6
    <3>2. \A f \in E : wrote[f].step = IF f \in DOMAIN pass[w].wrote THEN pass[w].wrote[f].step
                                       ELSE enrollment[f].step
      OBVIOUS
    <3>3. \A f \in Enrollments : sent[f] \subseteq sent[f]
      OBVIOUS
    <3> HIDE DEF E, wrote
    <3>4. TookStep(w, Onward(w, wrote, q.again, pass[w].sent), pass[w].sent, sent)
      BY <1>1, <1>5, <1>6, <3>1, <3>2, <3>3, StepsKept
    <3> QED BY <3>4 DEF wrote
  <2> HIDE DEF p
  <2>2. pass' = [pass EXCEPT ![w] = p]
    BY <1>8 DEF p
  <2> QED BY <1>1, <1>5, <1>8, <2>1, <2>2, NothingSent
<1>9. CASE /\ e[2] = "trust_drip" /\ news \in Enrollments
           /\ pass' = [pass EXCEPT ![w] =
                         Onward(w, Write(w, both), q.again \union {news}, q.sent)]
           /\ sent' = [sent EXCEPT ![news] = {}]
  <2> DEFINE F == {e, news}
             E == DOMAIN q.wrote \union F
             wrote == Write(w, both)
             again == q.again \union {news}
             p == Onward(w, wrote, again, q.sent)
  <2>1. both \in [F -> Row] /\ F \in SUBSET Enrollments
    <3>1. Fresh \in Row
      BY DEF Fresh, Row
    <3> QED BY <1>3, <1>4, <1>9, <3>1
  <2>2. both[e] = done
    OBVIOUS
  <2> HIDE DEF both, F
  <2>3. /\ wrote \in [E -> Row] /\ E \in SUBSET Enrollments
        /\ (\A f \in F : wrote[f] = both[f])
        /\ \A f \in DOMAIN q.wrote \ F : wrote[f] = q.wrote[f]
    BY <2>1, WriteParts
  <2> HIDE DEF wrote
  <2>4. /\ sent' \in [Enrollments -> SUBSET Nat] /\ sent'[news] = {}
        /\ \A f \in Enrollments : sent'[f] \subseteq sent[f]
    BY <1>5, <1>9
  <2>5. DOMAIN pass[w].wrote \subseteq E /\ again \in SUBSET E /\ IsFiniteSet(again)
    BY <1>6, FS_AddElement DEF F
  <2>6. \A f \in E : \/ sent'[f] = {}
                     \/ wrote[f].step = IF f \in DOMAIN pass[w].wrote THEN pass[w].wrote[f].step
                                        ELSE enrollment[f].step
    <3> SUFFICES ASSUME NEW f \in E, f # news
                 PROVE  wrote[f].step = IF f \in DOMAIN pass[w].wrote THEN pass[w].wrote[f].step
                                        ELSE enrollment[f].step
      BY <2>4
    <3>1. CASE f = e
      <4>1. wrote[e] = done
        BY <2>2, <2>3 DEF F
      <4> QED BY <1>3, <1>4, <3>1, <4>1, SeenParts
    <3>2. CASE f # e
      BY <2>3, <3>2 DEF F
    <3> QED BY <3>1, <3>2
  <2> HIDE DEF E, again
  <2>7. TookStep(w, p, q.sent, sent')
    BY <1>1, <2>3, <2>4, <2>5, <2>6, StepsKept
  <2> HIDE DEF p
  <2>8. pass' = [pass EXCEPT ![w] = p]
    BY <1>9 DEF p, wrote, again
  <2> QED BY <1>1, <2>4, <2>7, <2>8, NothingSent
<1> QED BY <1>2, <1>4, <1>7, <1>8, <1>9

\* A finite set can be counted through, each member once.
Listing(S) == CHOOSE f \in [1..Cardinality(S) -> S] : Elements(f) = S

Lists(q, X, S) ==
    /\ q \in Seq(X) /\ \A i \in 1..Len(q) : q[i] \in S
    /\ \A i, j \in 1..Len(q) : q[i] = q[j] => i = j

\* A finite set can be listed, each member once.
LEMMA ListingExists ==
    ASSUME NEW X, NEW S \in SUBSET X, IsFiniteSet(S)
    PROVE  Lists(Listing(S), X, S)
<1> DEFINE N == Cardinality(S)
           q == Listing(S)
<1>1. N \in Nat /\ ExistsBijection(1..N, S)
  BY FS_CardinalityType
<1>2. PICK f \in Bijection(1..N, S) : TRUE
  BY <1>1 DEF ExistsBijection
<1>3. f \in [1..N -> S] /\ \A t \in S : \E i \in 1..N : f[i] = t
  BY <1>2 DEF Bijection, Injection, Surjection
<1> HIDE DEF N
<1>4. \A g \in [1..N -> S] : Len(g) = N
  BY <1>1
<1>5. Elements(f) = S
  <2>1. \A t : t \in Elements(f) <=> t \in S
    BY <1>3, <1>4 DEF Elements
  <2> QED BY <2>1, Zenon
<1>6. q \in [1..N -> S] /\ Elements(q) = S
  <2>1. \E g \in [1..N -> S] : Elements(g) = S
    BY <1>3, <1>5
  <2> QED BY <2>1, Zenon DEF N, Listing
<1> HIDE DEF q
<1>7. Len(q) = N /\ q \in Seq(X)
  BY <1>1, <1>4, <1>6
<1>8. q \in Surjection(1..N, S)
  BY <1>6, <1>7 DEF Elements, Surjection
<1>9. q \in Injection(1..N, S)
  <2>1. IsFiniteSet(1..N) /\ Cardinality(1..N) = N
    BY <1>1, FS_Interval
  <2> QED BY <1>8, <2>1, FS_SurjSameCardinalityImpliesInj DEF N
<1>10. \A i, j \in 1..N : q[i] = q[j] => i = j
  BY <1>9 DEF Injection, IsInjective
<1>11. Lists(q, X, S)
  BY <1>6, <1>7, <1>10 DEF Lists
<1> QED BY <1>11 DEF q

\* One line after another.
LEMMA ConcatOnce ==
    ASSUME NEW X, NEW a \in Seq(X), NEW b \in Seq(X),
           \A i, j \in 1..Len(a) : a[i] = a[j] => i = j,
           \A i, j \in 1..Len(b) : b[i] = b[j] => i = j,
           \A i \in 1..Len(a) : \A j \in 1..Len(b) : a[i] # b[j]
    PROVE  a \o b \in Seq(X) /\ \A i, j \in 1..Len(a \o b) : (a \o b)[i] = (a \o b)[j] => i = j
<1> DEFINE c == a \o b
<1>1. /\ Len(a) \in Nat /\ Len(b) \in Nat /\ Len(c) = Len(a) + Len(b) /\ c \in Seq(X)
      /\ \A i \in 1..Len(c) : c[i] = IF i <= Len(a) THEN a[i] ELSE b[i - Len(a)]
  OBVIOUS
<1> HIDE DEF c
<1>2. \A i \in 1..Len(c) : \/ i \in 1..Len(a) /\ c[i] = a[i]
                           \/ i - Len(a) \in 1..Len(b) /\ c[i] = b[i - Len(a)] /\ ~ (i <= Len(a))
  BY <1>1
<1>3. \A i, j \in 1..Len(c) : c[i] = c[j] => i = j
  <2> SUFFICES ASSUME NEW i \in 1..Len(c), NEW j \in 1..Len(c), c[i] = c[j]
               PROVE  i = j
    OBVIOUS
  <2>1. CASE i \in 1..Len(a) /\ c[i] = a[i] /\ j \in 1..Len(a) /\ c[j] = a[j]
    BY <2>1
  <2>2. CASE /\ i - Len(a) \in 1..Len(b) /\ c[i] = b[i - Len(a)]
             /\ j - Len(a) \in 1..Len(b) /\ c[j] = b[j - Len(a)]
    <3>1. i - Len(a) = j - Len(a)
      BY <2>2
    <3> QED BY <1>1, <3>1
  <2> QED BY <1>2, <2>1, <2>2
<1> QED BY <1>1, <1>3 DEF c

\* CommitPass: what the pass wrote is the table, and what it is to do at once waits again.
LEMMA CommitPassKeeps ==
    ASSUME TypeOK, EmailInv, NEW w \in Workers, CommitPass(w)
    PROVE  TypeOK' /\ EmailInv'
<1> DEFINE p == pass[w]
           due == Without(line, DOMAIN p.wrote)
           again == CHOOSE q \in [1..Cardinality(p.again) -> p.again] : Elements(q) = p.again
           active == {e \in p.again : Seen(w, e).status = "active"}
           more == Only(again, active)
<1>1. /\ p.at = "next" /\ enrollment' = [e \in Enrollments |-> Seen(w, e)]
      /\ line' = due \o more /\ mailed' = mailed \union {e[1] : e \in p.sent}
      /\ pass' = [pass EXCEPT ![w] = NoPass]
      /\ UNCHANGED <<running, suppression, workspace, handler, sent, received, unrecorded, late,
                     reasons>>
  BY DEF CommitPass, world, history
<1>2. Others(w)
  BY <1>1, Alone
<1>3. /\ p \in AnyPass /\ PassOnce(p) /\ ToldBy(p, sent, enrollment)
      /\ DayBy(p, mailed, received, unrecorded) /\ LateBy(p, suppression, late)
  BY <1>2, AtWork
<1>4. /\ p.again \subseteq DOMAIN p.wrote /\ p.sent \subseteq DOMAIN p.wrote
      /\ DOMAIN p.wrote \subseteq Enrollments /\ IsFiniteSet(p.again)
  BY <1>3, PassParts DEF PassOnce
<1>5. line' \in Seq(Enrollments) /\ \A i, j \in 1..Len(line') : line'[i] = line'[j] => i = j
  <2>1. /\ due \in Seq(Enrollments) /\ \A i, j \in 1..Len(due) : due[i] = due[j] => i = j
        /\ \A i \in 1..Len(due) : due[i] \notin DOMAIN p.wrote
    BY LineParts DEF EmailInv
  <2> HIDE DEF due
  <2>2. /\ again \in Seq(Enrollments) /\ \A i \in 1..Len(again) : again[i] \in p.again
        /\ \A i, j \in 1..Len(again) : again[i] = again[j] => i = j
    <3>1. p.again \in SUBSET Enrollments
      BY <1>4
    <3>2. Lists(Listing(p.again), Enrollments, p.again)
      BY <1>4, <3>1, ListingExists, Zenon
    <3>3. again = Listing(p.again)
      BY DEF Listing
    <3> HIDE DEF again
    <3> QED BY <3>2, <3>3 DEF Lists
  <2> HIDE DEF again, active
  <2>3. /\ more \in Seq(Enrollments) /\ \A i, j \in 1..Len(more) : more[i] = more[j] => i = j
        /\ \A i \in 1..Len(more) : \E n \in 1..Len(again) : more[i] = again[n]
    BY <2>2, OnlyParts
  <2>4. \A i \in 1..Len(more) : more[i] \in DOMAIN p.wrote
    BY <1>4, <2>2, <2>3
  <2> HIDE DEF more
  <2>5. \A i \in 1..Len(due) : \A j \in 1..Len(more) : due[i] # more[j]
    BY <2>1, <2>4
  <2>6. /\ due \o more \in Seq(Enrollments)
        /\ \A i, j \in 1..Len(due \o more) : (due \o more)[i] = (due \o more)[j] => i = j
    BY <2>1, <2>3, <2>5, ConcatOnce
  <2>7. line' = due \o more
    BY <1>1 DEF due, more, again, active
  <2> DEFINE joined == due \o more
  <2>8. joined \in Seq(Enrollments) /\ \A i, j \in 1..Len(joined) : joined[i] = joined[j] => i = j
    BY <2>6
  <2>9. line' = joined
    BY <2>7
  <2> HIDE DEF joined
  <2> QED BY <2>8, <2>9
<1>6. /\ enrollment' \in [Enrollments -> Row]
      /\ \A e \in Enrollments : enrollment'[e] = IF e \in DOMAIN p.wrote THEN p.wrote[e]
                                                 ELSE enrollment[e]
  BY <1>1, SeenParts
<1>7. mailed' \subseteq Subscribers
  <2>1. mailed \subseteq Subscribers
    BY DEF TypeOK
  <2>2. \A e \in p.sent : e[1] \in Subscribers
    BY <1>4, EnrollmentParts
  <2> QED BY <1>1, <2>1, <2>2
<1>8. /\ NoPass \in AnyPass /\ NoPass.at = "off" /\ NoPass.sent = {} /\ NoPass.again = {}
      /\ DOMAIN NoPass.wrote = {} /\ 1..Len(NoPass.todo) = {}
  <2>1. 1..0 = {}
    OBVIOUS
  <2> QED BY <2>1, NoPassParts
<1>9. PassOnce(NoPass)
  BY <1>8, FS_EmptySet DEF PassOnce
<1> HIDE DEF p
<1>10. ToldBy(NoPass, sent, enrollment')
  BY <1>3, <1>4, <1>6, <1>8 DEF ToldBy
<1>11. DayBy(NoPass, mailed', received, unrecorded)
  <2>1. \A s \in Subscribers : s \in mailed' <=> s \in mailed \/ \E e \in p.sent : e[1] = s
    BY <1>1
  <2> QED BY <1>3, <1>8, <2>1 DEF DayBy
<1>12. LateBy(NoPass, suppression, late)
  BY <1>3, <1>8 DEF LateBy
<1> QED BY <1>1, <1>2, <1>5, <1>6, <1>7, <1>8, <1>9, <1>10, <1>11, <1>12, AtWork, PassMoves

\* AbortPass: its e-mails are sent and nothing tells of them.
LEMMA AbortPassKeeps ==
    ASSUME TypeOK, EmailInv, NEW w \in Workers, AbortPass(w)
    PROVE  TypeOK' /\ EmailInv'
<1> DEFINE p == pass[w]
           of(s) == {e \in p.sent : e[1] = s}
<1>1. /\ p.at # "off" /\ pass' = [pass EXCEPT ![w] = NoPass]
      /\ sent' = [e \in Enrollments |->
                    IF e \in p.sent THEN sent[e] \ {p.wrote[e].step} ELSE sent[e]]
      /\ unrecorded' = [s \in Subscribers |-> unrecorded[s] + Cardinality(of(s))]
      /\ UNCHANGED <<enrollment, line, running, suppression, workspace, mailed, handler, received,
                     late, reasons>>
  BY DEF AbortPass, rows, world
<1>2. Others(w)
  BY <1>1, Alone
<1>3. /\ p \in AnyPass /\ PassOnce(p) /\ ToldBy(p, sent, enrollment)
      /\ DayBy(p, mailed, received, unrecorded) /\ LateBy(p, suppression, late)
      /\ sent \in [Enrollments -> SUBSET Nat] /\ received \in [Subscribers -> Nat]
      /\ unrecorded \in [Subscribers -> Nat]
  BY <1>2, AtWork
<1>4. /\ NoPass \in AnyPass /\ NoPass.at = "off" /\ NoPass.sent = {} /\ NoPass.again = {}
      /\ DOMAIN NoPass.wrote = {} /\ 1..Len(NoPass.todo) = {}
  <2>1. 1..0 = {}
    OBVIOUS
  <2> QED BY <2>1, NoPassParts
<1> HIDE DEF p
<1>5. \A s \in Subscribers : Cardinality(of(s)) = IF \E e \in p.sent : e[1] = s THEN 1 ELSE 0
  <2> SUFFICES ASSUME NEW s \in Subscribers
               PROVE  Cardinality(of(s)) = IF \E e \in p.sent : e[1] = s THEN 1 ELSE 0
    OBVIOUS
  <2>1. CASE \E e \in p.sent : e[1] = s
    <3>1. PICK e \in p.sent : e[1] = s
      BY <2>1
    <3>2. \A f \in p.sent : f[1] = s => f = e
      BY <1>3, <3>1 DEF DayBy
    <3>3. of(s) = {e}
      BY <3>1, <3>2
    <3> QED BY <2>1, <3>3, FS_Singleton
  <2>2. CASE ~ \E e \in p.sent : e[1] = s
    <3>1. of(s) = {}
      BY <2>2
    <3> QED BY <2>2, <3>1, FS_EmptySet
  <2> QED BY <2>1, <2>2
<1> HIDE DEF of
<1>6. /\ unrecorded' \in [Subscribers -> Nat]
      /\ \A s \in Subscribers :
           unrecorded'[s] = unrecorded[s] + IF \E e \in p.sent : e[1] = s THEN 1 ELSE 0
  BY <1>1, <1>3, <1>5
<1>7. /\ sent' \in [Enrollments -> SUBSET Nat]
      /\ \A e \in Enrollments : \A n \in sent'[e] :
           n \in sent[e] /\ (e \in p.sent => n # p.wrote[e].step)
  BY <1>1, <1>3
<1>8. PassOnce(NoPass)
  BY <1>4, FS_EmptySet DEF PassOnce
<1>9. ToldBy(NoPass, sent', enrollment)
  BY <1>3, <1>4, <1>7 DEF ToldBy
<1>10. DayBy(NoPass, mailed, received, unrecorded')
  <2>1. ASSUME NEW s \in Subscribers
        PROVE  received[s] <= unrecorded'[s] + IF s \in mailed THEN 1 ELSE 0
    <3>1. received[s] <= unrecorded[s] + IF s \in mailed \/ \E e \in p.sent : e[1] = s
                                         THEN 1 ELSE 0
      BY <1>3 DEF DayBy
    <3>2. received[s] \in Nat /\ unrecorded[s] \in Nat
      BY <1>3
    <3> QED BY <1>6, <3>1, <3>2
  <2> QED BY <1>4, <2>1 DEF DayBy
<1>11. LateBy(NoPass, suppression, late)
  BY <1>3, <1>4 DEF LateBy
<1> QED BY <1>1, <1>2, <1>4, <1>6, <1>7, <1>8, <1>9, <1>10, <1>11, AtWork, PassMoves

-----------------------------------------------------------------------------
(* Every state *)

\* The invariant holds at the start,
LEMMA InitIsFine == Init => TypeOK /\ EmailInv
<1> SUFFICES ASSUME Init
             PROVE  TypeOK /\ EmailInv
  OBVIOUS
<1>1. /\ enrollment = [e \in Enrollments |-> NoRow] /\ line = <<>>
      /\ running \in {Sequences, {}} /\ suppression = [s \in Subscribers |-> "none"]
      /\ workspace = [s \in Subscribers |-> "pending_payment"] /\ mailed = {}
      /\ pass = [w \in Workers |-> NoPass] /\ handler = [h \in Handlers |-> NoHandler]
      /\ sent = [e \in Enrollments |-> {}] /\ received = [s \in Subscribers |-> 0]
      /\ unrecorded = [s \in Subscribers |-> 0] /\ late = [s \in Subscribers |-> 0]
      /\ reasons = [s \in Subscribers |-> {}]
  BY DEF Init
<1>2. 1..0 = {} /\ Len(<<>>) = 0 /\ <<>> \in Seq(Enrollments) /\ <<>> \in Seq(Ops)
  OBVIOUS
<1>3. /\ \A w \in Workers : pass[w] = NoPass
      /\ pass \in [Workers -> AnyPass]
  BY <1>1, NoPassParts
<1>4. \A w \in Workers : /\ pass[w].at = "off" /\ pass[w].sent = {} /\ pass[w].again = {}
                         /\ DOMAIN pass[w].wrote = {} /\ 1..Len(pass[w].todo) = {}
  BY <1>2, <1>3, NoPassParts
<1>5. \A h \in Handlers : 1..Len(handler[h].ops) = {}
  BY <1>1, <1>2 DEF NoHandler
<1>6. TypeOK
  <2>1. /\ pass = [w \in Workers |-> pass[w]]
        /\ \A w \in Workers : \E E \in SUBSET Enrollments : pass[w] \in Pass(E)
    BY <1>3, PassTyped
  <2>2. NoRow \in Row
    BY DEF NoRow, Row
  <2>3. handler \in [Handlers -> [to : Subscribers \union {"nobody"}, ops : Seq(Ops)]]
    BY <1>1, <1>2 DEF NoHandler
  <2>4. /\ enrollment \in [Enrollments -> Row] /\ line \in Seq(Enrollments)
        /\ running \subseteq Sequences
        /\ suppression \in [Subscribers -> {"none", "unsubscribe", "bounce"}]
        /\ workspace \in [Subscribers -> {"pending_payment", "active", "past_due", "canceled"}]
        /\ mailed \subseteq Subscribers /\ sent \in [Enrollments -> SUBSET Nat]
        /\ {received, unrecorded, late} \subseteq [Subscribers -> Nat]
        /\ reasons \in [Subscribers -> SUBSET {"unsubscribe", "bounce"}]
    BY <1>1, <1>2, <2>2
  <2> QED BY <2>1, <2>3, <2>4 DEF TypeOK
<1>7. OnePass
  BY <1>3, <1>4, FS_EmptySet DEF OnePass
<1>8. RowsOnce
  BY <1>1, <1>2, <1>4 DEF RowsOnce
<1>9. StepsTold /\ HandlersWork
  BY <1>1, <1>5 DEF StepsTold, HandlersWork
<1>10. DayInv /\ LateInv
  BY <1>1, <1>4 DEF DayInv, LateInv
<1>11. ReasonInv /\ BounceHeld
  BY <1>1 DEF ReasonInv, BounceHeld
<1> QED BY <1>6, <1>7, <1>8, <1>9, <1>10, <1>11 DEF EmailInv

\* when nothing happens,
LEMMA StutterIsFine ==
    ASSUME TypeOK, EmailInv, UNCHANGED vars
    PROVE  TypeOK' /\ EmailInv'
<1>1. UNCHANGED <<enrollment, line, running, suppression, workspace, mailed, pass, handler, sent,
                  received, unrecorded, late, reasons>>
  BY DEF vars, rows, world, history
<1>2. TypeOK'
  BY <1>1 DEF TypeOK
<1> QED BY <1>1, <1>2, PassesKept, HandlersKept, Together, TogetherNext

\* and after each step.
LEMMA NextKeeps ==
    ASSUME TypeOK, EmailInv, Next
    PROVE  TypeOK' /\ EmailInv'
<1>1. CASE \E e \in Enrollments : ElapseDelay(e)
  BY <1>1, ElapseDelayKeeps
<1>2. CASE Tomorrow
  BY <1>2, TomorrowKeeps
<1>3. CASE \E q \in Sequences : Switch(q)
  BY <1>3, SwitchKeeps
<1>4. CASE \E s \in Subscribers : PaymentRecovered(s)
  BY <1>4, PaymentRecoveredKeeps
<1>5. ASSUME NEW h \in Handlers, NEW s \in Subscribers,
             \/ \E q \in {"newsletter", "trust_drip"} : Subscribe(h, s, q)
             \/ \E reason \in {"unsubscribe", "bounce"} : Suppress(h, s, reason)
             \/ CheckoutCompleted(h, s)
             \/ SubscriptionDeleted(h, s)
             \/ PaymentFailed(h, s)
             \/ AbandonedCheckoutScan(h, s)
             \/ StallNudgeScan(h, s)
      PROVE  TypeOK' /\ EmailInv'
  BY <1>5, SubscribeKeeps, SuppressKeeps, CheckoutCompletedKeeps, SubscriptionDeletedKeeps,
     EnrollingKeeps
<1>6. ASSUME NEW h \in Handlers, ExecuteOp(h) \/ LoseHandler(h)
      PROVE  TypeOK' /\ EmailInv'
  BY <1>6, ExecuteOpKeeps, LoseHandlerKeeps
<1>7. ASSUME NEW w \in Workers,
             \/ Claim(w) \/ Leave(w) \/ End(w) \/ PassOver(w)
             \/ BeginSend(w) \/ Send(w) \/ CommitPass(w) \/ AbortPass(w)
      PROVE  TypeOK' /\ EmailInv'
  BY <1>7, ClaimKeeps, LeaveKeeps, EndKeeps, PassOverKeeps, BeginSendKeeps, SendKeeps,
     CommitPassKeeps, AbortPassKeeps
<1>8. CASE IdlePass
  BY <1>8, StutterIsFine DEF IdlePass
<1> QED BY <1>1, <1>2, <1>3, <1>4, <1>5, <1>6, <1>7, <1>8 DEF Next

\* The invariant holds of every state: one pass at a time, which tells of every step it has
\* sent before anyone may take the row again, and sends nothing that is withheld.
THEOREM EmailAlways == Spec => [](TypeOK /\ EmailInv)
<1>1. Init => TypeOK /\ EmailInv
  BY InitIsFine
<1>2. TypeOK /\ EmailInv /\ [Next]_vars => (TypeOK /\ EmailInv)'
  BY NextKeeps, StutterIsFine
<1> QED BY <1>1, <1>2, PTL DEF Spec

\* What each table, pass and handler may hold.
THEOREM TypeCorrect == Spec => []TypeOK
BY EmailAlways, PTL

\* No step of an enrollment is sent that is known to be sent: a row is behind what was sent
\* only until the pass that sent it commits, and no other works on it until then.
THEOREM StepsAreSentOnce == Spec => []NoStepSentTwice
<1>1. TypeOK /\ EmailInv => NoStepSentTwice
  <2> SUFFICES ASSUME TypeOK, EmailInv, NEW w \in Workers, pass[w].at = "send",
                      NextStep(w) \in sent[Current(w)]
               PROVE  FALSE
    BY DEF NoStepSentTwice
  <2>1. pass[w].todo # <<>>
    BY DEF EmailInv, OnePass
  <2>2. /\ 1 \in 1..Len(pass[w].todo) /\ Current(w) = pass[w].todo[1].row
        /\ Current(w) \in Enrollments /\ pass[w].todo[1].step \in Nat
        /\ NextStep(w) = pass[w].todo[1].step + 1
    BY <2>1, TodoParts
  <2>3. NextStep(w) <= pass[w].todo[1].step
    BY <2>2 DEF EmailInv, StepsTold
  <2> QED BY <2>2, <2>3
<1> QED BY <1>1, EmailAlways, PTL

\* A subscriber of several sequences gets one e-mail a day, but for those unrecorded.
THEOREM OneADay == Spec => []OneMailADay
<1>1. TypeOK /\ EmailInv => OneMailADay
  <2> SUFFICES ASSUME TypeOK, EmailInv, NEW s \in Subscribers
               PROVE  received[s] <= 1 + unrecorded[s]
    BY DEF OneMailADay
  <2>1. received[s] \in Nat /\ unrecorded[s] \in Nat
    BY DEF TypeOK
  <2>2. received[s] <= unrecorded[s] + 1 \/ received[s] <= unrecorded[s] + 0
    BY DEF EmailInv, DayInv
  <2> QED BY <2>1, <2>2
<1> QED BY <1>1, EmailAlways, PTL

\* A suppressed address gets at most the e-mail under way.
THEOREM SuppressedInTime == Spec => []SuppressionStopsMail
<1>1. EmailInv => SuppressionStopsMail
  BY DEF EmailInv, LateInv, SuppressionStopsMail
<1> QED BY <1>1, EmailAlways, PTL

\* Only an address whose owner unsubscribed is cleared of a bounce.
THEOREM BouncesHeld == Spec => []BounceHeld
<1>1. EmailInv => BounceHeld
  BY DEF EmailInv
<1> QED BY <1>1, EmailAlways, PTL
================================================================================
