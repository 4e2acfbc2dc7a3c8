------------------------- MODULE NetworkQuotaProofs -------------------------
(***************************************************************************)
(* The quota of one account holds for every finite set of requests, every  *)
(* reservation lifetime and every set of limits.  The argument: a decision *)
(* is taken with an instant that is not in the future, so the rows that    *)
(* count for the decision contain the rows that count now; each of the two *)
(* transactions adds at most one to networks + live rows, and only when    *)
(* the sum was below the limit in force, which the history dominates.      *)
(***************************************************************************)
EXTENDS NetworkQuota, FiniteSetTheorems, TLAPS

\* Fewer rows count at a later instant, and in a smaller set of rows.
LEMMA LiveAtMono ==
    ASSUME NEW R \in SUBSET Row, NEW S \in SUBSET R,
           NEW t \in Instant, NEW u \in Instant, t <= u
    PROVE  LiveAt(S, u) \subseteq LiveAt(R, t)
  <1> SUFFICES ASSUME NEW row \in LiveAt(S, u)
               PROVE  row \in LiveAt(R, t)
    OBVIOUS
  <1>1. row \in R /\ row.expiresAt > u
    BY DEF LiveAt
  <1>2. row.expiresAt \in Int /\ t \in Int /\ u \in Int
    BY <1>1, TTLPositive, MaxClockNatural DEF Row, Instant
  <1>. QED
    BY <1>1, <1>2 DEF LiveAt

\* The limit in an entitlement is a number.
LEMMA LimitNat == ASSUME NEW e \in Entitlement PROVE e.max \in Nat
  <1>1. CASE e \in [kind : {"NONE", "UNLIMITED"}, max : {0}]
    BY <1>1
  <1>2. CASE e \in [kind : {"LIMITED"}, max : Limits]
    BY <1>2, LimitsNatural
  <1>. QED
    BY <1>1, <1>2 DEF Entitlement

\* Adding one element raises a cardinality by at most one.
LEMMA AddOne ==
    ASSUME NEW S, NEW x, IsFiniteSet(S)
    PROVE  /\ IsFiniteSet(S \union {x})
           /\ Cardinality(S \union {x}) \in Nat
           /\ Cardinality(S) \in Nat
           /\ Cardinality(S \union {x}) <= Cardinality(S) + 1
  <1>1. /\ IsFiniteSet(S \union {x})
        /\ Cardinality(S \union {x}) =
             IF x \in S THEN Cardinality(S) ELSE Cardinality(S) + 1
    BY FS_AddElement
  <1>2. Cardinality(S) \in Nat
    BY FS_CardinalityType
  <1>. QED
    BY <1>1, <1>2

\* A subset is finite and not larger.
LEMMA Smaller ==
    ASSUME NEW S, IsFiniteSet(S), NEW T \in SUBSET S
    PROVE  /\ IsFiniteSet(T)
           /\ Cardinality(T) \in Nat
           /\ Cardinality(S) \in Nat
           /\ Cardinality(T) <= Cardinality(S)
  <1>1. IsFiniteSet(T) /\ Cardinality(T) <= Cardinality(S)
    BY FS_Subset
  <1>2. Cardinality(T) \in Nat /\ Cardinality(S) \in Nat
    BY <1>1, FS_CardinalityType
  <1>. QED
    BY <1>1, <1>2

\* The variables keep their types: in particular a reservation never outlives
\* the lifetime the code gives it.
LEMMA TypeStep == TypeOK /\ [Next]_vars => TypeOK'
  <1> SUFFICES ASSUME TypeOK, [Next]_vars PROVE TypeOK'
    OBVIOUS
  <1> USE TTLPositive, LimitsNatural, MaxClockNatural
      DEF TypeOK, Phases, Entitlement, Instant, Row, requestVars, historyVars
  <1>1. ASSUME NEW r \in Requests, StartReserve(r) PROVE TypeOK'
    BY <1>1 DEF StartReserve
  <1>2. ASSUME NEW r \in Requests, ReserveGranted(r) PROVE TypeOK'
    <2>1. stamp[r] + TTL \in 0 .. MaxClock + TTL
      OBVIOUS
    <2>2. rows' \subseteq Row
      BY <1>2, <2>1 DEF ReserveGranted, LiveAt
    <2>. QED
      BY <1>2, <2>2 DEF ReserveGranted
  <1>3. ASSUME NEW r \in Requests, ReserveUnlimited(r) PROVE TypeOK'
    BY <1>3 DEF ReserveUnlimited, LiveAt
  <1>4. ASSUME NEW r \in Requests, ReserveRefused(r) PROVE TypeOK'
    BY <1>4 DEF ReserveRefused
  <1>5. ASSUME NEW r \in Requests, ControllerCreate(r) PROVE TypeOK'
    BY <1>5 DEF ControllerCreate
  <1>6. ASSUME NEW r \in Requests, ControllerFails(r) PROVE TypeOK'
    BY <1>6 DEF ControllerFails
  <1>7. ASSUME NEW r \in Requests, StartConsume(r) PROVE TypeOK'
    BY <1>7 DEF StartConsume
  <1>8. ASSUME NEW r \in Requests, ConsumeGranted(r) PROVE TypeOK'
    BY <1>8 DEF ConsumeGranted, RowsWithout
  <1>9. ASSUME NEW r \in Requests, ConsumeRefused(r) PROVE TypeOK'
    BY <1>9 DEF ConsumeRefused
  <1>10. ASSUME NEW r \in Requests, StoreUnreserved(r) PROVE TypeOK'
    BY <1>10 DEF StoreUnreserved
  <1>11. ASSUME NEW r \in Requests, Release(r) PROVE TypeOK'
    BY <1>11 DEF Release, RowsWithout
  <1>12. ASSUME NEW r \in Requests, Abandon(r) PROVE TypeOK'
    BY <1>12 DEF Abandon
  <1>13. ASSUME NEW r \in Requests, DeleteNetwork(r) PROVE TypeOK'
    BY <1>13 DEF DeleteNetwork
  <1>14. ASSUME CleanupExpired PROVE TypeOK'
    BY <1>14 DEF CleanupExpired, LiveAt
  <1>15. ASSUME ChangeEntitlement PROVE TypeOK'
    <2>1. PICK e \in Entitlement :
             /\ entitlement' = e
             /\ peak' = IF e.max > peak THEN e.max ELSE peak
             /\ exempt' = (exempt \/ e.kind = "UNLIMITED")
      BY <1>15 DEF ChangeEntitlement
    <2>2. e.max \in Nat
      BY LimitNat
    <2>3. entitlement' \in Entitlement /\ peak' \in Nat /\ exempt' \in BOOLEAN
      BY <2>1, <2>2
    <2>. QED
      BY <1>15, <2>3 DEF ChangeEntitlement
  <1>16. ASSUME Tick PROVE TypeOK'
    BY <1>16 DEF Tick
  <1>17. CASE UNCHANGED vars
    BY <1>17 DEF vars
  <1>. QED
    BY <1>1, <1>2, <1>3, <1>4, <1>5, <1>6, <1>7, <1>8, <1>9, <1>10, <1>11,
       <1>12, <1>13, <1>14, <1>15, <1>16, <1>17 DEF Next, RequestStep

\* Instants, limits and history: what the quota argument rests on.
LEMMA SupportStep ==
    ASSUME TypeOK, StampsArePast, HistoryDominates, UnreservedIsExempt, [Next]_vars
    PROVE  (StampsArePast /\ HistoryDominates /\ UnreservedIsExempt)'
  <1> USE TTLPositive, LimitsNatural, MaxClockNatural
      DEF TypeOK, Phases, Instant, requestVars, historyVars,
          StampsArePast, UnreservedIsExempt
  <1>1. ASSUME NEW r \in Requests, RequestStep(r)
        PROVE  (StampsArePast /\ UnreservedIsExempt)'
    <2>1. CASE StartReserve(r) \/ ReserveGranted(r) \/ ReserveRefused(r)
      BY <2>1 DEF StartReserve, ReserveGranted, ReserveRefused
    <2>2. CASE ReserveUnlimited(r)
      BY <2>2 DEF ReserveUnlimited, HistoryDominates
    <2>3. CASE ControllerCreate(r) \/ ControllerFails(r) \/ StartConsume(r)
      BY <2>3 DEF ControllerCreate, ControllerFails, StartConsume
    <2>4. CASE ConsumeGranted(r) \/ ConsumeRefused(r) \/ StoreUnreserved(r)
      BY <2>4 DEF ConsumeGranted, ConsumeRefused, StoreUnreserved
    <2>5. CASE Release(r) \/ Abandon(r) \/ DeleteNetwork(r)
      BY <2>5 DEF Release, Abandon, DeleteNetwork
    <2>. QED
      BY <1>1, <2>1, <2>2, <2>3, <2>4, <2>5 DEF RequestStep
  <1>2. ASSUME NEW r \in Requests, RequestStep(r) PROVE HistoryDominates'
    BY <1>2 DEF HistoryDominates, RequestStep, StartReserve, ReserveGranted,
                ReserveUnlimited, ReserveRefused, ControllerCreate,
                ControllerFails, StartConsume, ConsumeGranted, ConsumeRefused,
                StoreUnreserved, Release, Abandon, DeleteNetwork
  <1>3. CASE CleanupExpired
    BY <1>3 DEF CleanupExpired, HistoryDominates
  <1>4. CASE ChangeEntitlement
    <2>1. PICK e \in Entitlement :
             /\ entitlement' = e
             /\ peak' = IF e.max > peak THEN e.max ELSE peak
             /\ exempt' = (exempt \/ e.kind = "UNLIMITED")
      BY <1>4 DEF ChangeEntitlement
    <2>2. e.max \in Nat
      BY LimitNat
    <2>3. peak \in Int
      OBVIOUS
    <2>4. entitlement'.max <= peak'
      BY <2>1, <2>2, <2>3
    <2>5. entitlement'.kind = "UNLIMITED" => exempt'
      BY <2>1, Zenon
    <2>6. exempt => exempt'
      BY <2>1, Zenon
    <2>7. HistoryDominates'
      BY <2>4, <2>5 DEF HistoryDominates
    <2>. QED
      BY <1>4, <2>6, <2>7 DEF ChangeEntitlement
  <1>5. CASE Tick
    BY <1>5 DEF Tick, HistoryDominates
  <1>6. CASE UNCHANGED vars
    BY <1>6 DEF vars, HistoryDominates
  <1>. QED
    BY <1>1, <1>2, <1>3, <1>4, <1>5, <1>6 DEF Next

\* The one arithmetic step: networks and live rows may each shrink, or one of
\* the two may gain one element after room for it was seen.
LEMMA QuotaStep ==
    ASSUME QuotaInv, [Next]_vars
    PROVE  IsFiniteSet(rows') /\ QuotaRespected'
  <1> DEFINE Goal  == IsFiniteSet(rows') /\ QuotaRespected'
             Quiet == /\ networks' \subseteq networks /\ rows' \subseteq rows
                      /\ exempt => exempt'
                      /\ peak <= peak' /\ clock <= clock'
  <1> SUFFICES Goal
    OBVIOUS
  <1> USE DEF QuotaInv
  <1>0. TypeOK' /\ HistoryDominates' /\ exempt' \in BOOLEAN
    BY TypeStep, SupportStep DEF TypeOK
  <1>a. IsFiniteSet(networks)
    BY RequestsFinite, Smaller DEF TypeOK
  <1>b. /\ Cardinality(networks) \in Nat
        /\ peak \in Nat /\ entitlement.max \in Nat
        /\ entitlement.max <= peak
    BY <1>a, FS_CardinalityType, LimitNat DEF TypeOK, HistoryDominates
  <1>c. clock \in Int
    BY MaxClockNatural DEF TypeOK, Instant
  <1>1. ASSUME Quiet PROVE Goal
    <2>1. IsFiniteSet(rows')
      BY <1>1, Smaller
    <2>2. LiveAt(rows, clock)' = LiveAt(rows', clock')
      BY DEF LiveAt
    <2>3. LiveAt(rows', clock') \subseteq LiveAt(rows, clock)
      BY <1>0, <1>1, LiveAtMono DEF TypeOK
    <2>4. IsFiniteSet(LiveAt(rows, clock))
      BY Smaller DEF LiveAt
    <2>5. /\ Cardinality(networks') \in Nat
          /\ Cardinality(networks') <= Cardinality(networks)
      BY <1>a, <1>1, Smaller
    <2>6. /\ Cardinality(LiveAt(rows', clock')) \in Nat
          /\ Cardinality(LiveAt(rows, clock)) \in Nat
          /\ Cardinality(LiveAt(rows', clock')) <= Cardinality(LiveAt(rows, clock))
      BY <2>3, <2>4, Smaller
    <2>7. peak' \in Nat
      BY <1>0 DEF TypeOK
    <2>. QED
      BY <1>1, <1>b, <2>1, <2>2, <2>5, <2>6, <2>7 DEF QuotaRespected
  <1>2. ASSUME NEW r \in Requests, ReserveGranted(r)
        PROVE  Goal
    <2> DEFINE live == LiveAt(rows, stamp[r])
               new == [request |-> r, expiresAt |-> stamp[r] + TTL]
    <2>1. IsFiniteSet(live)
      BY Smaller DEF LiveAt
    <2>2. rows' = live \union {new}
      BY <1>2 DEF ReserveGranted
    <2>3. /\ IsFiniteSet(rows') /\ Cardinality(rows') \in Nat
          /\ Cardinality(rows') <= Cardinality(live) + 1
          /\ Cardinality(live) \in Nat
      BY <2>1, <2>2, AddOne
    <2>4. /\ Cardinality(LiveAt(rows', clock)) \in Nat
          /\ Cardinality(LiveAt(rows', clock)) <= Cardinality(rows')
      BY <2>3, Smaller DEF LiveAt
    <2>5. Cardinality(networks) + Cardinality(live) + 1 <= entitlement.max
      BY <1>2 DEF ReserveGranted, HasRoom
    <2>6. Cardinality(networks) + Cardinality(LiveAt(rows', clock)) <= peak
      BY <1>b, <2>3, <2>4, <2>5
    <2>7. networks' = networks /\ clock' = clock /\ peak' = peak
      BY <1>2 DEF ReserveGranted, historyVars
    <2>8. LiveAt(rows, clock)' = LiveAt(rows', clock)
      BY <2>7 DEF LiveAt
    <2>. QED
      BY <2>3, <2>6, <2>7, <2>8 DEF QuotaRespected
  <1>3. ASSUME NEW r \in Requests, ConsumeGranted(r)
        PROVE  Goal
    <2> DEFINE others == LiveAt(RowsWithout(r), stamp[r])
    <2>1. rows' = RowsWithout(r) /\ RowsWithout(r) \subseteq rows
      BY <1>3 DEF ConsumeGranted, RowsWithout
    <2>2. IsFiniteSet(rows')
      BY <2>1, Smaller
    <2>3. clock' = clock /\ peak' = peak /\ exempt' = exempt
      BY <1>3 DEF ConsumeGranted, historyVars
    <2>4. CASE entitlement.kind = "UNLIMITED"
      BY <2>2, <2>3, <2>4 DEF HistoryDominates, QuotaRespected
    <2>5. CASE HasRoom(others)
      <3>1. /\ Cardinality(networks') \in Nat
            /\ Cardinality(networks') <= Cardinality(networks) + 1
        BY <1>3, <1>a, AddOne DEF ConsumeGranted
      <3>2. LiveAt(rows', clock) \subseteq others
        BY <2>1, LiveAtMono DEF TypeOK, StampsArePast
      <3>3. IsFiniteSet(others)
        BY <2>1, <2>2, Smaller DEF LiveAt
      <3>4. /\ Cardinality(LiveAt(rows', clock)) \in Nat
            /\ Cardinality(others) \in Nat
            /\ Cardinality(LiveAt(rows', clock)) <= Cardinality(others)
        BY <3>2, <3>3, Smaller
      <3>5. Cardinality(networks') + Cardinality(LiveAt(rows', clock)) <= peak
        BY <1>b, <2>5, <3>1, <3>4 DEF HasRoom
      <3>6. LiveAt(rows, clock)' = LiveAt(rows', clock)
        BY <2>3 DEF LiveAt
      <3>. QED
        BY <2>2, <2>3, <3>5, <3>6 DEF QuotaRespected
    <2>. QED
      BY <1>3, <2>4, <2>5 DEF ConsumeGranted
  <1>4. ASSUME NEW r \in Requests, StoreUnreserved(r)
        PROVE  Goal
    BY <1>4 DEF StoreUnreserved, UnreservedIsExempt, QuotaRespected, historyVars
  <1>5. ASSUME NEW r \in Requests, RequestStep(r),
               ~ReserveGranted(r), ~ConsumeGranted(r), ~StoreUnreserved(r)
        PROVE  Quiet
    BY <1>5, <1>b, MaxClockNatural
       DEF RequestStep, StartReserve, ReserveUnlimited, ReserveRefused,
           ControllerCreate, ControllerFails, StartConsume, ConsumeRefused,
           Release, Abandon, DeleteNetwork, RowsWithout, LiveAt, requestVars,
           historyVars, TypeOK, Instant
  <1>6. ASSUME CleanupExpired \/ ChangeEntitlement \/ Tick \/ UNCHANGED vars
        PROVE  Quiet
    <2>1. CASE CleanupExpired
      BY <2>1, <1>b, MaxClockNatural
         DEF CleanupExpired, LiveAt, historyVars, TypeOK, Instant
    <2>2. CASE ChangeEntitlement
      <3>1. PICK e \in Entitlement :
               /\ peak' = IF e.max > peak THEN e.max ELSE peak
               /\ exempt' = (exempt \/ e.kind = "UNLIMITED")
        BY <2>2 DEF ChangeEntitlement
      <3>2. e.max \in Nat
        BY LimitNat
      <3>3. peak <= peak'
        BY <1>b, <3>1, <3>2
      <3>4. exempt => exempt'
        BY <3>1, Zenon
      <3>5. clock' = clock /\ networks' = networks /\ rows' = rows
        BY <2>2 DEF ChangeEntitlement, requestVars
      <3>6. clock <= clock'
        BY <3>5, <1>c
      <3>. QED
        BY <3>3, <3>4, <3>5, <3>6
    <2>3. CASE Tick
      BY <2>3, <1>b, MaxClockNatural
         DEF Tick, requestVars, historyVars, TypeOK, Instant
    <2>4. CASE UNCHANGED vars
      <3>1. /\ clock' = clock /\ networks' = networks /\ rows' = rows
            /\ peak' = peak /\ exempt' = exempt
        BY <2>4 DEF vars, requestVars, historyVars
      <3>. QED
        BY <3>1, <1>b, <1>c
    <2>. QED
      BY <1>6, <2>1, <2>2, <2>3, <2>4
  <1> HIDE DEF Goal, Quiet
  <1>7. CASE \E r \in Requests : RequestStep(r)
    <2>1. PICK r \in Requests : RequestStep(r)
      BY <1>7
    <2>. QED
      BY <1>1, <1>2, <1>3, <1>4, <1>5, <2>1
  <1>8. CASE CleanupExpired \/ ChangeEntitlement \/ Tick \/ UNCHANGED vars
    BY <1>1, <1>6, <1>8
  <1>. QED
    BY <1>7, <1>8 DEF Next

LEMMA QuotaInit == Init => QuotaInv
  <1> SUFFICES ASSUME Init PROVE QuotaInv
    OBVIOUS
  <1>1. Cardinality({}) = 0 /\ IsFiniteSet({})
    BY FS_EmptySet
  <1>2. entitlement.max \in Nat
    BY LimitNat DEF Init
  <1>3. TypeOK
    BY <1>2, TTLPositive, MaxClockNatural
       DEF Init, TypeOK, Phases, Instant, Row
  <1>4. StampsArePast /\ UnreservedIsExempt
    BY DEF Init, StampsArePast, UnreservedIsExempt
  <1>5. entitlement.max <= peak
    BY <1>2 DEF Init
  <1>6. entitlement.kind = "UNLIMITED" => exempt
    BY Zenon DEF Init
  <1>7. LiveAt(rows, clock) = {}
    BY DEF Init, LiveAt
  <1>8. QuotaRespected
    BY <1>1, <1>2, <1>7 DEF Init, QuotaRespected
  <1>. QED
    BY <1>1, <1>3, <1>4, <1>5, <1>6, <1>8 DEF QuotaInv, HistoryDominates, Init

\* Every reachable state is typed and satisfies the inductive invariant.
THEOREM QuotaInvariant == Spec => []QuotaInv
  <1>1. QuotaInv /\ [Next]_vars => QuotaInv'
    BY TypeStep, SupportStep, QuotaStep DEF QuotaInv
  <1>. QED
    BY QuotaInit, <1>1, PTL DEF Spec

\* The variables of the quota component keep their types.
THEOREM TypeCorrect == Spec => []TypeOK
  <1>1. QuotaInv => TypeOK
    BY DEF QuotaInv
  <1>. QED
    BY QuotaInvariant, <1>1, PTL

\* reserveNetworkQuota and consumeNetworkQuotaReservation keep the account
\* within the largest limit it was granted, for any number of requests.
THEOREM QuotaSafe == Spec => []QuotaRespected
  <1>1. QuotaInv => QuotaRespected
    BY DEF QuotaInv
  <1>. QED
    BY QuotaInvariant, <1>1, PTL
=============================================================================
