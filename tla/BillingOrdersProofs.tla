------------------------ MODULE BillingOrdersProofs ------------------------
(***************************************************************************)
(* For any number of orders, handlers, payloads and plan levels: the       *)
(* months of an order are added once.  The argument: entitlementAppliedAt  *)
(* never goes back, a worker reaches the stages after applyPaidOrder only  *)
(* behind it, and a worker about to record a payment was told of it by     *)
(* Alipay.  Then, a recorded payment is kept and an account is asked to    *)
(* pay once: both follow from how one row may change in one step.  An      *)
(* expired subscription gives no access.  And last, BillingOrders          *)
(* implements OrderLedger: initial states map to initial states, and each  *)
(* step moves one order as the ledger allows, or none.                     *)
(***************************************************************************)
EXTENDS BillingOrders, TLAPS

\* A worker that goes on to a stage with its order, or has none and may.
LEMMA GotoType ==
    ASSUME WorkOK, NEW w \in Workers, NEW stage \in Stages \ {"record"},
           Goto(w, stage),
           work[w].order = NoOrder => stage \in {"idle", "restore", "activate"}
    PROVE  WorkOK'
  BY DEF WorkOK, Goto, Work, Stages, Tasks, Idle

LEMMA FinishType == ASSUME WorkOK, NEW w \in Workers, Finish(w) PROVE WorkOK'
  BY DEF WorkOK, Finish, Work, Stages, Tasks, Idle

LEMMA StartType ==
    ASSUME WorkOK, NEW w \in Workers, NEW o \in Orders,
           NEW stage \in Stages \ {"record"}, Start(w, o, stage)
    PROVE  WorkOK'
  BY NoOrderFresh DEF WorkOK, Start, Work, Stages, Tasks, Idle

\* The stage of a worker tells whether it has an order.
LEMMA HasOrder ==
    ASSUME WorkOK, NEW w \in Workers,
           work[w].at \notin {"idle", "restore", "activate"}
    PROVE  work[w].order \in Orders
  BY DEF WorkOK, Work

\* Work stays well typed whatever the workers do.
LEMMA WorkStep == TypeOK /\ [Next]_vars => WorkOK'
  <1> SUFFICES ASSUME TypeOK, [Next]_vars PROVE WorkOK'
    OBVIOUS
  <1>0. WorkOK
    BY DEF TypeOK
  <1> USE <1>0
  <1>1. ASSUME NEW w \in Workers, RecordPayment(w) PROVE WorkOK'
    BY <1>1, HasOrder, GotoType, FinishType, NoOrderFresh
       DEF RecordPayment, At, Stages
  <1>2. ASSUME NEW w \in Workers, StartFulfil(w) PROVE WorkOK'
    BY <1>2, HasOrder, GotoType, FinishType, NoOrderFresh DEF StartFulfil, At, Stages
  <1>3. ASSUME NEW w \in Workers, ApplyPaidOrder(w) PROVE WorkOK'
    BY <1>3, GotoType DEF ApplyPaidOrder, Stages
  <1>4. ASSUME NEW w \in Workers, AlreadyApplied(w) PROVE WorkOK'
    BY <1>4, GotoType DEF AlreadyApplied, Stages
  <1>5. ASSUME NEW w \in Workers, ApplyRefused(w) PROVE WorkOK'
    BY <1>5, FinishType DEF ApplyRefused
  <1>a. ASSUME NEW w \in Workers, AfterRestore(w) PROVE WorkOK'
    BY <1>a, GotoType, FinishType DEF AfterRestore, Stages
  <1>6. ASSUME NEW w \in Workers, RestoreAccess(w) PROVE WorkOK'
    <2>1. CASE AfterRestore(w) \/ Finish(w)
      BY <2>1, <1>a, FinishType
    <2>2. CASE work' = [work EXCEPT ![w] = [Idle EXCEPT !.at = "activate",
                             !.order = work[w].order, !.now = clock]]
      <3>1. clock \in Nat /\ work[w].order \in Orders \union {NoOrder}
        BY DEF TypeOK, WorkOK, Work
      <3>. QED
        BY <2>2, <3>1 DEF WorkOK, Work, Stages, Tasks, Idle
    <2>. QED
      BY <1>6, <2>1, <2>2 DEF RestoreAccess
  <1>7. ASSUME NEW w \in Workers, Activate(w) PROVE WorkOK'
    BY <1>7, <1>a, FinishType DEF Activate
  <1>8. ASSUME NEW w \in Workers, MarkOrderFulfilled(w) PROVE WorkOK'
    BY <1>8, FinishType DEF MarkOrderFulfilled
  <1>b. ASSUME NEW w \in Workers, NEW known \in BOOLEAN, At(w, "ask"),
               AfterUnpaid(w, known)
        PROVE  WorkOK'
    BY <1>b, HasOrder, GotoType, FinishType, NoOrderFresh DEF AfterUnpaid, At, Stages
  <1>9. ASSUME NEW w \in Workers, AlipayAnswers(w) PROVE WorkOK'
    <2>1. work[w].order \in Orders
      BY <1>9, HasOrder DEF AlipayAnswers, At
    <2>2. CASE AfterUnpaid(w, FALSE) \/ AfterUnpaid(w, TRUE)
      BY <1>9, <2>2, <1>b DEF AlipayAnswers
    <2>3. CASE Goto(w, "close")
      BY <2>1, <2>3, GotoType, NoOrderFresh DEF Stages
    <2>4. ASSUME NEW e \in Events,
                 work' = [work EXCEPT ![w] = [Idle EXCEPT !.at = "record",
                              !.order = work[w].order, !.event = e]]
          PROVE  WorkOK'
      BY <2>1, <2>4, NoOrderFresh, NoEventFresh DEF WorkOK, Work, Stages, Tasks, Idle
    <2>. QED
      BY <1>9, <2>2, <2>3, <2>4 DEF AlipayAnswers
  <1>c. ASSUME NEW w \in Workers, NEW status, FulfilIfPaid(w, status),
               work[w].order \in Orders
        PROVE  WorkOK'
    BY <1>c, GotoType, FinishType, NoOrderFresh DEF FulfilIfPaid, Stages
  <1>10. ASSUME NEW w \in Workers, AlipayCloses(w) PROVE WorkOK'
    <2>1. work[w].order \in Orders
      BY <1>10, HasOrder DEF AlipayCloses, At
    <2>2. CASE Goto(w, "close") \/ FulfilIfPaid(w, order[work[w].order].status)
      BY <2>1, <2>2, <1>c, GotoType, NoOrderFresh DEF Stages
    <2>3. CASE work' = [work EXCEPT ![w] = [Idle EXCEPT !.at = "ask",
                             !.order = work[w].order, !.task = "check"]]
      BY <2>1, <2>3, NoOrderFresh DEF WorkOK, Work, Stages, Tasks, Idle
    <2>. QED
      BY <1>10, <2>2, <2>3 DEF AlipayCloses
  <1>11. ASSUME NEW w \in Workers, CloseLocally(w) PROVE WorkOK'
    BY <1>11, HasOrder, <1>c DEF CloseLocally, At
  <1>12. ASSUME NEW w \in Workers, CloseExpired(w) \/ WorkerFails(w) PROVE WorkOK'
    BY <1>12, FinishType DEF CloseExpired, WorkerFails
  <1>13. ASSUME NEW w \in Workers, NEW o \in Orders, NEW task \in Tasks,
                StartQuery(w, o, task)
         PROVE  WorkOK'
    <2>1. CASE work' = [work EXCEPT ![w] =
                   [Idle EXCEPT !.at = "ask", !.order = o, !.task = task]]
      BY <2>1, NoOrderFresh DEF WorkOK, Work, Stages, Tasks, Idle
    <2>2. CASE Start(w, o, "fulfil")
      BY <2>2, StartType DEF Stages
    <2>. QED
      BY <1>13, <2>1, <2>2 DEF StartQuery
  <1>14. ASSUME NEW h \in Handlers, HandlerStarts(h) PROVE WorkOK'
    <2>0. h \in Workers
      BY DEF Workers
    <2>1. ASSUME NEW o \in Orders, NEW l \in Levels, ManualRenew(h, o, l) PROVE WorkOK'
      BY <2>0, <2>1, StartType DEF ManualRenew, Stages
    <2>2. ASSUME NEW o \in Orders, NEW e \in Events, Notify(h, o, e) PROVE WorkOK'
      BY <2>0, <2>2, NoOrderFresh, NoEventFresh
         DEF Notify, WorkOK, Work, Stages, Tasks, Idle
    <2>3. ASSUME NEW o \in Orders, CheckOrder(h, o) \/ CancelOrder(h, o) PROVE WorkOK'
      BY <2>0, <2>3, <1>13 DEF CheckOrder, CancelOrder, Tasks
    <2>4. ASSUME NEW l \in Levels, AssignPlan(h, l) PROVE WorkOK'
      <3>1. CASE Start(h, NoOrder, "restore")
        BY <2>0, <3>1 DEF Start, WorkOK, Work, Stages, Tasks, Idle
      <3>2. CASE UNCHANGED work
        BY <3>2 DEF WorkOK
      <3>. QED
        BY <2>4, <3>1, <3>2 DEF AssignPlan
    <2>. QED
      BY <1>14, <2>1, <2>2, <2>3, <2>4 DEF HandlerStarts
  <1>15. CASE CronStarts
    <2>1. ASSUME NEW o \in Orders, ReconcileExpiredOrder(o) PROVE WorkOK'
      BY <2>1, <1>13 DEF ReconcileExpiredOrder, Workers, Tasks
    <2>2. ASSUME NEW o \in Orders, ReconcilePaidOrder(o) PROVE WorkOK'
      BY <2>2, StartType DEF ReconcilePaidOrder, Workers, Stages
    <2>. QED
      BY <1>15, <2>1, <2>2 DEF CronStarts
  <1>16. CASE CustomerStep \/ AccountStep \/ Tick \/ UNCHANGED vars
    BY <1>16 DEF CustomerStep, CreateOrder, OpenPaymentPage, CustomerPays,
                 TradeTimesOut, AccountStep, SuspendExpired, SuspensionCompletes,
                 AdminSuspends, AdminActivates, Tick, vars, WorkOK
  <1>. QED
    BY <1>1, <1>2, <1>3, <1>4, <1>5, <1>6, <1>7, <1>8, <1>9, <1>10, <1>11, <1>12,
       <1>14, <1>15, <1>16 DEF Next, WorkerStep

\* A row whose status changes, or that is marked as applied, is an order row.
LEMMA RowChange ==
    ASSUME TypeOK, NEW o \in Orders, NEW status \in Statuses
    PROVE  /\ [order EXCEPT ![o].status = status] \in [Orders -> Order]
           /\ [order EXCEPT ![o].applied = TRUE] \in [Orders -> Order]
           /\ order[o] \in Order
  <1>1. order \in [Orders -> Order]
    BY DEF TypeOK
  <1>2. [order[o] EXCEPT !.status = status] \in Order
    BY <1>1 DEF Order
  <1>3. [order[o] EXCEPT !.applied = TRUE] \in Order
    BY <1>1 DEF Order
  <1>. QED
    BY <1>1, <1>2, <1>3

\* A row that is created is an order row.
LEMMA RowCreation ==
    ASSUME TypeOK, NEW o \in Orders, NEW status \in Statuses,
           NEW manual \in BOOLEAN, NEW l \in Levels
    PROVE  [order EXCEPT ![o] = NewOrder(status, manual, l)] \in [Orders -> Order]
  <1>1. clock + OrderTTL \in Nat
    BY OrderTTLPositive DEF TypeOK
  <1>2. NewOrder(status, manual, l) \in Order
    BY <1>1 DEF NewOrder, Order
  <1>. QED
    BY <1>2 DEF TypeOK

\* The variables keep their types: statuses stay within those the code writes.
LEMMA TypeStep == TypeOK /\ [Next]_vars => TypeOK'
  <1> SUFFICES ASSUME TypeOK, [Next]_vars PROVE TypeOK'
    OBVIOUS
  <1>0. WorkOK'
    BY WorkStep
  <1> USE <1>0 DEF orderVars, accountVars
  <1>1. ASSUME NEW w \in Workers, RecordPayment(w) PROVE TypeOK'
    <2> DEFINE o == work[w].order
    <2>1. o \in Orders /\ work[w].event \in Events
      BY <1>1, HasOrder DEF RecordPayment, At, TypeOK, WorkOK, Work
    <2>2. RecordedStatus(o) \in Statuses /\ order[o].status \in Statuses
      BY <2>1, RowChange DEF RecordedStatus, Statuses, Order, TypeOK
    <2>3. order' \in [Orders -> Order]
      BY <1>1, <2>1, <2>2, RowChange DEF RecordPayment, TypeOK
    <2>4. processed' \in [Orders -> SUBSET Events]
      BY <1>1, <2>1 DEF RecordPayment, TypeOK
    <2>. QED
      BY <1>1, <2>3, <2>4 DEF RecordPayment, TypeOK
  <1>2. ASSUME NEW w \in Workers, ApplyPaidOrder(w) PROVE TypeOK'
    <2> DEFINE o == work[w].order
    <2>1. o \in Orders
      BY <1>2, HasOrder DEF ApplyPaidOrder, At, TypeOK
    <2>2. order' = [order EXCEPT ![o].applied = TRUE]
      BY <1>2 DEF ApplyPaidOrder
    <2>3. order' \in [Orders -> Order] /\ order[o] \in Order
      BY <2>1, <2>2, RowChange DEF TypeOK, Statuses
    <2>4. Greater(sub.expiresAt, clock) + Months \in Nat
      BY MonthsPositive DEF Greater, TypeOK, Subscription
    <2>5. sub' \in Subscription
      BY <1>2, <2>3, <2>4 DEF ApplyPaidOrder, Subscription, Order
    <2>6. granted' \in [Orders -> Nat]
      BY <1>2, <2>1 DEF ApplyPaidOrder, TypeOK
    <2>. QED
      BY <1>2, <2>3, <2>5, <2>6 DEF ApplyPaidOrder, TypeOK
  <1>3. ASSUME NEW w \in Workers,
               StartFulfil(w) \/ AlreadyApplied(w) \/ ApplyRefused(w)
                 \/ RestoreAccess(w) \/ AlipayAnswers(w) \/ WorkerFails(w)
        PROVE  TypeOK'
    BY <1>3 DEF StartFulfil, AlreadyApplied, ApplyRefused, RestoreAccess,
                AlipayAnswers, WorkerFails, TypeOK
  <1>4. ASSUME NEW w \in Workers, Activate(w) PROVE TypeOK'
    <2>1. user' \in {"ACTIVE", "EXPIRED", "ADMIN"}
      BY <1>4 DEF Activate, TypeOK
    <2>. QED
      BY <1>4, <2>1 DEF Activate, TypeOK
  <1>5. ASSUME NEW w \in Workers,
               MarkOrderFulfilled(w) \/ CloseLocally(w) \/ CloseExpired(w)
        PROVE  TypeOK'
    <2> DEFINE o == work[w].order
    <2>1. o \in Orders
      BY <1>5, HasOrder
         DEF MarkOrderFulfilled, CloseLocally, CloseExpired, At, TypeOK
    <2>2. order[o].status \in Statuses
      BY <2>1 DEF TypeOK, Order
    <2>3. PICK status \in Statuses : order' = [order EXCEPT ![o].status = status]
      BY <1>5, <2>2 DEF MarkOrderFulfilled, CloseLocally, CloseExpired, Statuses
    <2>4. order' \in [Orders -> Order]
      BY <2>1, <2>3, RowChange DEF TypeOK, Statuses
    <2>. QED
      BY <1>5, <2>4 DEF MarkOrderFulfilled, CloseLocally, CloseExpired, TypeOK
  <1>6. ASSUME NEW w \in Workers, AlipayCloses(w) PROVE TypeOK'
    <2>1. work[w].order \in Orders
      BY <1>6, HasOrder DEF AlipayCloses, At, TypeOK
    <2>2. trade' \in [Orders -> {"none", "waiting", "paid", "closed"}]
      BY <1>6, <2>1 DEF AlipayCloses, TypeOK
    <2>. QED
      BY <1>6, <2>2 DEF AlipayCloses, TypeOK
  <1>7. ASSUME NEW h \in Handlers, HandlerStarts(h) PROVE TypeOK'
    <2>1. ASSUME NEW o \in Orders, NEW l \in Levels, ManualRenew(h, o, l) PROVE TypeOK'
      <3>1. order' \in [Orders -> Order]
        BY <2>1, RowCreation DEF ManualRenew, Statuses
      <3>. QED
        BY <2>1, <3>1 DEF ManualRenew, TypeOK
    <2>2. ASSUME NEW o \in Orders, NEW e \in Events, Notify(h, o, e) PROVE TypeOK'
      BY <2>2 DEF Notify, TypeOK
    <2>3. ASSUME NEW o \in Orders, CheckOrder(h, o) \/ CancelOrder(h, o) PROVE TypeOK'
      BY <2>3 DEF CheckOrder, CancelOrder, StartQuery, TypeOK
    <2>4. ASSUME NEW l \in Levels, AssignPlan(h, l) PROVE TypeOK'
      <3>1. PICK t \in clock + 1 .. clock + Months :
              sub' = [status |-> "ACTIVE", level |-> l, expiresAt |-> t]
        BY <2>4 DEF AssignPlan
      <3>2. t \in Nat
        BY MonthsPositive DEF TypeOK
      <3>3. sub' \in Subscription
        BY <3>1, <3>2 DEF Subscription
      <3>. QED
        BY <2>4, <3>3 DEF AssignPlan, TypeOK
    <2>. QED
      BY <1>7, <2>1, <2>2, <2>3, <2>4 DEF HandlerStarts
  <1>8. CASE CronStarts
    BY <1>8 DEF CronStarts, ReconcileExpiredOrder, ReconcilePaidOrder, StartQuery, TypeOK
  <1>9. CASE CustomerStep
    <2>1. ASSUME NEW o \in Orders, NEW l \in Levels, CreateOrder(o, l) PROVE TypeOK'
      <3>1. order' \in [Orders -> Order]
        BY <2>1, RowCreation DEF CreateOrder, Statuses
      <3>. QED
        BY <2>1, <3>1 DEF CreateOrder, TypeOK
    <2>2. ASSUME NEW o \in Orders,
                 OpenPaymentPage(o) \/ CustomerPays(o) \/ TradeTimesOut(o)
          PROVE  TypeOK'
      BY <2>2 DEF OpenPaymentPage, CustomerPays, TradeTimesOut, TypeOK
    <2>. QED
      BY <1>9, <2>1, <2>2 DEF CustomerStep
  <1>10. CASE AccountStep
    <2>1. CASE SuspendExpired
      BY <2>1 DEF SuspendExpired, TypeOK, Subscription
    <2>2. CASE SuspensionCompletes \/ AdminSuspends \/ AdminActivates
      BY <2>2 DEF SuspensionCompletes, AdminSuspends, AdminActivates, TypeOK
    <2>. QED
      BY <1>10, <2>1, <2>2 DEF AccountStep
  <1>11. CASE Tick \/ UNCHANGED vars
    BY <1>11 DEF Tick, vars, TypeOK
  <1>. QED
    BY <1>1, <1>2, <1>3, <1>4, <1>5, <1>6, <1>7, <1>8, <1>9, <1>10, <1>11
       DEF Next, WorkerStep

-----------------------------------------------------------------------------
\* What the invariant says of the rows, without the workers.
RowInv ==
    /\ EntitlementMatchesOrder
    /\ UnappliedUntilPaid
    /\ TradeHasOrder
    /\ PaidIsCollected

\* Steps that leave orders, trades and credits alone.
LEMMA QuietRows ==
    ASSUME RowInv, order' = order, trade' = trade, granted' = granted
    PROVE  RowInv'
  BY DEF RowInv, EntitlementMatchesOrder, UnappliedUntilPaid, TradeHasOrder, PaidIsCollected

\* A status change of one row that was not paid for, or stays paid for.
LEMMA StatusRows ==
    ASSUME TypeOK, RowInv, NEW o \in Orders, NEW status \in Statuses,
           order' = [order EXCEPT ![o].status = status],
           trade' = trade, granted' = granted,
           status # "NONE",
           status = "FULFILLED" => order[o].applied,
           status \in {"PENDING", "CLOSED"} => ~order[o].applied,
           status \in {"PAID", "FULFILLED", "FAILED"} => order[o].manual \/ trade[o] = "paid",
           order[o].manual => status \in {"PAID", "FULFILLED", "FAILED"}
    PROVE  RowInv'
  <1> USE DEF TypeOK, Order, RowInv
  <1>1. \A p \in Orders :
           /\ order'[p].applied = order[p].applied
           /\ order'[p].manual = order[p].manual
           /\ order'[p].status = IF p = o THEN status ELSE order[p].status
    OBVIOUS
  <1>2. EntitlementMatchesOrder'
    BY <1>1 DEF EntitlementMatchesOrder
  <1>3. UnappliedUntilPaid'
    BY <1>1 DEF UnappliedUntilPaid
  <1>4. TradeHasOrder'
    BY <1>1 DEF TradeHasOrder
  <1>5. PaidIsCollected'
    BY <1>1 DEF PaidIsCollected
  <1>. QED
    BY <1>2, <1>3, <1>4, <1>5

\* A row that comes into being: unpaid, or paid by the administrator's word.
LEMMA CreatedRows ==
    ASSUME TypeOK, RowInv, NEW o \in Orders, NEW l \in Levels,
           NEW manual \in BOOLEAN, order[o].status = "NONE",
           order' = [order EXCEPT ![o] =
                        NewOrder(IF manual THEN "PAID" ELSE "PENDING", manual, l)],
           trade' = trade, granted' = granted
    PROVE  RowInv'
  <1> USE DEF TypeOK, RowInv
  <1>1. /\ ~order'[o].applied /\ order'[o].manual = manual
        /\ order'[o].status = IF manual THEN "PAID" ELSE "PENDING"
        /\ \A p \in Orders \ {o} : order'[p] = order[p]
    BY DEF NewOrder
  <1>2. ~order[o].applied /\ trade[o] = "none"
    BY DEF UnappliedUntilPaid, TradeHasOrder
  <1>3. EntitlementMatchesOrder'
    BY <1>1, <1>2 DEF EntitlementMatchesOrder
  <1>4. UnappliedUntilPaid'
    BY <1>1 DEF UnappliedUntilPaid
  <1>5. TradeHasOrder'
    BY <1>1, <1>2 DEF TradeHasOrder
  <1>6. PaidIsCollected'
    BY <1>1 DEF PaidIsCollected
  <1>. QED
    BY <1>3, <1>4, <1>5, <1>6

\* Alipay's view of one self-service order moves on, and never away from paid.
LEMMA TradeRows ==
    ASSUME TypeOK, RowInv, NEW o \in Orders, NEW s \in {"waiting", "paid", "closed"},
           order' = order, granted' = granted, trade' = [trade EXCEPT ![o] = s],
           order[o].status # "NONE", ~order[o].manual, trade[o] = "paid" => s = "paid"
    PROVE  RowInv'
  <1> USE DEF TypeOK, RowInv
  <1>1. EntitlementMatchesOrder' /\ UnappliedUntilPaid'
    BY DEF EntitlementMatchesOrder, UnappliedUntilPaid
  <1>2. TradeHasOrder'
    BY DEF TradeHasOrder
  <1>3. PaidIsCollected'
    BY DEF PaidIsCollected
  <1>. QED
    BY <1>1, <1>2, <1>3

\* The rows stay consistent: this is where EntitlementMatchesOrder is decided.
LEMMA RowStep == OrdersInv /\ [Next]_vars => RowInv'
  <1> SUFFICES ASSUME OrdersInv, [Next]_vars PROVE RowInv'
    OBVIOUS
  <1>0. TypeOK /\ WorkOK /\ RowInv /\ WorkIsBacked
    BY DEF OrdersInv, RowInv, TypeOK
  <1> USE <1>0
  <1>1. ASSUME NEW w \in Workers, RecordPayment(w) PROVE RowInv'
    <2> DEFINE o == work[w].order
               status == IF work[w].event \in processed[o] THEN order[o].status
                                                           ELSE RecordedStatus(o)
    <2>1. o \in Orders
      BY <1>1, HasOrder DEF RecordPayment, At
    <2>2. trade[o] = "paid"
      BY <1>1 DEF RecordPayment, At, WorkIsBacked
    <2>3. order[o].status \in Statuses /\ order[o].status # "NONE"
      BY <2>1, <2>2 DEF TypeOK, Order, RowInv, TradeHasOrder
    <2>4. /\ status \in Statuses /\ status # "NONE"
          /\ status = order[o].status \/ status \in {"PAID", "FAILED"}
      BY <2>3 DEF RecordedStatus, Statuses
    <2>5. /\ status = "FULFILLED" => order[o].applied
          /\ status \in {"PENDING", "CLOSED"} => ~order[o].applied
      BY <2>1, <2>4 DEF RowInv, EntitlementMatchesOrder, UnappliedUntilPaid
    <2>6. /\ order' = [order EXCEPT ![o].status = status]
          /\ trade' = trade /\ granted' = granted
      BY <1>1 DEF RecordPayment
    <2>7. ~order[o].manual
      BY <2>1, <2>2 DEF RowInv, TradeHasOrder
    <2> HIDE DEF status
    <2>. QED
      BY <2>1, <2>2, <2>4, <2>5, <2>6, <2>7, StatusRows
  <1>2. ASSUME NEW w \in Workers, ApplyPaidOrder(w) PROVE RowInv'
    <2> DEFINE o == work[w].order
    <2>1. o \in Orders
      BY <1>2, HasOrder DEF ApplyPaidOrder, At
    <2>2. /\ order[o].status = "PAID" /\ ~order[o].applied
          /\ order' = [order EXCEPT ![o].applied = TRUE]
          /\ granted' = [granted EXCEPT ![o] = @ + 1]
          /\ trade' = trade
      BY <1>2 DEF ApplyPaidOrder
    <2>3. \A p \in Orders :
             /\ order'[p].status = order[p].status
             /\ order'[p].manual = order[p].manual
             /\ p # o => order'[p].applied = order[p].applied
      BY <2>1, <2>2 DEF TypeOK, Order
    <2>4. granted[o] = 0
      BY <2>1, <2>2 DEF RowInv, EntitlementMatchesOrder
    <2>a. /\ order'[o].applied /\ granted'[o] = granted[o] + 1
          /\ \A p \in Orders \ {o} : order'[p] = order[p] /\ granted'[p] = granted[p]
      BY <2>1, <2>2 DEF TypeOK, Order
    <2>5. EntitlementMatchesOrder'
      BY <2>4, <2>a DEF RowInv, EntitlementMatchesOrder
    <2>6. (UnappliedUntilPaid /\ TradeHasOrder /\ PaidIsCollected)'
      BY <2>2, <2>3 DEF RowInv, UnappliedUntilPaid, TradeHasOrder, PaidIsCollected
    <2>. QED
      BY <2>5, <2>6 DEF RowInv
  <1>3. ASSUME NEW w \in Workers, MarkOrderFulfilled(w) PROVE RowInv'
    <2> DEFINE o == work[w].order
    <2>1. o \in Orders
      BY <1>3, HasOrder DEF MarkOrderFulfilled, At
    <2>2. order[o].applied
      BY <1>3, <2>1, NoOrderFresh DEF MarkOrderFulfilled, At, WorkIsBacked
    <2>3. order[o].manual \/ trade[o] = "paid"
      BY <2>1, <2>2 DEF RowInv, UnappliedUntilPaid, PaidIsCollected, TypeOK, Order, Statuses
    <2>. QED
      BY <1>3, <2>1, <2>2, <2>3, StatusRows DEF MarkOrderFulfilled, Statuses
  <1>4. ASSUME NEW w \in Workers, CloseLocally(w) \/ CloseExpired(w) PROVE RowInv'
    <2> DEFINE o == work[w].order
    <2>1. o \in Orders
      BY <1>4, HasOrder DEF CloseLocally, CloseExpired, At
    <2>2. /\ order' = [order EXCEPT ![o].status =
                           IF @ = "PENDING" THEN "CLOSED" ELSE @]
          /\ trade' = trade /\ granted' = granted
      BY <1>4 DEF CloseLocally, CloseExpired
    <2>3. CASE order[o].status = "PENDING"
      <3>1. ~order[o].applied /\ ~order[o].manual
        BY <2>1, <2>3 DEF RowInv, UnappliedUntilPaid, PaidIsCollected
      <3>. QED
        BY <2>1, <2>2, <2>3, <3>1, StatusRows DEF Statuses
    <2>4. CASE order[o].status # "PENDING"
      <3>1. order' = order
        BY <2>1, <2>2, <2>4 DEF TypeOK, Order
      <3>. QED
        BY <2>2, <3>1, QuietRows
    <2>. QED
      BY <2>3, <2>4
  <1>5. ASSUME NEW w \in Workers, AlipayCloses(w) PROVE RowInv'
    <2> DEFINE o == work[w].order
    <2>1. o \in Orders
      BY <1>5, HasOrder DEF AlipayCloses, At
    <2>2. CASE trade[o] = "waiting"
      BY <1>5, <2>1, <2>2, TradeRows
         DEF AlipayCloses, orderVars, RowInv, TradeHasOrder
    <2>3. CASE trade[o] # "waiting"
      <3>1. trade' = trade
        BY <1>5, <2>1, <2>3 DEF AlipayCloses, TypeOK
      <3>. QED
        BY <1>5, <3>1, QuietRows DEF AlipayCloses, orderVars
    <2>. QED
      BY <2>2, <2>3
  <1>6. ASSUME NEW w \in Workers,
               StartFulfil(w) \/ AlreadyApplied(w) \/ ApplyRefused(w) \/ RestoreAccess(w)
                 \/ Activate(w) \/ AlipayAnswers(w) \/ WorkerFails(w)
        PROVE  RowInv'
    BY <1>6, QuietRows DEF StartFulfil, AlreadyApplied, ApplyRefused, RestoreAccess,
                           Activate, AlipayAnswers, WorkerFails, orderVars
  <1>7. ASSUME NEW h \in Handlers, HandlerStarts(h) PROVE RowInv'
    <2>1. ASSUME NEW o \in Orders, NEW l \in Levels, ManualRenew(h, o, l) PROVE RowInv'
      BY <2>1, CreatedRows DEF ManualRenew
    <2>2. ASSUME NEW o \in Orders, NEW e \in Events, Notify(h, o, e) PROVE RowInv'
      BY <2>2, QuietRows DEF Notify, orderVars
    <2>3. ASSUME NEW o \in Orders, CheckOrder(h, o) \/ CancelOrder(h, o) PROVE RowInv'
      BY <2>3, QuietRows DEF CheckOrder, CancelOrder, StartQuery, orderVars
    <2>4. ASSUME NEW l \in Levels, AssignPlan(h, l) PROVE RowInv'
      BY <2>4, QuietRows DEF AssignPlan, orderVars
    <2>. QED
      BY <1>7, <2>1, <2>2, <2>3, <2>4 DEF HandlerStarts
  <1>8. CASE CronStarts
    BY <1>8, QuietRows
       DEF CronStarts, ReconcileExpiredOrder, ReconcilePaidOrder, StartQuery, orderVars
  <1>9. CASE CustomerStep
    <2>1. ASSUME NEW o \in Orders, NEW l \in Levels, CreateOrder(o, l) PROVE RowInv'
      BY <2>1, CreatedRows DEF CreateOrder
    <2>2. ASSUME NEW o \in Orders, OpenPaymentPage(o) PROVE RowInv'
      BY <2>2, TradeRows DEF OpenPaymentPage, orderVars
    <2>3. ASSUME NEW o \in Orders, CustomerPays(o) \/ TradeTimesOut(o) PROVE RowInv'
      <3>1. order[o].status # "NONE" /\ ~order[o].manual /\ trade[o] # "paid"
        BY <2>3 DEF CustomerPays, TradeTimesOut, RowInv, TradeHasOrder
      <3>2. PICK s \in {"waiting", "paid", "closed"} : trade' = [trade EXCEPT ![o] = s]
        BY <2>3 DEF CustomerPays, TradeTimesOut
      <3>3. order' = order /\ granted' = granted
        BY <2>3 DEF CustomerPays, TradeTimesOut, orderVars
      <3>. QED
        BY <3>1, <3>2, <3>3, TradeRows
    <2>. QED
      BY <1>9, <2>1, <2>2, <2>3 DEF CustomerStep
  <1>10. CASE AccountStep \/ Tick \/ UNCHANGED vars
    BY <1>10, QuietRows
       DEF AccountStep, SuspendExpired, SuspensionCompletes, AdminSuspends,
           AdminActivates, Tick, vars, orderVars
  <1>. QED
    BY <1>1, <1>2, <1>3, <1>4, <1>5, <1>6, <1>7, <1>8, <1>9, <1>10
       DEF Next, WorkerStep

-----------------------------------------------------------------------------
\* entitlementAppliedAt is never cleared and a paid trade stays paid.
Lasting ==
    \A o \in Orders :
        /\ order[o].applied => order'[o].applied
        /\ trade[o] = "paid" => trade'[o] = "paid"

LEMMA LastingStep == OrdersInv /\ [Next]_vars => Lasting
  <1> SUFFICES ASSUME OrdersInv, [Next]_vars PROVE Lasting
    OBVIOUS
  <1>0. TypeOK /\ WorkOK /\ UnappliedUntilPaid
    BY DEF OrdersInv, TypeOK
  <1> USE <1>0 DEF orderVars
  <1>1. ASSUME order' = order, trade' = trade PROVE Lasting
    BY <1>1 DEF Lasting
  <1>2. ASSUME NEW o \in Orders, NEW status,
               order' = [order EXCEPT ![o].status = status], trade' = trade
        PROVE  Lasting
    BY <1>2 DEF Lasting, TypeOK, Order
  <1>3. ASSUME NEW o \in Orders, order' = [order EXCEPT ![o].applied = TRUE],
               trade' = trade
        PROVE  Lasting
    BY <1>3 DEF Lasting, TypeOK, Order
  <1>4. ASSUME NEW o \in Orders, NEW row, order[o].status = "NONE",
               order' = [order EXCEPT ![o] = row], trade' = trade
        PROVE  Lasting
    BY <1>4 DEF Lasting, TypeOK, UnappliedUntilPaid
  <1>5. ASSUME NEW o \in Orders, NEW s, trade[o] = "paid" => s = "paid",
               trade' = [trade EXCEPT ![o] = s], order' = order
        PROVE  Lasting
    BY <1>5 DEF Lasting, TypeOK
  <1>6. ASSUME NEW w \in Workers, WorkerStep(w) \/ WorkerFails(w) PROVE Lasting
    <2> DEFINE o == work[w].order
    <2>1. CASE RecordPayment(w)
      <3>1. o \in Orders
        BY <2>1, HasOrder DEF RecordPayment, At
      <3>. QED
        BY <2>1, <3>1, <1>2 DEF RecordPayment
    <2>2. CASE ApplyPaidOrder(w)
      BY <2>2, <1>3, HasOrder DEF ApplyPaidOrder, At
    <2>3. CASE MarkOrderFulfilled(w)
      BY <2>3, <1>2, HasOrder DEF MarkOrderFulfilled, At
    <2>4. CASE CloseLocally(w) \/ CloseExpired(w)
      <3>1. o \in Orders
        BY <2>4, HasOrder DEF CloseLocally, CloseExpired, At
      <3>2. order' = [order EXCEPT ![o].status =
                         IF order[o].status = "PENDING" THEN "CLOSED" ELSE order[o].status]
        BY <2>4, <3>1 DEF CloseLocally, CloseExpired, TypeOK, Order
      <3>. QED
        BY <2>4, <3>1, <3>2, <1>2 DEF CloseLocally, CloseExpired
    <2>5. CASE AlipayCloses(w)
      <3>1. o \in Orders
        BY <2>5, HasOrder DEF AlipayCloses, At
      <3>2. trade' = [trade EXCEPT ![o] =
                         IF trade[o] = "waiting" THEN "closed" ELSE trade[o]]
        BY <2>5, <3>1 DEF AlipayCloses, TypeOK
      <3>. QED
        BY <2>5, <3>1, <3>2, <1>5 DEF AlipayCloses
    <2>6. CASE StartFulfil(w) \/ AlreadyApplied(w) \/ ApplyRefused(w) \/ RestoreAccess(w)
                 \/ Activate(w) \/ AlipayAnswers(w) \/ WorkerFails(w)
      BY <2>6, <1>1 DEF StartFulfil, AlreadyApplied, ApplyRefused, RestoreAccess,
                        Activate, AlipayAnswers, WorkerFails
    <2>. QED
      BY <1>6, <2>1, <2>2, <2>3, <2>4, <2>5, <2>6 DEF WorkerStep
  <1>7. ASSUME NEW h \in Handlers, HandlerStarts(h) PROVE Lasting
    <2>1. ASSUME NEW o \in Orders, NEW l \in Levels, ManualRenew(h, o, l) PROVE Lasting
      BY <2>1, <1>4 DEF ManualRenew
    <2>2. ASSUME order' = order, trade' = trade PROVE Lasting
      BY <2>2, <1>1
    <2>. QED
      BY <1>7, <2>1, <2>2
         DEF HandlerStarts, Notify, CheckOrder, CancelOrder, StartQuery, AssignPlan
  <1>8. CASE CustomerStep
    <2>1. ASSUME NEW o \in Orders, NEW l \in Levels, CreateOrder(o, l) PROVE Lasting
      BY <2>1, <1>4 DEF CreateOrder
    <2>2. ASSUME NEW o \in Orders,
                 OpenPaymentPage(o) \/ CustomerPays(o) \/ TradeTimesOut(o)
          PROVE  Lasting
      BY <2>2, <1>5 DEF OpenPaymentPage, CustomerPays, TradeTimesOut
    <2>. QED
      BY <1>8, <2>1, <2>2 DEF CustomerStep
  <1>9. CASE CronStarts \/ AccountStep \/ Tick \/ UNCHANGED vars
    BY <1>9, <1>1
       DEF CronStarts, ReconcileExpiredOrder, ReconcilePaidOrder, StartQuery,
           AccountStep, SuspendExpired, SuspensionCompletes, AdminSuspends,
           AdminActivates, Tick, vars
  <1>. QED
    BY <1>6, <1>7, <1>8, <1>9 DEF Next

\* A worker that moves on stays backed when its new stage is, and the others
\* do because what backs them lasts.
LEMMA BackedMove ==
    ASSUME WorkOK, WorkIsBacked, Lasting, NEW w \in Workers, NEW x \in Work,
           work' = [work EXCEPT ![w] = x],
           x.order = NoOrder => x.at \in {"idle", "restore", "activate"},
           x.at = "record" => trade'[x.order] = "paid",
           x.at \in {"restore", "activate", "mark"} /\ x.order # NoOrder
              => order'[x.order].applied
    PROVE  WorkIsBacked'
  <1> SUFFICES ASSUME NEW v \in Workers
               PROVE  /\ work'[v].at = "record" => trade'[work'[v].order] = "paid"
                      /\ work'[v].at \in {"restore", "activate", "mark"}
                            /\ work'[v].order # NoOrder
                         => order'[work'[v].order].applied
    BY DEF WorkIsBacked
  <1>1. CASE v = w
    BY <1>1 DEF WorkOK
  <1>2. CASE v # w
    <2>1. work'[v] = work[v]
      BY <1>2 DEF WorkOK
    <2>2. CASE work[v].order \in Orders
      BY <2>1, <2>2 DEF Lasting, WorkIsBacked
    <2>3. CASE work[v].order = NoOrder
      BY <2>1, <2>3 DEF WorkOK
    <2>. QED
      BY <2>2, <2>3 DEF WorkOK, Work
  <1>. QED
    BY <1>1, <1>2

LEMMA BackedGoto ==
    ASSUME WorkOK, WorkIsBacked, Lasting, NEW w \in Workers,
           NEW stage \in Stages \ {"record"}, Goto(w, stage),
           work[w].order = NoOrder => stage \in {"idle", "restore", "activate"},
           stage \in {"restore", "activate", "mark"} /\ work[w].order # NoOrder
              => order'[work[w].order].applied
    PROVE  WorkIsBacked'
  <1> DEFINE x == [Idle EXCEPT !.at = stage, !.order = work[w].order]
  <1>1. /\ x \in Work /\ x.at = stage /\ x.order = work[w].order
        /\ work' = [work EXCEPT ![w] = x]
    BY DEF Goto, WorkOK, Work, Idle, Tasks, Stages
  <1> HIDE DEF x
  <1>. QED
    BY <1>1, BackedMove

LEMMA BackedFinish ==
    ASSUME WorkOK, WorkIsBacked, Lasting, NEW w \in Workers, Finish(w)
    PROVE  WorkIsBacked'
  <1>1. Idle \in Work /\ Idle.at = "idle"
    BY DEF Idle, Work, Stages, Tasks
  <1>. QED
    BY <1>1, BackedMove DEF Finish

LEMMA BackedStart ==
    ASSUME WorkOK, WorkIsBacked, Lasting, NEW w \in Workers, NEW o \in Orders,
           NEW stage \in {"fulfil", "ask"}, NEW task \in Tasks,
           work' = [work EXCEPT ![w] =
                       [Idle EXCEPT !.at = stage, !.order = o, !.task = task]]
    PROVE  WorkIsBacked'
  <1> DEFINE x == [Idle EXCEPT !.at = stage, !.order = o, !.task = task]
  <1>1. /\ x \in Work /\ x.at = stage /\ x.order = o
        /\ work' = [work EXCEPT ![w] = x]
    BY DEF Work, Idle, Tasks, Stages
  <1> HIDE DEF x
  <1>. QED
    BY <1>1, BackedMove, NoOrderFresh

\* A worker that will record a payment learned of it from Alipay.
LEMMA BackedRecord ==
    ASSUME WorkOK, WorkIsBacked, Lasting, NEW w \in Workers, NEW o \in Orders,
           NEW e \in Events, trade'[o] = "paid",
           work' = [work EXCEPT ![w] =
                       [Idle EXCEPT !.at = "record", !.order = o, !.event = e]]
    PROVE  WorkIsBacked'
  <1> DEFINE x == [Idle EXCEPT !.at = "record", !.order = o, !.event = e]
  <1>1. /\ x \in Work /\ x.at = "record" /\ x.order = o
        /\ work' = [work EXCEPT ![w] = x]
    BY DEF Work, Idle, Tasks, Stages
  <1> HIDE DEF x
  <1>. QED
    BY <1>1, BackedMove, NoOrderFresh

LEMMA BackedStay ==
    ASSUME WorkOK, WorkIsBacked, Lasting, work' = work
    PROVE  WorkIsBacked'
  BY DEF WorkOK, Work, WorkIsBacked, Lasting

\* No worker passes applyPaidOrder without the mark being set.
LEMMA BackedStep == OrdersInv /\ [Next]_vars => WorkIsBacked'
  <1> SUFFICES ASSUME OrdersInv, [Next]_vars PROVE WorkIsBacked'
    OBVIOUS
  <1>0. TypeOK /\ WorkOK /\ EntitlementMatchesOrder /\ WorkIsBacked /\ Lasting
    BY LastingStep DEF OrdersInv, TypeOK
  <1> USE <1>0, NoOrderFresh DEF At
  <1>a. ASSUME NEW w \in Workers, NEW status, FulfilIfPaid(w, status),
               work[w].order \in Orders
        PROVE  WorkIsBacked'
    BY <1>a, BackedGoto, BackedFinish DEF FulfilIfPaid, Stages
  <1>b. ASSUME NEW w \in Workers, work[w].at \in {"restore", "activate"},
               AfterRestore(w)
        PROVE  WorkIsBacked'
    <2>1. CASE work[w].order = NoOrder
      BY <1>b, <2>1, BackedFinish DEF AfterRestore
    <2>2. CASE work[w].order # NoOrder
      <3>1. work[w].order \in Orders
        BY <2>2 DEF WorkOK, Work
      <3>2. order'[work[w].order].applied
        BY <1>b, <2>2, <3>1 DEF WorkIsBacked, Lasting
      <3>. QED
        BY <1>b, <2>2, <3>2, BackedGoto DEF AfterRestore, Stages
    <2>. QED
      BY <2>1, <2>2
  <1>1. ASSUME NEW w \in Workers, RecordPayment(w) PROVE WorkIsBacked'
    <2>1. work[w].order \in Orders
      BY <1>1, HasOrder DEF RecordPayment
    <2>2. CASE Finish(w)
      BY <2>2, BackedFinish
    <2>3. CASE Goto(w, "fulfil")
      BY <2>1, <2>3, BackedGoto DEF Stages
    <2>. QED
      BY <1>1, <2>2, <2>3 DEF RecordPayment
  <1>2. ASSUME NEW w \in Workers, StartFulfil(w) PROVE WorkIsBacked'
    BY <1>2, HasOrder, BackedGoto, BackedFinish DEF StartFulfil, Stages
  <1>3. ASSUME NEW w \in Workers, ApplyPaidOrder(w) PROVE WorkIsBacked'
    <2>1. work[w].order \in Orders
      BY <1>3, HasOrder DEF ApplyPaidOrder
    <2>2. order'[work[w].order].applied
      BY <1>3, <2>1 DEF ApplyPaidOrder, TypeOK, Order
    <2>. QED
      BY <1>3, <2>1, <2>2, BackedGoto DEF ApplyPaidOrder, Stages
  <1>4. ASSUME NEW w \in Workers, AlreadyApplied(w) PROVE WorkIsBacked'
    <2>1. work[w].order \in Orders
      BY <1>4, HasOrder DEF AlreadyApplied
    <2>2. order'[work[w].order].applied
      BY <1>4, <2>1 DEF AlreadyApplied, orderVars, EntitlementMatchesOrder
    <2>. QED
      BY <1>4, <2>1, <2>2, BackedGoto DEF AlreadyApplied, Stages
  <1>5. ASSUME NEW w \in Workers, ApplyRefused(w) \/ MarkOrderFulfilled(w)
                                     \/ CloseExpired(w) \/ WorkerFails(w)
        PROVE  WorkIsBacked'
    BY <1>5, BackedFinish DEF ApplyRefused, MarkOrderFulfilled, CloseExpired, WorkerFails
  <1>6. ASSUME NEW w \in Workers, RestoreAccess(w) PROVE WorkIsBacked'
    <2>1. CASE AfterRestore(w) \/ Finish(w)
      BY <1>6, <2>1, <1>b, BackedFinish DEF RestoreAccess
    <2>2. CASE work' = [work EXCEPT ![w] = [Idle EXCEPT !.at = "activate",
                             !.order = work[w].order, !.now = clock]]
      <3> DEFINE x == [Idle EXCEPT !.at = "activate", !.order = work[w].order, !.now = clock]
      <3>1. x \in Work /\ x.at = "activate" /\ x.order = work[w].order
        BY DEF TypeOK, WorkOK, Work, Idle, Tasks, Stages
      <3>2. x.order # NoOrder => order'[x.order].applied
        BY <1>6, <3>1 DEF RestoreAccess, orderVars, WorkIsBacked
      <3> HIDE DEF x
      <3>. QED
        BY <2>2, <3>1, <3>2, BackedMove DEF x
    <2>. QED
      BY <1>6, <2>1, <2>2 DEF RestoreAccess
  <1>7. ASSUME NEW w \in Workers, Activate(w) PROVE WorkIsBacked'
    BY <1>7, <1>b, BackedFinish DEF Activate
  <1>8. ASSUME NEW w \in Workers, AlipayAnswers(w) PROVE WorkIsBacked'
    <2>1. work[w].order \in Orders
      BY <1>8, HasOrder DEF AlipayAnswers
    <2>2. CASE AfterUnpaid(w, FALSE) \/ AfterUnpaid(w, TRUE) \/ Goto(w, "close")
      BY <2>1, <2>2, BackedGoto, BackedFinish DEF AfterUnpaid, Stages
    <2>3. ASSUME NEW e \in Events, trade[work[w].order] = "paid",
                 work' = [work EXCEPT ![w] = [Idle EXCEPT !.at = "record",
                              !.order = work[w].order, !.event = e]]
          PROVE  WorkIsBacked'
      BY <2>1, <2>3, BackedRecord DEF Lasting
    <2>. QED
      BY <1>8, <2>2, <2>3 DEF AlipayAnswers
  <1>9. ASSUME NEW w \in Workers, AlipayCloses(w) PROVE WorkIsBacked'
    <2>1. work[w].order \in Orders
      BY <1>9, HasOrder DEF AlipayCloses
    <2>2. CASE Goto(w, "close") \/ FulfilIfPaid(w, order[work[w].order].status)
      BY <2>1, <2>2, <1>a, BackedGoto DEF Stages
    <2>3. CASE work' = [work EXCEPT ![w] = [Idle EXCEPT !.at = "ask",
                             !.order = work[w].order, !.task = "check"]]
      BY <2>1, <2>3, BackedStart DEF Tasks
    <2>. QED
      BY <1>9, <2>2, <2>3 DEF AlipayCloses
  <1>10. ASSUME NEW w \in Workers, CloseLocally(w) PROVE WorkIsBacked'
    BY <1>10, <1>a, HasOrder DEF CloseLocally
  <1>c. ASSUME NEW w \in Workers, NEW o \in Orders, Start(w, o, "fulfil")
        PROVE  WorkIsBacked'
    <2> DEFINE x == [Idle EXCEPT !.at = "fulfil", !.order = o]
    <2>1. /\ x \in Work /\ x.at = "fulfil" /\ x.order = o
          /\ work' = [work EXCEPT ![w] = x]
      BY <1>c DEF Start, Work, Idle, Tasks, Stages
    <2> HIDE DEF x
    <2>. QED
      BY <2>1, BackedMove
  <1>d. ASSUME NEW w \in Workers, NEW o \in Orders, NEW task \in Tasks,
               StartQuery(w, o, task)
        PROVE  WorkIsBacked'
    BY <1>d, <1>c, BackedStart DEF StartQuery
  <1>11. ASSUME NEW h \in Handlers, HandlerStarts(h) PROVE WorkIsBacked'
    <2>0. h \in Workers
      BY DEF Workers
    <2>1. ASSUME NEW o \in Orders, NEW l \in Levels, ManualRenew(h, o, l)
          PROVE  WorkIsBacked'
      BY <2>0, <2>1, <1>c DEF ManualRenew
    <2>2. ASSUME NEW o \in Orders, NEW e \in Events, Notify(h, o, e)
          PROVE  WorkIsBacked'
      BY <2>0, <2>2, BackedRecord DEF Notify
    <2>3. ASSUME NEW o \in Orders, CheckOrder(h, o) \/ CancelOrder(h, o)
          PROVE  WorkIsBacked'
      BY <2>0, <2>3, <1>d DEF CheckOrder, CancelOrder, Tasks
    <2>4. ASSUME NEW l \in Levels, AssignPlan(h, l) PROVE WorkIsBacked'
      <3> DEFINE x == [Idle EXCEPT !.at = "restore", !.order = NoOrder]
      <3>1. x \in Work /\ x.at = "restore" /\ x.order = NoOrder
        BY DEF Work, Idle, Tasks, Stages
      <3>2. work' = [work EXCEPT ![h] = x] \/ work' = work
        BY <2>4 DEF AssignPlan, Start
      <3> HIDE DEF x
      <3>. QED
        BY <2>0, <3>1, <3>2, BackedMove, BackedStay
    <2>. QED
      BY <1>11, <2>1, <2>2, <2>3, <2>4 DEF HandlerStarts
  <1>12. CASE CronStarts
    BY <1>12, <1>c, <1>d
       DEF CronStarts, ReconcileExpiredOrder, ReconcilePaidOrder, Workers, Tasks
  <1>13. CASE CustomerStep \/ AccountStep \/ Tick \/ UNCHANGED vars
    BY <1>13, BackedStay
       DEF CustomerStep, CreateOrder, OpenPaymentPage, CustomerPays, TradeTimesOut,
           AccountStep, SuspendExpired, SuspensionCompletes, AdminSuspends,
           AdminActivates, Tick, vars
  <1>. QED
    BY <1>1, <1>2, <1>3, <1>4, <1>5, <1>6, <1>7, <1>8, <1>9, <1>10, <1>11, <1>12,
       <1>13 DEF Next, WorkerStep

LEMMA OrdersInit == Init => OrdersInv
  <1> SUFFICES ASSUME Init PROVE OrdersInv
    OBVIOUS
  <1>1. Idle \in Work /\ Idle.at = "idle"
    BY DEF Work, Stages, Tasks, Idle
  <1>2. WorkOK /\ WorkIsBacked
    BY <1>1 DEF Init, WorkOK, WorkIsBacked
  <1>3. order \in [Orders -> Order]
    BY DEF Init, Order, Statuses
  <1>4. sub \in Subscription
    BY DEF Init, Subscription
  <1>5. TypeOK
    BY <1>2, <1>3, <1>4 DEF Init, TypeOK
  <1>6. EntitlementMatchesOrder /\ UnappliedUntilPaid
    BY DEF Init, EntitlementMatchesOrder, UnappliedUntilPaid
  <1>7. TradeHasOrder /\ PaidIsCollected
    BY DEF Init, TradeHasOrder, PaidIsCollected
  <1>. QED
    BY <1>2, <1>5, <1>6, <1>7 DEF OrdersInv

\* Every reachable state satisfies the inductive invariant.
THEOREM OrdersInvariant == Spec => []OrdersInv
  <1>1. OrdersInv /\ [Next]_vars => OrdersInv'
    BY TypeStep, RowStep, BackedStep DEF OrdersInv, RowInv
  <1>. QED
    BY OrdersInit, <1>1, PTL DEF Spec

\* The variables of the orders component keep their types.
THEOREM OrdersTypeCorrect == Spec => []TypeOK
  <1>1. OrdersInv => TypeOK
    BY DEF OrdersInv
  <1>. QED
    BY OrdersInvariant, <1>1, PTL

\* The months of a paid order are added exactly once, and an order that is
\* FULFILLED was applied, for any number of orders, payloads and handlers.
THEOREM EntitlementOnce == Spec => []EntitlementMatchesOrder
  <1>1. OrdersInv => EntitlementMatchesOrder
    BY DEF OrdersInv
  <1>. QED
    BY OrdersInvariant, <1>1, PTL

-----------------------------------------------------------------------------
(* How one row may change in one step.                                     *)

Settled == {"PAID", "FULFILLED", "FAILED"}

\* What a step may do to the row of an order: a settled row stays settled, a
\* payment is recorded with a row that is settled by then, and a row that can
\* still be paid is not new unless there was none.
RowEvolves(o) ==
    /\ order[o].status \in Settled => order'[o].status \in Settled
    /\ processed'[o] # {} => processed[o] # {} \/ order'[o].status \in Settled
    /\ LivePending(o)' => LivePending(o) \/ \A p \in Orders : ~LivePending(p)

\* At most one row becomes one that can be paid.
OneRowChanges ==
    \/ \A o \in Orders : LivePending(o)' => LivePending(o)
    \/ \E o \in Orders : \A p \in Orders \ {o} : LivePending(p)' => LivePending(p)

Evolves == OneRowChanges /\ \A o \in Orders : RowEvolves(o)

\* Time alone makes no row payable.
LEMMA RowsUntouched ==
    ASSUME TypeOK, order' = order, processed' = processed,
           clock' = clock \/ clock' = clock + 1
    PROVE  Evolves
  <1>1. ASSUME NEW o \in Orders PROVE LivePending(o)' => LivePending(o)
    <2>1. order[o].deadline \in Nat /\ clock \in Nat
      BY DEF TypeOK, Order
    <2>. QED
      BY <2>1 DEF LivePending
  <1>. QED
    BY <1>1 DEF Evolves, OneRowChanges, RowEvolves

\* Nor does a new status other than PENDING.
LEMMA StatusEvolves ==
    ASSUME TypeOK, NEW o \in Orders, NEW status,
           order' = [order EXCEPT ![o].status = status], clock' = clock,
           status = "PENDING" => order[o].status = "PENDING",
           order[o].status \in Settled => status \in Settled,
           \A p \in Orders : processed'[p] # {} =>
              processed[p] # {} \/ (p = o /\ status \in Settled)
    PROVE  Evolves
  <1>1. \A p \in Orders :
           /\ order'[p].status = IF p = o THEN status ELSE order[p].status
           /\ order'[p].manual = order[p].manual
           /\ order'[p].deadline = order[p].deadline
    BY DEF TypeOK, Order
  <1>2. \A p \in Orders : LivePending(p)' => LivePending(p)
    BY <1>1 DEF LivePending
  <1>. QED
    BY <1>1, <1>2 DEF Evolves, OneRowChanges, RowEvolves

\* A row that comes into being is the only one that can be paid.
LEMMA CreationEvolves ==
    ASSUME TypeOK, NEW o \in Orders, NEW row \in Order, order[o].status = "NONE",
           order' = [order EXCEPT ![o] = row], processed' = processed, clock' = clock,
           row.status = "PAID" \/ \A p \in Orders : ~LivePending(p)
    PROVE  Evolves
  <1>1. order'[o] = row /\ \A p \in Orders \ {o} : order'[p] = order[p]
    BY DEF TypeOK
  <1>2. \A p \in Orders \ {o} : LivePending(p)' => LivePending(p)
    BY <1>1 DEF LivePending
  <1>3. LivePending(o)' => \A p \in Orders : ~LivePending(p)
    BY <1>1 DEF LivePending
  <1>4. order[o].status \notin Settled
    BY DEF Settled
  <1>. QED
    BY <1>1, <1>2, <1>3, <1>4 DEF Evolves, OneRowChanges, RowEvolves

\* Every step changes the rows in this way.
LEMMA EvolvesStep == OrdersInv /\ [Next]_vars => Evolves
  <1> SUFFICES ASSUME OrdersInv, [Next]_vars PROVE Evolves
    OBVIOUS
  <1>0. TypeOK /\ WorkOK
    BY DEF OrdersInv, TypeOK
  <1> USE <1>0 DEF orderVars
  <1>1. ASSUME order' = order, processed' = processed, clock' = clock PROVE Evolves
    BY <1>1, RowsUntouched
  <1>2. ASSUME NEW w \in Workers, WorkerStep(w) \/ WorkerFails(w) PROVE Evolves
    <2> DEFINE o == work[w].order
    <2>1. CASE RecordPayment(w)
      <3> DEFINE status == IF work[w].event \in processed[o] THEN order[o].status
                                                             ELSE RecordedStatus(o)
      <3>1. o \in Orders
        BY <2>1, HasOrder DEF RecordPayment, At
      <3>2. /\ order' = [order EXCEPT ![o].status = status] /\ clock' = clock
            /\ processed' = [processed EXCEPT ![o] = @ \union {work[w].event}]
        BY <2>1 DEF RecordPayment
      <3>3. CASE work[w].event \in processed[o]
        <4>1. status = order[o].status
          BY <3>3
        <4>2. \A p \in Orders : processed'[p] # {} => processed[p] # {}
          BY <3>1, <3>2, <3>3 DEF TypeOK
        <4> HIDE DEF status
        <4>. QED
          BY <3>1, <3>2, <4>1, <4>2, StatusEvolves
      <3>4. CASE work[w].event \notin processed[o]
        <4>1. status \in Settled
          BY <3>4 DEF RecordedStatus, Settled
        <4>2. \A p \in Orders : processed'[p] # {} => processed[p] # {} \/ p = o
          BY <3>1, <3>2 DEF TypeOK
        <4>3. status # "PENDING"
          BY <4>1 DEF Settled
        <4> HIDE DEF status
        <4>. QED
          BY <3>1, <3>2, <4>1, <4>2, <4>3, StatusEvolves
      <3>. QED
        BY <3>3, <3>4
    <2>2. CASE ApplyPaidOrder(w)
      <3>1. /\ o \in Orders /\ order' = [order EXCEPT ![o].applied = TRUE]
            /\ clock' = clock /\ processed' = processed
        BY <2>2, HasOrder DEF ApplyPaidOrder, At
      <3>2. \A p \in Orders : /\ order'[p].status = order[p].status
                              /\ order'[p].manual = order[p].manual
                              /\ order'[p].deadline = order[p].deadline
        BY <3>1 DEF TypeOK, Order
      <3>. QED
        BY <3>1, <3>2 DEF Evolves, OneRowChanges, RowEvolves, LivePending
    <2>3. CASE MarkOrderFulfilled(w)
      <3>1. o \in Orders
        BY <2>3, HasOrder DEF MarkOrderFulfilled, At
      <3>. QED
        BY <2>3, <3>1, StatusEvolves DEF MarkOrderFulfilled, Settled
    <2>4. CASE CloseLocally(w) \/ CloseExpired(w)
      <3>1. o \in Orders
        BY <2>4, HasOrder DEF CloseLocally, CloseExpired, At
      <3>2. order' = [order EXCEPT ![o].status =
                         IF order[o].status = "PENDING" THEN "CLOSED" ELSE order[o].status]
        BY <2>4, <3>1 DEF CloseLocally, CloseExpired, TypeOK, Order
      <3>3. processed' = processed /\ clock' = clock
        BY <2>4 DEF CloseLocally, CloseExpired
      <3>. QED
        BY <3>1, <3>2, <3>3, StatusEvolves DEF Settled
    <2>5. CASE StartFulfil(w) \/ AlreadyApplied(w) \/ ApplyRefused(w) \/ RestoreAccess(w)
                 \/ Activate(w) \/ AlipayAnswers(w) \/ AlipayCloses(w) \/ WorkerFails(w)
      BY <2>5, <1>1 DEF StartFulfil, AlreadyApplied, ApplyRefused, RestoreAccess,
                        Activate, AlipayAnswers, AlipayCloses, WorkerFails
    <2>. QED
      BY <1>2, <2>1, <2>2, <2>3, <2>4, <2>5 DEF WorkerStep
  <1>3. ASSUME NEW manual \in BOOLEAN, NEW l \in Levels
        PROVE  NewOrder(IF manual THEN "PAID" ELSE "PENDING", manual, l) \in Order
    <2>1. clock + OrderTTL \in Nat
      BY OrderTTLPositive DEF TypeOK
    <2>. QED
      BY <2>1 DEF NewOrder, Order, Statuses
  <1>4. ASSUME NEW h \in Handlers, HandlerStarts(h) PROVE Evolves
    <2>1. ASSUME NEW o \in Orders, NEW l \in Levels, ManualRenew(h, o, l) PROVE Evolves
      <3>1. /\ order[o].status = "NONE" /\ NewOrder("PAID", TRUE, l) \in Order
            /\ order' = [order EXCEPT ![o] = NewOrder("PAID", TRUE, l)]
            /\ processed' = processed /\ clock' = clock
        BY <2>1, <1>3 DEF ManualRenew
      <3>2. NewOrder("PAID", TRUE, l).status = "PAID"
        BY DEF NewOrder
      <3>. QED
        BY <3>1, <3>2, CreationEvolves
    <2>2. ASSUME order' = order, processed' = processed, clock' = clock PROVE Evolves
      BY <2>2, <1>1
    <2>. QED
      BY <1>4, <2>1, <2>2
         DEF HandlerStarts, Notify, CheckOrder, CancelOrder, StartQuery, AssignPlan
  <1>5. CASE CustomerStep
    <2>1. ASSUME NEW o \in Orders, NEW l \in Levels, CreateOrder(o, l) PROVE Evolves
      <3>1. /\ order[o].status = "NONE" /\ NewOrder("PENDING", FALSE, l) \in Order
            /\ order' = [order EXCEPT ![o] = NewOrder("PENDING", FALSE, l)]
            /\ processed' = processed /\ clock' = clock
            /\ \A p \in Orders : ~LivePending(p)
        BY <2>1, <1>3 DEF CreateOrder
      <3>. QED
        BY <3>1, CreationEvolves
    <2>2. ASSUME NEW o \in Orders,
                 OpenPaymentPage(o) \/ CustomerPays(o) \/ TradeTimesOut(o)
          PROVE  Evolves
      BY <2>2, <1>1 DEF OpenPaymentPage, CustomerPays, TradeTimesOut
    <2>. QED
      BY <1>5, <2>1, <2>2 DEF CustomerStep
  <1>6. CASE CronStarts \/ AccountStep \/ UNCHANGED vars
    BY <1>6, <1>1
       DEF CronStarts, ReconcileExpiredOrder, ReconcilePaidOrder, StartQuery,
           AccountStep, SuspendExpired, SuspensionCompletes, AdminSuspends,
           AdminActivates, vars
  <1>7. CASE Tick
    BY <1>7, RowsUntouched DEF Tick
  <1>. QED
    BY <1>2, <1>4, <1>5, <1>6, <1>7 DEF Next

\* The inductive invariant of the orders holds at first and after every step.
LEMMA OrdersStep == OrdersInv /\ [Next]_vars => OrdersInv'
  BY TypeStep, RowStep, BackedStep DEF OrdersInv, RowInv

(* An order whose payment was recorded is never closed as unpaid, whoever  *)
(* cancels or expires it on the strength of an older read                  *)
(* (payment.ts, closePendingOrderLocally, and the minute job).             *)
THEOREM RecordedPaymentIsKept == Spec => []RecordedPaymentKept
  <1>1. Init => RecordedPaymentKept
    BY DEF Init, RecordedPaymentKept
  <1>2. OrdersInv /\ RecordedPaymentKept /\ [Next]_vars => RecordedPaymentKept'
    <2> SUFFICES ASSUME OrdersInv, RecordedPaymentKept, [Next]_vars, NEW o \in Orders,
                        processed'[o] # {}
                 PROVE  order'[o].status \in Settled
      BY DEF RecordedPaymentKept, Settled
    <2>1. RowEvolves(o)
      BY EvolvesStep DEF Evolves
    <2>. QED
      BY <2>1 DEF RowEvolves, RecordedPaymentKept, Settled
  <1>. QED
    BY <1>1, <1>2, OrdersInvariant, PTL DEF Spec

(* There is at most one unpaid order of the account that can still be paid *)
(* (billingRouter.ts createOrder).                                         *)
THEOREM OneOrderIsLive == Spec => []OneLiveOrder
  <1>1. Init => OneLiveOrder
    BY DEF Init, OneLiveOrder, LivePending
  <1>2. OrdersInv /\ OneLiveOrder /\ [Next]_vars => OneLiveOrder'
    <2> SUFFICES ASSUME OrdersInv, OneLiveOrder, [Next]_vars,
                        NEW o \in Orders, NEW p \in Orders,
                        LivePending(o)', LivePending(p)'
                 PROVE  o = p
      BY DEF OneLiveOrder
    <2>1. OneRowChanges /\ RowEvolves(o) /\ RowEvolves(p)
      BY EvolvesStep DEF Evolves
    <2>2. CASE LivePending(o) /\ LivePending(p)
      BY <2>2 DEF OneLiveOrder
    <2>3. CASE \A q \in Orders : ~LivePending(q)
      BY <2>1, <2>3 DEF OneRowChanges
    <2>. QED
      BY <2>1, <2>2, <2>3 DEF RowEvolves
  <1>. QED
    BY <1>1, <1>2, OrdersStep, OrdersInit, PTL DEF Spec

(* While the subscription is EXPIRED nobody has access, although workers   *)
(* restore it with what they read before the expiry (suspension.ts).       *)
THEOREM ExpiryEndsAccess == Spec => []NoAccessAfterExpiry
  <1>1. Init => NoAccessAfterExpiry
    BY DEF Init, NoAccessAfterExpiry
  <1>2. NoAccessAfterExpiry /\ [Next]_vars => NoAccessAfterExpiry'
    <2> SUFFICES ASSUME NoAccessAfterExpiry, [Next]_vars PROVE NoAccessAfterExpiry'
      OBVIOUS
    <2> USE DEF NoAccessAfterExpiry, accountVars
    <2>1. ASSUME sub' = sub, user' = user PROVE NoAccessAfterExpiry'
      BY <2>1
    <2>2. ASSUME sub'.status = "ACTIVE" PROVE NoAccessAfterExpiry'
      BY <2>2
    <2>3. ASSUME NEW w \in Workers, ApplyPaidOrder(w) PROVE NoAccessAfterExpiry'
      BY <2>3 DEF ApplyPaidOrder
    <2>4. ASSUME NEW w \in Workers, Activate(w) PROVE NoAccessAfterExpiry'
      BY <2>4 DEF Activate, CurrentAt
    <2>5. ASSUME NEW w \in Workers, WorkerStep(w) \/ WorkerFails(w),
                 ~ApplyPaidOrder(w), ~Activate(w)
          PROVE  NoAccessAfterExpiry'
      BY <2>5, <2>1 DEF WorkerStep, RecordPayment, StartFulfil, AlreadyApplied,
         ApplyRefused, RestoreAccess, MarkOrderFulfilled, AlipayAnswers, AlipayCloses,
         CloseLocally, CloseExpired, WorkerFails
    <2>6. ASSUME NEW h \in Handlers, HandlerStarts(h) PROVE NoAccessAfterExpiry'
      <3>1. ASSUME NEW l \in Levels, AssignPlan(h, l) PROVE NoAccessAfterExpiry'
        BY <3>1 DEF AssignPlan
      <3>. QED
        BY <2>6, <2>1, <3>1
           DEF HandlerStarts, ManualRenew, Notify, CheckOrder, CancelOrder, StartQuery
    <2>7. CASE CustomerStep \/ CronStarts \/ Tick \/ UNCHANGED vars
      BY <2>7, <2>1 DEF CustomerStep, CreateOrder, OpenPaymentPage, CustomerPays,
         TradeTimesOut, CronStarts, ReconcileExpiredOrder, ReconcilePaidOrder,
         StartQuery, Tick, vars
    <2>8. CASE AccountStep
      BY <2>8 DEF AccountStep, SuspendExpired, SuspensionCompletes, AdminSuspends,
         AdminActivates, CurrentAt
    <2>. QED
      BY <2>3, <2>4, <2>5, <2>6, <2>7, <2>8 DEF Next
  <1>. QED
    BY <1>1, <1>2, PTL DEF Spec

-----------------------------------------------------------------------------
\* The two abstract variables.
L == [o \in Orders |-> Standing(o)]
C == {o \in Orders : trade[o] = "paid" \/ order[o].manual}

\* What a step must do to the abstract variables.
Moved(o, from, to) ==
    /\ L[o] \in from
    /\ Standing(o)' = to
    /\ \A p \in Orders \ {o} : Standing(p)' = Standing(p)

Simulates == [Ledger!LedgerNext]_(Ledger!ledgerVars)

LEMMA Stutters ==
    ASSUME \A p \in Orders : Standing(p)' = Standing(p), C' = C
    PROVE  Simulates
  <1>1. L' = L
    BY DEF L
  <1>. QED
    BY <1>1 DEF Simulates, Ledger!ledgerVars, L, C

\* One order moves and nothing is collected.
LEMMA MovesOne ==
    ASSUME NEW o \in Orders, NEW to, C' = C,
           \/ Moved(o, {"none"}, to) /\ to = "open"
           \/ Moved(o, {"open"}, to) /\ to = "void"
           \/ Moved(o, {"open", "void"}, to) /\ to = "due" /\ o \in C
           \/ Moved(o, {"due"}, to) /\ to = "granted"
           \/ Moved(o, {"open", "void", "due"}, to) /\ to = "refused" /\ o \in C
    PROVE  Simulates
  <1>1. L' = [L EXCEPT ![o] = to]
    BY DEF Moved, L
  <1>2. Ledger!LedgerStep(o)
    BY <1>1 DEF Ledger!LedgerStep, Ledger!Open, Ledger!Lapse, Ledger!Acknowledge,
                Ledger!Grant, Ledger!Refuse, Ledger!Moves, Moved, L, C
  <1>. QED
    BY <1>2 DEF Simulates, Ledger!LedgerNext

\* A step that changes neither orders nor what Alipay reports as paid.
LEMMA QuietSimulates ==
    ASSUME order' = order,
           \A o \in Orders : trade'[o] = "paid" <=> trade[o] = "paid"
    PROVE  Simulates
  <1>1. \A o \in Orders : Standing(o)' = Standing(o)
    BY DEF Standing
  <1>2. C' = C
    BY DEF C
  <1>. QED
    BY <1>1, <1>2, Stutters

\* A step that writes the status of one order.
LEMMA StatusSimulates ==
    ASSUME OrdersInv, NEW o \in Orders, NEW status \in Statuses,
           order' = [order EXCEPT ![o].status = status], trade' = trade,
           \/ order[o].applied
           \/ status = order[o].status
           \/ order[o].status = "PENDING" /\ status = "CLOSED"
           \/ /\ order[o].status \in {"PENDING", "CLOSED", "PAID"}
              /\ status \in {"PAID", "FAILED"} /\ trade[o] = "paid"
    PROVE  Simulates
  <1>1. \A p \in Orders :
           /\ order'[p].applied = order[p].applied
           /\ order'[p].manual = order[p].manual
           /\ order'[p].status = IF p = o THEN status ELSE order[p].status
    BY DEF OrdersInv, TypeOK, Order
  <1>2. C' = C
    BY <1>1 DEF C
  <1>3. \A p \in Orders \ {o} : Standing(p)' = Standing(p)
    BY <1>1 DEF Standing
  <1>4. CASE order[o].applied \/ status = order[o].status
    <2>1. CASE order[o].applied
      <3>1. order'[o].applied
        BY <1>1, <2>1
      <3>2. Standing(o)' = "granted" /\ Standing(o) = "granted"
        BY <2>1, <3>1 DEF Standing
      <3>. QED
        BY <1>2, <1>3, <3>2, Stutters
    <2>2. CASE status = order[o].status
      <3>1. order' = order
        BY <2>2 DEF OrdersInv, TypeOK, Order
      <3>. QED
        BY <3>1, QuietSimulates
    <2>. QED
      BY <1>4, <2>1, <2>2
  <1>5. CASE ~order[o].applied /\ order[o].status = "PENDING" /\ status = "CLOSED"
    <2>1. Moved(o, {"open"}, "void")
      BY <1>1, <1>3, <1>5 DEF Moved, L, Standing
    <2>. QED
      BY <1>2, <2>1, MovesOne
  <1>6. CASE /\ ~order[o].applied /\ trade[o] = "paid"
             /\ order[o].status \in {"PENDING", "CLOSED"} /\ status = "PAID"
    <2>1. Moved(o, {"open", "void"}, "due") /\ o \in C
      BY <1>1, <1>3, <1>6 DEF Moved, L, C, Standing
    <2>. QED
      BY <1>2, <2>1, MovesOne
  <1>7. CASE /\ ~order[o].applied /\ trade[o] = "paid"
             /\ order[o].status \in {"PENDING", "CLOSED", "PAID"} /\ status = "FAILED"
    <2>1. Moved(o, {"open", "void", "due"}, "refused") /\ o \in C
      BY <1>1, <1>3, <1>7 DEF Moved, L, C, Standing
    <2>. QED
      BY <1>2, <2>1, MovesOne
  <1>. QED
    BY <1>4, <1>5, <1>6, <1>7

\* Every step of the orders component is a step of the ledger, or none.
LEMMA StepSimulates == OrdersInv /\ [Next]_vars => Simulates
  <1> SUFFICES ASSUME OrdersInv, [Next]_vars PROVE Simulates
    OBVIOUS
  <1>0. TypeOK /\ WorkOK /\ EntitlementMatchesOrder /\ UnappliedUntilPaid
        /\ TradeHasOrder /\ PaidIsCollected /\ WorkIsBacked
    BY DEF OrdersInv, TypeOK
  <1> USE <1>0 DEF orderVars, At
  <1>1. ASSUME NEW w \in Workers, RecordPayment(w) PROVE Simulates
    <2> DEFINE o == work[w].order
               status == IF work[w].event \in processed[o] THEN order[o].status
                                                           ELSE RecordedStatus(o)
    <2>1. o \in Orders
      BY <1>1, HasOrder DEF RecordPayment
    <2>2. trade[o] = "paid"
      BY <1>1 DEF RecordPayment, WorkIsBacked
    <2>3. order[o].status \in Statuses /\ order[o].status # "NONE"
      BY <2>1, <2>2 DEF TypeOK, Order, TradeHasOrder
    <2>4. order[o].status = "FULFILLED" => order[o].applied
      BY <2>1 DEF EntitlementMatchesOrder
    <2>5. /\ status \in Statuses
          /\ \/ status = order[o].status
             \/ /\ order[o].status \in {"PENDING", "CLOSED", "PAID"}
                /\ status \in {"PAID", "FAILED"}
      <3>1. CASE work[w].event \in processed[o] \/ order[o].status \in {"FULFILLED", "FAILED"}
        BY <2>3, <3>1 DEF RecordedStatus
      <3>2. CASE order[o].status \in {"PENDING", "CLOSED", "PAID"}
        BY <2>3, <3>2 DEF RecordedStatus, Statuses
      <3>. QED
        BY <2>3, <3>1, <3>2 DEF Statuses
    <2>6. order' = [order EXCEPT ![o].status = status] /\ trade' = trade
      BY <1>1 DEF RecordPayment
    <2> HIDE DEF status
    <2>. QED
      BY <2>1, <2>2, <2>5, <2>6, StatusSimulates
  <1>2. ASSUME NEW w \in Workers, ApplyPaidOrder(w) PROVE Simulates
    <2>1. PICK o \in Orders : o = work[w].order
      BY <1>2, HasOrder DEF ApplyPaidOrder
    <2>2. /\ order[o].status = "PAID" /\ ~order[o].applied /\ trade' = trade
          /\ order' = [order EXCEPT ![o].applied = TRUE]
      BY <1>2, <2>1 DEF ApplyPaidOrder
    <2>3. /\ order'[o].applied
          /\ \A p \in Orders \ {o} : order'[p] = order[p]
          /\ \A p \in Orders : order'[p].manual = order[p].manual
      BY <2>1, <2>2 DEF TypeOK, Order
    <2>4. Moved(o, {"due"}, "granted")
      <3>1. L[o] = "due"
        BY <2>1, <2>2 DEF L, Standing
      <3>2. Standing(o)' = "granted"
        BY <2>3 DEF Standing
      <3>3. \A p \in Orders \ {o} : Standing(p)' = Standing(p)
        BY <2>3 DEF Standing
      <3>. QED
        BY <3>1, <3>2, <3>3 DEF Moved
    <2>5. C' = C
      BY <2>2, <2>3 DEF C
    <2>. QED
      BY <2>1, <2>4, <2>5, MovesOne
  <1>3. ASSUME NEW w \in Workers, MarkOrderFulfilled(w) PROVE Simulates
    <2>1. work[w].order \in Orders
      BY <1>3, HasOrder DEF MarkOrderFulfilled
    <2>2. order[work[w].order].applied
      BY <1>3, <2>1, NoOrderFresh DEF MarkOrderFulfilled, WorkIsBacked
    <2>. QED
      BY <1>3, <2>1, <2>2, StatusSimulates DEF MarkOrderFulfilled, Statuses
  <1>4. ASSUME NEW w \in Workers, CloseLocally(w) \/ CloseExpired(w) PROVE Simulates
    <2> DEFINE o == work[w].order
               status == IF order[o].status = "PENDING" THEN "CLOSED" ELSE order[o].status
    <2>1. o \in Orders
      BY <1>4, HasOrder DEF CloseLocally, CloseExpired
    <2>2. status \in Statuses
      BY <2>1 DEF TypeOK, Order, Statuses
    <2>3. order' = [order EXCEPT ![o].status = status] /\ trade' = trade
      BY <1>4, <2>1 DEF CloseLocally, CloseExpired, TypeOK, Order
    <2>. QED
      BY <2>1, <2>2, <2>3, StatusSimulates
  <1>5. ASSUME NEW w \in Workers, AlipayCloses(w) PROVE Simulates
    <2>1. work[w].order \in Orders
      BY <1>5, HasOrder DEF AlipayCloses
    <2>. QED
      BY <1>5, <2>1, QuietSimulates DEF AlipayCloses, TypeOK
  <1>6. ASSUME NEW w \in Workers,
               StartFulfil(w) \/ AlreadyApplied(w) \/ ApplyRefused(w) \/ RestoreAccess(w)
                 \/ Activate(w) \/ AlipayAnswers(w) \/ WorkerFails(w)
        PROVE  Simulates
    BY <1>6, QuietSimulates DEF StartFulfil, AlreadyApplied, ApplyRefused, RestoreAccess,
                                Activate, AlipayAnswers, WorkerFails
  <1>7. ASSUME NEW o \in Orders, NEW l \in Levels, CreateOrder(o, l) PROVE Simulates
    <2>1. /\ order'[o].status = "PENDING" /\ ~order'[o].applied /\ ~order'[o].manual
          /\ \A p \in Orders \ {o} : order'[p] = order[p]
          /\ trade' = trade
      BY <1>7 DEF CreateOrder, NewOrder, TypeOK
    <2>2. /\ ~order[o].applied /\ order[o].status = "NONE"
          /\ trade[o] # "paid" /\ ~order[o].manual
      BY <1>7 DEF CreateOrder, UnappliedUntilPaid, TradeHasOrder, PaidIsCollected
    <2>3. Moved(o, {"none"}, "open")
      BY <2>1, <2>2 DEF Moved, L, Standing
    <2>5. C' = C
      BY <2>1, <2>2 DEF C
    <2>. QED
      BY <2>3, <2>5, MovesOne
  <1>8. ASSUME NEW h \in Handlers, NEW o \in Orders, NEW l \in Levels,
               ManualRenew(h, o, l)
        PROVE  Simulates
    <2>1. /\ order'[o].status = "PAID" /\ ~order'[o].applied /\ order'[o].manual
          /\ \A p \in Orders \ {o} : order'[p] = order[p]
          /\ trade' = trade
      BY <1>8 DEF ManualRenew, NewOrder, TypeOK
    <2>2. ~order[o].applied /\ order[o].status = "NONE"
      BY <1>8 DEF ManualRenew, UnappliedUntilPaid
    <2>3. L' = [L EXCEPT ![o] = "due"] /\ L[o] = "none"
      <3>1. Standing(o) = "none" /\ Standing(o)' = "due"
        BY <2>1, <2>2 DEF Standing
      <3>2. \A p \in Orders \ {o} : Standing(p)' = Standing(p)
        BY <2>1 DEF Standing
      <3>. QED
        BY <3>1, <3>2 DEF L
    <2>4. C' = C \union {o}
      BY <2>1 DEF C
    <2>5. Ledger!OpenWaived(o)
      BY <2>3, <2>4 DEF Ledger!OpenWaived, Ledger!Moves, L, C
    <2>. QED
      BY <2>5 DEF Simulates, Ledger!LedgerNext, Ledger!LedgerStep
  <1>9. ASSUME NEW o \in Orders, CustomerPays(o) PROVE Simulates
    <2>1. order' = order /\ trade' = [trade EXCEPT ![o] = "paid"] /\ trade[o] = "waiting"
      BY <1>9 DEF CustomerPays
    <2>2. ~order[o].manual /\ order[o].status \in {"PENDING", "CLOSED"}
      BY <2>1 DEF TradeHasOrder, PaidIsCollected, TypeOK, Order, Statuses
    <2>3. L[o] \in {"open", "void"}
      BY <2>2 DEF L, Standing, UnappliedUntilPaid
    <2>4. L' = L
      BY <2>1 DEF L, Standing
    <2>5. C' = C \union {o}
      BY <2>1 DEF C, TypeOK
    <2>6. Ledger!Collect(o)
      BY <2>3, <2>4, <2>5 DEF Ledger!Collect, L, C
    <2>. QED
      BY <2>6 DEF Simulates, Ledger!LedgerNext, Ledger!LedgerStep
  <1>10. ASSUME NEW o \in Orders, OpenPaymentPage(o) \/ TradeTimesOut(o) PROVE Simulates
    BY <1>10, QuietSimulates DEF OpenPaymentPage, TradeTimesOut, TypeOK
  <1>11. ASSUME NEW h \in Handlers, HandlerStarts(h) PROVE Simulates
    BY <1>11, <1>8, QuietSimulates
       DEF HandlerStarts, Notify, CheckOrder, CancelOrder, StartQuery, AssignPlan
  <1>12. CASE CustomerStep
    BY <1>7, <1>9, <1>10, <1>12 DEF CustomerStep
  <1>13. CASE CronStarts \/ AccountStep \/ Tick \/ UNCHANGED vars
    BY <1>13, QuietSimulates
       DEF CronStarts, ReconcileExpiredOrder, ReconcilePaidOrder, StartQuery,
           AccountStep, SuspendExpired, SuspensionCompletes, AdminSuspends,
           AdminActivates, Tick, vars
  <1>. QED
    BY <1>1, <1>2, <1>3, <1>4, <1>5, <1>6, <1>11, <1>12, <1>13 DEF Next, WorkerStep

LEMMA InitSimulates == Init => Ledger!LedgerInit
  BY DEF Init, Ledger!LedgerInit, Standing

\* However payments, retries, crashes and administrators interleave, each order
\* lives as OrderLedger says: granted at most once and only for money collected.
THEOREM LedgerImplemented == Spec => ImplementsLedger
  <1>1. OrdersInv /\ [Next]_vars => [Ledger!LedgerNext]_(Ledger!ledgerVars)
    BY StepSimulates DEF Simulates
  <1>. QED
    BY OrdersInvariant, InitSimulates, <1>1, PTL DEF Spec, ImplementsLedger, Ledger!LedgerSpec
=============================================================================
