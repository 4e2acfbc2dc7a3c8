--------------------------- MODULE BillingOrders ---------------------------
(***************************************************************************)
(* Orders, payments and the subscription of one account.                   *)
(*                                                                         *)
(* Workers are the request handlers of the server (Alipay notification,    *)
(* order check, cancellation, administrator actions) and the minute job.   *)
(* A worker moves one order from one database transaction or Alipay call   *)
(* to the next; between two of them every other worker may run.  The       *)
(* transactions are serializable, or hold the advisory lock of the account *)
(* from their first statement on, so each is one action.                   *)
(*                                                                         *)
(* The members of the account's networks are abstracted to one flag: the   *)
(* expiry of the subscription still has members to deauthorise.            *)
(***************************************************************************)
EXTENDS Integers, FiniteSets

CONSTANTS
    Orders,       \* order identities
    Levels,       \* plan levels
    Handlers,     \* request handlers of the server
    Cron,         \* the minute job, never two at a time
    Events,       \* distinct payloads that report a payment
    NoOrder, NoEvent,
    Months,       \* months of service bought by an order, in clock units
    OrderTTL,     \* ORDER_TTL_MS
    MaxClock      \* bound of the checked instance: the last instant

ASSUME LevelsPositive == Levels \subseteq Nat \ {0}
ASSUME CronNotHandler == Cron \notin Handlers
ASSUME NoOrderFresh == NoOrder \notin Orders
ASSUME NoEventFresh == NoEvent \notin Events
ASSUME MonthsPositive == Months \in Nat \ {0}
ASSUME OrderTTLPositive == OrderTTL \in Nat \ {0}
ASSUME MaxClockNatural == MaxClock \in Nat

Workers == Handlers \union {Cron}

VARIABLES
    clock,
    order,       \* BillingOrder rows
    processed,   \* PaymentEvent rows with processedAt, by order
    trade,       \* Alipay's own state of the order (external)
    sub,         \* the Subscription row
    user,        \* isActive and suspensionReason of the User row
    suspending,  \* unfinished SubscriptionSuspensionSnapshot rows exist
    work,        \* what each worker is about to do
    granted      \* history: how often the months of an order were added

orderVars == <<order, processed>>
accountVars == <<sub, user, suspending>>
vars == <<clock, orderVars, trade, accountVars, work, granted>>

Statuses == {"NONE", "PENDING", "PAID", "FULFILLED", "FAILED", "CLOSED"}

Order == [status : Statuses, manual : BOOLEAN, level : Levels \union {0},
          deadline : Nat, applied : BOOLEAN]

Subscription == [status : {"NONE", "ACTIVE", "EXPIRED"},
                 level : Levels \union {0}, expiresAt : Nat]

Stages == {"idle", "record", "fulfil", "apply", "restore", "activate", "mark",
           "ask", "askClose", "close", "expire"}

\* Why Alipay is asked for the state of a trade.
Tasks == {"none", "check", "cancel", "expire"}

Work == [at : Stages, order : Orders \union {NoOrder},
         event : Events \union {NoEvent}, task : Tasks, now : Nat]

Idle == [at |-> "idle", order |-> NoOrder, event |-> NoEvent,
         task |-> "none", now |-> 0]

\* Only a restoration may concern no order, and a payload is there to record.
WorkOK ==
    /\ work \in [Workers -> Work]
    /\ \A w \in Workers :
          /\ work[w].order = NoOrder => work[w].at \in {"idle", "restore", "activate"}
          /\ work[w].at = "record" => work[w].event # NoEvent

TypeOK ==
    /\ clock \in Nat
    /\ order \in [Orders -> Order]
    /\ processed \in [Orders -> SUBSET Events]
    /\ trade \in [Orders -> {"none", "waiting", "paid", "closed"}]
    /\ sub \in Subscription
    /\ user \in {"ACTIVE", "EXPIRED", "ADMIN"}
    /\ suspending \in BOOLEAN
    /\ WorkOK
    /\ granted \in [Orders -> Nat]

Init ==
    /\ clock = 0
    /\ order = [o \in Orders |-> [status |-> "NONE", manual |-> FALSE, level |-> 0,
                                  deadline |-> 0, applied |-> FALSE]]
    /\ processed = [o \in Orders |-> {}]
    /\ trade = [o \in Orders |-> "none"]
    /\ sub = [status |-> "NONE", level |-> 0, expiresAt |-> 0]
    /\ user = "ACTIVE"
    /\ suspending = FALSE
    /\ work = [w \in Workers |-> Idle]
    /\ granted = [o \in Orders |-> 0]

-----------------------------------------------------------------------------
\* w is at a stage, about some order, and moves on to the next stage with it.
At(w, stage) == work[w].at = stage
Goto(w, stage) == work' = [work EXCEPT ![w] = [Idle EXCEPT !.at = stage, !.order = work[w].order]]
Finish(w) == work' = [work EXCEPT ![w] = Idle]
Start(w, o, stage) ==
    At(w, "idle") /\ work' = [work EXCEPT ![w] = [Idle EXCEPT !.at = stage, !.order = o]]

\* Continue with fulfilPaidOrder when the row now says PAID, else return.
FulfilIfPaid(w, status) == IF status = "PAID" THEN Goto(w, "fulfil") ELSE Finish(w)

Greater(a, b) == IF a > b THEN a ELSE b

\* subscription.status = ACTIVE and expiresAt > t
CurrentAt(t) == sub.status = "ACTIVE" /\ sub.expiresAt > t

\* The unpaid order createOrder finds.
LivePending(o) == order[o].status = "PENDING" /\ ~order[o].manual /\ order[o].deadline > clock

\* The order manualRenew and assignPlan refuse to overtake.
Unsettled(o) ==
    \/ order[o].status = "PENDING"
    \/ order[o].status = "PAID" /\ ~order[o].applied

NewOrder(status, manual, l) ==
    [status |-> status, manual |-> manual, level |-> l,
     deadline |-> clock + OrderTTL, applied |-> FALSE]

-----------------------------------------------------------------------------
(* Orders come into being.                                                 *)

\* Seeded fault: the search for an unpaid order is left out.
CreateAnother(o, l) ==
    /\ order[o].status = "NONE"
    /\ user = "ACTIVE"
    /\ sub.status = "ACTIVE" => l >= sub.level
    /\ order' = [order EXCEPT ![o] = NewOrder("PENDING", FALSE, l)]
    /\ UNCHANGED <<clock, processed, trade, accountVars, work, granted>>

\* An identical unpaid order is returned as it is, another one is a CONFLICT:
\* only the case that stores a row is a step.
CreateOrder(o, l) ==
    /\ order[o].status = "NONE"
    /\ \A p \in Orders : ~LivePending(p)
    /\ user = "ACTIVE"
    /\ sub.status = "ACTIVE" => l >= sub.level
    /\ order' = [order EXCEPT ![o] = NewOrder("PENDING", FALSE, l)]
    /\ UNCHANGED <<clock, processed, trade, accountVars, work, granted>>

\* The row is created and set to PAID in one transaction.
ManualRenew(w, o, l) ==
    /\ order[o].status = "NONE"
    /\ \A p \in Orders : ~Unsettled(p)
    /\ order' = [order EXCEPT ![o] = NewOrder("PAID", TRUE, l)]
    /\ Start(w, o, "fulfil")
    /\ UNCHANGED <<clock, processed, trade, accountVars, granted>>

-----------------------------------------------------------------------------
(* Alipay, as the code uses it.  The payment page carries time_expire.     *)

OpenPaymentPage(o) ==
    /\ order[o].status # "NONE" /\ ~order[o].manual
    /\ trade[o] = "none" /\ clock < order[o].deadline
    /\ trade' = [trade EXCEPT ![o] = "waiting"]
    /\ UNCHANGED <<clock, orderVars, accountVars, work, granted>>

CustomerPays(o) ==
    /\ trade[o] = "waiting" /\ clock < order[o].deadline
    /\ trade' = [trade EXCEPT ![o] = "paid"]
    /\ UNCHANGED <<clock, orderVars, accountVars, work, granted>>

TradeTimesOut(o) ==
    /\ trade[o] = "waiting" /\ clock >= order[o].deadline
    /\ trade' = [trade EXCEPT ![o] = "closed"]
    /\ UNCHANGED <<clock, orderVars, accountVars, work, granted>>

-----------------------------------------------------------------------------
(* processVerifiedAlipayPayment                                            *)

\* A notification arrives; Alipay may repeat it, and may report one payment
\* with several payloads (TRADE_SUCCESS, then TRADE_FINISHED).
Notify(w, o, e) ==
    /\ trade[o] = "paid" /\ At(w, "idle")
    /\ work' = [work EXCEPT ![w] = [Idle EXCEPT !.at = "record", !.order = o, !.event = e]]
    /\ UNCHANGED <<clock, orderVars, trade, accountVars, granted>>

\* paidDowngrade: the subscription has moved to a higher plan by now.
WouldDowngrade(o) == ~order[o].manual /\ order[o].level < sub.level

\* Seeded fault: a payment for a closed order is dropped.
RecordedUnlessClosed(o) ==
    IF order[o].status \in {"FULFILLED", "FAILED", "CLOSED"} THEN order[o].status
    ELSE IF WouldDowngrade(o) THEN "FAILED" ELSE "PAID"

\* Seeded fault: a second payload revives a refused order.
RecordedAgain(o) ==
    IF order[o].status = "FULFILLED" THEN order[o].status
    ELSE IF WouldDowngrade(o) THEN "FAILED" ELSE "PAID"

\* The plan in force when the payment is recorded decides on FAILED.
RecordedStatus(o) ==
    IF order[o].status \in {"FULFILLED", "FAILED"} THEN order[o].status
    ELSE IF WouldDowngrade(o) THEN "FAILED" ELSE "PAID"

\* recordVerifiedAlipayPayment: a payload is processed once.
RecordPayment(w) ==
    LET o == work[w].order
        status == IF work[w].event \in processed[o] THEN order[o].status
                                                    ELSE RecordedStatus(o)
    IN  /\ At(w, "record")
        /\ processed' = [processed EXCEPT ![o] = @ \union {work[w].event}]
        /\ order' = [order EXCEPT ![o].status = status]
        /\ IF status = "FAILED" THEN Finish(w) ELSE Goto(w, "fulfil")
        /\ UNCHANGED <<clock, trade, accountVars, granted>>

-----------------------------------------------------------------------------
(* fulfilPaidOrder                                                         *)

StartFulfil(w) ==
    /\ At(w, "fulfil")
    /\ IF order[work[w].order].status = "PAID" THEN Goto(w, "apply") ELSE Finish(w)
    /\ UNCHANGED <<clock, orderVars, trade, accountVars, granted>>

\* Seeded fault: entitlementAppliedAt is not looked at.
ApplyAgain(w) ==
    LET o == work[w].order IN
    /\ At(w, "apply")
    /\ order[o].status = "PAID" /\ ~suspending
    /\ sub' = [status |-> "ACTIVE", level |-> order[o].level,
               expiresAt |-> Greater(sub.expiresAt, clock) + Months]
    /\ order' = [order EXCEPT ![o].applied = TRUE]
    /\ granted' = [granted EXCEPT ![o] = @ + 1]
    /\ Goto(w, "restore")
    /\ UNCHANGED <<clock, processed, trade, user, suspending>>

\* applyPaidOrder extends the subscription and moves it to the ordered plan,
\* whatever plan the subscription has by now.
ApplyPaidOrder(w) ==
    LET o == work[w].order IN
    /\ At(w, "apply")
    /\ order[o].status = "PAID" /\ ~order[o].applied /\ ~suspending
    /\ sub' = [status |-> "ACTIVE", level |-> order[o].level,
               expiresAt |-> Greater(sub.expiresAt, clock) + Months]
    /\ order' = [order EXCEPT ![o].applied = TRUE]
    /\ granted' = [granted EXCEPT ![o] = @ + 1]
    /\ Goto(w, "restore")
    /\ UNCHANGED <<clock, processed, trade, user, suspending>>

\* Another worker was faster: restoration is attempted all the same.
AlreadyApplied(w) ==
    LET o == work[w].order IN
    /\ At(w, "apply")
    /\ \/ order[o].status = "FULFILLED"
       \/ order[o].status = "PAID" /\ order[o].applied
    /\ Goto(w, "restore")
    /\ UNCHANGED <<clock, orderVars, trade, accountVars, granted>>

\* Only failureReason is written; the minute job tries again.
ApplyRefused(w) ==
    LET o == work[w].order IN
    /\ At(w, "apply")
    /\ \/ order[o].status \notin {"PAID", "FULFILLED"}
       \/ order[o].status = "PAID" /\ ~order[o].applied /\ suspending
    /\ Finish(w)
    /\ UNCHANGED <<clock, orderVars, trade, accountVars, granted>>

\* Seeded fault: the restoration after an assignment marks an order, too.
AfterRestoreMark(w) == Goto(w, "mark")

\* After an assignment there is no order to mark.
AfterRestore(w) == IF work[w].order = NoOrder THEN Finish(w) ELSE Goto(w, "mark")

\* restoreSubscriptionExpiredUser up to its last transaction.  A member the
\* controller refuses ends it like a crash (WorkerFails).
RestoreAccess(w) ==
    /\ At(w, "restore")
    /\ CASE user # "EXPIRED" -> AfterRestore(w)
         [] user = "EXPIRED" /\ (~CurrentAt(clock) \/ suspending) -> Finish(w)
         [] OTHER -> work' = [work EXCEPT ![w] = [Idle EXCEPT !.at = "activate",
                                   !.order = work[w].order, !.now = clock]]
    /\ UNCHANGED <<clock, orderVars, trade, accountVars, granted>>

\* Seeded fault: the subscription is not read again.
ActivateUnchecked(w) ==
    /\ At(w, "activate")
    /\ user' = IF user = "EXPIRED" THEN "ACTIVE" ELSE user
    /\ AfterRestore(w)
    /\ UNCHANGED <<clock, orderVars, trade, sub, suspending, granted>>

\* The activation transaction reads user and subscription again, but compares
\* with the instant the restoration began.
Activate(w) ==
    /\ At(w, "activate")
    /\ IF user = "EXPIRED" /\ ~CurrentAt(work[w].now)
       THEN Finish(w) /\ UNCHANGED user
       ELSE /\ user' = IF user = "EXPIRED" THEN "ACTIVE" ELSE user
            /\ AfterRestore(w)
    /\ UNCHANGED <<clock, orderVars, trade, sub, suspending, granted>>

\* Writes FULFILLED without reading the row.
MarkOrderFulfilled(w) ==
    /\ At(w, "mark")
    /\ order' = [order EXCEPT ![work[w].order].status = "FULFILLED"]
    /\ Finish(w)
    /\ UNCHANGED <<clock, processed, trade, accountVars, granted>>

-----------------------------------------------------------------------------
(* queryAndReconcileAlipayOrder, closePendingAlipayOrder, the minute job   *)

\* The row is read first: a paid order is fulfilled without asking Alipay.
StartQuery(w, o, task) ==
    /\ At(w, "idle")
    /\ \/ order[o].status = "PENDING"
          /\ work' = [work EXCEPT ![w] =
                         [Idle EXCEPT !.at = "ask", !.order = o, !.task = task]]
       \/ order[o].status = "PAID" /\ Start(w, o, "fulfil")
    /\ UNCHANGED <<clock, orderVars, trade, accountVars, granted>>

\* An administrator checks an order, or the customer cancels it.
CheckOrder(w, o) == StartQuery(w, o, "check")
CancelOrder(w, o) == ~order[o].manual /\ StartQuery(w, o, "cancel")

\* The minute job takes expired unpaid orders.
ReconcileExpiredOrder(o) ==
    /\ order[o].status = "PENDING" /\ ~order[o].manual
    /\ order[o].deadline <= clock
    /\ StartQuery(Cron, o, "expire")

\* The minute job takes paid orders that are not fulfilled yet.
ReconcilePaidOrder(o) ==
    /\ order[o].status = "PAID"
    /\ Start(Cron, o, "fulfil")
    /\ UNCHANGED <<clock, orderVars, trade, accountVars, granted>>

\* What follows an answer that leaves the order unpaid.
AfterUnpaid(w, known) ==
    CASE work[w].task = "expire" -> Goto(w, "expire")
      [] work[w].task = "cancel" -> Goto(w, IF known THEN "askClose" ELSE "close")
      [] OTHER -> Finish(w)

AlipayAnswers(w) ==
    LET o == work[w].order IN
    /\ At(w, "ask")
    /\ \/ trade[o] = "none" /\ AfterUnpaid(w, FALSE)
       \/ trade[o] = "waiting" /\ AfterUnpaid(w, TRUE)
       \/ trade[o] = "closed" /\ Goto(w, "close")
       \/ /\ trade[o] = "paid"
          /\ \E e \in Events :
                work' = [work EXCEPT ![w] = [Idle EXCEPT !.at = "record", !.order = o,
                                                         !.event = e]]
    /\ UNCHANGED <<clock, orderVars, trade, accountVars, granted>>

\* ACQ.TRADE_STATUS_ERROR, for a trade paid or closed meanwhile, starts the
\* query over: the row is read again, then Alipay is asked again.
AlipayCloses(w) ==
    LET o == work[w].order IN
    /\ At(w, "askClose")
    /\ \/ trade[o] \in {"none", "waiting"} /\ Goto(w, "close")
       \/ /\ trade[o] \in {"paid", "closed"}
          /\ IF order[o].status = "PENDING"
             THEN work' = [work EXCEPT ![w] =
                              [Idle EXCEPT !.at = "ask", !.order = o, !.task = "check"]]
             ELSE FulfilIfPaid(w, order[o].status)
    /\ trade' = [trade EXCEPT ![o] = IF @ = "waiting" THEN "closed" ELSE @]
    /\ UNCHANGED <<clock, orderVars, accountVars, granted>>

\* Seeded fault: the row is closed whatever happened since it was read.
CloseBlindly(w) ==
    LET o == work[w].order IN
    /\ At(w, "close")
    /\ order' = [order EXCEPT ![o].status = "CLOSED"]
    /\ FulfilIfPaid(w, order'[o].status)
    /\ UNCHANGED <<clock, processed, trade, accountVars, granted>>

\* closePendingOrderLocally
CloseLocally(w) ==
    LET o == work[w].order IN
    /\ At(w, "close")
    /\ order' = [order EXCEPT ![o].status = IF @ = "PENDING" THEN "CLOSED" ELSE @]
    /\ FulfilIfPaid(w, order'[o].status)
    /\ UNCHANGED <<clock, processed, trade, accountVars, granted>>

\* updateMany of the minute job, guarded by the status.
CloseExpired(w) ==
    /\ At(w, "expire")
    /\ order' = [order EXCEPT ![work[w].order].status = IF @ = "PENDING" THEN "CLOSED" ELSE @]
    /\ Finish(w)
    /\ UNCHANGED <<clock, processed, trade, accountVars, granted>>

-----------------------------------------------------------------------------
(* Expiry, suspension and the administrator.                               *)

\* suspendExpiredSubscription, first transaction.  There may be no member to
\* deauthorise.
SuspendExpired ==
    /\ user \in {"ACTIVE", "EXPIRED"}
    /\ sub.status = "ACTIVE" /\ sub.expiresAt <= clock
    /\ user' = "EXPIRED"
    /\ sub' = [sub EXCEPT !.status = "EXPIRED"]
    /\ suspending' \in {suspending, TRUE}
    /\ UNCHANGED <<clock, orderVars, trade, work, granted>>

\* The last member is deauthorised, by this pass or by a retry.
SuspensionCompletes ==
    /\ suspending
    /\ suspending' = FALSE
    /\ UNCHANGED <<clock, orderVars, trade, sub, user, work, granted>>

AdminSuspends ==
    /\ user' = "ADMIN"
    /\ UNCHANGED <<clock, orderVars, trade, sub, suspending, work, granted>>

AdminActivates ==
    /\ user # "EXPIRED"
    /\ sub.status = "NONE" \/ CurrentAt(clock)
    /\ user' = "ACTIVE"
    /\ UNCHANGED <<clock, orderVars, trade, sub, suspending, work, granted>>

\* assignAdminPlanWithExpiration; the restoration follows when it is needed.
AssignPlan(w, l) ==
    /\ ~suspending
    /\ \A o \in Orders : ~Unsettled(o)
    /\ At(w, "idle")
    /\ \E t \in clock + 1 .. clock + Months :
          sub' = [status |-> "ACTIVE", level |-> l, expiresAt |-> t]
    /\ IF user = "EXPIRED" THEN Start(w, NoOrder, "restore") ELSE UNCHANGED work
    /\ UNCHANGED <<clock, orderVars, trade, user, suspending, granted>>

\* The process dies, a transaction is aborted or an external call fails: the
\* worker is done and the database keeps what was committed.
WorkerFails(w) ==
    /\ ~At(w, "idle")
    /\ Finish(w)
    /\ UNCHANGED <<clock, orderVars, trade, accountVars, granted>>

Tick ==
    /\ clock < MaxClock
    /\ clock' = clock + 1
    /\ UNCHANGED <<orderVars, trade, accountVars, work, granted>>

-----------------------------------------------------------------------------
WorkerStep(w) ==
    \/ RecordPayment(w) \/ StartFulfil(w) \/ ApplyPaidOrder(w) \/ AlreadyApplied(w)
    \/ ApplyRefused(w) \/ RestoreAccess(w) \/ Activate(w) \/ MarkOrderFulfilled(w)
    \/ AlipayAnswers(w) \/ AlipayCloses(w) \/ CloseLocally(w) \/ CloseExpired(w)

HandlerStarts(h) ==
    \/ \E o \in Orders, l \in Levels : ManualRenew(h, o, l)
    \/ \E o \in Orders, e \in Events : Notify(h, o, e)
    \/ \E o \in Orders : CheckOrder(h, o) \/ CancelOrder(h, o)
    \/ \E l \in Levels : AssignPlan(h, l)

CronStarts == \E o \in Orders : ReconcileExpiredOrder(o) \/ ReconcilePaidOrder(o)

CustomerStep ==
    \E o \in Orders :
        \/ \E l \in Levels : CreateOrder(o, l)
        \/ OpenPaymentPage(o) \/ CustomerPays(o) \/ TradeTimesOut(o)

AccountStep == SuspendExpired \/ SuspensionCompletes \/ AdminSuspends \/ AdminActivates

Next ==
    \/ \E w \in Workers : WorkerStep(w) \/ WorkerFails(w)
    \/ \E h \in Handlers : HandlerStarts(h)
    \/ CronStarts \/ CustomerStep \/ AccountStep \/ Tick

Spec == Init /\ [][Next]_vars

\* Once an order is picked up it is carried on, the minute job comes round to
\* every order it selects, the retry of an unfinished suspension ends while the
\* account is suspended for expiry, Alipay repeats a notification until one was
\* recorded, and failures come to an end.  Customers, administrators and the
\* clock owe nothing.
Fairness ==
    /\ \A w \in Workers : WF_vars(WorkerStep(w))
    /\ \A o \in Orders : SF_vars(ReconcilePaidOrder(o))
    /\ \A o \in Orders :
          SF_vars(processed[o] = {} /\ \E h \in Handlers, e \in Events : Notify(h, o, e))
    /\ WF_vars(user = "EXPIRED" /\ SuspensionCompletes)
    /\ <>[][\A w \in Workers : ~WorkerFails(w)]_vars

FairSpec == Spec /\ Fairness

-----------------------------------------------------------------------------
\* What billing promises, see OrderLedger.
Standing(o) ==
    IF order[o].applied THEN "granted"
    ELSE CASE order[o].status = "NONE"    -> "none"
           [] order[o].status = "PENDING" -> "open"
           [] order[o].status = "CLOSED"  -> "void"
           [] order[o].status = "FAILED"  -> "refused"
           [] OTHER                       -> "due"

Ledger == INSTANCE OrderLedger WITH
              ledger    <- [o \in Orders |-> Standing(o)],
              collected <- {o \in Orders : trade[o] = "paid" \/ order[o].manual}

\* However notifications are repeated and reordered, handlers and the minute job
\* overtake each other and crash, every order goes through the life OrderLedger
\* allows: service only for collected money, no paid order lost or reopened, and
\* a refused order never granted.
ImplementsLedger == Ledger!LedgerSpec

\* The months of an order are added to the subscription at most once, exactly
\* when entitlementAppliedAt is set, and an order is not shown as FULFILLED
\* before they are, although a payment is fulfilled by the notification handler,
\* the minute job and an administrator's check at the same time.
EntitlementMatchesOrder ==
    \A o \in Orders :
        /\ granted[o] = IF order[o].applied THEN 1 ELSE 0
        /\ order[o].status = "FULFILLED" => order[o].applied

\* The parts that make EntitlementMatchesOrder and the refinement inductive.
UnappliedUntilPaid ==
    \A o \in Orders : order[o].status \in {"NONE", "PENDING", "CLOSED"} => ~order[o].applied

TradeHasOrder ==
    \A o \in Orders : trade[o] # "none" => order[o].status # "NONE" /\ ~order[o].manual

PaidIsCollected ==
    \A o \in Orders :
        /\ order[o].status \in {"PAID", "FULFILLED", "FAILED"}
              => order[o].manual \/ trade[o] = "paid"
        /\ order[o].manual => order[o].status \in {"PAID", "FULFILLED", "FAILED"}

WorkIsBacked ==
    \A w \in Workers :
        /\ work[w].at = "record" => trade[work[w].order] = "paid"
        /\ work[w].at \in {"restore", "activate", "mark"} /\ work[w].order # NoOrder
              => order[work[w].order].applied

OrdersInv ==
    /\ TypeOK
    /\ EntitlementMatchesOrder
    /\ UnappliedUntilPaid
    /\ TradeHasOrder
    /\ PaidIsCollected
    /\ WorkIsBacked

\* An order whose payment was recorded is never closed as unpaid, whoever else
\* was cancelling or expiring it on the strength of an older read.
RecordedPaymentKept ==
    \A o \in Orders :
        processed[o] # {} => order[o].status \in {"PAID", "FULFILLED", "FAILED"}

\* createOrder keeps an account from being asked to pay twice: there is at most
\* one unpaid order that can still be paid.
OneLiveOrder ==
    \A o, p \in Orders : LivePending(o) /\ LivePending(p) => o = p

\* A worker that restores access with what it read before an expiry does not
\* bring the account back: while the subscription is EXPIRED nobody has access.
NoAccessAfterExpiry == sub.status = "EXPIRED" => user # "ACTIVE"

\* Applying an order keeps a subscription that is still running on its level or
\* raises it ("Self-service plan downgrades are not allowed.").
NoPaidDowngrade ==
    [][\A o \in Orders :
          /\ ~order[o].applied /\ order'[o].applied
          /\ ~order[o].manual /\ CurrentAt(clock)
          => sub'.level >= sub.level]_vars

\* The customer who has paid gets the service or a refusal to refund, whatever
\* crashes on the way, unless an administrator suspended the account while its
\* expiry was still deauthorising members.
PaymentSettled ==
    \A o \in Orders :
        trade[o] = "paid" ~> \/ order[o].applied
                            \/ order[o].status = "FAILED"
                            \/ (user = "ADMIN" /\ suspending)
=============================================================================
