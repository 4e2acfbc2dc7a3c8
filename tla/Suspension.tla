----------------------------- MODULE Suspension -----------------------------
(***************************************************************************)
(* Expiry of a subscription and restoration of the account, down to the    *)
(* members of the account's personal networks.                             *)
(*                                                                         *)
(* The expiry disables the account in one transaction, which also writes a *)
(* snapshot row for every authorised member; then it deauthorises member   *)
(* by member on the ZeroTier controller and stamps the snapshot.  The      *)
(* restoration authorises member by member and only then gives the account *)
(* back, or undoes what it did.  The minute job runs both, a request       *)
(* handler runs restorations of its own, and nothing excludes the two: a   *)
(* transaction, a controller call and the write of a snapshot are a step   *)
(* each.  The reads that begin a restoration are one step.                 *)
(*                                                                         *)
(* The controller and the member cache of the database are one flag per    *)
(* member, no member is deleted, the account has had a subscription from   *)
(* the start, and orders are reduced to what a renewal leaves.             *)
(***************************************************************************)
EXTENDS Integers, Sequences, FiniteSets

CONSTANTS
    Members,     \* members of the account's networks, in the order of their ids
    Handlers,    \* request handlers
    Cron,        \* the minute job, never two at a time
    MaxClock,    \* bound of the checked instance: the last instant
    MaxFaults    \* bound of the checked instance: failed and late calls, crashes

ASSUME MembersOrdered == Members \subseteq Nat /\ IsFiniteSet(Members)
ASSUME CronNotHandler == Cron \notin Handlers
ASSUME BoundsNatural == MaxClock \in Nat /\ MaxFaults \in Nat

Workers == Handlers \union {Cron}

VARIABLES
    clock,
    sub,          \* status, startsAt and expiresAt of the Subscription row
    user,         \* isActive and suspensionReason of the User row
    authorised,   \* members the controller lets in
    snapshots,    \* SubscriptionSuspensionSnapshot rows, by member
    unfulfilled,  \* a renewal was paid for and its order is still PAID
    work,         \* what each worker is about to do
    faults        \* how many calls have failed or come late

accountVars == <<sub, user>>
memberVars == <<authorised, snapshots>>
vars == <<clock, accountVars, memberVars, unfulfilled, work, faults>>

\* suspendedAt and restoredAt are null or not.
Snapshot == [stored : BOOLEAN, suspended : BOOLEAN, restored : BOOLEAN]
NoSnapshot == [stored |-> FALSE, suspended |-> FALSE, restored |-> FALSE]

Stages == {"idle", "list", "deauthorise", "stamp",
           "check", "gather", "recheck", "authorise", "stampBack", "activate",
           "rollback", "unstamp"}

\* done: restoredThisAttempt; failed: failedMembers > 0; paid: the restoration
\* belongs to fulfilPaidOrder.
Work == [at : Stages, todo : SUBSET Members, done : Seq(Members),
         failed : BOOLEAN, paid : BOOLEAN, now : Nat]

Idle == [at |-> "idle", todo |-> {}, done |-> <<>>, failed |-> FALSE,
         paid |-> FALSE, now |-> 0]

\* A worker is at a member only while there is one, and rolls back only members
\* it has authorised.
WorkOK ==
    /\ work \in [Workers -> Work]
    /\ \A w \in Workers :
          /\ work[w].at \in {"deauthorise", "stamp", "recheck", "authorise", "stampBack"}
                => work[w].todo # {}
          /\ work[w].at \in {"rollback", "unstamp"} => work[w].done # <<>>

TypeOK ==
    /\ clock \in Nat
    /\ sub \in [status : {"ACTIVE", "EXPIRED"}, startsAt : Nat, expiresAt : Nat]
    /\ user \in {"ACTIVE", "EXPIRED", "ADMIN"}
    /\ authorised \subseteq Members
    /\ snapshots \in [Members -> Snapshot]
    /\ unfulfilled \in BOOLEAN
    /\ WorkOK
    /\ faults \in Nat

Init ==
    /\ clock = 0
    /\ sub = [status |-> "ACTIVE", startsAt |-> 0, expiresAt |-> 1]
    /\ user = "ACTIVE"
    /\ authorised \in SUBSET Members
    /\ snapshots = [m \in Members |-> NoSnapshot]
    /\ unfulfilled = FALSE
    /\ work = [w \in Workers |-> Idle]
    /\ faults = 0

-----------------------------------------------------------------------------
\* Snapshots whose member is still to be deauthorised, or to be restored.
Pending == {m \in Members : snapshots[m].stored /\ ~snapshots[m].suspended
                                                /\ ~snapshots[m].restored}
Restorable == {m \in Members : snapshots[m].suspended /\ ~snapshots[m].restored}

CurrentAt(t) == sub.status = "ACTIVE" /\ sub.startsAt <= t /\ sub.expiresAt > t

At(w, stage) == work[w].at = stage
First(S) == CHOOSE m \in S : \A n \in S : m <= n
Current(w) == First(work[w].todo)
Latest(w) == work[w].done[Len(work[w].done)]

Goto(w, stage) == work' = [work EXCEPT ![w] = [@ EXCEPT !.at = stage]]
Finish(w) == work' = [work EXCEPT ![w] = Idle]

\* fulfilPaidOrder goes on to mark the order; a failure in between leaves it to
\* the next pass of the minute job.
Settle(w) == Finish(w) /\ unfulfilled' = (unfulfilled /\ ~work[w].paid)

\* A call to the controller or the database fails or comes late, the process
\* dies.
Fails == faults < MaxFaults /\ faults' = faults + 1

\* A controller call that fails may have been carried out all the same.
Attempt(outcome) == authorised' \in {authorised, outcome}

-----------------------------------------------------------------------------
(* suspendExpiredSubscription                                              *)

\* The suspension goes on with the next snapshot it has listed.
NextPending(w) ==
    LET todo == work[w].todo \ {Current(w)} IN
    IF todo = {} THEN Finish(w)
    ELSE work' = [work EXCEPT ![w] = [@ EXCEPT !.at = "deauthorise", !.todo = todo]]

\* Seeded fault: a member is suspended once and for all.
PreparedOnce(m) ==
    IF m \in authorised /\ ~snapshots[m].stored
    THEN [stored |-> TRUE, suspended |-> FALSE, restored |-> FALSE]
    ELSE snapshots[m]

\* The rows of prepareSnapshots: a member whose snapshot was suspended before
\* starts a new cycle, an unfinished row stays as it is.
Prepared(m) ==
    IF m \in authorised /\ (snapshots[m].suspended \/ ~snapshots[m].stored)
    THEN [stored |-> TRUE, suspended |-> FALSE, restored |-> FALSE]
    ELSE snapshots[m]

\* Seeded fault: a subscription already expired is not selected again.
PrepareFirst ==
    /\ At(Cron, "idle")
    /\ user \in {"ACTIVE", "EXPIRED"}
    /\ sub.expiresAt <= clock
    /\ sub.status = "ACTIVE"
    /\ snapshots' = [m \in Members |-> Prepared(m)]
    /\ user' = "EXPIRED"
    /\ sub' = [sub EXCEPT !.status = "EXPIRED"]
    /\ Goto(Cron, "list")
    /\ UNCHANGED <<clock, authorised, unfulfilled, faults>>

\* reconcileExpiredSubscriptions selects the subscription when it is due, or
\* when unfinished snapshots are left.
PrepareSuspension ==
    /\ At(Cron, "idle")
    /\ user \in {"ACTIVE", "EXPIRED"}
    /\ sub.expiresAt <= clock
    /\ sub.status = "ACTIVE" \/ Pending # {}
    /\ snapshots' = [m \in Members |-> Prepared(m)]
    /\ user' = "EXPIRED"
    /\ sub' = [sub EXCEPT !.status = "EXPIRED"]
    /\ Goto(Cron, "list")
    /\ UNCHANGED <<clock, authorised, unfulfilled, faults>>

ListUnfinished(w) ==
    /\ At(w, "list")
    /\ IF Pending = {} THEN Finish(w)
       ELSE work' = [work EXCEPT ![w] = [@ EXCEPT !.at = "deauthorise", !.todo = Pending]]
    /\ UNCHANGED <<clock, accountVars, memberVars, unfulfilled, faults>>

Deauthorise(w) ==
    /\ At(w, "deauthorise")
    /\ authorised' = authorised \ {Current(w)}
    /\ Goto(w, "stamp")
    /\ UNCHANGED <<clock, accountVars, snapshots, unfulfilled, faults>>

DeauthoriseFails(w) ==
    /\ At(w, "deauthorise") /\ Fails
    /\ Attempt(authorised \ {Current(w)})
    /\ NextPending(w)
    /\ UNCHANGED <<clock, accountVars, snapshots, unfulfilled>>

Stamp(w) ==
    /\ At(w, "stamp")
    /\ snapshots' = [snapshots EXCEPT ![Current(w)].suspended = TRUE]
    /\ NextPending(w)
    /\ UNCHANGED <<clock, accountVars, authorised, unfulfilled, faults>>

StampFails(w) ==
    /\ At(w, "stamp") /\ Fails
    /\ NextPending(w)
    /\ UNCHANGED <<clock, accountVars, memberVars, unfulfilled>>

-----------------------------------------------------------------------------
(* restoreSubscriptionExpiredUser                                          *)

\* The first reads: account, subscription, unfinished snapshots.
CheckAccount(w) ==
    /\ At(w, "check")
    /\ \/ user # "EXPIRED" /\ Settle(w)
       \/ user = "EXPIRED" /\ UNCHANGED unfulfilled
          /\ IF CurrentAt(clock) /\ Pending = {}
             THEN work' = [work EXCEPT ![w] = [@ EXCEPT !.at = "gather", !.now = clock]]
             ELSE Finish(w)
    /\ UNCHANGED <<clock, accountVars, memberVars, faults>>

GatherSnapshots(w) ==
    /\ At(w, "gather")
    /\ work' = [work EXCEPT ![w] = [@ EXCEPT !.todo = Restorable,
                    !.at = IF Restorable = {} THEN "activate" ELSE "recheck"]]
    /\ UNCHANGED <<clock, accountVars, memberVars, unfulfilled, faults>>

\* Seeded fault: a failure rolls back even when nothing was restored.
AfterLoopRollBack(done, failed) == IF failed THEN "rollback" ELSE "activate"

\* Behind the loop: members that were restored are rolled back when one failed.
AfterLoop(done, failed) ==
    IF ~failed THEN "activate" ELSE IF done = <<>> THEN "idle" ELSE "rollback"

NextRestorable(w, failed) ==
    LET todo == work[w].todo \ {Current(w)}
        stage == IF todo = {} THEN AfterLoop(work[w].done, failed) ELSE "recheck"
    IN  IF stage = "idle" THEN Finish(w)
        ELSE work' = [work EXCEPT ![w] = [@ EXCEPT !.at = stage, !.todo = todo, !.failed = failed]]

\* The account is read again before each member; the loop is left when it is no
\* longer suspended for expiry.
Recheck(w) ==
    /\ At(w, "recheck")
    /\ IF user = "EXPIRED" THEN Goto(w, "authorise")
       ELSE LET stage == AfterLoop(work[w].done, work[w].failed) IN
            IF stage = "idle" THEN Finish(w) ELSE Goto(w, stage)
    /\ UNCHANGED <<clock, accountVars, memberVars, unfulfilled, faults>>

Authorise(w) ==
    /\ At(w, "authorise")
    /\ authorised' = authorised \union {Current(w)}
    /\ work' = [work EXCEPT ![w] = [@ EXCEPT !.at = "stampBack",
                                             !.done = Append(work[w].done, Current(w))]]
    /\ UNCHANGED <<clock, accountVars, snapshots, unfulfilled, faults>>

AuthoriseFails(w) ==
    /\ At(w, "authorise") /\ Fails
    /\ Attempt(authorised \union {Current(w)})
    /\ NextRestorable(w, TRUE)
    /\ UNCHANGED <<clock, accountVars, snapshots, unfulfilled>>

StampBack(w) ==
    /\ At(w, "stampBack")
    /\ snapshots' = [snapshots EXCEPT ![Current(w)].restored = TRUE]
    /\ NextRestorable(w, work[w].failed)
    /\ UNCHANGED <<clock, accountVars, authorised, unfulfilled, faults>>

StampBackFails(w) ==
    /\ At(w, "stampBack") /\ Fails
    /\ NextRestorable(w, TRUE)
    /\ UNCHANGED <<clock, accountVars, memberVars, unfulfilled>>

\* The last transaction.  The subscription is compared with the instant the
\* restoration began; unfinished snapshots are not looked at again.
ActivateAccount(w) ==
    /\ At(w, "activate")
    /\ \/ /\ user = "ACTIVE" \/ (user = "EXPIRED" /\ CurrentAt(work[w].now))
          /\ user' = "ACTIVE"
          /\ Settle(w)
       \/ /\ user = "ADMIN" \/ (user = "EXPIRED" /\ ~CurrentAt(work[w].now))
          /\ UNCHANGED user
          /\ IF work[w].done # <<>>
             THEN /\ work' = [work EXCEPT ![w] = [@ EXCEPT !.at = "rollback",
                                                     !.failed = (user = "EXPIRED")]]
                  /\ UNCHANGED unfulfilled
             ELSE IF user = "ADMIN" THEN Settle(w) ELSE Finish(w) /\ UNCHANGED unfulfilled
    /\ UNCHANGED <<clock, sub, memberVars, faults>>

\* Seeded fault: the order is marked whatever the restoration returned.
NextRollbackSettled(w, failed) ==
    LET done == SubSeq(work[w].done, 1, Len(work[w].done) - 1) IN
    IF done # <<>>
    THEN /\ work' = [work EXCEPT ![w] = [@ EXCEPT !.at = "rollback", !.done = done,
                                                  !.failed = failed]]
         /\ UNCHANGED unfulfilled
    ELSE Settle(w)

\* rollbackRestoredMembers takes the members back in reverse order.
NextRollback(w, failed) ==
    LET done == SubSeq(work[w].done, 1, Len(work[w].done) - 1) IN
    IF done # <<>>
    THEN /\ work' = [work EXCEPT ![w] = [@ EXCEPT !.at = "rollback", !.done = done,
                                                  !.failed = failed]]
         /\ UNCHANGED unfulfilled
    ELSE IF failed THEN Finish(w) /\ UNCHANGED unfulfilled ELSE Settle(w)

\* Seeded fault: only the row is rolled back.
RollBackRowOnly(w) ==
    /\ At(w, "rollback")
    /\ Goto(w, "unstamp")
    /\ UNCHANGED <<clock, accountVars, memberVars, unfulfilled, faults>>

RollBack(w) ==
    /\ At(w, "rollback")
    /\ authorised' = authorised \ {Latest(w)}
    /\ Goto(w, "unstamp")
    /\ UNCHANGED <<clock, accountVars, snapshots, unfulfilled, faults>>

RollBackFails(w) ==
    /\ At(w, "rollback") /\ Fails
    /\ Attempt(authorised \ {Latest(w)})
    /\ NextRollback(w, TRUE)
    /\ UNCHANGED <<clock, accountVars, snapshots>>

Unstamp(w) ==
    /\ At(w, "unstamp")
    /\ snapshots' = [snapshots EXCEPT ![Latest(w)].restored = FALSE]
    /\ NextRollback(w, work[w].failed)
    /\ UNCHANGED <<clock, accountVars, authorised, faults>>

-----------------------------------------------------------------------------
(* What starts a restoration, and everybody else.                          *)

Start(w, paid) ==
    At(w, "idle") /\ work' = [work EXCEPT ![w] = [Idle EXCEPT !.at = "check", !.paid = paid]]

\* applyPaidOrder lengthens the term, and leaves startsAt alone; fulfilPaidOrder
\* restores access next.  One order at a time: the flag unfulfilled tells no two
\* orders apart.
RenewByPayment(w) ==
    /\ Pending = {} /\ ~unfulfilled
    /\ \A v \in Workers : ~work[v].paid
    /\ \E t \in clock + 1 .. MaxClock + 1 :
          /\ t > sub.expiresAt
          /\ sub' = [sub EXCEPT !.status = "ACTIVE", !.expiresAt = t]
    /\ unfulfilled' = TRUE
    /\ Start(w, TRUE)
    /\ UNCHANGED <<clock, user, memberVars, faults>>

\* assignPlan restores access only for an account that is suspended for expiry.
RenewByAssignment(w) ==
    /\ Pending = {} /\ At(w, "idle")
    /\ \E t \in clock + 1 .. MaxClock + 1 :
          sub' = [status |-> "ACTIVE", expiresAt |-> t,
                  startsAt |-> IF CurrentAt(clock) THEN sub.startsAt ELSE clock]
    /\ IF user = "EXPIRED" THEN Start(w, FALSE) ELSE UNCHANGED work
    /\ UNCHANGED <<clock, user, memberVars, unfulfilled, faults>>

\* The order is applied but still PAID: the minute job, or an administrator's
\* check, fulfils it again.
FulfilAgain(w) ==
    /\ unfulfilled /\ Start(w, TRUE)
    /\ UNCHANGED <<clock, accountVars, memberVars, unfulfilled, faults>>

AdminSuspends ==
    /\ user' = "ADMIN"
    /\ UNCHANGED <<clock, sub, memberVars, unfulfilled, work, faults>>

AdminActivates ==
    /\ user # "EXPIRED" /\ CurrentAt(clock)
    /\ user' = "ACTIVE"
    /\ UNCHANGED <<clock, sub, memberVars, unfulfilled, work, faults>>

\* The owner lets a member in or out.  A request that was admitted before the
\* account was suspended may reach the controller after it.
OwnerChanges(m) ==
    /\ IF user = "ACTIVE" THEN UNCHANGED faults ELSE Fails
    /\ authorised' = IF m \in authorised THEN authorised \ {m} ELSE authorised \union {m}
    /\ UNCHANGED <<clock, accountVars, snapshots, unfulfilled, work>>

Crash(w) ==
    /\ ~At(w, "idle") /\ Fails
    /\ Finish(w)
    /\ UNCHANGED <<clock, accountVars, memberVars, unfulfilled>>

Tick ==
    /\ clock < MaxClock
    /\ clock' = clock + 1
    /\ UNCHANGED <<accountVars, memberVars, unfulfilled, work, faults>>

-----------------------------------------------------------------------------
SuspensionStep(w) ==
    \/ ListUnfinished(w) \/ Deauthorise(w) \/ DeauthoriseFails(w)
    \/ Stamp(w) \/ StampFails(w)

RestorationStep(w) ==
    \/ CheckAccount(w) \/ GatherSnapshots(w) \/ Recheck(w)
    \/ Authorise(w) \/ AuthoriseFails(w) \/ StampBack(w) \/ StampBackFails(w)
    \/ ActivateAccount(w) \/ RollBack(w) \/ RollBackFails(w) \/ Unstamp(w)

WorkerStep(w) == SuspensionStep(w) \/ RestorationStep(w)

Next ==
    \/ \E w \in Workers :
          \/ WorkerStep(w) \/ Crash(w)
          \/ RenewByPayment(w) \/ FulfilAgain(w)
    \/ \E h \in Handlers : RenewByAssignment(h)
    \/ \E m \in Members : OwnerChanges(m)
    \/ PrepareSuspension \/ AdminSuspends \/ AdminActivates \/ Tick

Spec == Init /\ [][Next]_vars

\* A worker goes on, and the minute job, which alternates between the two, comes
\* round to an expired subscription and to an order that is still PAID.
Fairness ==
    /\ \A w \in Workers : WF_vars(WorkerStep(w))
    /\ SF_vars(PrepareSuspension)
    /\ SF_vars(FulfilAgain(Cron))

FairSpec == Spec /\ Fairness

-----------------------------------------------------------------------------
\* Nobody is in the middle of a suspension or a restoration.
Quiet == \A w \in Workers : At(w, "idle")

\* Rows an expiry does not suspend again: a restoration that was under way when
\* the subscription expired has marked the member restored after the new expiry
\* had reset suspendedAt, and prepareSnapshots starts a new cycle only where
\* suspendedAt is set.
Overtaken == {m \in Members : snapshots[m].stored /\ ~snapshots[m].suspended
                                                  /\ snapshots[m].restored}

\* An expired account whose suspension has run to its end has no member left on
\* the controller, but those of Overtaken rows, whatever renewals, restorations
\* and further expiries crossed it.  Only as long as no call has failed or come
\* late: a controller call reported as failed during a restoration, or an owner's
\* request overtaken by the suspension, leaves a member on that no row tells of.
ExpiredIsOff ==
    /\ faults = 0 /\ Quiet
    /\ user = "EXPIRED" /\ sub.status = "EXPIRED" /\ Pending = {}
    => authorised \subseteq Overtaken

\* "Deauthorizes all saved personal-network members" (suspendExpiredSubscription):
\* the same of every member.
AllDeauthorised ==
    /\ faults = 0 /\ Quiet
    /\ user = "EXPIRED" /\ sub.status = "EXPIRED" /\ Pending = {}
    => authorised = {}

\* A restoration that does not give the account back leaves no member it brought
\* back: those whose snapshot says "suspended, not restored" are off, again as
\* long as no call has failed or come late.
StampedIsOff ==
    faults = 0 /\ Quiet /\ user = "EXPIRED" => authorised \intersect Restorable = {}

\* While the account stays suspended for expiry, a member the controller could
\* not deauthorise, or the process did not get to before it died, is tried again
\* by the minute job until it is off.
SuspensionEnds ==
    \A m \in Members :
        m \in Pending /\ user = "EXPIRED" /\ sub.status = "EXPIRED"
            ~> m \notin Pending \/ user = "ADMIN" \/ sub.status = "ACTIVE"

\* The customer whose renewal is paid gets back in although restorations fail
\* and the process crashes, unless the new term runs out first or a snapshot is
\* pending: then fulfilment refuses, see RetryPossible.
AccessReturns ==
    unfulfilled /\ user = "EXPIRED"
        ~> user # "EXPIRED" \/ sub.expiresAt <= clock \/ Pending # {}

\* "failed rows remain retryable through the expiration reconciler"
\* (suspendExpiredSubscription), "Retry after the expiration check completes"
\* (assignAdminPlanWithExpiration): a pending snapshot does not stay for good.
RetryPossible == \A m \in Members : m \in Pending ~> m \notin Pending

\* "does not reactivate while any suspension snapshot is still pending" (test of
\* restoreSubscriptionExpiredUser).
NotReactivatedWhilePending ==
    [][user = "EXPIRED" /\ user' = "ACTIVE" => Pending = {}]_vars
=============================================================================
