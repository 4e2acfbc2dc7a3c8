-------------------------- MODULE SuspensionProofs --------------------------
(***************************************************************************)
(* What Suspension says of an account that is suspended for expiry, for    *)
(* any number of members and request handlers, however often the           *)
(* subscription expires and is renewed.  The argument: as long as no call  *)
(* has failed, a member that is on has a row that is not stamped           *)
(* "suspended", or is in the list of a restoration that will either give   *)
(* the account back or take the member off again.                          *)
(***************************************************************************)
EXTENDS Suspension, SequenceTheorems, WellFoundedInduction, TLAPS

-----------------------------------------------------------------------------
(* The helpers of the model.                                               *)

\* The loops take the members in order: there is a first one.
LEMMA FirstIsIn == ASSUME NEW S \in SUBSET Members, S # {} PROVE First(S) \in S
  <1>1. S \subseteq Nat
    BY MembersOrdered
  <1> DEFINE Less == {x \in Nat \X Nat : x[1] < x[2]}
  <1>2. IsWellFoundedOn(Less, Nat)
    BY NatLessThanWellFounded DEF OpToRel
  <1>3. PICK m \in S : \A n \in S : <<n, m>> \notin Less
    BY <1>1, <1>2, WFMin
  <1>4. \A n \in S : m <= n
    <2>. SUFFICES ASSUME NEW n \in S, n < m PROVE FALSE
      BY <1>1
    <2>1. <<n, m>> \in Less
      BY <1>1
    <2>. QED
      BY <2>1, <1>3
  <1>. QED
    BY <1>4 DEF First

\* The list of restored members without its last.
LEMMA Shorter ==
    ASSUME NEW s \in Seq(Members), s # <<>>
    PROVE  LET r == SubSeq(s, 1, Len(s) - 1) IN
           /\ r \in Seq(Members) /\ Len(r) = Len(s) - 1 /\ s[Len(s)] \in Members
           /\ \A i \in 1 .. Len(r) : r[i] = s[i]
  <1>1. Len(s) \in Nat \ {0}
    BY EmptySeq
  <1>2. \A i \in 1 .. Len(s) : s[i] \in Members
    BY ElementOfSeq
  <1>3. \A i \in 1 .. Len(s) - 1 : s[i] \in Members
    BY <1>1, <1>2
  <1>4. /\ SubSeq(s, 1, Len(s) - 1) \in Seq(Members)
        /\ Len(SubSeq(s, 1, Len(s) - 1))
             = IF 1 <= Len(s) - 1 THEN Len(s) - 1 - 1 + 1 ELSE 0
        /\ \A i \in 1 .. Len(s) - 1 - 1 + 1 : SubSeq(s, 1, Len(s) - 1)[i] = s[1 + i - 1]
    BY <1>1, <1>3, SubSeqProperties
  <1>5. \A n \in Nat \ {0} : (IF 1 <= n - 1 THEN n - 1 - 1 + 1 ELSE 0) = n - 1
    OBVIOUS
  <1>6. s[Len(s)] \in Members
    BY <1>1, <1>2
  <1>7. \A i \in 1 .. Len(s) - 1 : SubSeq(s, 1, Len(s) - 1)[i] = s[i]
    BY <1>1, <1>4
  <1>. QED
    BY <1>1, <1>4, <1>5, <1>6, <1>7, Zenon

\* A worker's step changes its own record only.
LEMMA OwnRecord ==
    ASSUME WorkOK, NEW w \in Workers, NEW r, work' = [work EXCEPT ![w] = r]
    PROVE  work'[w] = r /\ \A v \in Workers \ {w} : work'[v] = work[v]
  BY DEF WorkOK

-----------------------------------------------------------------------------
(* Types.                                                                  *)

\* What a worker's record must be, with the facts of its stage.
RecordOK(r) ==
    /\ r \in Work
    /\ r.at \in {"deauthorise", "stamp", "recheck", "authorise", "stampBack"}
          => r.todo # {}
    /\ r.at \in {"rollback", "unstamp"} => r.done # <<>>

LEMMA RecordChange ==
    ASSUME WorkOK, NEW w \in Workers, NEW r, RecordOK(r),
           work' = [work EXCEPT ![w] = r]
    PROVE  WorkOK'
  BY DEF WorkOK, RecordOK

LEMMA FinishOK == ASSUME WorkOK, NEW w \in Workers, Finish(w) PROVE WorkOK'
  <1>1. Idle \in Work
    BY EmptySeq DEF Idle, Work, Stages
  <1>. QED
    BY <1>1, RecordChange DEF Finish, RecordOK, Idle

LEMMA GotoOK ==
    ASSUME WorkOK, NEW w \in Workers, NEW stage \in Stages, Goto(w, stage),
           stage \in {"deauthorise", "stamp", "recheck", "authorise", "stampBack"}
              => work[w].todo # {},
           stage \in {"rollback", "unstamp"} => work[w].done # <<>>
    PROVE  WorkOK'
  <1>1. RecordOK([work[w] EXCEPT !.at = stage])
    BY DEF WorkOK, RecordOK, Work
  <1>. QED
    BY <1>1, RecordChange DEF Goto

LEMMA NextPendingOK ==
    ASSUME WorkOK, NEW w \in Workers, NextPending(w) PROVE WorkOK'
  <1> DEFINE todo == work[w].todo \ {Current(w)}
             r == [work[w] EXCEPT !.at = "deauthorise", !.todo = todo]
  <1>1. CASE todo = {}
    BY <1>1, FinishOK DEF NextPending
  <1>2. CASE todo # {}
    <2>1. RecordOK(r)
      BY <1>2 DEF WorkOK, RecordOK, Work, Stages
    <2>. QED
      BY <1>2, <2>1, RecordChange DEF NextPending
  <1>. QED
    BY <1>1, <1>2

LEMMA NextRestorableOK ==
    ASSUME WorkOK, NEW w \in Workers, NEW failed \in BOOLEAN, NextRestorable(w, failed)
    PROVE  WorkOK'
  <1> DEFINE todo == work[w].todo \ {Current(w)}
             stage == IF todo = {} THEN AfterLoop(work[w].done, failed) ELSE "recheck"
             r == [work[w] EXCEPT !.at = stage, !.todo = todo, !.failed = failed]
  <1>1. CASE stage = "idle"
    BY <1>1, FinishOK DEF NextRestorable
  <1>2. CASE stage # "idle"
    <2>1. RecordOK(r)
      BY <1>2 DEF WorkOK, RecordOK, Work, Stages, AfterLoop
    <2>. QED
      BY <1>2, <2>1, RecordChange DEF NextRestorable
  <1>. QED
    BY <1>1, <1>2

LEMMA NextRollbackOK ==
    ASSUME WorkOK, NEW w \in Workers, NEW failed \in BOOLEAN, work[w].done # <<>>,
           unfulfilled \in BOOLEAN, NextRollback(w, failed)
    PROVE  WorkOK' /\ unfulfilled' \in BOOLEAN
  <1> DEFINE done == SubSeq(work[w].done, 1, Len(work[w].done) - 1)
             r == [work[w] EXCEPT !.at = "rollback", !.done = done, !.failed = failed]
  <1>0. work[w] \in Work /\ work[w].done \in Seq(Members)
    BY DEF WorkOK, Work
  <1>1. done \in Seq(Members)
    BY <1>0, Shorter
  <1> HIDE DEF done
  <1>2. CASE done # <<>>
    <2>1. RecordOK(r)
      BY <1>0, <1>1, <1>2 DEF RecordOK, Work, Stages
    <2>. QED
      BY <1>2, <2>1, RecordChange DEF NextRollback, done
  <1>3. CASE done = <<>>
    <2>1. Finish(w) /\ unfulfilled' \in BOOLEAN
      BY <1>3 DEF NextRollback, Settle, done
    <2>. QED
      BY <2>1, FinishOK
  <1>. QED
    BY <1>2, <1>3

\* Snapshot rows stay rows when one field of one of them is written.
LEMMA RowsTyped ==
    ASSUME snapshots \in [Members -> Snapshot]
    PROVE  /\ \A m \in Members : Prepared(m) \in Snapshot
           /\ \A m \in Members, b \in BOOLEAN :
                 /\ [snapshots EXCEPT ![m].suspended = b] \in [Members -> Snapshot]
                 /\ [snapshots EXCEPT ![m].restored = b] \in [Members -> Snapshot]
  BY DEF Prepared, Snapshot

LEMMA SuspensionTypes ==
    ASSUME TypeOK, NEW w \in Workers, SuspensionStep(w) PROVE TypeOK'
  <1>0. work[w] \in Work /\ WorkOK
    BY DEF TypeOK, WorkOK
  <1>1. CASE ListUnfinished(w)
    <2>1. CASE Pending = {}
      BY <1>0, <1>1, <2>1, FinishOK
        DEF ListUnfinished, TypeOK, accountVars, memberVars
    <2>2. CASE Pending # {}
      <3>1. RecordOK([work[w] EXCEPT !.at = "deauthorise", !.todo = Pending])
        BY <1>0, <2>2 DEF RecordOK, Work, Stages, Pending
      <3>. QED
        BY <1>0, <1>1, <2>2, <3>1, RecordChange
          DEF ListUnfinished, TypeOK, accountVars, memberVars
    <2>. QED
      BY <2>1, <2>2
  <1>2. CASE Deauthorise(w)
    <2>1. WorkOK'
      BY <1>0, <1>2, GotoOK DEF Deauthorise, At, Stages, WorkOK
    <2>. QED
      BY <1>2, <2>1 DEF Deauthorise, TypeOK, accountVars
  <1>3. CASE DeauthoriseFails(w)
    <2>1. WorkOK'
      BY <1>0, <1>3, NextPendingOK DEF DeauthoriseFails
    <2>. QED
      BY <1>3, <2>1 DEF DeauthoriseFails, Attempt, Fails, TypeOK, accountVars
  <1>4. CASE Stamp(w)
    <2>1. WorkOK'
      BY <1>0, <1>4, NextPendingOK DEF Stamp
    <2>2. Current(w) \in Members
      BY <1>0, <1>4, FirstIsIn DEF Stamp, At, WorkOK, Current, Work
    <2>3. snapshots' \in [Members -> Snapshot]
      BY <1>4, <2>2, RowsTyped DEF Stamp, TypeOK
    <2>. QED
      BY <1>4, <2>1, <2>3 DEF Stamp, TypeOK, accountVars
  <1>5. CASE StampFails(w)
    <2>1. WorkOK'
      BY <1>0, <1>5, NextPendingOK DEF StampFails
    <2>. QED
      BY <1>5, <2>1 DEF StampFails, Fails, TypeOK, accountVars, memberVars
  <1>. QED
    BY <1>1, <1>2, <1>3, <1>4, <1>5 DEF SuspensionStep

LEMMA RestorationTypes ==
    ASSUME TypeOK, NEW w \in Workers, RestorationStep(w) PROVE TypeOK'
  <1>0. work[w] \in Work /\ WorkOK /\ unfulfilled \in BOOLEAN
    BY DEF TypeOK, WorkOK
  <1>1. CASE CheckAccount(w)
    <2>1. RecordOK([work[w] EXCEPT !.at = "gather", !.now = clock])
      BY <1>0 DEF RecordOK, Work, Stages, TypeOK
    <2>2. WorkOK' /\ unfulfilled' \in BOOLEAN
      BY <1>0, <1>1, <2>1, FinishOK, RecordChange DEF CheckAccount, Settle
    <2>. QED
      BY <1>1, <2>2 DEF CheckAccount, TypeOK, accountVars, memberVars
  <1>2. CASE GatherSnapshots(w)
    <2>1. RecordOK([work[w] EXCEPT !.todo = Restorable,
                       !.at = IF Restorable = {} THEN "activate" ELSE "recheck"])
      BY <1>0 DEF RecordOK, Work, Stages, Restorable
    <2>2. WorkOK'
      BY <1>0, <1>2, <2>1, RecordChange DEF GatherSnapshots
    <2>. QED
      BY <1>2, <2>2 DEF GatherSnapshots, TypeOK, accountVars, memberVars
  <1>3. CASE Recheck(w)
    <2>1. work[w].todo # {}
      BY <1>0, <1>3 DEF Recheck, At, WorkOK
    <2>2. CASE user = "EXPIRED"
      <3>1. WorkOK'
        BY <1>0, <1>3, <2>1, <2>2, GotoOK DEF Recheck, Stages
      <3>. QED
        BY <1>3, <3>1 DEF Recheck, TypeOK, accountVars, memberVars
    <2>3. CASE user # "EXPIRED"
      <3> DEFINE stage == AfterLoop(work[w].done, work[w].failed)
      <3>1. stage \in {"activate", "idle", "rollback"} /\ (stage = "rollback" => work[w].done # <<>>)
        BY DEF AfterLoop
      <3>2. IF stage = "idle" THEN Finish(w) ELSE Goto(w, stage)
        BY <1>3, <2>3 DEF Recheck
      <3> HIDE DEF stage
      <3>3. CASE stage = "idle"
        BY <1>0, <1>3, <3>2, <3>3, FinishOK
          DEF Recheck, TypeOK, accountVars, memberVars
      <3>4. CASE stage # "idle"
        <4>1. WorkOK'
          BY <1>0, <3>1, <3>2, <3>4, GotoOK DEF Stages
        <4>. QED
          BY <1>3, <4>1 DEF Recheck, TypeOK, accountVars, memberVars
      <3>. QED
        BY <3>3, <3>4
    <2>. QED
      BY <2>2, <2>3
  <1>4. CASE Authorise(w)
    <2>1. work[w].todo # {} /\ Current(w) \in Members
      BY <1>0, <1>4, FirstIsIn DEF Authorise, At, WorkOK, Current, Work
    <2>2. Append(work[w].done, Current(w)) \in Seq(Members)
      BY <1>0, <2>1 DEF Work
    <2>3. RecordOK([work[w] EXCEPT !.at = "stampBack", !.done = Append(work[w].done, Current(w))])
      BY <1>0, <2>1, <2>2 DEF RecordOK, Work, Stages
    <2>4. WorkOK'
      BY <1>0, <1>4, <2>3, RecordChange DEF Authorise
    <2>. QED
      BY <1>4, <2>1, <2>4 DEF Authorise, TypeOK, accountVars
  <1>5. CASE AuthoriseFails(w)
    <2>1. Current(w) \in Members
      BY <1>0, <1>5, FirstIsIn DEF AuthoriseFails, At, WorkOK, Current, Work
    <2>2. WorkOK'
      BY <1>0, <1>5, NextRestorableOK DEF AuthoriseFails
    <2>. QED
      BY <1>5, <2>1, <2>2 DEF AuthoriseFails, Attempt, Fails, TypeOK, accountVars
  <1>6. CASE StampBack(w)
    <2>1. Current(w) \in Members
      BY <1>0, <1>6, FirstIsIn DEF StampBack, At, WorkOK, Current, Work
    <2>2. WorkOK'
      BY <1>0, <1>6, NextRestorableOK DEF StampBack, Work
    <2>3. snapshots' \in [Members -> Snapshot]
      BY <1>6, <2>1, RowsTyped DEF StampBack, TypeOK
    <2>. QED
      BY <1>6, <2>2, <2>3 DEF StampBack, TypeOK, accountVars
  <1>7. CASE StampBackFails(w)
    <2>1. WorkOK'
      BY <1>0, <1>7, NextRestorableOK DEF StampBackFails
    <2>. QED
      BY <1>7, <2>1 DEF StampBackFails, Fails, TypeOK, accountVars, memberVars
  <1>8. CASE ActivateAccount(w)
    <2>1. work[w].done # <<>> =>
            RecordOK([work[w] EXCEPT !.at = "rollback", !.failed = (user = "EXPIRED")])
      BY <1>0 DEF RecordOK, Work, Stages
    <2>2. WorkOK' /\ unfulfilled' \in BOOLEAN
      BY <1>0, <1>8, <2>1, FinishOK, RecordChange DEF ActivateAccount, Settle
    <2>3. user' \in {"ACTIVE", "EXPIRED", "ADMIN"}
      BY <1>8 DEF ActivateAccount, TypeOK
    <2>. QED
      BY <1>8, <2>2, <2>3 DEF ActivateAccount, TypeOK, memberVars
  <1>9. CASE RollBack(w)
    <2>1. WorkOK'
      BY <1>0, <1>9, GotoOK DEF RollBack, At, Stages, WorkOK
    <2>. QED
      BY <1>9, <2>1 DEF RollBack, TypeOK, accountVars
  <1>10. CASE RollBackFails(w)
    <2>1. WorkOK' /\ unfulfilled' \in BOOLEAN
      BY <1>0, <1>10, NextRollbackOK DEF RollBackFails, At, WorkOK
    <2>. QED
      BY <1>10, <2>1 DEF RollBackFails, Attempt, Fails, TypeOK, accountVars
  <1>11. CASE Unstamp(w)
    <2>1. WorkOK' /\ unfulfilled' \in BOOLEAN
      BY <1>0, <1>11, NextRollbackOK DEF Unstamp, At, WorkOK, Work
    <2>2. Latest(w) \in Members
      BY <1>0, <1>11, Shorter DEF Unstamp, At, WorkOK, Work, Latest
    <2>3. snapshots' \in [Members -> Snapshot]
      BY <1>11, <2>2, RowsTyped DEF Unstamp, TypeOK
    <2>. QED
      BY <1>11, <2>1, <2>3 DEF Unstamp, TypeOK, accountVars
  <1>. QED
    BY <1>1, <1>2, <1>3, <1>4, <1>5, <1>6, <1>7, <1>8, <1>9, <1>10, <1>11
      DEF RestorationStep

LEMMA TypesStep == TypeOK /\ [Next]_vars => TypeOK'
  <1>. SUFFICES ASSUME TypeOK, [Next]_vars PROVE TypeOK'
    OBVIOUS
  <1>0. WorkOK
    BY DEF TypeOK
  <1>1. CASE UNCHANGED vars
    BY <1>1 DEF vars, accountVars, memberVars, TypeOK, WorkOK
  <1>2. ASSUME NEW w \in Workers, NEW paid \in BOOLEAN, Start(w, paid) PROVE WorkOK'
    <2>1. RecordOK([Idle EXCEPT !.at = "check", !.paid = paid])
      BY EmptySeq DEF RecordOK, Idle, Work, Stages
    <2>. QED
      BY <1>0, <1>2, <2>1, RecordChange DEF Start
  <1>3. ASSUME NEW w \in Workers, WorkerStep(w) PROVE TypeOK'
    BY <1>3, SuspensionTypes, RestorationTypes DEF WorkerStep
  <1>4. ASSUME NEW w \in Workers, Crash(w) PROVE TypeOK'
    BY <1>0, <1>4, FinishOK DEF Crash, Fails, TypeOK, accountVars, memberVars
  <1>5. ASSUME NEW w \in Workers, RenewByPayment(w) PROVE TypeOK'
    <2>1. Start(w, TRUE)
      BY <1>5 DEF RenewByPayment
    <2>2. WorkOK'
      BY <1>2, <2>1
    <2>3. PICK t \in clock + 1 .. MaxClock + 1 :
             sub' = [sub EXCEPT !.status = "ACTIVE", !.expiresAt = t]
      BY <1>5 DEF RenewByPayment
    <2>4. t \in Nat
      BY BoundsNatural DEF TypeOK
    <2>5. sub' \in [status : {"ACTIVE", "EXPIRED"}, startsAt : Nat, expiresAt : Nat]
      BY <2>3, <2>4 DEF TypeOK
    <2>. QED
      BY <1>5, <2>2, <2>5 DEF RenewByPayment, TypeOK, memberVars
  <1>6. ASSUME NEW w \in Workers, FulfilAgain(w) PROVE TypeOK'
    BY <1>2, <1>6 DEF FulfilAgain, TypeOK, accountVars, memberVars
  <1>7. ASSUME NEW h \in Handlers, RenewByAssignment(h) PROVE TypeOK'
    <2>1. h \in Workers
      BY DEF Workers
    <2>2. WorkOK'
      BY <1>0, <1>2, <1>7, <2>1 DEF RenewByAssignment, WorkOK
    <2>. QED
      BY <1>7, <2>2, BoundsNatural DEF RenewByAssignment, TypeOK, memberVars
  <1>8. ASSUME NEW m \in Members, OwnerChanges(m) PROVE TypeOK'
    BY <1>8 DEF OwnerChanges, Fails, TypeOK, accountVars, WorkOK
  <1>9. CASE PrepareSuspension
    <2>1. Cron \in Workers
      BY DEF Workers
    <2>2. WorkOK'
      BY <1>0, <1>9, <2>1, GotoOK DEF PrepareSuspension, Stages
    <2>3. snapshots' \in [Members -> Snapshot]
      BY <1>9, RowsTyped DEF PrepareSuspension, TypeOK
    <2>. QED
      BY <1>9, <2>2, <2>3 DEF PrepareSuspension, TypeOK
  <1>10. CASE AdminSuspends \/ AdminActivates \/ Tick
    BY <1>10 DEF AdminSuspends, AdminActivates, Tick, TypeOK, accountVars, memberVars,
                 WorkOK
  <1>. QED
    BY <1>1, <1>3, <1>4, <1>5, <1>6, <1>7, <1>8, <1>9, <1>10 DEF Next

LEMMA TypesStart == Init => TypeOK
  <1>. SUFFICES ASSUME Init PROVE TypeOK
    OBVIOUS
  <1>1. WorkOK
    BY EmptySeq DEF Init, WorkOK, Idle, Work, Stages
  <1>. QED
    BY <1>1 DEF Init, TypeOK, NoSnapshot, Snapshot

\* Variables stay within their types; in particular no worker is at a member when
\* it has none left, and none rolls back what it has not restored.
THEOREM TypeCorrect == Spec => []TypeOK
  BY TypesStart, TypesStep, PTL DEF Spec

-----------------------------------------------------------------------------
(* The invariant.                                                          *)

\* Who is where: only the minute job suspends, and the list of restored members
\* is empty until a restoration has authorised one.
StageSound ==
    \A w \in Workers :
       /\ work[w].at \in {"list", "deauthorise", "stamp"} => w = Cron
       /\ work[w].at \in {"idle", "list", "deauthorise", "stamp", "check", "gather"}
             => work[w].done = <<>>

\* A row is made before it is stamped, and workers go by rows.
RowsStored ==
    /\ \A m \in Members : snapshots[m].suspended => snapshots[m].stored
    /\ \A w \in Workers : \A m \in work[w].todo : snapshots[m].stored

\* A restoration has authorised m and not yet taken it off again.
HeldBy(w, m) ==
    \E i \in 1 .. Len(work[w].done) :
       /\ work[w].done[i] = m
       /\ work[w].at = "unstamp" => i < Len(work[w].done)
Held(m) == \E w \in Workers : HeldBy(w, m)

\* While an account is suspended for expiry, a member that is on is told of by a
\* row that is not stamped, or is in the hands of a restoration.
OnIsKnown ==
    faults = 0 /\ user = "EXPIRED" =>
       \A m \in authorised : /\ snapshots[m].stored
                             /\ snapshots[m].suspended => Held(m)

\* A member about to be stamped is off, or in the hands of a restoration.
StampIsTrue ==
    faults = 0 /\ user = "EXPIRED" /\ At(Cron, "stamp") /\ Current(Cron) \in authorised
       => Held(Current(Cron))

SuspInv == TypeOK /\ StageSound /\ RowsStored /\ OnIsKnown /\ StampIsTrue

\* A step of one worker that takes no member on: what is known stays known.
LEMMA KnownStays ==
    ASSUME SuspInv, NEW w \in Workers,
           \A v \in Workers \ {w} : work'[v] = work[v],
           \A m \in authorised' : HeldBy(w, m) => HeldBy(w, m)',
           w = Cron => work'[w].at # "stamp" \/ work' = work,
           user' = "EXPIRED" => user = "EXPIRED",
           faults' = 0 => faults = 0,
           authorised' \subseteq authorised,
           \A m \in Members : /\ snapshots'[m].stored = snapshots[m].stored
                              /\ snapshots'[m].suspended = snapshots[m].suspended
    PROVE  OnIsKnown' /\ StampIsTrue'
  <1>1. \A m \in authorised' : Held(m) => Held(m)'
    <2>. SUFFICES ASSUME NEW m \in authorised', NEW v \in Workers, HeldBy(v, m)
                  PROVE  \E u \in Workers : HeldBy(u, m)'
      BY DEF Held
    <2>1. CASE v = w
      BY <2>1
    <2>2. CASE v # w
      BY <2>2 DEF HeldBy
    <2>. QED
      BY <2>1, <2>2
  <1>2. authorised' \subseteq Members
    BY DEF SuspInv, TypeOK
  <1>3. OnIsKnown'
    BY <1>1, <1>2 DEF SuspInv, OnIsKnown
  <1>4. CASE w # Cron \/ work' = work
    <2>1. work'[Cron] = work[Cron]
      BY <1>4 DEF Workers
    <2>2. Current(Cron)' = Current(Cron) /\ At(Cron, "stamp")' = At(Cron, "stamp")
      BY <2>1 DEF Current, At
    <2>. QED
      BY <1>1, <1>3, <2>2 DEF SuspInv, StampIsTrue
  <1>5. CASE w = Cron /\ work'[w].at # "stamp"
    BY <1>3, <1>5 DEF StampIsTrue, At
  <1>. QED
    BY <1>4, <1>5

\* The list of a worker that is not taking a member off.
LEMMA HeldThrough ==
    ASSUME NEW w \in Workers, NEW m, work'[w].done = work[w].done,
           work'[w].at # "unstamp", HeldBy(w, m)
    PROVE  HeldBy(w, m)'
  BY DEF HeldBy

\* The list of a worker that has brought a member back.
LEMMA HoldsMore ==
    ASSUME NEW w \in Workers, NEW x \in Members, work[w].done \in Seq(Members),
           work'[w].done = Append(work[w].done, x), work'[w].at # "unstamp"
    PROVE  HeldBy(w, x)' /\ \A m : HeldBy(w, m) => HeldBy(w, m)'
  <1> DEFINE d == work[w].done
             e == work'[w].done
  <1>1. /\ Len(e) = Len(d) + 1 /\ Len(d) \in Nat
        /\ e[Len(d) + 1] = x /\ \A i \in 1 .. Len(d) : e[i] = d[i]
    BY AppendProperties, LenProperties
  <1> HIDE DEF d, e
  <1>2. \A n \in Nat : n + 1 \in 1 .. n + 1 /\ \A i \in 1 .. n : i \in 1 .. n + 1
    OBVIOUS
  <1>3. HeldBy(w, x)'
    <2>1. Len(d) + 1 \in 1 .. Len(e) /\ e[Len(d) + 1] = x
      BY <1>1, <1>2
    <2>. QED
      BY <2>1 DEF HeldBy, e
  <1>4. ASSUME NEW m, HeldBy(w, m) PROVE HeldBy(w, m)'
    <2>1. PICK i \in 1 .. Len(d) : d[i] = m
      BY <1>4 DEF HeldBy, d
    <2>2. i \in 1 .. Len(e) /\ e[i] = m
      BY <1>1, <1>2, <2>1
    <2>. QED
      BY <2>2 DEF HeldBy, e
  <1>. QED
    BY <1>3, <1>4

\* A worker that goes on with what it had.
LEMMA SoundGoesOn ==
    ASSUME SuspInv, NEW w \in Workers,
           \A v \in Workers \ {w} : work'[v] = work[v],
           work'[w].at \in {"list", "deauthorise", "stamp"} => w = Cron,
           work'[w].at \in {"idle", "list", "deauthorise", "stamp", "check", "gather"}
              => work'[w].done = <<>>,
           \A m \in work'[w].todo : snapshots'[m].stored,
           \A m \in Members : /\ snapshots[m].stored => snapshots'[m].stored
                              /\ snapshots'[m].suspended => snapshots'[m].stored
    PROVE  StageSound' /\ RowsStored'
  <1>1. StageSound'
    BY DEF SuspInv, StageSound
  <1>2. \A v \in Workers : work[v].todo \subseteq Members
    BY DEF SuspInv, TypeOK, WorkOK, Work
  <1>3. RowsStored'
    BY <1>2 DEF SuspInv, RowsStored
  <1>. QED
    BY <1>1, <1>3

-----------------------------------------------------------------------------
(* What the helpers do to a worker's record.                               *)

LEMMA FinishDoes ==
    ASSUME WorkOK, NEW w \in Workers, Finish(w)
    PROVE  /\ \A v \in Workers \ {w} : work'[v] = work[v]
           /\ work'[w].at = "idle" /\ work'[w].done = <<>> /\ work'[w].todo = {}
  <1>1. Idle.at = "idle" /\ Idle.done = <<>> /\ Idle.todo = {}
    BY DEF Idle
  <1>2. work'[w] = Idle /\ \A v \in Workers \ {w} : work'[v] = work[v]
    BY OwnRecord DEF Finish
  <1>. QED
    BY <1>1, <1>2

LEMMA GotoDoes ==
    ASSUME WorkOK, NEW w \in Workers, NEW stage, Goto(w, stage)
    PROVE  /\ \A v \in Workers \ {w} : work'[v] = work[v]
           /\ work'[w].at = stage
           /\ work'[w].done = work[w].done /\ work'[w].todo = work[w].todo
  BY OwnRecord DEF Goto, WorkOK, Work

LEMMA NextPendingDoes ==
    ASSUME WorkOK, NEW w \in Workers, NextPending(w), work[w].done = <<>>
    PROVE  /\ \A v \in Workers \ {w} : work'[v] = work[v]
           /\ work'[w].at \in {"idle", "deauthorise"}
           /\ work'[w].done = <<>> /\ work'[w].todo \subseteq work[w].todo
  <1>1. CASE work[w].todo \ {Current(w)} = {}
    BY <1>1, FinishDoes DEF NextPending
  <1>2. CASE work[w].todo \ {Current(w)} # {}
    <2> DEFINE r == [work[w] EXCEPT !.at = "deauthorise",
                                    !.todo = work[w].todo \ {Current(w)}]
    <2>1. work' = [work EXCEPT ![w] = r]
      BY <1>2 DEF NextPending
    <2>2. /\ r.at = "deauthorise" /\ r.done = <<>>
          /\ r.todo = work[w].todo \ {Current(w)}
      BY DEF WorkOK, Work
    <2> HIDE DEF r
    <2>3. work'[w] = r /\ \A v \in Workers \ {w} : work'[v] = work[v]
      BY <2>1, OwnRecord
    <2>. QED
      BY <2>2, <2>3
  <1>. QED
    BY <1>1, <1>2

LEMMA NextRestorableDoes ==
    ASSUME WorkOK, NEW w \in Workers, NEW failed \in BOOLEAN, NextRestorable(w, failed)
    PROVE  /\ \A v \in Workers \ {w} : work'[v] = work[v]
           /\ work'[w].at \in {"idle", "activate", "rollback", "recheck"}
           /\ work'[w].at = "idle" => work'[w].done = <<>>
           /\ work'[w].done = work[w].done /\ work'[w].todo \subseteq work[w].todo
  <1> DEFINE todo == work[w].todo \ {Current(w)}
             stage == IF todo = {} THEN AfterLoop(work[w].done, failed) ELSE "recheck"
             r == [work[w] EXCEPT !.at = stage, !.todo = todo, !.failed = failed]
  <1>1. CASE stage = "idle"
    <2>1. work[w].done = <<>> /\ Finish(w)
      BY <1>1 DEF NextRestorable, AfterLoop
    <2>. QED
      BY <2>1, FinishDoes
  <1>2. CASE stage # "idle"
    <2>1. work' = [work EXCEPT ![w] = r]
      BY <1>2 DEF NextRestorable
    <2>2. stage \in {"activate", "rollback", "recheck"}
      BY <1>2 DEF AfterLoop
    <2>3. r.at = stage /\ r.done = work[w].done /\ r.todo = todo
      BY DEF WorkOK, Work
    <2> HIDE DEF stage, r
    <2>. QED
      BY <2>1, <2>2, <2>3, OwnRecord
  <1>. QED
    BY <1>1, <1>2

LEMMA NextRollbackDoes ==
    ASSUME WorkOK, NEW w \in Workers, NEW failed \in BOOLEAN, NextRollback(w, failed)
    PROVE  /\ \A v \in Workers \ {w} : work'[v] = work[v]
           /\ work'[w].at \in {"idle", "rollback"}
           /\ work'[w].at = "idle" => work'[w].done = <<>>
           /\ work'[w].done = SubSeq(work[w].done, 1, Len(work[w].done) - 1)
           /\ work'[w].todo \subseteq work[w].todo
  <1> DEFINE done == SubSeq(work[w].done, 1, Len(work[w].done) - 1)
             r == [work[w] EXCEPT !.at = "rollback", !.done = done, !.failed = failed]
  <1>1. CASE done = <<>>
    <2>1. Finish(w)
      BY <1>1 DEF NextRollback, Settle
    <2>. QED
      BY <1>1, <2>1, FinishDoes
  <1>2. CASE done # <<>>
    <2>1. work' = [work EXCEPT ![w] = r]
      BY <1>2 DEF NextRollback
    <2>2. r.at = "rollback" /\ r.done = done /\ r.todo = work[w].todo
      BY DEF WorkOK, Work
    <2> HIDE DEF done, r
    <2>3. work'[w].at = "rollback" /\ work'[w].done = done /\ work'[w].todo = work[w].todo
      BY <2>1, <2>2, OwnRecord
    <2>. QED
      BY <2>1, <2>3, OwnRecord DEF done
  <1>. QED
    BY <1>1, <1>2

-----------------------------------------------------------------------------
(* The steps.                                                              *)

LEMMA SuspensionSafe ==
    ASSUME SuspInv, NEW w \in Workers, SuspensionStep(w)
    PROVE  StageSound' /\ RowsStored' /\ OnIsKnown' /\ StampIsTrue'
  <1>0. /\ WorkOK /\ faults \in Nat /\ snapshots \in [Members -> Snapshot]
        /\ authorised \subseteq Members
    BY DEF SuspInv, TypeOK
  <1>a. ASSUME NEW m, work[w].done = <<>> PROVE ~HeldBy(w, m)
    BY <1>a, EmptySeq DEF HeldBy
  <1>1. CASE ListUnfinished(w)
    <2>1. work[w].at = "list" /\ work[w].done = <<>> /\ w = Cron
      BY <1>1 DEF ListUnfinished, At, SuspInv, StageSound
    <2>2. /\ \A v \in Workers \ {w} : work'[v] = work[v]
          /\ work'[w].at \in {"idle", "deauthorise"}
          /\ work'[w].done = <<>> /\ work'[w].todo \subseteq Pending
      <3>1. CASE Pending = {}
        BY <1>0, <1>1, <3>1, FinishDoes DEF ListUnfinished
      <3>2. CASE Pending # {}
        <4> DEFINE r == [work[w] EXCEPT !.at = "deauthorise", !.todo = Pending]
        <4>1. work' = [work EXCEPT ![w] = r]
          BY <1>1, <3>2 DEF ListUnfinished
        <4>2. r.at = "deauthorise" /\ r.done = <<>> /\ r.todo = Pending
          BY <1>0, <2>1 DEF WorkOK, Work
        <4> HIDE DEF r
        <4>. QED
          BY <1>0, <4>1, <4>2, OwnRecord
      <3>. QED
        BY <3>1, <3>2
    <2>3. UNCHANGED <<user, authorised, snapshots, faults>>
      BY <1>1 DEF ListUnfinished, accountVars, memberVars
    <2>4. StageSound' /\ RowsStored'
      BY <2>1, <2>2, <2>3, SoundGoesOn DEF Pending, SuspInv, RowsStored
    <2>5. OnIsKnown' /\ StampIsTrue'
      BY <1>a, <2>1, <2>2, <2>3, KnownStays
    <2>. QED
      BY <2>4, <2>5
  <1>2. CASE Deauthorise(w)
    <2>1. work[w].at = "deauthorise" /\ work[w].done = <<>> /\ w = Cron
      BY <1>2 DEF Deauthorise, At, SuspInv, StageSound
    <2>2. /\ \A v \in Workers \ {w} : work'[v] = work[v]
          /\ work'[w].at = "stamp" /\ work'[w].done = work[w].done
          /\ work'[w].todo = work[w].todo
      BY <1>0, <1>2, GotoDoes DEF Deauthorise
    <2>3. /\ UNCHANGED <<user, snapshots, faults>>
          /\ authorised' = authorised \ {Current(w)}
      BY <1>2 DEF Deauthorise, accountVars
    <2>4. StageSound' /\ RowsStored'
      BY <2>1, <2>2, <2>3, SoundGoesOn DEF SuspInv, RowsStored
    <2>5. \A m : Held(m) => Held(m)'
      BY <1>a, <2>1, <2>2 DEF Held, HeldBy
    <2>6. OnIsKnown'
      BY <2>3, <2>5 DEF SuspInv, OnIsKnown
    <2>7. StampIsTrue'
      BY <2>1, <2>2, <2>3 DEF StampIsTrue, Current
    <2>. QED
      BY <2>4, <2>6, <2>7
  <1>3. CASE DeauthoriseFails(w) \/ StampFails(w)
    <2>1. /\ work[w].at \in {"deauthorise", "stamp"} /\ work[w].done = <<>>
          /\ w = Cron
      BY <1>3 DEF DeauthoriseFails, StampFails, At, SuspInv, StageSound
    <2>2. /\ \A v \in Workers \ {w} : work'[v] = work[v]
          /\ work'[w].at \in {"idle", "deauthorise"}
          /\ work'[w].done = <<>> /\ work'[w].todo \subseteq work[w].todo
      BY <1>0, <1>3, <2>1, NextPendingDoes DEF DeauthoriseFails, StampFails
    <2>3. snapshots' = snapshots /\ faults' # 0
      BY <1>0, <1>3 DEF DeauthoriseFails, StampFails, Fails, memberVars
    <2>4. StageSound' /\ RowsStored'
      BY <2>1, <2>2, <2>3, SoundGoesOn DEF SuspInv, RowsStored
    <2>. QED
      BY <2>3, <2>4 DEF OnIsKnown, StampIsTrue
  <1>4. CASE Stamp(w)
    <2>1. work[w].at = "stamp" /\ work[w].done = <<>> /\ w = Cron
      BY <1>4 DEF Stamp, At, SuspInv, StageSound
    <2>2. /\ \A v \in Workers \ {w} : work'[v] = work[v]
          /\ work'[w].at \in {"idle", "deauthorise"}
          /\ work'[w].done = <<>> /\ work'[w].todo \subseteq work[w].todo
      BY <1>0, <1>4, <2>1, NextPendingDoes DEF Stamp
    <2>3. Current(w) \in work[w].todo /\ Current(w) \in Members
      BY <1>0, <2>1, FirstIsIn DEF WorkOK, Work, Current
    <2>4. /\ UNCHANGED <<user, authorised, faults>>
          /\ \A m \in Members : snapshots'[m].stored = snapshots[m].stored
          /\ \A m \in Members \ {Current(w)} : snapshots'[m] = snapshots[m]
      BY <1>0, <1>4, <2>3 DEF Stamp, accountVars, Snapshot
    <2>5. snapshots[Current(w)].stored
      BY <2>3 DEF SuspInv, RowsStored
    <2>6. StageSound' /\ RowsStored'
      <3>1. \A m \in work[w].todo : m \in Members
        BY <1>0 DEF WorkOK, Work
      <3>. QED
        BY <2>1, <2>2, <2>4, <2>5, <3>1, SoundGoesOn DEF SuspInv, RowsStored
    <2>7. \A m : Held(m) => Held(m)'
      BY <1>a, <2>1, <2>2 DEF Held, HeldBy
    <2>8. OnIsKnown'
      <3>. SUFFICES ASSUME faults = 0, user = "EXPIRED", NEW m \in authorised
                    PROVE  snapshots'[m].stored /\ (snapshots'[m].suspended => Held(m)')
        BY <2>4 DEF OnIsKnown
      <3>1. m \in Members /\ snapshots'[m].stored
        BY <1>0, <2>4 DEF SuspInv, OnIsKnown
      <3>2. CASE m = Current(w)
        BY <2>1, <2>7, <3>1, <3>2 DEF SuspInv, StampIsTrue, At
      <3>3. CASE m # Current(w)
        BY <2>4, <2>7, <3>1, <3>3 DEF SuspInv, OnIsKnown
      <3>. QED
        BY <3>2, <3>3
    <2>9. StampIsTrue'
      BY <2>1, <2>2 DEF StampIsTrue, At
    <2>. QED
      BY <2>6, <2>8, <2>9
  <1>. QED
    BY <1>1, <1>2, <1>3, <1>4 DEF SuspensionStep

LEMMA RestorationSafe ==
    ASSUME SuspInv, NEW w \in Workers, RestorationStep(w)
    PROVE  StageSound' /\ RowsStored' /\ OnIsKnown' /\ StampIsTrue'
  <1>0. /\ WorkOK /\ faults \in Nat /\ snapshots \in [Members -> Snapshot]
        /\ authorised \subseteq Members
        /\ work[w].done \in Seq(Members) /\ work[w].todo \subseteq Members
        /\ work[w].failed \in BOOLEAN
    BY DEF SuspInv, TypeOK, WorkOK, Work
  <1>a. ASSUME NEW m, work[w].done = <<>> PROVE ~HeldBy(w, m)
    BY <1>a, EmptySeq DEF HeldBy
  <1>b. \A m \in work[w].todo : snapshots[m].stored
    BY DEF SuspInv, RowsStored
  <1>1. CASE CheckAccount(w)
    <2>1. work[w].at = "check" /\ work[w].done = <<>>
      BY <1>1 DEF CheckAccount, At, SuspInv, StageSound
    <2>2. /\ \A v \in Workers \ {w} : work'[v] = work[v]
          /\ work'[w].at \in {"idle", "gather"}
          /\ work'[w].done = <<>> /\ work'[w].todo \subseteq work[w].todo
      <3> DEFINE r == [work[w] EXCEPT !.at = "gather", !.now = clock]
      <3>1. r.at = "gather" /\ r.done = <<>> /\ r.todo = work[w].todo
        BY <1>0, <2>1 DEF WorkOK, Work
      <3>2. Finish(w) \/ work' = [work EXCEPT ![w] = r]
        BY <1>1 DEF CheckAccount, Settle
      <3> HIDE DEF r
      <3>3. CASE work' = [work EXCEPT ![w] = r]
        BY <1>0, <3>1, <3>3, OwnRecord
      <3>. QED
        BY <1>0, <3>2, <3>3, FinishDoes
    <2>3. UNCHANGED <<user, authorised, snapshots, faults>>
      BY <1>1 DEF CheckAccount, accountVars, memberVars
    <2>4. StageSound' /\ RowsStored'
      BY <1>b, <2>2, <2>3, SoundGoesOn DEF SuspInv, RowsStored
    <2>5. OnIsKnown' /\ StampIsTrue'
      BY <1>a, <2>1, <2>2, <2>3, KnownStays
    <2>. QED
      BY <2>4, <2>5
  <1>2. CASE GatherSnapshots(w)
    <2>1. work[w].at = "gather" /\ work[w].done = <<>>
      BY <1>2 DEF GatherSnapshots, At, SuspInv, StageSound
    <2>2. /\ \A v \in Workers \ {w} : work'[v] = work[v]
          /\ work'[w].at \in {"activate", "recheck"}
          /\ work'[w].done = <<>> /\ work'[w].todo = Restorable
      <3> DEFINE stage == IF Restorable = {} THEN "activate" ELSE "recheck"
                 r == [work[w] EXCEPT !.todo = Restorable, !.at = stage]
      <3>1. work' = [work EXCEPT ![w] = r]
        BY <1>2 DEF GatherSnapshots
      <3>2. r.at = stage /\ r.done = <<>> /\ r.todo = Restorable
        BY <1>0, <2>1 DEF WorkOK, Work
      <3> HIDE DEF r
      <3>. QED
        BY <1>0, <3>1, <3>2, OwnRecord
    <2>3. UNCHANGED <<user, authorised, snapshots, faults>>
      BY <1>2 DEF GatherSnapshots, accountVars, memberVars
    <2>4. StageSound' /\ RowsStored'
      BY <2>2, <2>3, SoundGoesOn DEF Restorable, SuspInv, RowsStored
    <2>5. OnIsKnown' /\ StampIsTrue'
      BY <1>a, <2>1, <2>2, <2>3, KnownStays
    <2>. QED
      BY <2>4, <2>5
  <1>3. CASE Recheck(w)
    <2>1. /\ \A v \in Workers \ {w} : work'[v] = work[v]
          /\ work'[w].at \in {"idle", "authorise", "activate", "rollback"}
          /\ work'[w].at = "idle" => work'[w].done = <<>>
          /\ work'[w].done = work[w].done /\ work'[w].todo \subseteq work[w].todo
      <3> DEFINE stage == AfterLoop(work[w].done, work[w].failed)
      <3>1. stage \in {"activate", "rollback", "idle"} /\ (stage = "idle" => work[w].done = <<>>)
        BY DEF AfterLoop
      <3>2. \/ Goto(w, "authorise")
            \/ stage = "idle" /\ Finish(w)
            \/ stage # "idle" /\ Goto(w, stage)
        BY <1>3 DEF Recheck
      <3> HIDE DEF stage
      <3>3. CASE Goto(w, "authorise")
        BY <1>0, <3>3, GotoDoes
      <3>4. CASE stage = "idle" /\ Finish(w)
        BY <1>0, <3>1, <3>4, FinishDoes
      <3>5. CASE stage # "idle" /\ Goto(w, stage)
        BY <1>0, <3>1, <3>5, GotoDoes
      <3>. QED
        BY <3>2, <3>3, <3>4, <3>5
    <2>2. UNCHANGED <<user, authorised, snapshots, faults>>
      BY <1>3 DEF Recheck, accountVars, memberVars
    <2>3. StageSound' /\ RowsStored'
      BY <1>b, <2>1, <2>2, SoundGoesOn DEF SuspInv, RowsStored
    <2>4. OnIsKnown' /\ StampIsTrue'
      BY <2>1, <2>2, HeldThrough, KnownStays
    <2>. QED
      BY <2>3, <2>4
  <1>4. CASE Authorise(w)
    <2>1. work[w].at = "authorise"
      BY <1>4 DEF Authorise, At
    <2>2. Current(w) \in work[w].todo
      BY <1>0, <2>1, FirstIsIn DEF WorkOK, Current
    <2>3. /\ \A v \in Workers \ {w} : work'[v] = work[v]
          /\ work'[w].at = "stampBack" /\ work'[w].todo = work[w].todo
          /\ work'[w].done = Append(work[w].done, Current(w))
      <3> DEFINE r == [work[w] EXCEPT !.at = "stampBack",
                                      !.done = Append(work[w].done, Current(w))]
      <3>1. work' = [work EXCEPT ![w] = r]
        BY <1>4 DEF Authorise
      <3>2. /\ r.at = "stampBack" /\ r.done = Append(work[w].done, Current(w))
            /\ r.todo = work[w].todo
        BY <1>0 DEF WorkOK, Work
      <3> HIDE DEF r
      <3>. QED
        BY <1>0, <3>1, <3>2, OwnRecord
    <2>4. /\ UNCHANGED <<user, snapshots, faults>>
          /\ authorised' = authorised \union {Current(w)}
      BY <1>4 DEF Authorise, accountVars
    <2>5. StageSound' /\ RowsStored'
      BY <1>b, <2>3, <2>4, SoundGoesOn DEF SuspInv, RowsStored
    <2>6. PICK x \in work[w].todo : x = Current(w)
      BY <2>2
    <2>7. HeldBy(w, x)' /\ \A m : HeldBy(w, m) => HeldBy(w, m)'
      BY <1>0, <2>3, <2>6, HoldsMore
    <2>8. \A v \in Workers \ {w} : \A m : HeldBy(v, m) => HeldBy(v, m)'
      BY <2>3 DEF HeldBy
    <2>9. \A m : Held(m) => Held(m)'
      BY <2>7, <2>8 DEF Held
    <2>10. OnIsKnown'
      <3>. SUFFICES ASSUME faults = 0, user = "EXPIRED", NEW m \in authorised'
                    PROVE  snapshots[m].stored /\ (snapshots[m].suspended => Held(m)')
        BY <2>4 DEF OnIsKnown
      <3>1. CASE m = x
        BY <1>b, <2>7, <3>1 DEF Held
      <3>2. CASE m # x
        <4>1. m \in authorised
          BY <2>4, <2>6, <3>2
        <4>. QED
          BY <2>9, <4>1 DEF SuspInv, OnIsKnown
      <3>. QED
        BY <3>1, <3>2
    <2>11. StampIsTrue'
      <3>1. CASE w = Cron
        BY <2>3, <3>1 DEF StampIsTrue, At
      <3>2. CASE w # Cron
        <4>1. work'[Cron] = work[Cron]
          BY <2>3, <3>2 DEF Workers
        <4>2. Current(Cron)' = Current(Cron) /\ At(Cron, "stamp")' = At(Cron, "stamp")
          BY <4>1 DEF Current, At
        <4>3. PICK c : c = Current(Cron)
          OBVIOUS
        <4>4. CASE c = x
          <5>1. Held(c)'
            BY <2>7, <4>4 DEF Held
          <5>. QED
            BY <4>2, <4>3, <5>1 DEF StampIsTrue
        <4>5. CASE c # x
          <5>1. c \in authorised' => c \in authorised
            BY <2>4, <2>6, <4>5
          <5>2. faults = 0 /\ user = "EXPIRED" /\ At(Cron, "stamp") /\ c \in authorised
                   => Held(c)'
            BY <2>9, <4>3 DEF SuspInv, StampIsTrue
          <5>. QED
            BY <2>4, <4>2, <4>3, <5>1, <5>2 DEF StampIsTrue
        <4>. QED
          BY <4>4, <4>5
      <3>. QED
        BY <3>1, <3>2
    <2>. QED
      BY <2>5, <2>10, <2>11
  <1>5. CASE AuthoriseFails(w) \/ StampBackFails(w)
    <2>1. /\ \A v \in Workers \ {w} : work'[v] = work[v]
          /\ work'[w].at \in {"idle", "activate", "rollback", "recheck"}
          /\ work'[w].at = "idle" => work'[w].done = <<>>
          /\ work'[w].done = work[w].done /\ work'[w].todo \subseteq work[w].todo
      BY <1>0, <1>5, NextRestorableDoes DEF AuthoriseFails, StampBackFails
    <2>2. snapshots' = snapshots /\ faults' = faults + 1
      BY <1>5 DEF AuthoriseFails, StampBackFails, Fails, memberVars
    <2>4. faults' # 0
      BY <1>0, <2>2
    <2>3. StageSound' /\ RowsStored'
      BY <1>b, <2>1, <2>2, SoundGoesOn DEF SuspInv, RowsStored
    <2>. QED
      BY <2>3, <2>4 DEF OnIsKnown, StampIsTrue
  <1>6. CASE StampBack(w)
    <2>1. /\ \A v \in Workers \ {w} : work'[v] = work[v]
          /\ work'[w].at \in {"idle", "activate", "rollback", "recheck"}
          /\ work'[w].at = "idle" => work'[w].done = <<>>
          /\ work'[w].done = work[w].done /\ work'[w].todo \subseteq work[w].todo
      BY <1>0, <1>6, NextRestorableDoes DEF StampBack
    <2>2. /\ UNCHANGED <<user, authorised, faults>>
          /\ \A m \in Members : /\ snapshots'[m].stored = snapshots[m].stored
                                /\ snapshots'[m].suspended = snapshots[m].suspended
      BY <1>0, <1>6 DEF StampBack, accountVars, Snapshot
    <2>3. StageSound' /\ RowsStored'
      BY <1>0, <1>b, <2>1, <2>2, SoundGoesOn DEF SuspInv, RowsStored
    <2>4. OnIsKnown' /\ StampIsTrue'
      BY <2>1, <2>2, HeldThrough, KnownStays
    <2>. QED
      BY <2>3, <2>4
  <1>7. CASE ActivateAccount(w)
    <2>1. /\ \A v \in Workers \ {w} : work'[v] = work[v]
          /\ work'[w].at \in {"idle", "rollback"}
          /\ work'[w].at = "idle" => work'[w].done = <<>>
          /\ user' = "EXPIRED" => work'[w].done = work[w].done
          /\ work'[w].todo \subseteq work[w].todo
      <3> DEFINE r == [work[w] EXCEPT !.at = "rollback", !.failed = (user = "EXPIRED")]
      <3>1. \/ Finish(w) /\ (user' # "EXPIRED" \/ work[w].done = <<>>)
            \/ work' = [work EXCEPT ![w] = r]
        BY <1>7 DEF ActivateAccount, Settle
      <3>2. r.at = "rollback" /\ r.done = work[w].done /\ r.todo = work[w].todo
        BY <1>0 DEF WorkOK, Work
      <3> HIDE DEF r
      <3>3. CASE work' = [work EXCEPT ![w] = r]
        BY <1>0, <3>2, <3>3, OwnRecord
      <3>4. CASE Finish(w) /\ (user' # "EXPIRED" \/ work[w].done = <<>>)
        BY <1>0, <3>4, FinishDoes
      <3>. QED
        BY <3>1, <3>3, <3>4
    <2>2. /\ UNCHANGED <<authorised, snapshots, faults>>
          /\ user' = "EXPIRED" => user = "EXPIRED"
      BY <1>7 DEF ActivateAccount, memberVars
    <2>3. StageSound' /\ RowsStored'
      BY <1>b, <2>1, <2>2, SoundGoesOn DEF SuspInv, RowsStored
    <2>4. CASE user' = "EXPIRED"
      BY <2>1, <2>2, <2>4, HeldThrough, KnownStays, <2>3
    <2>5. CASE user' # "EXPIRED"
      BY <2>3, <2>5 DEF OnIsKnown, StampIsTrue
    <2>. QED
      BY <2>4, <2>5
  <1>8. CASE RollBack(w)
    <2>1. work[w].at = "rollback" /\ work[w].done # <<>>
      BY <1>0, <1>8 DEF RollBack, At, WorkOK
    <2>2. /\ \A v \in Workers \ {w} : work'[v] = work[v]
          /\ work'[w].at = "unstamp"
          /\ work'[w].done = work[w].done /\ work'[w].todo = work[w].todo
      BY <1>0, <1>8, GotoDoes DEF RollBack
    <2>3. /\ UNCHANGED <<user, snapshots, faults>>
          /\ authorised' = authorised \ {Latest(w)}
      BY <1>8 DEF RollBack, accountVars
    <2>4. StageSound' /\ RowsStored'
      BY <1>b, <2>2, <2>3, SoundGoesOn DEF SuspInv, RowsStored
    <2>5. ASSUME NEW m \in authorised', HeldBy(w, m) PROVE HeldBy(w, m)'
      <3>1. PICK i \in 1 .. Len(work[w].done) : work[w].done[i] = m
        BY <2>5 DEF HeldBy
      <3>2. m # work[w].done[Len(work[w].done)]
        BY <2>3 DEF Latest
      <3>3. Len(work[w].done) \in Nat
        BY <1>0
      <3>4. i < Len(work[w].done)
        BY <3>1, <3>2, <3>3
      <3>. QED
        BY <2>2, <3>1, <3>4 DEF HeldBy
    <2>6. OnIsKnown' /\ StampIsTrue'
      BY <2>2, <2>3, <2>5, KnownStays
    <2>. QED
      BY <2>4, <2>6
  <1>9. CASE RollBackFails(w)
    <2>1. /\ \A v \in Workers \ {w} : work'[v] = work[v]
          /\ work'[w].at \in {"idle", "rollback"}
          /\ work'[w].at = "idle" => work'[w].done = <<>>
          /\ work'[w].todo \subseteq work[w].todo
      BY <1>0, <1>9, NextRollbackDoes DEF RollBackFails
    <2>2. snapshots' = snapshots /\ faults' # 0
      BY <1>0, <1>9 DEF RollBackFails, Fails
    <2>3. StageSound' /\ RowsStored'
      BY <1>b, <2>1, <2>2, SoundGoesOn DEF SuspInv, RowsStored
    <2>. QED
      BY <2>2, <2>3 DEF OnIsKnown, StampIsTrue
  <1>10. CASE Unstamp(w)
    <2>1. work[w].at = "unstamp" /\ work[w].done # <<>>
      BY <1>0, <1>10 DEF Unstamp, At, WorkOK
    <2>2. /\ \A v \in Workers \ {w} : work'[v] = work[v]
          /\ work'[w].at \in {"idle", "rollback"}
          /\ work'[w].at = "idle" => work'[w].done = <<>>
          /\ work'[w].done = SubSeq(work[w].done, 1, Len(work[w].done) - 1)
          /\ work'[w].todo \subseteq work[w].todo
      BY <1>0, <1>10, NextRollbackDoes DEF Unstamp
    <2>3. /\ UNCHANGED <<user, authorised, faults>>
          /\ \A m \in Members : /\ snapshots'[m].stored = snapshots[m].stored
                                /\ snapshots'[m].suspended = snapshots[m].suspended
      BY <1>0, <1>10 DEF Unstamp, accountVars, Snapshot
    <2>4. StageSound' /\ RowsStored'
      BY <1>0, <1>b, <2>2, <2>3, SoundGoesOn DEF SuspInv, RowsStored
    <2>5. ASSUME NEW m \in authorised', HeldBy(w, m) PROVE HeldBy(w, m)'
      <3>1. PICK i \in 1 .. Len(work[w].done) :
               work[w].done[i] = m /\ i < Len(work[w].done)
        BY <2>1, <2>5 DEF HeldBy
      <3>2. /\ Len(work'[w].done) = Len(work[w].done) - 1
            /\ \A j \in 1 .. Len(work'[w].done) : work'[w].done[j] = work[w].done[j]
        BY <1>0, <2>1, <2>2, Shorter
      <3>3. Len(work[w].done) \in Nat
        BY <1>0
      <3>4. i \in 1 .. Len(work'[w].done)
        BY <3>1, <3>2, <3>3
      <3>. QED
        BY <2>2, <3>1, <3>2, <3>4 DEF HeldBy
    <2>6. OnIsKnown' /\ StampIsTrue'
      BY <2>2, <2>3, <2>5, KnownStays
    <2>. QED
      BY <2>4, <2>6
  <1>. QED
    BY <1>1, <1>2, <1>3, <1>4, <1>5, <1>6, <1>7, <1>8, <1>9, <1>10 DEF RestorationStep

\* A restoration begins with nothing in hand.
LEMMA StartSafe ==
    ASSUME SuspInv, NEW w \in Workers, NEW paid \in BOOLEAN, Start(w, paid),
           UNCHANGED <<user, memberVars, faults>>
    PROVE  StageSound' /\ RowsStored' /\ OnIsKnown' /\ StampIsTrue'
  <1> DEFINE r == [Idle EXCEPT !.at = "check", !.paid = paid]
  <1>1. WorkOK /\ work[w].at = "idle" /\ work[w].done = <<>>
    BY DEF SuspInv, TypeOK, StageSound, Start, At
  <1>2. work' = [work EXCEPT ![w] = r]
    BY DEF Start
  <1>3. r.at = "check" /\ r.done = <<>> /\ r.todo = {}
    BY DEF Idle
  <1> HIDE DEF r
  <1>4. /\ \A v \in Workers \ {w} : work'[v] = work[v]
        /\ work'[w].at = "check" /\ work'[w].done = <<>> /\ work'[w].todo = {}
    BY <1>1, <1>2, <1>3, OwnRecord
  <1>5. UNCHANGED <<authorised, snapshots, user, faults>>
    BY DEF memberVars
  <1>6. StageSound' /\ RowsStored'
    BY <1>4, <1>5, SoundGoesOn DEF SuspInv, RowsStored
  <1>7. \A m : ~HeldBy(w, m)
    BY <1>1, EmptySeq DEF HeldBy
  <1>8. OnIsKnown' /\ StampIsTrue'
    BY <1>4, <1>5, <1>7, KnownStays
  <1>. QED
    BY <1>6, <1>8

\* An expiry resets the row of every member that is on.
LEMMA PrepareSafe ==
    ASSUME SuspInv, PrepareSuspension
    PROVE  StageSound' /\ RowsStored' /\ OnIsKnown' /\ StampIsTrue'
  <1>1. /\ WorkOK /\ Cron \in Workers /\ authorised \subseteq Members
        /\ snapshots \in [Members -> Snapshot]
        /\ work[Cron].at = "idle" /\ work[Cron].done = <<>>
    BY DEF SuspInv, TypeOK, StageSound, PrepareSuspension, At, Workers
  <1>2. /\ \A v \in Workers \ {Cron} : work'[v] = work[v]
        /\ work'[Cron].at = "list" /\ work'[Cron].done = <<>>
        /\ work'[Cron].todo = work[Cron].todo
    BY <1>1, GotoDoes DEF PrepareSuspension
  <1>3. /\ authorised' = authorised
        /\ \A m \in Members : snapshots'[m] = Prepared(m)
    BY DEF PrepareSuspension
  <1>4. \A m \in Members :
           /\ snapshots[m].stored => snapshots'[m].stored
           /\ snapshots'[m].suspended => snapshots[m].suspended /\ snapshots'[m].stored
           /\ m \in authorised => snapshots'[m].stored /\ ~snapshots'[m].suspended
    BY <1>3 DEF Prepared, SuspInv, RowsStored
  <1>5. StageSound' /\ RowsStored'
    <2>1. \A m \in work[Cron].todo : m \in Members /\ snapshots[m].stored
      BY <1>1 DEF SuspInv, RowsStored, WorkOK, Work
    <2>. QED
      BY <1>1, <1>2, <1>4, <2>1, SoundGoesOn
  <1>6. OnIsKnown'
    BY <1>1, <1>3, <1>4 DEF OnIsKnown
  <1>7. StampIsTrue'
    BY <1>2 DEF StampIsTrue, At
  <1>. QED
    BY <1>5, <1>6, <1>7

LEMMA SuspStep == SuspInv /\ [Next]_vars => SuspInv'
  <1>. SUFFICES ASSUME SuspInv, [Next]_vars PROVE SuspInv'
    OBVIOUS
  <1>0. TypeOK' /\ WorkOK /\ faults \in Nat
    BY TypesStep DEF SuspInv, TypeOK
  <1>. SUFFICES StageSound' /\ RowsStored' /\ OnIsKnown' /\ StampIsTrue'
    BY <1>0 DEF SuspInv
  <1>1. ASSUME NEW w \in Workers, WorkerStep(w)
        PROVE  StageSound' /\ RowsStored' /\ OnIsKnown' /\ StampIsTrue'
    BY <1>1, SuspensionSafe, RestorationSafe DEF WorkerStep
  <1>2. ASSUME NEW w \in Workers, Crash(w)
        PROVE  StageSound' /\ RowsStored' /\ OnIsKnown' /\ StampIsTrue'
    <2>1. /\ \A v \in Workers \ {w} : work'[v] = work[v]
          /\ work'[w].at = "idle" /\ work'[w].done = <<>> /\ work'[w].todo = {}
      BY <1>0, <1>2, FinishDoes DEF Crash
    <2>2. snapshots' = snapshots /\ faults' = faults + 1
      BY <1>2 DEF Crash, Fails, memberVars
    <2>3. faults' # 0
      BY <1>0, <2>2
    <2>4. StageSound' /\ RowsStored'
      BY <2>1, <2>2, SoundGoesOn DEF SuspInv, RowsStored
    <2>. QED
      BY <2>3, <2>4 DEF OnIsKnown, StampIsTrue
  <1>3. ASSUME NEW w \in Workers, RenewByPayment(w) \/ FulfilAgain(w)
        PROVE  StageSound' /\ RowsStored' /\ OnIsKnown' /\ StampIsTrue'
    <2>1. Start(w, TRUE) /\ UNCHANGED <<user, memberVars, faults>>
      BY <1>3 DEF RenewByPayment, FulfilAgain, accountVars
    <2>. QED
      BY <2>1, StartSafe
  <1>4. ASSUME UNCHANGED <<authorised, snapshots, work>>, faults' = faults,
               user' = "EXPIRED" => user = "EXPIRED"
        PROVE  StageSound' /\ RowsStored' /\ OnIsKnown' /\ StampIsTrue'
    <2>1. StageSound' /\ RowsStored'
      BY <1>4 DEF SuspInv, StageSound, RowsStored
    <2>2. Cron \in Workers
      BY DEF Workers
    <2>3. \A m : HeldBy(Cron, m) => HeldBy(Cron, m)'
      BY <1>4 DEF HeldBy
    <2>4. OnIsKnown' /\ StampIsTrue'
      BY <1>4, <2>2, <2>3, KnownStays
    <2>. QED
      BY <2>1, <2>4
  <1>5. ASSUME NEW h \in Handlers, RenewByAssignment(h)
        PROVE  StageSound' /\ RowsStored' /\ OnIsKnown' /\ StampIsTrue'
    <2>1. UNCHANGED <<user, memberVars, faults>> /\ h \in Workers
      BY <1>5 DEF RenewByAssignment, Workers
    <2>2. CASE Start(h, FALSE)
      BY <2>1, <2>2, StartSafe
    <2>3. CASE UNCHANGED work
      BY <1>4, <2>1, <2>3 DEF memberVars
    <2>. QED
      BY <1>5, <2>2, <2>3 DEF RenewByAssignment
  <1>6. ASSUME NEW m \in Members, OwnerChanges(m)
        PROVE  StageSound' /\ RowsStored' /\ OnIsKnown' /\ StampIsTrue'
    <2>1. UNCHANGED <<user, snapshots, work>>
      BY <1>6 DEF OwnerChanges, accountVars
    <2>2. StageSound' /\ RowsStored'
      BY <2>1 DEF SuspInv, StageSound, RowsStored
    <2>3. user' = "ACTIVE" \/ faults' = faults + 1
      BY <1>6, <2>1 DEF OwnerChanges, Fails
    <2>4. user' # "EXPIRED" \/ faults' # 0
      BY <1>0, <2>3
    <2>. QED
      BY <2>2, <2>4 DEF OnIsKnown, StampIsTrue
  <1>7. CASE AdminSuspends \/ AdminActivates
    BY <1>4, <1>7 DEF AdminSuspends, AdminActivates, memberVars
  <1>8. CASE Tick
    BY <1>4, <1>8 DEF Tick, accountVars, memberVars
  <1>9. CASE UNCHANGED vars
    BY <1>4, <1>9 DEF vars, accountVars, memberVars
  <1>. QED
    BY <1>1, <1>2, <1>3, <1>5, <1>6, <1>7, <1>8, <1>9, PrepareSafe DEF Next

LEMMA SuspStart == Init => SuspInv
  <1>. SUFFICES ASSUME Init PROVE SuspInv
    OBVIOUS
  <1>1. user = "ACTIVE" /\ \A m \in Members : ~snapshots[m].suspended
    BY DEF Init, NoSnapshot
  <1>2. \A w \in Workers : work[w].at = "idle" /\ work[w].done = <<>> /\ work[w].todo = {}
    BY DEF Init, Idle
  <1>. QED
    BY <1>1, <1>2, TypesStart DEF SuspInv, StageSound, RowsStored, OnIsKnown, StampIsTrue

\* Whatever renewals, restorations and expiries cross: as long as no call has
\* failed, a member that is on while its account is suspended for expiry has a
\* row that is not stamped, or is held by a restoration in progress
\* (suspendExpiredSubscription, restoreSubscriptionExpiredUser).
THEOREM SuspensionInvariant == Spec => []SuspInv
  BY SuspStart, SuspStep, PTL DEF Spec

-----------------------------------------------------------------------------
(* What it gives.                                                          *)

\* Nobody holds a member once every worker is done.
LEMMA QuietHoldsNobody == ASSUME SuspInv, Quiet, NEW m PROVE ~Held(m)
  <1>1. \A w \in Workers : work[w].done = <<>>
    BY DEF SuspInv, StageSound, Quiet, At
  <1>. QED
    BY <1>1, EmptySeq DEF Held, HeldBy

\* A suspension that has run to its end, with no call failed, leaves no member of
\* the expired account on the controller, but those whose row a restoration has
\* marked restored after the expiry had reset it (suspendExpiredSubscription).
THEOREM ExpiredAreOff == Spec => []ExpiredIsOff
  <1>1. SuspInv => ExpiredIsOff
    <2>. SUFFICES ASSUME SuspInv, faults = 0, Quiet, user = "EXPIRED", Pending = {},
                         NEW m \in authorised
                  PROVE  m \in Overtaken
      BY DEF ExpiredIsOff
    <2>1. m \in Members
      BY DEF SuspInv, TypeOK
    <2>2. snapshots[m].stored /\ ~snapshots[m].suspended
      BY QuietHoldsNobody DEF SuspInv, OnIsKnown
    <2>3. snapshots[m].restored
      BY <2>1, <2>2 DEF Pending
    <2>. QED
      BY <2>1, <2>2, <2>3 DEF Overtaken
  <1>. QED
    BY <1>1, SuspensionInvariant, PTL

\* A restoration that did not give the account back has taken off again every
\* member it brought back (restoreSubscriptionExpiredUser,
\* rollbackRestoredMembers), as long as no call has failed.
THEOREM StampedAreOff == Spec => []StampedIsOff
  <1>1. SuspInv => StampedIsOff
    BY QuietHoldsNobody DEF SuspInv, OnIsKnown, StampedIsOff, Restorable
  <1>. QED
    BY <1>1, SuspensionInvariant, PTL
=============================================================================
