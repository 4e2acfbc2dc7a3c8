-------------------------- MODULE NetworkPageProofs --------------------------
(***************************************************************************)
(* The page of one network.                                                *)
(*                                                                         *)
(* Its members: the loop is never lost while a viewer is counted, every    *)
(* viewer is counted, and the variables keep their types, for any members, *)
(* users and sockets and any bounds.  The argument: the handle names a     *)
(* timer that is set, of the state there is; a tick that waits, waits for  *)
(* a run under way, whose end sets a timer again; and a reconcile stores   *)
(* only what it has fetched.                                               *)
(*                                                                         *)
(* Its routes: only rows go whose route the controller did not have, for   *)
(* any routes, loads and edits.                                            *)
(***************************************************************************)
EXTENDS LiveMembers, NetworkRoutes, FiniteSetTheorems, TLAPS


\* What the counters of the loop need to be read as counters, and the stage
\* of each reconcile.
CountersTyped == refCount \in Nat /\ armed \in Nat /\ ticks \in Nat /\ stray \in Nat
RunTyped ==
  at \in [Worker -> {"idle", "list", "read", "fetch", "store", "clean", "report"}]
LoopTypes == CountersTyped /\ RunTyped

\* The handle in the state is that of a timer which is set.
HandleIsArmed == handle \in BOOLEAN /\ (handle => armed > 0 /\ refCount > 0)

LoopInv == LoopTypes /\ HandleIsArmed /\ LoopSurvives
ViewerInv == refCount \in Nat /\ IsFiniteSet(subscribed) /\ ViewersAreCounted

-----------------------------------------------------------------------------
(* The runs of a reconcile, seen from the loop.                            *)

\* A reconcile that is under way stays so, and begins no other.
LEMMA ReconcileStaysBusy ==
    ASSUME RunTyped, NEW w \in Worker, Reconcile(w)
    PROVE  RunTyped' /\ (at["live"] # "idle" => at'["live"] # "idle")
  <1>1. \/ UNCHANGED at
        \/ \E next \in {"read", "fetch", "store", "clean", "report"} :
              at' = [at EXCEPT ![w] = next]
    <2>1. CASE ListRevisions(w)
      BY <2>1 DEF ListRevisions, Go
    <2>2. CASE ReadRows(w)
      BY <2>2 DEF ReadRows, Go, After
    <2>3. CASE RemoveOrphans(w)
      BY <2>3 DEF RemoveOrphans, Go
    <2>4. ASSUME NEW m \in Member, FetchDetail(w, m)
          PROVE  \/ UNCHANGED at
                 \/ \E next \in {"store", "clean", "report"} : at' = [at EXCEPT ![w] = next]
      <3> DEFINE got == {n \in Member : details'[w][n] # None}
      <3>1. CASE todo[w] # {m}
        BY <2>4, <3>1, Zenon DEF FetchDetail
      <3>2. CASE todo[w] = {m}
        <4>1. Go(w, IF got = {} THEN After(w, rows[w]) ELSE "store")
          BY <2>4, <3>2, Zenon DEF FetchDetail
        <4> HIDE DEF got
        <4>. QED
          BY <4>1 DEF Go, After
      <3>. QED
        BY <3>1, <3>2
    <2>5. ASSUME NEW m \in Member, AddRow(w, m) PROVE UNCHANGED at
      BY <2>5 DEF AddRow
    <2>6. ASSUME NEW m \in Member, CacheDetail(w, m)
          PROVE  \/ UNCHANGED at
                 \/ \E next \in {"clean", "report"} : at' = [at EXCEPT ![w] = next]
      BY <2>6 DEF CacheDetail, Go, After
    <2>. QED
      BY <2>1, <2>2, <2>3, <2>4, <2>5, <2>6 DEF Reconcile
  <1>. QED
    BY <1>1 DEF RunTyped, Worker

\* What users, devices and the backstop do leaves the guarded run alone.
LEMMA OutsideLeavesTheRun ==
    ASSUME RunTyped, Outside
    PROVE  /\ RunTyped' /\ at'["live"] = at["live"]
  <1>1. CASE Backstop
    BY <1>1 DEF Backstop, Begin, Go, RunTyped, Worker
  <1>2. CASE ~Backstop
    <2>1. UNCHANGED at
      BY <1>2 DEF Outside, BulkDelete, Ask, Serve, Unstash, Join, UpdateController,
            UpdateRow, StashRow, CreateRow, DeleteFromController, DeleteRow, work
    <2>. QED
      BY <2>1 DEF RunTyped
  <1>. QED
    BY <1>1, <1>2

\* The shared run begins, or is under way already.
LEMMA RunBegins ==
    ASSUME RunTyped, BeginOnce
    PROVE  RunTyped' /\ at'["live"] # "idle"
  BY DEF BeginOnce, Begin, Go, RunTyped, Worker

-----------------------------------------------------------------------------
(* The loop.                                                               *)

\* A viewer that is counted first starts the loop, a later one joins it.
LEMMA AcquireKeepsLoop == ASSUME LoopInv, Acquire PROVE LoopInv'
  <1>1. CASE refCount > 0
    <2>1. UNCHANGED <<armed, handle, ticks, stray, at>> /\ refCount' = refCount + 1
      BY <1>1 DEF Acquire, cacheVars
    <2>2. LoopTypes' /\ LoopSurvives'
      BY <1>1, <2>1 DEF LoopInv, LoopTypes, CountersTyped, RunTyped, LoopSurvives
    <2>3. armed > 0 /\ refCount > 0 => armed' > 0 /\ refCount' > 0
      BY <2>1 DEF LoopInv, LoopTypes, CountersTyped
    <2>. QED
      BY <2>1, <2>2, <2>3, Zenon DEF LoopInv, HandleIsArmed
  <1>2. CASE ~(refCount > 0)
    <2>1. refCount' = 1 /\ armed' = armed
      BY <1>2, Zenon DEF Acquire
    <2>2. ticks' = ticks + 1 /\ handle' = FALSE /\ BeginOnce /\ stray' = stray
      BY <1>2, Zenon DEF Acquire, StartTick
    <2>3. RunTyped' /\ at'["live"] # "idle"
      BY <2>2, RunBegins DEF LoopInv, LoopTypes
    <2>4. LoopTypes' /\ LoopSurvives'
      BY <2>1, <2>2, <2>3 DEF LoopInv, LoopTypes, CountersTyped, LoopSurvives
    <2>. QED
      BY <2>2, <2>4, Zenon DEF LoopInv, HandleIsArmed
  <1>. QED
    BY <1>1, <1>2

\* The last viewer clears the timer the state holds, and the state.
LEMMA ReleaseKeepsLoop == ASSUME LoopInv, Release PROVE LoopInv'
  <1>1. UNCHANGED at /\ refCount' = IF refCount = 0 THEN 0 ELSE refCount - 1
    BY Zenon DEF Release, cacheVars
  <1>2. CASE refCount = 1
    <2>1. /\ armed' = IF handle THEN armed - 1 ELSE armed
          /\ handle' = FALSE /\ stray' = stray + ticks /\ ticks' = 0
      BY <1>2, Zenon DEF Release
    <2>2. armed' \in Nat
      <3>1. CASE handle
        <4>1. armed' = armed - 1 /\ armed > 0
          BY <2>1, <3>1, Zenon DEF LoopInv, HandleIsArmed
        <4>. QED
          BY <4>1 DEF LoopInv, LoopTypes, CountersTyped
      <3>2. CASE ~handle
        <4>1. armed' = armed
          BY <2>1, <3>2, Zenon
        <4>. QED
          BY <4>1 DEF LoopInv, LoopTypes, CountersTyped
      <3>. QED
        BY <3>1, <3>2
    <2>3. stray' \in Nat /\ ticks' \in Nat /\ refCount' = 0
      BY <1>1, <1>2, <2>1 DEF LoopInv, LoopTypes, CountersTyped
    <2>4. CountersTyped' /\ LoopSurvives'
      BY <2>2, <2>3 DEF CountersTyped, LoopSurvives
    <2>. QED
      BY <1>1, <2>1, <2>4, Zenon DEF LoopInv, LoopTypes, RunTyped, HandleIsArmed
  <1>3. CASE refCount # 1
    <2>1. UNCHANGED <<armed, handle, stray, ticks>>
      BY <1>3, Zenon DEF Release
    <2>2. /\ LoopTypes' /\ LoopSurvives'
          /\ armed > 0 /\ refCount > 0 => armed' > 0 /\ refCount' > 0
      BY <1>1, <1>3, <2>1 DEF LoopInv, LoopTypes, CountersTyped, RunTyped, LoopSurvives
    <2>. QED
      BY <2>1, <2>2, Zenon DEF LoopInv, HandleIsArmed
  <1>. QED
    BY <1>2, <1>3

\* A timer that fires makes a tick, which waits for the shared run.
LEMMA FireKeepsLoop == ASSUME LoopInv, Fire PROVE LoopInv'
  <1>1. armed > 0 /\ armed' = armed - 1 /\ refCount' = refCount
    BY Zenon DEF Fire
  <1>2. CASE refCount = 0
    <2>1. UNCHANGED <<at, handle, ticks, stray>>
      BY <1>2, Zenon DEF Fire, cacheVars
    <2>2. LoopTypes' /\ LoopSurvives' /\ ~(refCount > 0)
      BY <1>1, <1>2, <2>1 DEF LoopInv, LoopTypes, CountersTyped, RunTyped, LoopSurvives
    <2>. QED
      BY <2>1, <2>2, Zenon DEF LoopInv, HandleIsArmed
  <1>3. CASE refCount # 0
    <2>1. ticks' = ticks + 1 /\ handle' = FALSE /\ BeginOnce /\ stray' = stray
      BY <1>3, Zenon DEF Fire, StartTick
    <2>2. RunTyped' /\ at'["live"] # "idle"
      BY <2>1, RunBegins DEF LoopInv, LoopTypes
    <2>3. LoopTypes' /\ LoopSurvives'
      BY <1>1, <2>1, <2>2 DEF LoopInv, LoopTypes, CountersTyped, LoopSurvives
    <2>. QED
      BY <2>1, <2>3, Zenon DEF LoopInv, HandleIsArmed
  <1>. QED
    BY <1>2, <1>3

\* The end of the run sets a timer for every tick that waited.
LEMMA RescheduleKeepsLoop ==
    ASSUME LoopInv, Reschedule, Forgotten("live") PROVE LoopInv'
  <1>1. RunTyped'
    BY DEF LoopInv, LoopTypes, RunTyped, Forgotten, Go, Worker
  <1>2. /\ armed' = IF refCount > 0 THEN armed + ticks + stray ELSE armed
        /\ ticks' = 0 /\ stray' = 0 /\ refCount' = refCount
        /\ handle' = (handle \/ (refCount > 0 /\ ticks + stray > 0))
    BY Zenon DEF Reschedule
  <1>3. LoopTypes' /\ LoopSurvives'
    BY <1>1, <1>2 DEF LoopInv, LoopTypes, CountersTyped, LoopSurvives
  <1>4. /\ armed > 0 /\ refCount > 0 => armed' > 0 /\ refCount' > 0
        /\ refCount > 0 /\ ticks + stray > 0 => armed' > 0 /\ refCount' > 0
    BY <1>2 DEF LoopInv, LoopTypes, CountersTyped
  <1>. QED
    BY <1>2, <1>3, <1>4, Zenon DEF LoopInv, HandleIsArmed

\* The loop is as safe as before when its state is left alone and the shared
\* run, if there is one, goes on.
LEMMA LoopLeftAlone ==
    ASSUME LoopInv, UNCHANGED <<refCount, armed, handle, ticks, stray>>, RunTyped',
           at["live"] # "idle" => at'["live"] # "idle"
    PROVE  LoopInv'
  <1>1. CountersTyped' /\ LoopSurvives'
    BY DEF LoopInv, LoopTypes, CountersTyped, LoopSurvives
  <1>. QED
    BY <1>1, Zenon DEF LoopInv, LoopTypes, HandleIsArmed

\* Every step keeps the loop of a counted viewer.
LEMMA LoopStep == LoopInv /\ [Next]_vars => LoopInv'
  <1> SUFFICES ASSUME LoopInv, [Next]_vars PROVE LoopInv'
    OBVIOUS
  <1>1. RunTyped
    BY DEF LoopInv, LoopTypes
  <1>2. ASSUME UNCHANGED <<at, loopVars>> PROVE LoopInv'
    <2>1. UNCHANGED <<refCount, armed, handle, ticks, stray, at>>
      BY <1>2 DEF loopVars
    <2>. QED
      BY <1>1, <2>1, LoopLeftAlone DEF RunTyped
  <1>3. ASSUME NEW s \in Socket, Subscribe(s) \/ Denied(s) PROVE LoopInv'
    BY <1>2, <1>3 DEF Subscribe, Denied, work, cacheVars
  <1>4. ASSUME NEW s \in Socket, Granted(s) PROVE LoopInv'
    BY <1>4, AcquireKeepsLoop DEF Granted
  <1>5. ASSUME NEW s \in Socket, Unsubscribe(s) PROVE LoopInv'
    BY <1>5, ReleaseKeepsLoop DEF Unsubscribe
  <1>6. ASSUME NEW s \in Socket, Disconnect(s) PROVE LoopInv'
    <2>1. CASE s \in subscribed
      BY <1>6, <2>1, ReleaseKeepsLoop DEF Disconnect
    <2>2. CASE s \notin subscribed
      BY <1>2, <1>6, <2>2 DEF Disconnect, cacheVars
    <2>. QED
      BY <2>1, <2>2
  <1>7. CASE Fire
    BY <1>7, FireKeepsLoop
  <1>8. CASE FinishRun
    BY <1>8, RescheduleKeepsLoop DEF FinishRun, Report
  <1>9. CASE FailRun
    BY <1>9, RescheduleKeepsLoop DEF FailRun, Fail
  <1>10. CASE LoadPage
    <2>1. RunTyped' /\ at'["live"] # "idle"
      BY <1>1, <1>10 DEF LoadPage, Begin, Go, RunTyped, Worker
    <2>. QED
      BY <1>10, <2>1, LoopLeftAlone DEF LoadPage, loopVars
  <1>11. CASE /\ Outside \/ (\E w \in Worker : Reconcile(w)) \/ Report("cron") \/ Fail("cron")
              /\ UNCHANGED <<socketVars, loopVars>>
    <2>1. RunTyped' /\ (at["live"] # "idle" => at'["live"] # "idle")
      <3>1. CASE Outside
        BY <1>1, <3>1, OutsideLeavesTheRun
      <3>2. ASSUME NEW w \in Worker, Reconcile(w)
            PROVE  RunTyped' /\ (at["live"] # "idle" => at'["live"] # "idle")
        BY <1>1, <3>2, ReconcileStaysBusy
      <3>3. CASE Report("cron") \/ Fail("cron")
        BY <1>1, <3>3 DEF Report, Fail, Forgotten, Go, RunTyped, Worker
      <3>. QED
        BY <1>11, <3>1, <3>2, <3>3
    <2>. QED
      BY <1>11, <2>1, LoopLeftAlone DEF loopVars
  <1>12. CASE UNCHANGED vars
    BY <1>2, <1>12 DEF vars, cacheVars
  <1>. QED
    BY <1>3, <1>4, <1>5, <1>6, <1>7, <1>8, <1>9, <1>10, <1>11, <1>12 DEF Next

\* No loop exists before the first viewer.
LEMMA LoopInit == Init => LoopInv
  <1> SUFFICES ASSUME Init PROVE LoopInv
    OBVIOUS
  <1>1. CountersTyped /\ RunTyped /\ LoopSurvives
    BY DEF Init, CacheInit, CountersTyped, RunTyped, LoopSurvives
  <1>2. HandleIsArmed
    BY Zenon DEF Init, HandleIsArmed
  <1>. QED
    BY <1>1, <1>2 DEF LoopInv, LoopTypes

(* While a network is counted as viewed its loop is not lost               *)
(* (syncManager.ts:73-96), for any number of sockets and any bounds.       *)
THEOREM LoopIsKept == Spec => []LoopSurvives
  <1>1. LoopInv => LoopSurvives
    BY DEF LoopInv
  <1>. QED
    BY <1>1, LoopInit, LoopStep, PTL DEF Spec

-----------------------------------------------------------------------------
(* The count of viewers.                                                   *)

\* One viewer more or fewer changes the number of viewers by at most one.
LEMMA OneViewer ==
    ASSUME IsFiniteSet(subscribed), NEW s
    PROVE  /\ IsFiniteSet(subscribed \cup {s}) /\ IsFiniteSet(subscribed \ {s})
           /\ Cardinality(subscribed) \in Nat
           /\ Cardinality(subscribed \cup {s}) \in Nat
           /\ Cardinality(subscribed \ {s}) \in Nat
           /\ Cardinality(subscribed \cup {s}) <= Cardinality(subscribed) + 1
           /\ s \in subscribed => Cardinality(subscribed \ {s}) = Cardinality(subscribed) - 1
           /\ s \in subscribed => Cardinality(subscribed) > 0
  <1>1. /\ IsFiniteSet(subscribed \cup {s})
        /\ Cardinality(subscribed \cup {s}) =
             IF s \in subscribed THEN Cardinality(subscribed) ELSE Cardinality(subscribed) + 1
    BY FS_AddElement
  <1>2. /\ IsFiniteSet(subscribed \ {s})
        /\ Cardinality(subscribed \ {s}) =
             IF s \in subscribed THEN Cardinality(subscribed) - 1 ELSE Cardinality(subscribed)
    BY FS_RemoveElement
  <1>3. /\ Cardinality(subscribed) \in Nat /\ Cardinality(subscribed \cup {s}) \in Nat
        /\ Cardinality(subscribed \ {s}) \in Nat
    BY <1>1, <1>2, FS_CardinalityType
  <1>. QED
    BY <1>1, <1>2, <1>3

\* Every step counts the viewers it adds and discounts only viewers.
LEMMA ViewerStep == ViewerInv /\ [Next]_vars => ViewerInv'
  <1> SUFFICES ASSUME ViewerInv, [Next]_vars PROVE ViewerInv'
    OBVIOUS
  <1> USE DEF ViewerInv, ViewersAreCounted
  <1>0. IsFiniteSet(subscribed) /\ refCount \in Nat /\ refCount >= Cardinality(subscribed)
    OBVIOUS
  <1>1. ASSUME NEW s \in Socket, Granted(s) PROVE ViewerInv'
    <2>1. /\ subscribed' = subscribed \cup {s}
          /\ refCount' = IF refCount > 0 THEN refCount + 1 ELSE 1
      BY <1>1, Zenon DEF Granted, Acquire
    <2>2. /\ IsFiniteSet(subscribed') /\ Cardinality(subscribed) \in Nat
          /\ Cardinality(subscribed') \in Nat
          /\ Cardinality(subscribed') <= Cardinality(subscribed) + 1
      BY <1>0, <2>1, OneViewer
    <2>. QED
      BY <1>0, <2>1, <2>2
  <1>2. ASSUME NEW s \in Socket, s \in subscribed, subscribed' = subscribed \ {s}, Release
        PROVE  ViewerInv'
    <2>1. refCount' = IF refCount = 0 THEN 0 ELSE refCount - 1
      BY <1>2, Zenon DEF Release
    <2>2. /\ IsFiniteSet(subscribed') /\ Cardinality(subscribed) \in Nat
          /\ Cardinality(subscribed) > 0
          /\ Cardinality(subscribed') = Cardinality(subscribed) - 1
      BY <1>0, <1>2, OneViewer
    <2>. QED
      BY <1>0, <2>1, <2>2
  <1>3. ASSUME NEW s \in Socket, Disconnect(s), s \notin subscribed PROVE ViewerInv'
    <2>1. subscribed' = subscribed /\ UNCHANGED refCount
      BY <1>3 DEF Disconnect, loopVars
    <2>. QED
      BY <2>1
  <1>4. CASE UNCHANGED <<subscribed, refCount>>
    BY <1>4
  <1>5. ASSUME NEW s \in Socket, Subscribe(s) \/ Denied(s) PROVE UNCHANGED <<subscribed, refCount>>
    BY <1>5 DEF Subscribe, Denied, loopVars
  <1>6. ASSUME Fire \/ FinishRun \/ FailRun \/ LoadPage PROVE UNCHANGED <<subscribed, refCount>>
    BY <1>6 DEF Fire, FinishRun, FailRun, Reschedule, LoadPage, socketVars, loopVars
  <1>7. ASSUME UNCHANGED <<socketVars, loopVars>> \/ UNCHANGED vars
        PROVE  UNCHANGED <<subscribed, refCount>>
    BY <1>7 DEF vars, socketVars, loopVars
  <1>8. ASSUME NEW s \in Socket, Unsubscribe(s) \/ Disconnect(s) PROVE ViewerInv'
    BY <1>2, <1>3, <1>8 DEF Unsubscribe, Disconnect
  <1>. QED
    BY <1>1, <1>4, <1>5, <1>6, <1>7, <1>8 DEF Next

\* At first nobody views and nobody is counted.
LEMMA ViewerInit == Init => ViewerInv
  BY FS_EmptySet DEF Init, ViewerInv, ViewersAreCounted

(* Every viewer is counted, however the handlers of the sockets interleave *)
(* with their access checks (websocket/index.ts:92-118).                   *)
THEOREM ViewersCounted == Spec => []ViewersAreCounted
  <1>1. ViewerInv => ViewersAreCounted
    BY DEF ViewerInv
  <1>. QED
    BY <1>1, ViewerInit, ViewerStep, PTL DEF Spec

-----------------------------------------------------------------------------
(* The members' rows, tasks and runs.                                      *)

(* The rows and records of the members.                                    *)
ConfigOrNone == Config \cup {None}
RowOrNone == Row \cup {None}
Request ==
  [op : {"update", "stash", "create", "delete"}, m : Member, step : 1..3,
   auth : BOOLEAN, found : {"shown", "hidden", None}]

StoredTypes == ctl \in [Member -> ConfigOrNone] /\ db \in [Member -> RowOrNone]
ReadTypes ==
  /\ revs \in [Worker -> [Member -> Nat \cup {None}]]
  /\ rows \in [Worker -> [Member -> {"shown", "hidden", None}]]
  /\ todo \in [Worker -> SUBSET Member]
  /\ details \in [Worker -> [Member -> ConfigOrNone]]
TaskTypes == task \in [User -> {Idle} \cup Request]
LeftTypes == left \in [Budgeted -> Nat]

(* What a reconcile has left to store it has fetched.                      *)
StoresFetched == \A w \in Worker : at[w] = "store" =>
  \A m \in todo[w] : details[w][m] # None

CacheInv ==
  RunTyped /\ StoredTypes /\ ReadTypes /\ TaskTypes /\ LeftTypes /\ StoresFetched

(* A budget that is spent stays a budget.                                  *)
LEMMA SpendTypes ==
  ASSUME LeftTypes, NEW b \in Budgeted, Spend(b) PROVE LeftTypes'
  BY DEF LeftTypes, Spend

(* A batch that is complete leaves to store the members it has details of,  *)
(* and what is stored is left no more.                                     *)
LEMMA ReconcileKeepsCache ==
  ASSUME CacheInv, NEW w \in Worker, Reconcile(w) PROVE CacheInv'
<1> USE DEF CacheInv, StoredTypes, ReadTypes, TaskTypes, LeftTypes, StoresFetched
<1>0. RunTyped'
  BY ReconcileStaysBusy
<1> USE DEF RunTyped
<1>1. CASE ListRevisions(w)
  <2>1. ReadTypes'
    BY <1>1 DEF ListRevisions, ConfigOrNone, Config
  <2>2. StoresFetched'
    BY <1>1 DEF ListRevisions, Go
  <2>. QED
    BY <1>0, <1>1, <2>1, <2>2 DEF ListRevisions
<1>2. CASE ReadRows(w)
  <2>1. ReadTypes'
    BY <1>2 DEF ReadRows, Visibility
  <2>2. StoresFetched'
    BY <1>2 DEF ReadRows, Go, After
  <2>. QED
    BY <1>0, <1>2, <2>1, <2>2 DEF ReadRows
<1>3. CASE RemoveOrphans(w)
  <2>1. StoredTypes'
    BY <1>3 DEF RemoveOrphans, RowOrNone
  <2>2. StoresFetched'
    BY <1>3 DEF RemoveOrphans, Go
  <2>. QED
    BY <1>0, <1>3, <2>1, <2>2 DEF RemoveOrphans
<1>4. ASSUME NEW m \in Member, FetchDetail(w, m) PROVE CacheInv'
  <2> DEFINE got == {n \in Member : details'[w][n] # None}
  <2>1. details' = details \/ details' = [details EXCEPT ![w][m] = ctl[m]]
    BY <1>4, Zenon DEF FetchDetail
  <2>2. details' \in [Worker -> [Member -> ConfigOrNone]]
    <3>1. ctl[m] \in ConfigOrNone
      OBVIOUS
    <3>2. [details EXCEPT ![w][m] = ctl[m]] \in [Worker -> [Member -> ConfigOrNone]]
      BY <3>1
    <3>. QED
      BY <2>1, <3>2
  <2>3. left' = left \/ Spend("faults")
    BY <1>4, Zenon DEF FetchDetail
  <2>4. LeftTypes'
    BY <2>3, SpendTypes DEF Budgeted
  <2>5. todo' = [todo EXCEPT ![w] = @ \ {m}] \/ todo' = [todo EXCEPT ![w] = got]
    BY <1>4, Zenon DEF FetchDetail
  <2>6. todo' \in [Worker -> SUBSET Member]
    BY <2>5
  <2>7. UNCHANGED <<ctl, db, revs, rows, task>> /\ at[w] = "fetch"
    BY <1>4, Zenon DEF FetchDetail
  <2>8. at' = at \/ (todo' = [todo EXCEPT ![w] = got] /\ \E next : at' = [at EXCEPT ![w] = next])
    BY <1>4, Zenon DEF FetchDetail, Go
  <2>9. StoresFetched'
    <3>1. ASSUME NEW v \in Worker \ {w} PROVE at'[v] = at[v] /\ todo'[v] = todo[v] /\ details'[v] = details[v]
      BY <2>1, <2>5, <2>8
    <3>2. at'[w] # "store" \/ todo'[w] = got
      BY <2>7, <2>8
    <3>. QED
      BY <3>1, <3>2
  <2>. QED
    BY <1>0, <2>2, <2>4, <2>6, <2>7, <2>9
<1>5. ASSUME NEW m \in Member, AddRow(w, m) PROVE CacheInv'
  <2>1. StoredTypes'
    <3>1. NewRow \in RowOrNone
      BY DEF NewRow, RowOrNone, Row, Hidden
    <3>2. db[m] \in RowOrNone
      OBVIOUS
    <3>. QED
      BY <1>5, <3>1, <3>2 DEF AddRow
  <2>2. ReadTypes'
    BY <1>5 DEF AddRow
  <2>3. LeftTypes'
    BY <1>5, SpendTypes DEF AddRow, Budgeted
  <2>. QED
    BY <1>0, <1>5, <2>1, <2>2, <2>3 DEF AddRow
<1>6. ASSUME NEW m \in Member, CacheDetail(w, m) PROVE CacheInv'
  <2>1. details[w][m] \in Config
    BY <1>6 DEF CacheDetail, ConfigOrNone
  <2>2. ASSUME db[m] # None PROVE Cached(w, m) \in Row
    <3>1. db[m] \in Row
      BY <2>2 DEF RowOrNone
    <3>2. revs[w][m] \in Nat \cup {None}
      OBVIOUS
    <3>. QED
      BY <2>1, <3>1, <3>2 DEF Cached, Config, Row
  <2>3. StoredTypes'
    BY <1>6, <2>2 DEF CacheDetail, RowOrNone
  <2>4. ReadTypes'
    BY <1>6 DEF CacheDetail, ConfigOrNone
  <2>5. StoresFetched'
    BY <1>6 DEF CacheDetail, Go, After
  <2>. QED
    BY <1>0, <1>6, <2>3, <2>4, <2>5 DEF CacheDetail
<1>. QED
  BY <1>1, <1>2, <1>3, <1>4, <1>5, <1>6 DEF Reconcile

(* A run that ends forgets what it read.                                   *)
LEMMA RunEnds ==
  ASSUME CacheInv, NEW w \in Worker, Report(w) \/ Fail(w) PROVE CacheInv'
<1> USE DEF CacheInv, StoredTypes, ReadTypes, TaskTypes, LeftTypes, StoresFetched, RunTyped
<1>1. LeftTypes' /\ StoredTypes' /\ TaskTypes'
  BY SpendTypes DEF Report, Fail, Budgeted
<1>2. Forgotten(w)
  BY DEF Report, Fail
<1>3. RunTyped' /\ ReadTypes' /\ StoresFetched'
  BY <1>2 DEF Forgotten, Go, Nothing, ConfigOrNone
<1>. QED
  BY <1>1, <1>3

(* One row, or one task, written.                                          *)
LEMMA RowWritten ==
  ASSUME StoredTypes, NEW m \in Member, NEW x \in RowOrNone, db' = [db EXCEPT ![m] = x],
         UNCHANGED ctl
  PROVE  StoredTypes'
  BY DEF StoredTypes

LEMMA TaskWritten ==
  ASSUME TaskTypes, NEW u \in User, NEW t \in {Idle} \cup Request,
         task' = [task EXCEPT ![u] = t]
  PROVE  TaskTypes'
  BY DEF TaskTypes

(* What users, devices and the backstop do writes rows and tasks only.     *)
LEMMA OutsideKeepsCache == ASSUME CacheInv, Outside PROVE CacheInv'
<1> USE DEF CacheInv, ReadTypes, LeftTypes, StoresFetched
<1>0. RunTyped'
  BY OutsideLeavesTheRun
<1> USE DEF RunTyped
<1>1. CASE Backstop
  BY <1>0, <1>1, SpendTypes DEF Backstop, Begin, Go, Budgeted, StoredTypes, TaskTypes
<1>2. ASSUME UNCHANGED work, StoredTypes', TaskTypes', LeftTypes' PROVE CacheInv'
  BY <1>0, <1>2 DEF work
<1>3. ASSUME NEW m \in Member, db[m] # None PROVE db[m] \in Row
  BY <1>3 DEF StoredTypes, RowOrNone
<1>4. CASE BulkDelete
  <2>1. StoredTypes'
    BY <1>3, <1>4 DEF BulkDelete, StoredTypes, RowOrNone, Row, Hidden
  <2>. QED
    BY <1>2, <1>4, <2>1, SpendTypes DEF BulkDelete, Budgeted, TaskTypes
<1>5. ASSUME NEW m \in Member, Unstash(m) PROVE CacheInv'
  <2>1. StoredTypes'
    BY <1>3, <1>5 DEF Unstash, StoredTypes, RowOrNone, Row, Hidden
  <2>. QED
    BY <1>2, <1>5, <2>1, SpendTypes DEF Unstash, Budgeted, TaskTypes
<1>6. ASSUME NEW m \in Member, Join(m) PROVE CacheInv'
  <2>1. StoredTypes'
    BY <1>6 DEF Join, StoredTypes, ConfigOrNone, Config
  <2>. QED
    BY <1>2, <1>6, <2>1, SpendTypes DEF Join, Budgeted, TaskTypes
<1>7. ASSUME NEW u \in User, Ask(u) PROVE CacheInv'
  <2>1. \A op \in {"update", "stash", "create", "delete"}, m \in Member, a \in BOOLEAN :
          Task(op, m, a) \in Request
    BY DEF Task, Found, Request
  <2>2. TaskTypes'
    <3>1. \E op \in {"update", "stash", "create", "delete"}, m \in Member, a \in BOOLEAN :
            task' = [task EXCEPT ![u] = Task(op, m, a)]
      BY <1>7 DEF Ask
    <3>. QED
      BY <2>1, <3>1, TaskWritten
  <2>. QED
    BY <1>2, <1>7, <2>2, SpendTypes DEF Ask, Budgeted, StoredTypes
<1>8. ASSUME NEW u \in User, Serve(u) PROVE CacheInv'
  <2>1. task[u] \in Request
    <3>1. task[u] # Idle
      BY <1>8 DEF Serve, UpdateController, UpdateRow, StashRow, CreateRow,
         DeleteFromController, DeleteRow, Does
    <3>. QED
      BY <3>1 DEF TaskTypes
  <2>2. ASSUME Done(u) \/ \E step \in 1..3 : Then(u, step) PROVE TaskTypes'
    <3>1. ASSUME NEW step \in 1..3 PROVE [task[u] EXCEPT !.step = step] \in Request
      BY <2>1, <3>1 DEF Request
    <3>. QED
      BY <2>2, <3>1, TaskWritten DEF Done, Then
  <2>3. task[u].m \in Member /\ task[u].auth \in BOOLEAN
    BY <2>1 DEF Request
  <2>4. CASE UpdateController(u)
    <3>1. UNCHANGED <<db, work>> /\ LeftTypes'
      BY <2>4, SpendTypes DEF UpdateController, Budgeted
    <3>2. TaskTypes'
      BY <2>2, <2>4 DEF UpdateController
    <3>3. ctl' = ctl \/ (ctl[task[u].m] # None /\ ctl' =
            [ctl EXCEPT ![task[u].m] = [rev |-> ctl[task[u].m].rev + 1, auth |-> task[u].auth]])
      BY <2>4 DEF UpdateController
    <3>4. StoredTypes'
      BY <2>3, <3>1, <3>3 DEF StoredTypes, ConfigOrNone, Config
    <3>. QED
      BY <1>2, <3>1, <3>2, <3>4
  <2>5. CASE UpdateRow(u)
    <3>1. StoredTypes'
      <4> DEFINE m == task[u].m
                 x == IF db[m] = None THEN None ELSE [db[m] EXCEPT !.auth = task[u].auth]
      <4>1. x \in RowOrNone
        BY <1>3, <2>3 DEF RowOrNone, Row
      <4>2. db' = [db EXCEPT ![m] = x] /\ UNCHANGED ctl
        BY <2>5 DEF UpdateRow, WriteThrough
      <4> HIDE DEF x
      <4>. QED
        BY <2>3, <4>1, <4>2, RowWritten
    <3>2. TaskTypes'
      BY <2>2, <2>5 DEF UpdateRow
    <3>. QED
      BY <1>2, <2>5, <3>1, <3>2 DEF UpdateRow
  <2>6. CASE StashRow(u)
    <3>1. StoredTypes'
      <4> DEFINE m == task[u].m
                 to == IF db[m].hidden \in {"no", "stashed"} THEN "stashed" ELSE "gone"
                 x == IF db[m] = None THEN None ELSE [db[m] EXCEPT !.hidden = to]
      <4>1. x \in RowOrNone
        BY <1>3, <2>3 DEF RowOrNone, Row, Hidden
      <4>2. db' = [db EXCEPT ![m] = x] /\ UNCHANGED ctl
        BY <2>6 DEF StashRow
      <4> HIDE DEF x
      <4>. QED
        BY <2>3, <4>1, <4>2, RowWritten
    <3>. QED
      BY <1>2, <2>2, <2>6, <3>1 DEF StashRow
  <2>7. CASE CreateRow(u)
    <3>1. NewRow \in RowOrNone
      BY DEF NewRow, RowOrNone, Row, Hidden
    <3> DEFINE m == task[u].m
    <3>2. UNCHANGED ctl /\ \/ db' = db \/ db' = [db EXCEPT ![m] = NewRow]
                           \/ db[m] # None /\ db' = [db EXCEPT ![m].hidden = "no"]
      BY <2>7 DEF CreateRow
    <3>3. StoredTypes'
      <4>1. ASSUME db[m] # None PROVE [db[m] EXCEPT !.hidden = "no"] \in RowOrNone
        <5>1. db[m] \in Row
          BY <1>3, <2>3, <4>1
        <5>. QED
          BY <5>1 DEF RowOrNone, Row, Hidden
      <4>. QED
        BY <2>3, <3>1, <3>2, <4>1, RowWritten DEF StoredTypes
    <3>. QED
      BY <1>2, <2>2, <2>7, <3>3 DEF CreateRow
  <2>8. CASE DeleteFromController(u)
    <3>1. ctl' \in [Member -> ConfigOrNone]
      BY <2>3, <2>8 DEF DeleteFromController, StoredTypes, ConfigOrNone
    <3>2. StoredTypes'
      BY <2>8, <3>1 DEF DeleteFromController, StoredTypes
    <3>3. TaskTypes'
      BY <2>2, <2>8 DEF DeleteFromController
    <3>. QED
      BY <1>2, <2>8, <3>2, <3>3 DEF DeleteFromController
  <2>9. CASE DeleteRow(u)
    <3>1. StoredTypes'
      <4> DEFINE m == task[u].m
                 to == IF Deleted(db[m]) THEN "gone" ELSE "revived"
                 x == IF db[m] = None \/ task[u].found # "hidden" THEN None
                      ELSE [db[m] EXCEPT !.hidden = to]
      <4>1. x \in RowOrNone
        BY <1>3, <2>3 DEF RowOrNone, Row, Hidden
      <4>2. db' = [db EXCEPT ![m] = x] /\ UNCHANGED ctl
        BY <2>9 DEF DeleteRow
      <4> HIDE DEF x
      <4>. QED
        BY <2>3, <4>1, <4>2, RowWritten
    <3>. QED
      BY <1>2, <2>2, <2>9, <3>1 DEF DeleteRow
  <2>. QED
    BY <1>8, <2>4, <2>5, <2>6, <2>7, <2>8, <2>9 DEF Serve
<1>. QED
  BY <1>1, <1>4, <1>5, <1>6, <1>7, <1>8 DEF Outside

(* A run that begins has nothing to store yet.                             *)
LEMMA CacheAtRest ==
  ASSUME CacheInv, UNCHANGED runVars, at' = at \/ \E w \in Worker : Begin(w) PROVE CacheInv'
  BY DEF CacheInv, StoredTypes, ReadTypes, TaskTypes, LeftTypes, StoresFetched, RunTyped,
     runVars, Begin, Go

SocketTypes ==
  /\ open \in SUBSET Socket /\ subscribed \in SUBSET Socket
  /\ asking \in [Socket -> Nat]
  /\ lastHash \in Reports \cup {Unseen}
MembersInv == CacheInv /\ SocketTypes /\ LoopInv

LEMMA MembersStep == MembersInv /\ [Next]_vars => MembersInv'
<1> SUFFICES ASSUME MembersInv, [Next]_vars PROVE CacheInv' /\ SocketTypes'
  BY LoopStep DEF MembersInv
<1>1. CacheInv /\ SocketTypes
  BY DEF MembersInv
<1>2. ASSUME UNCHANGED cacheVars PROVE CacheInv'
  BY <1>1, <1>2, CacheAtRest DEF cacheVars, runVars
<1>3. ASSUME BeginOnce, UNCHANGED runVars PROVE CacheInv'
  BY <1>1, <1>3, CacheAtRest DEF BeginOnce, Worker
<1>4. ASSUME Release PROVE CacheInv' /\ lastHash' \in {lastHash, Unseen}
  BY <1>2, <1>4 DEF Release
<1>5. ASSUME Acquire PROVE CacheInv' /\ lastHash' \in {lastHash, Unseen}
  <2>1. CASE refCount > 0
    BY <1>2, <1>5, <2>1 DEF Acquire
  <2>2. CASE ~(refCount > 0)
    BY <1>3, <1>5, <2>2 DEF Acquire, StartTick
  <2>. QED
    BY <2>1, <2>2
<1>6. ASSUME NEW s \in Socket, Subscribe(s) PROVE CacheInv' /\ SocketTypes'
  <2>1. LeftTypes'
    BY <1>1, <1>6, SpendTypes DEF Subscribe, CacheInv, Budgeted
  <2>2. CacheInv'
    BY <1>1, <1>6, <2>1 DEF Subscribe, CacheInv, RunTyped, StoredTypes, ReadTypes, TaskTypes,
       StoresFetched, work
  <2>. QED
    BY <1>1, <1>6, <2>2 DEF Subscribe, SocketTypes, loopVars
<1>7. ASSUME NEW s \in Socket, Granted(s) PROVE CacheInv' /\ SocketTypes'
  BY <1>1, <1>5, <1>7 DEF Granted, SocketTypes
<1>8. ASSUME NEW s \in Socket, Denied(s) PROVE CacheInv' /\ SocketTypes'
  BY <1>1, <1>2, <1>8 DEF Denied, SocketTypes, loopVars
<1>9. ASSUME NEW s \in Socket, Unsubscribe(s) PROVE CacheInv' /\ SocketTypes'
  BY <1>1, <1>4, <1>9 DEF Unsubscribe, SocketTypes
<1>10. ASSUME NEW s \in Socket, Disconnect(s) PROVE CacheInv' /\ SocketTypes'
  <2>1. CacheInv' /\ lastHash' \in {lastHash, Unseen}
    BY <1>2, <1>4, <1>10 DEF Disconnect, loopVars
  <2>. QED
    BY <1>1, <1>10, <2>1 DEF Disconnect, SocketTypes
<1>11. CASE Fire
  <2>1. CacheInv'
    BY <1>2, <1>3, <1>11 DEF Fire, StartTick
  <2>. QED
    BY <1>1, <1>11, <2>1 DEF Fire, SocketTypes, socketVars
<1>12. CASE FinishRun
  <2>1. CacheInv'
    BY <1>1, <1>12, RunEnds DEF FinishRun, Worker
  <2>2. Listed("live") \in Reports
    <3>1. ASSUME NEW m \in Member, Shown(m) PROVE db[m].auth \in BOOLEAN
      BY <1>1, <3>1 DEF CacheInv, StoredTypes, RowOrNone, Row, Shown
    <3>. QED
      BY <3>1 DEF Listed, Reports
  <2>. QED
    BY <1>1, <1>12, <2>1, <2>2 DEF FinishRun, Reschedule, SocketTypes, socketVars
<1>13. CASE FailRun
  <2>1. CacheInv'
    BY <1>1, <1>13, RunEnds DEF FailRun, Worker
  <2>. QED
    BY <1>1, <1>13, <2>1 DEF FailRun, Reschedule, SocketTypes, socketVars
<1>14. CASE LoadPage
  BY <1>1, <1>14, CacheAtRest DEF LoadPage, Worker, SocketTypes, socketVars, loopVars
<1>15. CASE /\ Outside \/ (\E w \in Worker : Reconcile(w)) \/ Report("cron") \/ Fail("cron")
            /\ UNCHANGED <<socketVars, loopVars>>
  <2>1. CacheInv'
    BY <1>1, <1>15, OutsideKeepsCache, ReconcileKeepsCache, RunEnds DEF Worker
  <2>. QED
    BY <1>1, <1>15, <2>1 DEF SocketTypes, socketVars, loopVars
<1>16. CASE UNCHANGED vars
  BY <1>1, <1>2, <1>16 DEF vars, SocketTypes, socketVars, loopVars
<1>. QED
  BY <1>6, <1>7, <1>8, <1>9, <1>10, <1>11, <1>12, <1>13, <1>14, <1>15, <1>16 DEF Next

LEMMA MembersInit == Init => MembersInv
<1> SUFFICES ASSUME Init PROVE CacheInv /\ SocketTypes
  BY LoopInit DEF MembersInv
<1>1. CacheInv
  <2>1. Nothing \in [Member -> ConfigOrNone] /\ Nothing \in [Member -> RowOrNone]
        /\ Nothing \in [Member -> Nat \cup {None}]
        /\ Nothing \in [Member -> {"shown", "hidden", None}]
    BY DEF Nothing, ConfigOrNone, RowOrNone
  <2>. QED
    BY <2>1, CacheAssumption DEF CacheAssumption, Init, CacheInit, CacheInv, RunTyped,
       StoredTypes, ReadTypes, TaskTypes, LeftTypes, StoresFetched
<1>2. SocketTypes
  BY DEF Init, SocketTypes
<1>. QED
  BY <1>1, <1>2

(* The variables of the member sync keep their types; so a reconcile never *)
(* stores the configuration of a member it has not fetched, and no counter *)
(* of the loop falls below zero.                                           *)
THEOREM MembersTyped == Spec => []TypeOK
<1>1. MembersInv => TypeOK
  <2> SUFFICES ASSUME MembersInv PROVE TypeOK
    OBVIOUS
  <2>1. CacheTypeOK
    BY DEF MembersInv, CacheInv, RunTyped, StoredTypes, ReadTypes, TaskTypes, LeftTypes,
       CacheTypeOK, ConfigOrNone, RowOrNone, Request
  <2>2. handle \in BOOLEAN
    BY Zenon DEF MembersInv, LoopInv, HandleIsArmed
  <2>3. refCount \in Nat /\ armed \in Nat /\ ticks \in Nat /\ stray \in Nat
    BY DEF MembersInv, LoopInv, LoopTypes, CountersTyped
  <2>. QED
    BY <2>1, <2>2, <2>3 DEF MembersInv, SocketTypes, TypeOK
<1>. QED
  BY <1>1, MembersInit, MembersStep, PTL DEF Spec

-----------------------------------------------------------------------------
(* The routes.  A row that is about to be deleted is one whose route the   *)
(* controller did not have at some moment since the row exists: that is so *)
(* of every row without a route now, hence of every row a load found       *)
(* without one, hence of every row a mirroring deletes.                    *)
RowlessNow == \A r \in Route : row[r] # Absent /\ r \notin live => <<r, row[r]>> \in once
FoundRowless == \A p \in Page, r \in Route :
  page[p].at = "compare" /\ r \notin page[p].told /\ row[r] # Absent
    /\ page[p].seen[r] = row[r] => <<r, row[r]>> \in once
DeletedWereRowless == mirroring # Absent =>
  \A r \in Route : row[r] # Absent /\ <<r, row[r]>> \in mirroring.delete =>
    <<r, row[r]>> \in once
RowsInv == RouteTypes /\ RowlessNow /\ FoundRowless /\ DeletedWereRowless

(* A row remembered stays remembered as long as it is there.               *)
LEMMA Recalled ==
  ASSUME Remember
  PROVE  \A r \in Route : row'[r] # Absent =>
           (<<r, row'[r]>> \in once' <=> <<r, row'[r]>> \in once \/ r \notin live')
  BY DEF Remember, RowsOf, Keys

(* The rows after a transaction: those there were and were not deleted,    *)
(* and new ones nobody has heard of.                                       *)
LEMMA Committed ==
  ASSUME RouteTypes, Commit
  PROVE  \A r \in Route : \/ row'[r] = row[r] \/ row'[r] = Absent
                          \/ row[r] = Absent /\ row'[r] \in Unused(r)
<1> SUFFICES ASSUME NEW r \in Route, row[r] = Absent, r \in mirroring.create
             PROVE  row'[r] \in Unused(r)
  BY DEF Commit
<1>1. Unused(r) # {}
  BY DEF Commit, Keys
<1>2. row'[r] = CHOOSE id \in Unused(r) : TRUE
  BY DEF Commit
<1>. QED
  BY <1>1, <1>2

(* The lists of routes an edit may be about to send.                       *)
Sending == (SUBSET Route) \cup {Absent}

LEMMA Ended ==
  ASSUME RouteTypes, NEW e \in Editor, edit' = [edit EXCEPT ![e] = Absent]
  PROVE  edit' \in [Editor -> Sending]
<1>1. Absent \in Sending
  BY Zenon DEF Sending
<1>2. edit \in [Editor -> Sending]
  BY Zenon DEF Sending, RouteTypes
<1>. QED
  BY <1>1, <1>2

(* An edit or a failure is paid for once.                                  *)
LEMMA PayTypes ==
  ASSUME RouteTypes, NEW b \in {"edits", "failures"}, Pay(b)
  PROVE  budget' \in [edits : 0..MaxEdits, failures : 0..MaxFailures]
  BY RoutesAssumption DEF RoutesAssumption, RouteTypes, Pay

(* Every step keeps the invariant: a load that is told the routes finds    *)
(* without one only rows that have none now.                               *)
LEMMA RowsStep == RowsInv /\ [RoutesNext]_routeVars => RowsInv'
<1> SUFFICES ASSUME RowsInv, [RoutesNext]_routeVars PROVE RowsInv'
  OBVIOUS
<1> USE RoutesAssumption
        DEF RoutesAssumption, RowsInv, RowlessNow, FoundRowless, DeletedWereRowless
<1>1. ASSUME NEW p \in Page, ReadRoutes(p) PROVE RowsInv'
  BY <1>1 DEF ReadRoutes, RouteTypes, Mirror
<1>2. ASSUME NEW p \in Page, AskController(p) PROVE RowsInv'
  <2>1. RouteTypes'
    BY <1>2 DEF AskController, RouteTypes
  <2>. QED
    BY <1>2, <2>1 DEF AskController, RouteTypes
<1>3. ASSUME NEW p \in Page, LoadFails(p) PROVE RowsInv'
  <2>1. RouteTypes'
    BY <1>3, PayTypes DEF LoadFails, RouteTypes, NotLoading, NoRows, Mirror
  <2>. QED
    BY <1>3, <2>1 DEF LoadFails, RouteTypes, NotLoading
<1>4. ASSUME NEW p \in Page, Compare(p) PROVE RowsInv'
  <2> DEFINE seen == page[p].seen
             told == page[p].told
  <2>1. \/ mirroring' = mirroring \/ mirroring' = Mirroring(seen, told)
    BY <1>4 DEF Compare
  <2>2. Mirroring(seen, told) \in Plan
    BY DEF RouteTypes, Mirroring, Plan, RowsOf, Keys, Mirror
  <2>3. RouteTypes'
    BY <1>4, <2>1, <2>2 DEF Compare, RouteTypes, NotLoading, NoRows, Mirror
  <2>4. FoundRowless'
    <3>1. UNCHANGED <<row, once>> /\ page' = [page EXCEPT ![p] = NotLoading]
      BY <1>4, Zenon DEF Compare
    <3>2. page'[p].at = "no" /\ \A q \in Page \ {p} : page'[q] = page[q]
      BY <3>1 DEF RouteTypes, NotLoading
    <3> SUFFICES ASSUME NEW q \in Page, NEW r \in Route, page'[q].at = "compare",
                        r \notin page'[q].told, row[r] # Absent, page'[q].seen[r] = row[r]
                 PROVE  <<r, row[r]>> \in once
      BY <3>1
    <3>. QED
      BY <3>2
  <2>5. ASSUME NEW r \in Route, <<r, row[r]>> \in Mirroring(seen, told).delete, row[r] # Absent
        PROVE  <<r, row[r]>> \in once
    <3>1. r \notin told /\ seen[r] = row[r]
      BY <2>5 DEF Mirroring, RowsOf
    <3>. QED
      BY <1>4, <2>5, <3>1 DEF Compare
  <2>. QED
    BY <1>4, <2>1, <2>3, <2>4, <2>5 DEF Compare
<1>5. CASE Commit
  <2>1. row' \in Mirror
    BY <1>5, Committed DEF Commit, RouteTypes, Mirror, Unused
  <2>2. RouteTypes'
    BY <1>5, <2>1 DEF Commit, RouteTypes, Remember
  <2>3. RowlessNow'
    BY <1>5, Recalled DEF Commit
  <2>4. ASSUME NEW p \in Page, NEW r \in Route, page[p].at = "compare",
               r \notin page[p].told, row'[r] # Absent, page[p].seen[r] = row'[r]
        PROVE  <<r, row'[r]>> \in once'
    <3>1. row'[r] \notin Unused(r)
      BY <2>4 DEF Unused, Known
    <3>2. row'[r] = row[r]
      BY <1>5, <2>4, <3>1, Committed
    <3>. QED
      BY <1>5, <2>4, <3>2, Recalled DEF Commit
  <2>. QED
    BY <1>5, <2>2, <2>3, <2>4 DEF Commit
<1>6. CASE MirroringFails
  <2>1. RouteTypes'
    BY <1>6, PayTypes DEF MirroringFails, RouteTypes
  <2>. QED
    BY <1>6, <2>1 DEF MirroringFails
<1>7. ASSUME live' \in SUBSET Route, Remember, UNCHANGED <<row, page, mirroring>>,
             edit' \in [Editor -> Sending],
             budget' \in [edits : 0..MaxEdits, failures : 0..MaxFailures]
      PROVE  RowsInv'
  <2>1. RouteTypes'
    BY <1>7 DEF RouteTypes, Remember, Sending
  <2>. QED
    BY <1>7, <2>1, Recalled
<1>8. CASE SendRoutes
  BY <1>7, <1>8, PayTypes DEF SendRoutes, RouteTypes, Sending
<1>9. ASSUME NEW e \in Editor, Send(e) PROVE RowsInv'
  <2>1. edit' \in [Editor -> Sending] /\ live' \in SUBSET Route
    <3>1. live' \in Sending /\ live' # Absent
      BY <1>9, Zenon DEF Send, RouteTypes, Sending
    <3>. QED
      BY <1>9, <3>1, Ended, Zenon DEF Send, Sending
  <2>2. /\ budget' \in [edits : 0..MaxEdits, failures : 0..MaxFailures]
        /\ Remember /\ UNCHANGED <<row, page, mirroring>>
    BY <1>9 DEF Send, RouteTypes
  <2>. QED
    BY <1>7, <2>1, <2>2
<1>10. ASSUME UNCHANGED <<live, row, page, mirroring, once>>,
              edit' \in [Editor -> Sending],
              budget' \in [edits : 0..MaxEdits, failures : 0..MaxFailures]
       PROVE  RowsInv'
  BY <1>10 DEF RouteTypes, Sending
<1>11. ASSUME NEW e \in Editor, NEW routes \in SUBSET Route, Prepare(e, routes) PROVE RowsInv'
  BY <1>10, <1>11, PayTypes DEF Prepare, RouteTypes, Sending
<1>12. ASSUME NEW e \in Editor, PrepareVia(e) PROVE RowsInv'
  BY <1>11, <1>12 DEF PrepareVia, Keys
<1>13. ASSUME NEW e \in Editor, PreparePools(e) PROVE RowsInv'
  <2>1. PICK pools \in SUBSET Targets, kept \in SUBSET live :
          Prepare(e, kept \cup UNION {Direct(t) : t \in pools})
    BY <1>13 DEF PreparePools
  <2>2. kept \cup UNION {Direct(t) : t \in pools} \in SUBSET Route
    BY DEF RouteTypes, Direct
  <2>. QED
    BY <1>11, <2>1, <2>2
<1>14. ASSUME NEW e \in Editor, EditFails(e) PROVE RowsInv'
  <2>1. edit' \in [Editor -> Sending]
    BY <1>14, Ended DEF EditFails
  <2>2. /\ budget' \in [edits : 0..MaxEdits, failures : 0..MaxFailures]
        /\ UNCHANGED <<live, row, page, mirroring, once>>
    BY <1>14, PayTypes DEF EditFails
  <2>. QED
    BY <1>10, <2>1, <2>2
<1>15. CASE UNCHANGED routeVars
  BY <1>15 DEF routeVars, RouteTypes
<1>. QED
  BY <1>1, <1>2, <1>3, <1>4, <1>5, <1>6, <1>8, <1>9, <1>12, <1>13, <1>14, <1>15
     DEF RoutesNext, Load, Edit

LEMMA RowsInit == RoutesInit => RowsInv
<1> SUFFICES ASSUME RoutesInit PROVE RowsInv
  OBVIOUS
<1>1. FirstId \in RowId /\ FirstId # Absent
  BY RoutesAssumption DEF RoutesAssumption, FirstId
<1>2. /\ row \in Mirror /\ NoRows \in Mirror
      /\ \A r \in Route : row[r] # Absent => r \in live
  BY <1>1 DEF RoutesInit, Mirror, NoRows
<1>3. page \in [Page -> [at : {"no", "controller", "compare"},
                        seen : Mirror, told : SUBSET Route]]
  BY <1>2 DEF RoutesInit, NotLoading
<1>4. /\ live \subseteq Route /\ mirroring = Absent /\ once = {}
      /\ edit = [e \in Editor |-> Absent] /\ \A p \in Page : page[p].at = "no"
      /\ budget \in [edits : 0..MaxEdits, failures : 0..MaxFailures]
  BY DEF RoutesInit, NotLoading
<1>5. edit \in [Editor -> Sending]
  <2>1. Absent \in Sending
    BY Zenon DEF Sending
  <2>. QED
    BY <1>4, <2>1
<1>. QED
  BY <1>2, <1>3, <1>4, <1>5 DEF Sending, RouteTypes, RowsInv, RowlessNow, FoundRowless, DeletedWereRowless

(* The routes, their rows and the loads keep their types.                  *)
THEOREM RoutesTyped == RoutesSpec => []RouteTypes
<1>1. RowsInv => RouteTypes
  BY DEF RowsInv
<1>. QED
  BY <1>1, RowsInit, RowsStep, PTL DEF RoutesSpec

(* Only a row whose route the controller did not have is deleted           *)
(* (routesService.ts:13-60), however many loads, edits and failures run    *)
(* beside each other.                                                      *)
THEOREM RowsOfRoutesStay == RoutesSpec => OnlyDeadRowsGo
<1>1. RowsInv /\ [RoutesNext]_routeVars =>
        [\A r \in Route : row[r] # Absent /\ row'[r] # row[r] => <<r, row[r]>> \in once]_routeVars
  <2> SUFFICES ASSUME RowsInv, RoutesNext, NEW r \in Route, row[r] # Absent, row'[r] # row[r]
               PROVE  <<r, row[r]>> \in once
    OBVIOUS
  <2>1. CASE Commit
    BY <2>1 DEF Commit, Removed, RowsInv, DeletedWereRowless
  <2>2. CASE UNCHANGED row
    BY <2>2
  <2>. QED
    BY <2>1, <2>2 DEF RoutesNext, Load, Edit, ReadRoutes, AskController, LoadFails, Compare,
       MirroringFails, SendRoutes, PrepareVia, PreparePools, Prepare, Send, EditFails
<1>. QED
  BY <1>1, RowsInit, RowsStep, PTL DEF RoutesSpec, OnlyDeadRowsGo
==============================================================================
