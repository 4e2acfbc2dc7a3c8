----------------------------- MODULE LiveMembers -----------------------------
(***************************************************************************)
(* Live member sync of one network: the sockets of its viewers             *)
(* (pages/api/websocket/index.ts), the reference-counted loop of           *)
(* SyncManager (server/sync/syncManager.ts), page loads, and the member    *)
(* cache they keep up to date.                                             *)
(*                                                                         *)
(* The handlers of one process interleave at their awaits.  A timer is     *)
(* known by whether the state of the loop still holds its handle.          *)
(***************************************************************************)
EXTENDS MemberCache

CONSTANTS Socket,
          Unseen      \* the hash of a loop that has not reported yet

VARIABLES
  open,        \* sockets that are connected
  asking,      \* socket |-> subscriptions waiting for their access check
  subscribed,  \* sockets that have the network in their set
  refCount,    \* viewers counted; 0 when the network has no state
  armed,       \* timers set and not yet fired
  handle,      \* the state holds the handle of one of them
  ticks,       \* ticks that wait for the reconcile, for the state there is
  stray,       \* and ticks begun for a state since dropped
  lastHash     \* what the loop last told its viewers

socketVars == <<open, asking, subscribed>>
loopVars == <<refCount, armed, handle, ticks, stray, lastHash>>
vars == <<cacheVars, socketVars, loopVars>>

Reports == SUBSET (Member \X BOOLEAN)

TypeOK ==
  /\ CacheTypeOK
  /\ open \in SUBSET Socket /\ subscribed \in SUBSET Socket
  /\ asking \in [Socket -> Nat]
  /\ refCount \in Nat /\ handle \in BOOLEAN
  /\ armed \in Nat /\ ticks \in Nat /\ stray \in Nat
  /\ lastHash \in Reports \cup {Unseen}

Init ==
  /\ CacheInit
  /\ open = Socket /\ subscribed = {}
  /\ asking = [s \in Socket |-> 0]
  /\ refCount = 0 /\ armed = 0 /\ handle = FALSE
  /\ ticks = 0 /\ stray = 0 /\ lastHash = Unseen

----------------------------------------------------------------------------
(* SyncManager                                                             *)
runVars == <<ctl, db, revs, rows, todo, details, task, left>>
StartTick == /\ ticks' = ticks + 1 /\ handle' = FALSE
             /\ BeginOnce /\ UNCHANGED <<runVars, stray>>

Acquire ==
  IF refCount > 0
    THEN refCount' = refCount + 1
         /\ UNCHANGED <<cacheVars, armed, handle, ticks, stray, lastHash>>
    ELSE refCount' = 1 /\ lastHash' = Unseen /\ StartTick /\ UNCHANGED armed

\* Mutant: a timer is cleared that may have fired.
ReleaseClearing ==
  /\ refCount' = IF refCount = 0 THEN 0 ELSE refCount - 1
  /\ IF refCount = 1
       THEN /\ armed' = armed - 1 /\ handle' = FALSE /\ lastHash' = Unseen
            /\ stray' = stray + ticks /\ ticks' = 0
       ELSE UNCHANGED <<armed, handle, lastHash, stray, ticks>>
  /\ UNCHANGED cacheVars

Release ==
  /\ refCount' = IF refCount = 0 THEN 0 ELSE refCount - 1
  /\ IF refCount = 1
       THEN /\ armed' = IF handle THEN armed - 1 ELSE armed
            /\ handle' = FALSE /\ lastHash' = Unseen
            /\ stray' = stray + ticks /\ ticks' = 0
       ELSE UNCHANGED <<armed, handle, lastHash, stray, ticks>>
  /\ UNCHANGED cacheVars

\* Mutant: a timer without a state sets itself again.
FireAgain ==
  /\ armed > 0 /\ armed' = IF refCount = 0 THEN armed ELSE armed - 1
  /\ IF refCount = 0 THEN UNCHANGED <<cacheVars, handle, ticks, stray>> ELSE StartTick
  /\ UNCHANGED <<socketVars, refCount, lastHash>>

(* A timer of any loop fires.  Without a state the tick returns.           *)
Fire ==
  /\ armed > 0 /\ armed' = armed - 1
  /\ IF refCount = 0 THEN UNCHANGED <<cacheVars, handle, ticks, stray>> ELSE StartTick
  /\ UNCHANGED <<socketVars, refCount, lastHash>>

(* The shared run is over, and the ticks that waited for it go on: a       *)
(* change is told to the room, and each sets a timer if the network has a  *)
(* state, its own or a newer one.                                          *)
Reschedule ==
  /\ armed' = IF refCount > 0 THEN armed + ticks + stray ELSE armed
  /\ handle' = (handle \/ (refCount > 0 /\ ticks + stray > 0))
  /\ ticks' = 0 /\ stray' = 0
  /\ UNCHANGED <<socketVars, refCount>>
FinishRun ==
  /\ Report("live") /\ Reschedule
  /\ lastHash' = IF ticks > 0 THEN Listed("live") ELSE lastHash

\* Mutant: a tick whose run failed sets no timer.
FailRunStops ==
  /\ Fail("live") /\ ticks' = 0 /\ stray' = 0
  /\ UNCHANGED <<socketVars, refCount, armed, handle, lastHash>>

FailRun == Fail("live") /\ Reschedule /\ UNCHANGED lastHash

(* A page load reconciles in the background, or waits when the cache is    *)
(* empty.                                                                  *)
LoadPage == /\ at["live"] = "idle" /\ Begin("live")
            /\ UNCHANGED <<runVars, socketVars, loopVars>>

----------------------------------------------------------------------------
(* The handlers of a socket.                                               *)
Subscribe(s) ==
  /\ s \in open \ subscribed /\ Spend("asks")
  /\ asking' = [asking EXCEPT ![s] = @ + 1]
  /\ UNCHANGED <<ctl, db, work, task, loopVars, open, subscribed>>
(* checkNetworkAccess has answered; nothing is looked at again.            *)
Granted(s) ==
  /\ asking[s] > 0 /\ asking' = [asking EXCEPT ![s] = @ - 1]
  /\ subscribed' = subscribed \cup {s} /\ Acquire /\ UNCHANGED open
Denied(s) ==
  /\ asking[s] > 0 /\ asking' = [asking EXCEPT ![s] = @ - 1]
  /\ UNCHANGED <<cacheVars, loopVars, open, subscribed>>

\* Mutant: whoever unsubscribes is released.
UnsubscribeAnyone(s) ==
  /\ s \in open /\ subscribed' = subscribed \ {s}
  /\ Release /\ UNCHANGED <<open, asking>>

Unsubscribe(s) ==
  /\ s \in open \cap subscribed /\ subscribed' = subscribed \ {s}
  /\ Release /\ UNCHANGED <<open, asking>>
(* The client leaves, or its account may no longer use sockets.  (For a    *)
(* socket that neither asks nor views nothing changes.)                    *)
Disconnect(s) ==
  /\ s \in open /\ (asking[s] > 0 \/ s \in subscribed)
  /\ open' = open \ {s} /\ subscribed' = subscribed \ {s}
  /\ IF s \in subscribed THEN Release ELSE UNCHANGED <<cacheVars, loopVars>>
  /\ UNCHANGED asking

Next ==
  \/ \E s \in Socket : \/ Subscribe(s) \/ Granted(s) \/ Denied(s)
                       \/ Unsubscribe(s) \/ Disconnect(s)
  \/ Fire \/ FinishRun \/ FailRun \/ LoadPage
  \/ /\ Outside \/ (\E w \in Worker : Reconcile(w)) \/ Report("cron") \/ Fail("cron")
     /\ UNCHANGED <<socketVars, loopVars>>

(* Timers fire, a run that has begun goes on, and a request is served.     *)
Progress(w) == Reconcile(w) /\ UNCHANGED <<socketVars, loopVars>>
Fairness ==
  /\ WF_vars(Fire) /\ WF_vars(FinishRun)
  /\ \A w \in Worker : WF_vars(Progress(w))
  /\ WF_vars(Report("cron") /\ UNCHANGED <<socketVars, loopVars>>)
  /\ \A u \in User : WF_vars(Serve(u) /\ UNCHANGED <<socketVars, loopVars>>)
Spec == Init /\ [][Next]_vars /\ Fairness

----------------------------------------------------------------------------
(* Every viewer is counted, however subscriptions, cancellations and       *)
(* closed connections of the sockets interleave with their access checks   *)
(* (websocket/index.ts:92-118): no viewer loses the loop because another   *)
(* one left.                                                               *)
ViewersAreCounted == refCount >= Cardinality(subscribed)

(* While a network is counted as viewed its loop is not lost: a tick of    *)
(* its own waits for a run that is under way, or a timer is set            *)
(* (syncManager.ts:73-96), also when the last viewer left and another came *)
(* while a run was in flight.                                              *)
LoopSurvives ==
  refCount > 0 => armed > 0 \/ (ticks + stray > 0 /\ at["live"] # "idle")

(* Once nobody is counted, what is left of the loop comes to rest, unless  *)
(* a viewer comes back (syncManager.ts:13-14, "the loop stops").           *)
LoopStops ==
  refCount = 0 ~> refCount > 0 \/ (armed = 0 /\ ticks = 0 /\ stray = 0)

(* While a network is viewed its rows come to agree with the controller    *)
(* and the viewers are told so (memberService.ts:413, "Controller-truth,   *)
(* self-healing sync"): whatever joins, leaves and fails, and although the *)
(* backstop works beside the loop on what it has read earlier.             *)
Told == lastHash =
  {<<m, db[m].auth>> : m \in {n \in Member : Shown(n) /\ ctl[n] # None}}
ViewIsHealed ==
  <>[](subscribed # {}) => <>[](Told /\ \A m \in Member : Agrees(m))

(* "When the last viewer leaves, the loop stops" (syncManager.ts:13-14):   *)
(* once no socket views the network or waits for an answer, none is counted. *)
LastViewerStopsLoop ==
  open \cap subscribed = {} /\ (\A s \in Socket : asking[s] = 0) => refCount = 0
=============================================================================
