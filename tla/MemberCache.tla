----------------------------- MODULE MemberCache -----------------------------
(***************************************************************************)
(* The member rows of one network, a cache of the ZeroTier controller:     *)
(* reconcileNetworkMembers of services/memberService.ts, run behind the    *)
(* in-flight guard for viewers and page loads and without it by the cron   *)
(* backstop (cronTasks.ts), against the member operations of               *)
(* memberRouter.ts and devices that join.                                  *)
(*                                                                         *)
(* Of a member's configuration the model keeps whether it is authorised;   *)
(* the controller counts a revision at every change of it.                 *)
(***************************************************************************)
EXTENDS Naturals, FiniteSets

CONSTANTS Member, User, None,
          Budgets   \* bounds: how often users operate, devices join, calls
                    \* fail, the backstop runs and sockets ask; a behaviour
                    \* has one of them

Budgeted == {"ops", "joins", "faults", "sweeps", "asks"}

ASSUME CacheAssumption ==
  Budgets \subseteq [Budgeted -> Nat] /\ Budgets # {} /\ None \notin Member

Worker == {"live", "cron"}   \* guarded callers share one run; the backstop

VARIABLES
  ctl,      \* controller: member |-> configuration, or None
  db,       \* database: member |-> row, or None
  at,       \* reconcile |-> what it does next
  revs,     \* reconcile |-> the revision map it has read
  rows,     \* reconcile |-> which rows it has read, and whether hidden
  todo,     \* reconcile |-> members it still has to fetch or store
  details,  \* reconcile |-> the details it has fetched
  task,     \* user |-> the operation under way
  left      \* what remains of the budget

cacheVars == <<ctl, db, at, revs, rows, todo, details, task, left>>
work == <<at, revs, rows, todo, details>>

Config == [rev : Nat, auth : BOOLEAN]
(* deleted and permanentlyDeleted: neither, the first, both, the second.   *)
Hidden == {"no", "stashed", "gone", "revived"}
Row == [rev : Nat \cup {None}, auth : BOOLEAN, hidden : Hidden]
Deleted(row) == row.hidden \in {"stashed", "gone"}
Idle == [op |-> "idle"]

CacheTypeOK ==
  /\ ctl \in [Member -> Config \cup {None}]
  /\ db \in [Member -> Row \cup {None}]
  /\ at \in [Worker -> {"idle", "list", "read", "fetch", "store", "clean", "report"}]
  /\ revs \in [Worker -> [Member -> Nat \cup {None}]]
  /\ rows \in [Worker -> [Member -> {"shown", "hidden", None}]]
  /\ todo \in [Worker -> SUBSET Member]
  /\ details \in [Worker -> [Member -> Config \cup {None}]]
  /\ task \in [User -> {Idle} \cup
       [op : {"update", "stash", "create", "delete"}, m : Member, step : 1..3,
        auth : BOOLEAN, found : {"shown", "hidden", None}]]
  /\ left \in [Budgeted -> Nat]

Nothing == [m \in Member |-> None]
CacheInit ==
  /\ ctl = Nothing /\ db = Nothing
  /\ at = [w \in Worker |-> "idle"]
  /\ revs = [w \in Worker |-> Nothing] /\ rows = [w \in Worker |-> Nothing]
  /\ todo = [w \in Worker |-> {}] /\ details = [w \in Worker |-> Nothing]
  /\ task = [u \in User |-> Idle]
  /\ left \in Budgets

Spend(b) == left[b] > 0 /\ left' = [left EXCEPT ![b] = @ - 1]
Shown(m) == db[m] # None /\ ~Deleted(db[m])

----------------------------------------------------------------------------
(* reconcileNetworkMembers, one action per call to the controller or the   *)
(* database.                                                               *)
Go(w, next) == at' = [at EXCEPT ![w] = next]

Begin(w) == at[w] = "idle" /\ Go(w, "list")
BeginOnce == IF at["live"] = "idle" THEN Begin("live") ELSE UNCHANGED at

ListRevisions(w) ==
  /\ at[w] = "list" /\ Go(w, "read")
  /\ revs' = [revs EXCEPT ![w] = [m \in Member |-> IF ctl[m] = None THEN None
                                                                ELSE ctl[m].rev]]
  /\ UNCHANGED <<ctl, db, rows, todo, details, task, left>>

(* What follows when nothing is left to fetch and store: the orphans, the  *)
(* rows read as active of members that are not in the map, if there are any.*)
Orphans(shown, revisions) == {m \in Member : shown[m] = "shown" /\ revisions[m] = None}
After(w, shown) == IF Orphans(shown, revs[w]) = {} THEN "report" ELSE "clean"

Visibility(m) == IF db[m] = None THEN None
                 ELSE IF db[m].hidden = "no" THEN "shown" ELSE "hidden"
NeedsFetch(w, m) ==
  /\ revs[w][m] # None
  /\ db[m] # None => db[m].hidden = "no" /\ db[m].rev # revs[w][m]
ReadRows(w) ==
  LET read == [m \in Member |-> Visibility(m)]
      fetch == {m \in Member : NeedsFetch(w, m)}
  IN /\ at[w] = "read" /\ rows' = [rows EXCEPT ![w] = read]
     /\ todo' = [todo EXCEPT ![w] = fetch]
     /\ Go(w, IF fetch = {} THEN After(w, read) ELSE "fetch")
     /\ UNCHANGED <<ctl, db, revs, details, task, left>>

(* A batch is fetched in any order; a member that fails, or is gone, is    *)
(* skipped.                                                                *)
FetchDetail(w, m) ==
  /\ at[w] = "fetch" /\ m \in todo[w]
  /\ \/ details' = [details EXCEPT ![w][m] = ctl[m]] /\ UNCHANGED left
     \/ ctl[m] # None /\ Spend("faults") /\ UNCHANGED details
  /\ IF todo[w] # {m}
       THEN todo' = [todo EXCEPT ![w] = @ \ {m}] /\ UNCHANGED at
       ELSE LET got == {n \in Member : details'[w][n] # None} IN
            /\ todo' = [todo EXCEPT ![w] = got]
            /\ Go(w, IF got = {} THEN After(w, rows[w]) ELSE "store")
  /\ UNCHANGED <<ctl, db, revs, rows, task>>

(* addNetworkMember: an upsert; its failure is logged and passed over.     *)
NewRow == [rev |-> None, auth |-> FALSE, hidden |-> "no"]
AddRow(w, m) ==
  /\ at[w] = "store" /\ m \in todo[w] /\ rows[w][m] = None
  /\ rows' = [rows EXCEPT ![w][m] = "shown"]
  /\ \/ db' = [db EXCEPT ![m] = IF @ = None THEN NewRow ELSE @] /\ UNCHANGED left
     \/ Spend("faults") /\ UNCHANGED db
  /\ UNCHANGED <<ctl, at, revs, todo, details, task>>

\* Mutant: the revision is read when the row is written.
CachedLatest(w, m) ==
  [db[m] EXCEPT !.auth = details[w][m].auth,
                !.rev = IF ctl[m] = None THEN revs[w][m] ELSE ctl[m].rev]

(* The fetched configuration goes with the revision of the map.            *)
Cached(w, m) == [db[m] EXCEPT !.auth = details[w][m].auth, !.rev = revs[w][m]]
CacheDetail(w, m) ==
  /\ at[w] = "store" /\ m \in todo[w] /\ rows[w][m] # None
  /\ db' = [db EXCEPT ![m] = IF @ = None THEN None ELSE Cached(w, m)]
  /\ todo' = [todo EXCEPT ![w] = @ \ {m}]
  /\ details' = [details EXCEPT ![w][m] = None]
  /\ IF todo[w] = {m} THEN Go(w, After(w, rows[w])) ELSE UNCHANGED at
  /\ UNCHANGED <<ctl, revs, rows, task, left>>

(* Drift cleanup, on the strength of the map and the rows read before.     *)
RemoveOrphans(w) ==
  /\ at[w] = "clean" /\ Go(w, "report")
  /\ db' = [m \in Member |-> IF m \in Orphans(rows[w], revs[w]) THEN None ELSE db[m]]
  /\ UNCHANGED <<ctl, revs, rows, todo, details, task, left>>

(* The rows it returns, read after the peers call.                         *)
Listed(w) == {<<m, db[m].auth>> : m \in {n \in Member : Shown(n) /\ revs[w][n] # None}}
Forgotten(w) ==
  /\ Go(w, "idle")
  /\ revs' = [revs EXCEPT ![w] = Nothing] /\ rows' = [rows EXCEPT ![w] = Nothing]
  /\ todo' = [todo EXCEPT ![w] = {}] /\ details' = [details EXCEPT ![w] = Nothing]
Report(w) == at[w] = "report" /\ Forgotten(w) /\ UNCHANGED <<ctl, db, task, left>>
(* A call to the controller or the database fails: the run is given up.    *)
Fail(w) ==
  /\ at[w] # "idle" /\ Spend("faults") /\ Forgotten(w)
  /\ UNCHANGED <<ctl, db, task>>

Reconcile(w) ==
  \/ ListRevisions(w) \/ ReadRows(w) \/ RemoveOrphans(w)
  \/ \E m \in Member : FetchDetail(w, m) \/ AddRow(w, m) \/ CacheDetail(w, m)

(* cronTasks.ts: every ten minutes, not behind the guard.                  *)
Backstop ==
  Begin("cron") /\ Spend("sweeps")
  /\ UNCHANGED <<ctl, db, revs, rows, todo, details, task>>

----------------------------------------------------------------------------
(* networkMemberRouter: each operation is a sequence of calls.             *)
Found(m) == IF db[m] = None THEN None
            ELSE IF Deleted(db[m]) THEN "hidden" ELSE "shown"
Task(op, m, a) ==
  [op |-> op, m |-> m, step |-> 1, auth |-> a,
   found |-> IF op \in {"create", "delete"} THEN Found(m) ELSE None]
Ask(u) ==
  /\ task[u] = Idle /\ Spend("ops")
  /\ \E m \in Member :
       \/ \E a \in BOOLEAN : task' = [task EXCEPT ![u] = Task("update", m, a)]
       \/ db[m] # None /\ task' = [task EXCEPT ![u] = Task("stash", m, FALSE)]
       \/ task' = [task EXCEPT ![u] = Task("create", m, FALSE)]
       \/ db[m] # None /\ task' = [task EXCEPT ![u] = Task("delete", m, FALSE)]
  /\ UNCHANGED <<ctl, db, work>>
Does(u, op, step) == task[u] # Idle /\ task[u].op = op /\ task[u].step = step
Then(u, step) == task' = [task EXCEPT ![u].step = step]
Done(u) == task' = [task EXCEPT ![u] = Idle]

(* Update, and the Update a stash calls: the controller first, then the    *)
(* row, if it is there.  A stash passes over its failure.                  *)
UpdateController(u) ==
  \E op \in {"update", "stash"} :
    /\ Does(u, op, 1)
    /\ LET m == task[u].m IN
       \/ /\ ctl[m] # None /\ Then(u, 2) /\ UNCHANGED left
          /\ ctl' = IF ctl[m].auth = task[u].auth THEN ctl
                    ELSE [ctl EXCEPT ![m] = [rev |-> @.rev + 1, auth |-> task[u].auth]]
       \/ /\ IF ctl[m] = None THEN UNCHANGED left ELSE Spend("faults")
          /\ IF op = "stash" THEN Then(u, 3) ELSE Done(u)
          /\ UNCHANGED ctl
    /\ UNCHANGED <<db, work>>
WriteThrough(m, a) == db' = [db EXCEPT ![m] = IF @ = None THEN None
                                             ELSE [@ EXCEPT !.auth = a]]
UpdateRow(u) ==
  \E op \in {"update", "stash"} :
    /\ Does(u, op, 2) /\ WriteThrough(task[u].m, task[u].auth)
    /\ IF op = "stash" THEN Then(u, 3) ELSE Done(u)
    /\ UNCHANGED <<ctl, work, left>>
StashRow(u) ==
  /\ Does(u, "stash", 3) /\ Done(u)
  /\ LET m == task[u].m IN
     db' = [db EXCEPT ![m] =
       IF @ = None THEN None
       ELSE [@ EXCEPT !.hidden = IF db[m].hidden \in {"no", "stashed"} THEN "stashed"
                                                                 ELSE "gone"]]
  /\ UNCHANGED <<ctl, work, left>>

(* create: a row that was found is shown again, one that was not is made;  *)
(* either write throws when that has changed.                              *)
CreateRow(u) ==
  /\ Does(u, "create", 1) /\ Done(u)
  /\ LET m == task[u].m IN
     db' = CASE task[u].found = None /\ db[m] = None -> [db EXCEPT ![m] = NewRow]
             [] task[u].found # None /\ db[m] # None ->
                  [db EXCEPT ![m].hidden = "no"]
             [] OTHER -> db
  /\ UNCHANGED <<ctl, work, left>>

(* delete: a member that was shown leaves the controller and loses its     *)
(* row; one that was stashed keeps it, to stay away for good.              *)
DeleteFromController(u) ==
  /\ Does(u, "delete", 1)
  /\ LET m == task[u].m IN
     CASE task[u].found = "hidden" -> Then(u, 2) /\ UNCHANGED ctl
       [] task[u].found # "hidden" /\ ctl[m] # None ->
            Then(u, 2) /\ ctl' = [ctl EXCEPT ![m] = None]
       [] OTHER -> Done(u) /\ UNCHANGED ctl
  /\ UNCHANGED <<db, work, left>>
DeleteRow(u) ==
  /\ Does(u, "delete", 2) /\ Done(u)
  /\ LET m == task[u].m IN
     db' = [db EXCEPT ![m] =
       IF @ = None \/ task[u].found # "hidden" THEN None
       ELSE [@ EXCEPT !.hidden = IF Deleted(db[m]) THEN "gone" ELSE "revived"]]
  /\ UNCHANGED <<ctl, work, left>>

(* UpdateDatabaseOnly with deleted: false, from a list that still shows    *)
(* the member as stashed: it may have been deleted for good meanwhile.     *)
Unstash(m) ==
  /\ db[m] # None /\ Deleted(db[m]) /\ Spend("ops")
  /\ db' = [db EXCEPT ![m].hidden = IF @ = "stashed" THEN "no" ELSE "revived"]
  /\ UNCHANGED <<ctl, work, task>>
(* bulkDeleteStashed: the members it found that are still stashed.         *)
BulkDelete ==
  /\ \E m \in Member : db[m] # None /\ Deleted(db[m])
  /\ Spend("ops")
  /\ db' = [m \in Member |-> IF db[m] # None /\ Deleted(db[m])
                              THEN [db[m] EXCEPT !.hidden = "gone"] ELSE db[m]]
  /\ UNCHANGED <<ctl, work, task>>

Serve(u) == \/ UpdateController(u) \/ UpdateRow(u) \/ StashRow(u) \/ CreateRow(u)
            \/ DeleteFromController(u) \/ DeleteRow(u)

(* A device asks to join: the controller records it, not yet authorised.   *)
Join(m) ==
  /\ ctl[m] = None /\ Spend("joins")
  /\ ctl' = [ctl EXCEPT ![m] = [rev |-> 1, auth |-> FALSE]]
  /\ UNCHANGED <<db, work, task>>

Outside == \/ Backstop \/ BulkDelete
           \/ \E u \in User : Ask(u) \/ Serve(u)
           \/ \E m \in Member : Unstash(m) \/ Join(m)

----------------------------------------------------------------------------
(* The row and the controller agree, or the row is hidden on purpose.  A   *)
(* row that was shown again after it was deleted for good is left alone by *)
(* every reconcile, and may disagree.                                      *)
Agrees(m) ==
  \/ db[m] # None /\ db[m].hidden = "revived"
  \/ IF ctl[m] = None THEN ~Shown(m)
                      ELSE db[m] # None /\ (Shown(m) => db[m].auth = ctl[m].auth)
=============================================================================
