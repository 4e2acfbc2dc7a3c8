--------------------------- MODULE NetworkRoutes ---------------------------
(***************************************************************************)
(* The managed routes of one network.  The controller holds them; the      *)
(* table Routes mirrors them, because a user's note on a route is kept in  *)
(* its row.  Every load of the network's page (getNetworkById,             *)
(* networkRouter.ts:119) reads the rows, asks the controller, and, when    *)
(* the two differ, mirrors what it was told with one transaction           *)
(* (routesService.ts:13).  Only one mirroring of a network runs at a time: *)
(* a load that finds one under way takes its result instead.               *)
(*                                                                         *)
(* Rows are never edited under their key, and the table's two unique       *)
(* indexes allow one row per key.  What is followed here is which row it   *)
(* is: a route that is removed and added again has a new one.              *)
(***************************************************************************)
EXTENDS FiniteSets, Integers

CONSTANTS Route,        \* the keys in use: records of a target and a via
          Page,         \* the loads that may run at the same time
          Editor,       \* the edits that may run at the same time
          RowId,        \* the identities of the rows of one key
          Absent,       \* no row, no load, no edit
          MaxEdits, MaxFailures

ASSUME RoutesAssumption ==
  /\ \A r \in Route : r = [target |-> r.target, via |-> r.via]
  /\ RowId # {} /\ Absent \notin RowId
  /\ MaxEdits \in Nat /\ MaxFailures \in Nat

VARIABLES
  live,      \* the routes the controller has
  row,       \* of each route: its row in the table
  page,      \* of each load: how far it is, the rows and routes it has read
  mirroring, \* the mirroring under way: what it creates and deletes
  edit,      \* of each edit: the routes it is about to send
  budget,    \* edits and failures left
  once       \* the rows whose route the controller did not have at some moment

routeVars == <<live, row, page, mirroring, edit, budget, once>>

Targets == {r.target : r \in Route}
Direct(t) == {r \in Route : r.target = t /\ r.via = Absent}
Mirror == [Route -> RowId \cup {Absent}]
Keys(rows) == {r \in Route : rows[r] # Absent}
RowsOf(rows) == {<<r, rows[r]>> : r \in Keys(rows)}
NoRows == [r \in Route |-> Absent]
FirstId == CHOOSE id \in RowId : TRUE
NotLoading == [at |-> "no", seen |-> NoRows, told |-> {}]
Plan == [create : SUBSET Route, delete : SUBSET (Route \X RowId)]

RouteTypes ==
  /\ live \subseteq Route
  /\ row \in Mirror
  /\ page \in [Page -> [at : {"no", "controller", "compare"},
                        seen : Mirror, told : SUBSET Route]]
  /\ mirroring \in Plan \cup {Absent}
  /\ edit \in [Editor -> (SUBSET Route) \cup {Absent}]
  /\ budget \in [edits : 0..MaxEdits, failures : 0..MaxFailures]
  /\ once \subseteq RowsOf(row)

(* A network whose page was never loaded has no row, every other one has   *)
(* its routes mirrored.                                                    *)
RoutesInit ==
  /\ live \in SUBSET Route
  /\ row \in {NoRows, [r \in Route |-> IF r \in live THEN FirstId ELSE Absent]}
  /\ page = [p \in Page |-> NotLoading]
  /\ mirroring = Absent
  /\ edit = [e \in Editor |-> Absent]
  /\ budget \in [edits : 0..MaxEdits, failures : 0..MaxFailures]
  /\ once = {}

(* What the properties remember: kept with every step that changes the     *)
(* routes or the rows.                                                     *)
Remember == once' = {x \in RowsOf(row') : x \in once \/ x[1] \notin live'}
Pay(b) == budget[b] > 0 /\ budget' = [budget EXCEPT ![b] = @ - 1]

----------------------------------------------------------------------------
(* The page.                                                               *)

ReadRoutes(p) ==
  /\ page[p].at = "no"
  /\ page' = [page EXCEPT ![p] = [at |-> "controller", seen |-> row, told |-> {}]]
  /\ UNCHANGED <<live, row, mirroring, edit, budget, once>>

AskController(p) ==
  /\ page[p].at = "controller"
  /\ page' = [page EXCEPT ![p].at = "compare", ![p].told = live]
  /\ UNCHANGED <<live, row, mirroring, edit, budget, once>>

(* The controller does not answer: the whole load fails.                   *)
LoadFails(p) ==
  /\ page[p].at = "controller" /\ Pay("failures")
  /\ page' = [page EXCEPT ![p] = NotLoading]
  /\ UNCHANGED <<live, row, mirroring, edit, once>>

(* Seeded fault: only the numbers are compared.                            *)
DifferInNumber(seen, told) == Cardinality(Keys(seen)) # Cardinality(told)

Differ(seen, told) == Keys(seen) # told

Mirroring(seen, told) ==
  [create |-> told \ Keys(seen),
   delete |-> {x \in RowsOf(seen) : x[1] \notin told}]

(* A load that meets a mirroring under way does not start its own, though  *)
(* the one under way may have been told something else.                    *)
Compare(p) ==
  /\ page[p].at = "compare"
  /\ mirroring' = IF Differ(page[p].seen, page[p].told) /\ mirroring = Absent
                    THEN Mirroring(page[p].seen, page[p].told)
                    ELSE mirroring
  /\ page' = [page EXCEPT ![p] = NotLoading]
  /\ UNCHANGED <<live, row, edit, budget, once>>

(* The rows a load or the mirroring still refers to.  A new row is none of *)
(* them: identifiers are not used twice.                                   *)
Known(r) == {page[p].seen[r] : p \in Page} \cup {row[r]}
              \cup (IF mirroring = Absent THEN {}
                    ELSE {x[2] : x \in {y \in mirroring.delete : y[1] = r}})
Unused(r) == RowId \ Known(r)

(* Seeded fault: a row is deleted by its key.                              *)
RemovedByKey(x) == x[1] \in {y[1] : y \in mirroring.delete}

Removed(x) == x \in mirroring.delete

(* One transaction: it reads the keys again, creates the rows that are     *)
(* still missing and deletes the others by their identifiers.              *)
Commit ==
  /\ mirroring # Absent
  /\ \A r \in mirroring.create \ Keys(row) : Unused(r) # {}
  /\ row' = [r \in Route |->
               IF row[r] = Absent
                 THEN IF r \in mirroring.create THEN CHOOSE id \in Unused(r) : TRUE
                                                ELSE Absent
                 ELSE IF Removed(<<r, row[r]>>) THEN Absent ELSE row[r]]
  /\ mirroring' = Absent
  /\ UNCHANGED <<live, page, edit, budget>>
  /\ Remember

(* A database error is logged and the load goes on.                        *)
MirroringFails ==
  /\ mirroring # Absent /\ Pay("failures")
  /\ mirroring' = Absent
  /\ UNCHANGED <<live, row, page, edit, once>>

----------------------------------------------------------------------------
(* The edits.  Each sends the whole list to the controller.                *)

(* A list from the user: a route added or removed on a page that may have  *)
(* been drawn long ago, or the single range of the easy assignment.        *)
SendRoutes ==
  \E routes \in SUBSET Route :
    /\ Pay("edits")
    /\ live' = routes
    /\ UNCHANGED <<row, page, mirroring, edit>>
    /\ Remember

Prepare(e, routes) ==
  /\ edit[e] = Absent /\ Pay("edits")
  /\ edit' = [edit EXCEPT ![e] = routes]
  /\ UNCHANGED <<live, row, page, mirroring, once>>

(* A new via for one route: the list is made of the rows.  Nothing is      *)
(* changed in it when the row has gone.                                    *)
PrepareVia(e) ==
  \E r \in Route, to \in Route :
    /\ r.target = to.target /\ r # to
    /\ Prepare(e, {IF x = r THEN to ELSE x : x \in Keys(row)})

(* New pools: a direct route for each, and of the controller's routes one  *)
(* for every other target.                                                 *)
PreparePools(e) ==
  \E pools \in SUBSET Targets, kept \in SUBSET live :
    /\ \A r \in live : r.target \notin pools => \E x \in kept : x.target = r.target
    /\ \A x, y \in kept : x.target \notin pools /\ (x.target = y.target => x = y)
    /\ Prepare(e, kept \cup UNION {Direct(t) : t \in pools})

Send(e) ==
  /\ edit[e] # Absent
  /\ live' = edit[e]
  /\ edit' = [edit EXCEPT ![e] = Absent]
  /\ UNCHANGED <<row, page, mirroring, budget>>
  /\ Remember

(* The webhook or the controller fails.                                    *)
EditFails(e) ==
  /\ edit[e] # Absent /\ Pay("failures")
  /\ edit' = [edit EXCEPT ![e] = Absent]
  /\ UNCHANGED <<live, row, page, mirroring, once>>

----------------------------------------------------------------------------
Load(p) == ReadRoutes(p) \/ AskController(p) \/ LoadFails(p) \/ Compare(p)
Edit(e) == PrepareVia(e) \/ PreparePools(e) \/ Send(e) \/ EditFails(e)

RoutesNext == \/ \E p \in Page : Load(p)
              \/ \E e \in Editor : Edit(e)
              \/ Commit \/ MirroringFails \/ SendRoutes

(* An open page is loaded again every minute at the latest                 *)
(* (pages/network/[id].tsx:77), and a load and a transaction come to their *)
(* end.                                                                    *)
RoutesFairness ==
  /\ \A p \in Page : /\ WF_routeVars(ReadRoutes(p)) /\ WF_routeVars(AskController(p))
                     /\ WF_routeVars(Compare(p))
  /\ WF_routeVars(Commit)

RoutesSpec == RoutesInit /\ [][RoutesNext]_routeVars /\ RoutesFairness

----------------------------------------------------------------------------
(* A row, and the note on it, is lost only when the controller has been    *)
(* without its route at some moment since the row exists: no load that     *)
(* read the rows or asked the controller long ago, and no two loads of     *)
(* which one mirrors for both, delete the row of a route that stayed.      *)
OnlyDeadRowsGo ==
  [][\A r \in Route : row[r] # Absent /\ row'[r] # row[r] => <<r, row[r]>> \in once]_routeVars

(* However edits, loads and failures are interleaved, and whichever load   *)
(* found another one's mirroring under way: once the edits are over, the   *)
(* rows come to agree with the controller and stay so.                     *)
RoutesConverge == <>[](Keys(row) = live)

=============================================================================
