--------------------------- MODULE NetworkPageMC ---------------------------
(***************************************************************************)
(* The page of one network: its members, as LiveMembersMC has them, or its *)
(* routes.  The two share no state, and a behaviour is one of the first or *)
(* one of the second.  The routes are a direct one and one with the same   *)
(* target by way of a gateway, so that pools and a new via move between    *)
(* the two.  Two edits let a route be removed and added again during a     *)
(* load; a failure comes with one edit.                                    *)
(***************************************************************************)
EXTENDS LiveMembersMC, NetworkRoutes

CONSTANTS t1, g, p1, p2, e1

MCRoute == {[target |-> t1, via |-> Absent], [target |-> t1, via |-> g]}
MCRowId == 1..3
MCPage == {p1, p2}
MCEditor == {e1}
MCEdits == {[edits |-> 2, failures |-> 0], [edits |-> 1, failures |-> 1]}

VARIABLE part
mcVars == <<vars, routeVars, part>>

(* The part that does not run is in one state.                             *)
MCInit ==
  /\ part \in {"members", "routes"} /\ Init /\ RoutesInit
  /\ budget \in MCEdits
  /\ part = "members" => live = {} /\ row = NoRows /\ budget.edits = 1
  /\ part = "routes" => left = CHOOSE b \in Budgets : TRUE

InMembers == part = "members" /\ UNCHANGED <<routeVars, part>>
InRoutes == part = "routes" /\ UNCHANGED <<vars, part>>

MCNext == \/ InMembers /\ Next
          \/ InRoutes /\ RoutesNext

MCFairness ==
  /\ WF_mcVars(InMembers /\ Fire) /\ WF_mcVars(InMembers /\ FinishRun)
  /\ \A w \in Worker : WF_mcVars(InMembers /\ Progress(w))
  /\ WF_mcVars(InMembers /\ Report("cron") /\ UNCHANGED <<socketVars, loopVars>>)
  /\ \A u \in User : WF_mcVars(InMembers /\ Serve(u) /\ UNCHANGED <<socketVars, loopVars>>)
  /\ \A p \in Page : /\ WF_mcVars(InRoutes /\ ReadRoutes(p))
                     /\ WF_mcVars(InRoutes /\ AskController(p))
                     /\ WF_mcVars(InRoutes /\ Compare(p))
  /\ WF_mcVars(InRoutes /\ Commit)

MCSpec == MCInit /\ [][MCNext]_mcVars /\ MCFairness
=============================================================================
