---------------------------- MODULE LiveMembersMC ----------------------------
(***************************************************************************)
(* One member, one administrator and two sockets.  Either the member       *)
(* changes while a viewer watches, or calls fail, or viewers come and go,  *)
(* or, with four operations, a member is created, stashed, deleted for     *)
(* good and shown again without a record on the controller.                *)
(***************************************************************************)
EXTENDS LiveMembers

Budget(o, j, f, w, a) ==
  [ops |-> o, joins |-> j, faults |-> f, sweeps |-> w, asks |-> a]
MCBudgets == {Budget(2, 1, 0, 0, 1), Budget(1, 1, 0, 1, 1), Budget(0, 1, 2, 0, 1),
              Budget(0, 0, 1, 0, 3), Budget(4, 0, 0, 0, 1)}
MCLeaving == {Budget(0, 0, 0, 0, 2)}
=============================================================================
