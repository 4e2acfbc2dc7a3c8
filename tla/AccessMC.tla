------------------------------ MODULE AccessMC ------------------------------
(***************************************************************************)
(* Who is let in: the members of an account that expires and is restored,  *)
(* and the people and networks of an organization.  The two share no       *)
(* state, and a behaviour is one of the first or one of the second.        *)
(*                                                                         *)
(* Suspension: one member, the minute job and a request handler, two       *)
(* expiries.  Organization: two people, the first an administrator of the  *)
(* server, the second with an account or still to get one; either they     *)
(* have the organization already, with a network, or the first call founds *)
(* it.  Three calls let a deletion that has listed the networks be         *)
(* overtaken by one call and another follow, let a member be invited,      *)
(* removed and admitted again, and let someone whom an administrator is    *)
(* creating be put out or admitted in between.                             *)
(***************************************************************************)
EXTENDS SuspensionMC, Organization

CONSTANTS alice, bob, n1, n2

MCUser == {alice, bob}
MCNetwork == {n1, n2}
MCGrantable == {"USER", "ADMIN"}

VARIABLE part
mcVars == <<vars, orgVars, part>>

MCInit ==
    /\ Init /\ OrgInit /\ part \in {"suspension", "organization"}
    /\ admins = {alice}
    /\ role[bob] # "USER"
    /\ \/ org = "none" /\ home[n1] = bob /\ home[n2] = None
       \/ /\ org = "live" /\ owner = alice /\ role[alice] = "ADMIN"
          /\ home[n1] = Org /\ (n2 \in used => home[n2] = bob)
    /\ part = "suspension" => org = "none" /\ used = {n1}
    /\ part = "organization" => authorised = Members

InSuspension == part = "suspension" /\ UNCHANGED <<orgVars, part>>
InOrganization == part = "organization" /\ UNCHANGED <<vars, part>>

\* Nobody has to call anything.
Rest == part = "organization" /\ UNCHANGED mcVars

MCNext == \/ InSuspension /\ Next
          \/ InOrganization /\ OrgNext
          \/ Rest

\* The fairness of Suspension.
MCFairness == /\ \A w \in Workers : WF_mcVars(InSuspension /\ WorkerStep(w))
              /\ SF_mcVars(InSuspension /\ PrepareSuspension)
              /\ SF_mcVars(InSuspension /\ FulfilAgain(Cron))

MCSpec == MCInit /\ [][MCNext]_mcVars /\ MCFairness
=============================================================================
