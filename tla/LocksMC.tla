------------------------------ MODULE LocksMC ------------------------------
(***************************************************************************)
(* The two locks of the code: the planet's, which is made of files, and    *)
(* the registrations', which is PostgreSQL's.  They share no state, and a  *)
(* behaviour is one of the first or one of the second.                     *)
(*                                                                         *)
(* Planet: two processes, as when a container is replaced while its        *)
(* predecessor still runs.  Five inodes: with seven no further state is    *)
(* reached.  Registration: two forms, a creation by REST and a login with  *)
(* OAuth, two addresses, each of a form and of another request, and an     *)
(* invitation of either kind.                                              *)
(***************************************************************************)
EXTENDS PlanetLock, Registration

CONSTANTS p1, p2, f1, f2, r1, o1, mail1, mail2, site1, org1

MCProcess == {p1, p2}
MCInode == 1..5

MCForm == {f1, f2}
MCRest == {r1}
MCOAuth == {o1}
MCemail == [r \in {f1, f2, r1, o1} |-> IF r \in {f1, o1} THEN mail1 ELSE mail2]
MCInvite == {site1}
MCtimesCanUse == [x \in MCInvite |-> 1]
MCToken == {org1}

VARIABLE part
mcVars == <<lockVars, regVars, part>>

MCInit ==
  /\ LockInit /\ RegistrationInit /\ part \in {"planet", "accounts"}
  /\ part = "planet" => configured = None /\ ~exclusive /\ ~open
  /\ part = "accounts" => sameHost

InPlanet == part = "planet" /\ UNCHANGED <<regVars, part>>
InAccounts == part = "accounts" /\ UNCHANGED <<lockVars, part>>

MCNext == \/ InPlanet /\ LockNext
          \/ InAccounts /\ RegistrationNext

MCFairness == /\ \A p \in Process : WF_mcVars(InPlanet /\ Code(p))
              /\ \A f \in Path : WF_mcVars(InPlanet /\ Age(f))

MCSpec == MCInit /\ [][MCNext]_mcVars /\ MCFairness
=============================================================================
