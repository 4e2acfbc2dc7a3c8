---------------------------- MODULE Organization ----------------------------
(***************************************************************************)
(* One organization: its members and their roles, its networks, and the    *)
(* invitations to it.                                                      *)
(*                                                                         *)
(* A procedure checks the caller's role with one query and writes with     *)
(* another, and those that touch networks call the ZeroTier controller in  *)
(* between, outside any transaction.  So a call of a procedure is a        *)
(* sequence of steps, and any of them may throw, or the process die, after *)
(* which nothing of the call is resumed or undone.  A call whose first     *)
(* check refuses it does nothing and never starts here.                    *)
(*                                                                         *)
(* A network is in two places, on the controller and as a row that names   *)
(* an account or the organization; the row is what anyone can reach it by. *)
(***************************************************************************)
EXTENDS Naturals, FiniteSets

CONSTANTS
    User,       \* accounts that may exist, each with an address of its own
    Network,    \* network ids the controller may give out, each once
    MaxCalls,   \* bound of the checked instance: calls of procedures
    Grantable,  \* roles the checked instance hands out
    Org,        \* what home says of a network of the organization
    None

Ranks == [READ_ONLY |-> 0, USER |-> 1, MODERATOR |-> 2, ADMIN |-> 3]
Roles == DOMAIN Ranks

\* Calls are numbered as they arrive.
Call == 1 .. MaxCalls

ASSUME GrantableAreRoles == Grantable \subseteq Roles
ASSUME MaxCallsNatural == MaxCalls \in Nat
ASSUME OrgIsNoUser == Org \notin User /\ None \notin User \union Roles \union Network /\ Org # None

VARIABLES
    accounts,    \* users with an account
    registered,  \* users who have or had one: an id is given out once, and here
                 \* an address is not used again
    admins,      \* accounts that administer the server
    org,         \* "none" before createOrg, "live", "deleted" at the end
    owner,       \* Organization.ownerId; no foreign key
    role,        \* userOrganizationRole rows, None where there is none
    members,     \* the users relation of the organization
    halfway,     \* history: users whose membership or role createUser wrote
                 \* without the other
    home,        \* network row: its author, Org, or None without a row
    controller,  \* networks on the controller
    used,        \* ids the controller has given out
    invites,     \* invitation rows
    call,        \* each call of a procedure
    todo,        \* networks a deletion has still to delete
    had          \* history: the networks a deletion has listed as to delete

personVars == <<accounts, registered, admins>>
membershipVars == <<owner, role, members, halfway>>
peopleVars == <<personVars, membershipVars>>
networkVars == <<home, controller, used>>
listVars == <<todo, had>>
orgVars == <<peopleVars, org, networkVars, invites, call, listVars>>

\* linked: the organizationInvitation row is there.  The token names the
\* organization and the role whether it is there or not.
Invite == [to : User, role : Roles, by : User, linked : BOOLEAN]

Steps == {"waiting", "listing", "purging", "forgetting", "erasing", "surveying",
          "emptying", "provisioning", "attaching", "assigning", "transferring",
          "granting", "adding", "leaving", "inviting", "redeeming", "clearing",
          "creating", "connecting", "enrolling", "registering", "over"}

\* at: the step to do next; by: the caller, or who wrote the invitation someone
\* without an account registers with; who, role and net: the user, the
\* role and the network asked for; who is also whose, account's or
\* organization's, deleteNetwork was told the network is.
Progress == [at : Steps, by : User \union {None}, who : User \union {Org, None},
             role : Roles \union {None}, net : Network \union {None}]

OrgTypes ==
    /\ registered \subseteq User
    /\ admins \subseteq accounts /\ accounts \subseteq registered
    /\ halfway \subseteq registered
    /\ org \in {"none", "live", "deleted"}
    /\ owner \in User \union {None}
    /\ role \in [User -> Roles \union {None}]
    /\ members \subseteq User
    /\ home \in [Network -> User \union {Org, None}]
    /\ controller \subseteq used /\ used \subseteq Network
    /\ invites \subseteq Invite
    /\ call \in [Call -> Progress]
    /\ todo \in [Call -> SUBSET Network] /\ had \in [Call -> SUBSET Network]

Doing(step, u, v, r, n) == [at |-> step, by |-> u, who |-> v, role |-> r, net |-> n]

\* The calls begin at some point of the organization's life: before createOrg,
\* or with members of any role, the owner's as well.  A network on the
\* controller without a row is one whose creation lost its reservation.
OrgInit ==
    /\ accounts \in SUBSET User /\ registered = accounts
    /\ admins \in (SUBSET accounts) \ {{}}
    /\ role \in [User -> Grantable \union {None}]
    /\ \A u \in User \ accounts : role[u] = None
    /\ members = {u \in User : role[u] # None} /\ halfway = {}
    /\ \/ org = "none" /\ members = {} /\ owner = None
       \/ org = "live" /\ owner \in members
    /\ used \in SUBSET Network
    /\ controller = used
    /\ home \in [Network -> accounts \union {Org, None}]
    /\ \A n \in Network : home[n] # None => n \in used
    /\ org = "none" => \A n \in Network : home[n] # Org
    /\ invites = {}
    /\ call = [c \in Call |-> Doing("waiting", None, None, None, None)]
    /\ todo = [c \in Call |-> {}] /\ had = todo

-----------------------------------------------------------------------------
\* checkUserOrganizationRole.
Allowed(u, minimum) == role[u] # None /\ Ranks[role[u]] >= Ranks[minimum]

\* checkNetworkAccess: the row decides, not what the caller says.
Access(u, n) == IF home[n] = Org THEN Allowed(u, "USER") ELSE home[n] = u

\* The next call to come.
Arrived(c) == call[c].at = "waiting" /\ \A d \in Call : d < c => call[d].at # "waiting"

Starts(c, progress) ==
    /\ call' = [call EXCEPT ![c] = progress]
    /\ UNCHANGED listVars

\* The caller has a session: its account exists.
Comes(c, u, progress) == u \in accounts /\ Starts(c, progress)

Done == Doing("over", None, None, None, None)

Opens(c, u, step, v, r, n) ==
    /\ Starts(c, Doing(step, u, v, r, n))
    /\ UNCHANGED <<peopleVars, org, networkVars, invites>>

Asks(c, u, step, v, r, n) == u \in accounts /\ Opens(c, u, step, v, r, n)

Awaits(c, step) == call[c].at = step
Moves(c, step, v, n) ==
    call' = [call EXCEPT ![c] = Doing(step, call[c].by, v, call[c].role, n)]

Ends(c) ==
    /\ call' = [call EXCEPT ![c] = Done]
    /\ todo' = [todo EXCEPT ![c] = {}] /\ had' = [had EXCEPT ![c] = {}]

\* Any step of a call may throw, and the process may die at any of them.
Throws(c) ==
    /\ ~Awaits(c, "waiting") /\ ~Awaits(c, "over")
    /\ Ends(c)
    /\ UNCHANGED <<peopleVars, org, networkVars, invites>>

-----------------------------------------------------------------------------
\* createOrg: one transaction.
CreateOrg(c, u) ==
    /\ org = "none" /\ u \in admins
    /\ Comes(c, u, Done)
    /\ org' = "live" /\ owner' = u
    /\ members' = {u}
    /\ role' = [role EXCEPT ![u] = "ADMIN"]
    /\ UNCHANGED <<personVars, halfway, networkVars, invites>>

\* addUser: administrator of the organization, and no role yet.
AskAdd(c, u, v, r) ==
    /\ Allowed(u, "ADMIN") /\ v \in registered /\ role[v] = None
    /\ Asks(c, u, "adding", v, r, None)

\* One update creates the role and connects the user.  The primary key refuses
\* a second role, the foreign keys a user or an organization that is gone.
Joins(v, r) ==
    /\ org = "live" /\ v \in accounts /\ role[v] = None
    /\ role' = [role EXCEPT ![v] = r]
    /\ members' = members \union {v}

AddUser(c) ==
    /\ Awaits(c, "adding")
    /\ Joins(call[c].who, call[c].role)
    /\ Ends(c)
    /\ UNCHANGED <<personVars, owner, halfway, org, networkVars, invites>>

\* changeUserRole: not one's own, though the owner's or the last
\* administrator's.
AskRole(c, u, v, r) ==
    /\ u # v /\ Allowed(u, "ADMIN") /\ v \in accounts
    /\ Asks(c, u, "granting", v, r, None)

ChangeUserRole(c) ==
    LET v == call[c].who IN
    /\ Awaits(c, "granting") /\ role[v] # None
    /\ role' = [role EXCEPT ![v] = call[c].role]
    /\ Ends(c)
    /\ UNCHANGED <<personVars, owner, members, halfway, org, networkVars, invites>>

\* Seeded fault: the owner may leave.
AskOwnerLeaves(c, u, v) ==
    /\ IF u = v THEN Allowed(u, "READ_ONLY") ELSE Allowed(u, "ADMIN")
    /\ v \in members
    /\ Asks(c, u, "leaving", v, None, None)

\* leave: any member for oneself, an administrator for others, nobody for the
\* owner.
AskLeave(c, u, v) ==
    /\ IF u = v THEN Allowed(u, "READ_ONLY") ELSE Allowed(u, "ADMIN")
    /\ v # owner /\ v \in members
    /\ Asks(c, u, "leaving", v, None, None)

Leave(c) ==
    LET v == call[c].who IN
    /\ Awaits(c, "leaving") /\ org = "live"
    /\ role' = [role EXCEPT ![v] = None]
    /\ members' = members \ {v}
    /\ Ends(c)
    /\ UNCHANGED <<personVars, owner, halfway, org, networkVars, invites>>

-----------------------------------------------------------------------------
\* inviteUserByMail: nobody who is a member or has a linked invitation.
AskInvite(c, u, v, r) ==
    /\ Allowed(u, "ADMIN")
    /\ v \in accounts => role[v] = None
    /\ \A i \in invites : i.linked => i.to # v
    /\ Asks(c, u, "inviting", v, r, None)

\* The row is written once the mail has been sent.
InviteUserByMail(c) ==
    /\ Awaits(c, "inviting") /\ org = "live" /\ call[c].by \in accounts
    /\ invites' = invites \union {[to |-> call[c].who, role |-> call[c].role,
                                   by |-> call[c].by, linked |-> TRUE]}
    /\ Ends(c)
    /\ UNCHANGED <<peopleVars, org, networkVars>>

\* deleteInvite removes the link; the invitation, and its token, remain.  The
\* write depends on nothing but the role, so the two queries are one step.
DeleteInvite(c, u, i) ==
    /\ Allowed(u, "ADMIN") /\ i.linked
    /\ Comes(c, u, Done)
    /\ invites' = (invites \ {i}) \union {[i EXCEPT !.linked = FALSE]}
    /\ UNCHANGED <<peopleVars, org, networkVars>>

\* preValidateUserInvite for someone who has an account: the token is looked
\* up, linked or not.  Without an account it leads to the registration form.
AskRedeem(c, i) ==
    /\ role[i.to] = None
    /\ Asks(c, i.to, "redeeming", i.to, i.role, None)

Redeem(c) ==
    /\ Awaits(c, "redeeming")
    /\ Joins(call[c].who, call[c].role)
    /\ Moves(c, "clearing", call[c].who, None)
    /\ UNCHANGED <<personVars, owner, halfway, org, networkVars, invites, listVars>>

\* Of the invitations of that address, those linked to the organization go.
ClearInvites(c) ==
    /\ Awaits(c, "clearing")
    /\ invites' = {i \in invites : i.to = call[c].who => ~i.linked}
    /\ Ends(c)
    /\ UNCHANGED <<peopleVars, org, networkVars>>

-----------------------------------------------------------------------------
\* An account comes into being; nobody has its id or its address yet.
Arrives(v) ==
    /\ v \notin registered
    /\ registered' = registered \union {v} /\ accounts' = accounts \union {v}

\* register with an invitation of the organization, which must be linked when
\* it is looked up.
AskRegister(c, i) ==
    /\ i.linked /\ i.to \notin registered
    /\ Opens(c, i.by, "registering", i.to, i.role, None)

\* One transaction, which is rolled back if the invitation is gone.  It is
\* never the server's first account: an invitation goes with who wrote it.
Register(c) ==
    LET v == call[c].who IN
    /\ Awaits(c, "registering") /\ org = "live"
    /\ Arrives(v)
    /\ role' = [role EXCEPT ![v] = call[c].role]
    /\ members' = members \union {v}
    /\ \E i \in invites :
          /\ i.to = v /\ i.role = call[c].role /\ i.by = call[c].by
          /\ invites' = invites \ {i}
    /\ Ends(c)
    /\ UNCHANGED <<admins, owner, halfway, org, networkVars>>

\* register, or a first login with OAuth, without such an invitation; whether
\* the server admits it is in Registration.
SignUp(c, v) ==
    /\ Starts(c, Done)
    /\ Arrives(v)
    /\ admins' = IF accounts = {} THEN {v} ELSE admins
    /\ UNCHANGED <<membershipVars, org, networkVars, invites>>

\* adminRoute.createUser: the address must be free.  None asks for an account
\* alone, a role for one in the organization.
AskCreateUser(c, u, v, r) ==
    /\ u \in admins /\ v \notin registered
    /\ r # None => org # "none"
    /\ Asks(c, u, "creating", v, r, None)

\* The account is created, as an administrator's of the server or not.
CreateUser(c) ==
    LET v == call[c].who IN
    /\ Awaits(c, "creating")
    /\ Arrives(v)
    /\ admins' \in {admins, admins \union {v}}
    /\ \/ call[c].role = None /\ Ends(c)
       \/ /\ call[c].role # None /\ Moves(c, "connecting", v, None)
          /\ UNCHANGED listVars
    /\ UNCHANGED <<membershipVars, org, networkVars, invites>>

\* Then it is connected to an organization the caller owns, outside any
\* transaction.
Connect(c) ==
    LET v == call[c].who IN
    /\ Awaits(c, "connecting") /\ org = "live" /\ owner = call[c].by /\ v \in accounts
    /\ members' = members \union {v} /\ halfway' = halfway \union {v}
    /\ Moves(c, "enrolling", v, None)
    /\ UNCHANGED <<personVars, owner, role, org, networkVars, invites, listVars>>

\* And only then it gets its role, whether it is still connected or not.  The
\* primary key refuses a second role.
Enrol(c) ==
    LET v == call[c].who IN
    /\ Awaits(c, "enrolling") /\ org = "live" /\ v \in accounts /\ role[v] = None
    /\ role' = [role EXCEPT ![v] = call[c].role]
    /\ halfway' = IF v \in members THEN halfway \ {v} ELSE halfway \union {v}
    /\ Ends(c)
    /\ UNCHANGED <<personVars, owner, members, org, networkVars, invites>>

-----------------------------------------------------------------------------
\* createOrgNetwork: the controller first, the row afterwards.
AskNetwork(c, u) ==
    /\ Allowed(u, "USER")
    /\ Asks(c, u, "provisioning", None, None, None)

Provision(c) ==
    /\ Awaits(c, "provisioning")
    /\ \E n \in Network \ used :
          /\ used' = used \union {n}
          /\ controller' = controller \union {n}
          /\ Moves(c, "attaching", None, n)
    /\ UNCHANGED <<peopleVars, org, home, invites, listVars>>

\* The update throws if the organization is gone, the nested create if an
\* administrator has taken the network meanwhile; it then stays where it is.
Attach(c) ==
    LET n == call[c].net IN
    /\ Awaits(c, "attaching") /\ org = "live" /\ home[n] = None
    /\ home' = [home EXCEPT ![n] = Org]
    /\ Ends(c)
    /\ UNCHANGED <<peopleVars, org, controller, used, invites>>

\* assignNetworkToUser: an administrator picks a network of the controller
\* that had no row when the page was loaded.
AskAssign(c, u, n) ==
    /\ u \in admins /\ n \in controller /\ home[n] = None
    /\ Asks(c, u, "assigning", None, None, n)

\* It goes to the caller, whatever account was named, and is not looked up on
\* the controller again.
AssignNetwork(c) ==
    LET n == call[c].net IN
    /\ Awaits(c, "assigning") /\ home[n] = None /\ call[c].by \in accounts
    /\ home' = [home EXCEPT ![n] = call[c].by]
    /\ Ends(c)
    /\ UNCHANGED <<peopleVars, org, controller, used, invites>>

\* transferNetworkOwnership.
AskTransfer(c, u, n) ==
    /\ Allowed(u, "USER")
    /\ Asks(c, u, "transferring", None, None, n)

TransferNetwork(c) ==
    LET n == call[c].net IN
    /\ Awaits(c, "transferring") /\ org = "live" /\ home[n] = call[c].by
    /\ home' = [home EXCEPT ![n] = Org]
    /\ Ends(c)
    /\ UNCHANGED <<peopleVars, org, controller, used, invites>>

-----------------------------------------------------------------------------
\* deleteNetwork, from a page that shows the network as the organization's or
\* as the caller's.
AskDelete(c, u, n, shown) ==
    /\ Access(u, n)
    /\ Asks(c, u, "forgetting", shown, None, n)

\* The members are listed and deauthorised and the network deleted; listing
\* throws if the controller does not know the network.
Forget(c) ==
    LET n == call[c].net IN
    /\ Awaits(c, "forgetting") /\ n \in controller
    /\ controller' = controller \ {n}
    /\ Moves(c, "erasing", call[c].who, n)
    /\ UNCHANGED <<peopleVars, org, home, used, invites, listVars>>

\* The row goes only if it says of the network what the page said.
Dropped(c) ==
    LET n == call[c].net IN
    /\ Awaits(c, "erasing")
    /\ home' = IF home[n] = call[c].who THEN [home EXCEPT ![n] = None] ELSE home
    /\ UNCHANGED <<peopleVars, org, controller, used, invites>>

Erase(c) == todo[c] = {} /\ Dropped(c) /\ Ends(c)

\* Where deleteNetwork was called by deleteOrg, that goes on.
EraseNext(c) ==
    /\ todo[c] # {} /\ Dropped(c)
    /\ todo' = [todo EXCEPT ![c] = @ \ {call[c].net}]
    /\ Moves(c, "purging", None, None)
    /\ UNCHANGED had

-----------------------------------------------------------------------------
\* A deletion reads what it will have to delete.
Lists(c, mine, next) ==
    /\ todo' = [todo EXCEPT ![c] = mine] /\ had' = [had EXCEPT ![c] = mine]
    /\ Moves(c, next, call[c].who, None)
    /\ UNCHANGED <<peopleVars, org, networkVars, invites>>

\* deleteOrg: administrator of the server and of the organization; the second
\* query reads the owner together with the networks.
AskDeleteOrg(c, u) ==
    /\ u \in admins /\ Allowed(u, "ADMIN")
    /\ Asks(c, u, "listing", None, None, None)

ListNetworks(c) ==
    /\ Awaits(c, "listing") /\ org = "live" /\ owner = call[c].by
    /\ Lists(c, {n \in Network : home[n] = Org}, "purging")

\* Seeded fault: a network that cannot be deleted is skipped.
PurgeOrSkip(c) ==
    /\ Awaits(c, "purging")
    /\ \E n \in todo[c] :
          \/ /\ Access(call[c].by, n)
             /\ Moves(c, "forgetting", Org, n)
             /\ UNCHANGED todo
          \/ /\ todo' = [todo EXCEPT ![c] = @ \ {n}]
             /\ UNCHANGED call
    /\ UNCHANGED <<peopleVars, org, networkVars, invites, had>>

\* The next network, with deleteNetwork and all its checks.
Purge(c) ==
    /\ Awaits(c, "purging")
    /\ \E n \in todo[c] : Access(call[c].by, n) /\ Moves(c, "forgetting", Org, n)
    /\ UNCHANGED <<peopleVars, org, networkVars, invites, listVars>>

\* The final transaction.  Every row that references the organization goes,
\* the network rows of today included.
DeleteOrg(c) ==
    /\ Awaits(c, "purging") /\ todo[c] = {}
    /\ org' = "deleted"
    /\ role' = [u \in User |-> None]
    /\ members' = {}
    /\ home' = [n \in Network |-> IF home[n] = Org THEN None ELSE home[n]]
    /\ invites' = {[i EXCEPT !.linked = FALSE] : i \in invites}
    /\ Ends(c)
    /\ UNCHANGED <<personVars, owner, halfway, controller, used>>

-----------------------------------------------------------------------------
\* deleteUser: not oneself, not an administrator of the server.
AskDeleteUser(c, u, v) ==
    /\ u \in admins /\ v \in accounts \ (admins \union {u})
    /\ Asks(c, u, "surveying", v, None, None)

ListAuthored(c) ==
    /\ Awaits(c, "surveying")
    /\ Lists(c, {n \in Network : home[n] = call[c].who}, "emptying")

\* The networks leave the controller; one that is not there throws.
Empty(c) ==
    /\ Awaits(c, "emptying")
    /\ \E n \in todo[c] \intersect controller :
          /\ controller' = controller \ {n}
          /\ todo' = [todo EXCEPT ![c] = @ \ {n}]
    /\ UNCHANGED <<peopleVars, org, home, used, invites, call, had>>

\* The account goes, and what references it; the owner of the organization is
\* no reference.
DeleteUser(c) ==
    LET v == call[c].who IN
    /\ Awaits(c, "emptying") /\ todo[c] = {} /\ v \in accounts
    /\ accounts' = accounts \ {v} /\ admins' = admins \ {v}
    /\ role' = [role EXCEPT ![v] = None]
    /\ members' = members \ {v}
    /\ home' = [n \in Network |-> IF home[n] = v THEN None ELSE home[n]]
    /\ invites' = {i \in invites : i.by # v}
    /\ Ends(c)
    /\ UNCHANGED <<registered, owner, halfway, org, controller, used>>

\* Seeded fault: the role is written whether the account is there or not.
ChangeAnyRole(c, u, v) ==
    /\ u \in admins /\ v # u
    /\ Comes(c, u, Done)
    /\ admins' \in {admins \union {v}, admins \ {v}}
    /\ UNCHANGED <<accounts, registered, membershipVars, org, networkVars, invites>>

\* changeRole: an administrator makes another account one, or no longer one.
ChangeRole(c, u, v) ==
    /\ u \in admins /\ v \in accounts \ {u}
    /\ Comes(c, u, Done)
    /\ admins' \in {admins \union {v}, admins \ {v}}
    /\ UNCHANGED <<accounts, registered, membershipVars, org, networkVars, invites>>

-----------------------------------------------------------------------------
AboutPeople(c, u, v) ==
    \/ \E r \in Grantable : AskAdd(c, u, v, r) \/ AskRole(c, u, v, r)
                            \/ AskInvite(c, u, v, r)
    \/ \E r \in Grantable \union {None} : AskCreateUser(c, u, v, r)
    \/ AskLeave(c, u, v) \/ AskDeleteUser(c, u, v) \/ ChangeRole(c, u, v)

AboutNetworks(c, u) ==
    \/ CreateOrg(c, u) \/ AskDeleteOrg(c, u) \/ AskNetwork(c, u)
    \/ \E n \in Network :
          \/ AskAssign(c, u, n) \/ AskTransfer(c, u, n)
          \/ \E shown \in {u, Org} : AskDelete(c, u, n, shown)

Continues(c) ==
    \/ Throws(c)
    \/ AddUser(c) \/ ChangeUserRole(c) \/ Leave(c)
    \/ InviteUserByMail(c) \/ Redeem(c) \/ ClearInvites(c) \/ Register(c)
    \/ CreateUser(c) \/ Connect(c) \/ Enrol(c)
    \/ Provision(c) \/ Attach(c) \/ AssignNetwork(c) \/ TransferNetwork(c)
    \/ Forget(c) \/ Erase(c) \/ EraseNext(c)
    \/ ListNetworks(c) \/ Purge(c) \/ DeleteOrg(c)
    \/ ListAuthored(c) \/ Empty(c) \/ DeleteUser(c)

Begins(c) ==
    \/ \E u \in User : AboutNetworks(c, u) \/ SignUp(c, u)
    \/ \E u, v \in User : AboutPeople(c, u, v)
    \/ \E i \in invites : AskRedeem(c, i) \/ AskRegister(c, i)
                          \/ \E u \in User : DeleteInvite(c, u, i)

OrgNext ==
    \E c \in Call : \/ Continues(c)
                    \/ Arrived(c) /\ Begins(c)

OrgSpec == OrgInit /\ [][OrgNext]_orgVars

-----------------------------------------------------------------------------
\* While the organization is there, exactly those who belong to it have a role
\* in it, and its owner belongs to it and has one as long as the owner's account
\* exists, however additions, redeemed invitations, registrations, departures,
\* role changes and deletions of accounts interleave.  Apart are only those
\* whom createUser has connected and not given the role, which a crash or
\* addUser may leave so, or given the role after they were put out.
OwnerBelongs ==
    /\ \A u \in User \ halfway : u \in members <=> role[u] # None
    /\ org # "live" => members = {} /\ \A u \in User : role[u] = None
    /\ org = "live" /\ owner \in accounts => owner \in members /\ role[owner] # None

\* A network never loses its row while it is on the controller, where no page
\* would show it and no member of it could be removed, except a network that
\* came to the organization or the account after its deletion had listed what
\* to delete: deleteNetwork goes to the controller before the row, and a
\* deletion gives up at the first network it cannot delete.
NothingForgotten ==
    [][\A n \in controller' :
          home[n] # None /\ home'[n] = None =>
             \E c \in Call : /\ call[c].at \in {"purging", "emptying"}
                             /\ call'[c].at = "over"
                             /\ n \notin had[c]]_orgVars
=============================================================================
