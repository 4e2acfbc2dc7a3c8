------------------------- MODULE OrganizationProofs -------------------------
(***************************************************************************)
(* Types, membership and the fate of networks, for any number of accounts, *)
(* networks and calls.                                                     *)
(*                                                                         *)
(* NothingForgotten needs to know of a deletion under way that what it has *)
(* struck off its list is off the controller for good, so that with an     *)
(* empty list nothing it had listed can lose its row too early; ids are    *)
(* never given out twice, hence HomesAreUsed.  OwnerBelongs needs that     *)
(* createUser never writes the membership and the role of the owner, whose *)
(* account is older than the one it creates.                               *)
(***************************************************************************)
EXTENDS Organization, TLAPS

\* A row is about a network the controller has known.
HomesAreUsed == \A n \in Network : home[n] # None => n \in used

\* createUser leaves nobody halfway into an organization before it is founded,
\* and never its owner.
OwnerIsWhole ==
    /\ owner \in (registered \ halfway) \union {None}
    /\ org = "none" => halfway = {}

Gone == used \ controller

\* What each call has established by the time it waits for its next step.
CallSound(c) ==
    /\ call[c].at \in {"attaching", "assigning", "forgetting", "erasing"}
          => call[c].net \in used
    /\ call[c].at = "erasing" => call[c].net \in Gone
    /\ call[c].at \in {"adding", "granting", "inviting", "redeeming",
      "connecting",
                       "enrolling", "registering"}
          => call[c].role \in Roles /\ call[c].who \in User
    /\ call[c].at \in {"leaving", "surveying", "emptying", "creating"}
          => call[c].who \in User
    /\ call[c].at = "creating" => call[c].by \in registered
    /\ call[c].at = "connecting" => call[c].who # call[c].by
    /\ call[c].at = "enrolling" => call[c].who # owner /\ org # "none"
    /\ call[c].at \in {"connecting", "enrolling"} => call[c].who \in registered
    /\ call[c].at = "leaving" => call[c].who # owner /\ org # "none"
    /\ call[c].at \notin {"waiting", "over"} => call[c].by \in User
    /\ todo[c] \subseteq had[c] /\ had[c] \subseteq used
    /\ had[c] \ todo[c] \subseteq Gone

CallsSound == \A c \in Call : CallSound(c)

OrgInv == OrgTypes /\ OwnerBelongs /\ OwnerIsWhole /\ HomesAreUsed /\ CallsSound

\* What the steps of one call leave true of the others.
Onward ==
    /\ used \subseteq used' /\ Gone \subseteq Gone'
    /\ registered \subseteq registered'
    /\ org # "none" => org' # "none" /\ owner' = owner

-----------------------------------------------------------------------------
\* A step of one call leaves what the others have established.
LEMMA OthersSound ==
    ASSUME CallsSound, Onward, NEW c \in Call, CallSound(c)',
           \A d \in Call \ {c} : /\ call'[d] = call[d]
                                 /\ todo'[d] = todo[d] /\ had'[d] = had[d]
    PROVE  CallsSound'
  <1>. SUFFICES ASSUME NEW d \in Call \ {c} PROVE CallSound(d)'
    BY DEF CallsSound
  <1>. CallSound(d)
    BY DEF CallsSound
  <1>. call'[d] = call[d] /\ todo'[d] = todo[d] /\ had'[d] = had[d]
    OBVIOUS
  <1>. QED
    BY DEF CallSound, Onward

\* Three ways in which a call advances.
LEMMA Ending ==
    ASSUME OrgTypes, NEW c \in Call, Ends(c)
    PROVE  /\ call' \in [Call -> Progress]
           /\ todo' \in [Call -> SUBSET Network]
             /\ had' \in [Call -> SUBSET Network]
           /\ CallSound(c)'
           /\ call'[c].at = "over"
           /\ \A d \in Call \ {c} : /\ call'[d] = call[d]
                                    /\ todo'[d] = todo[d] /\ had'[d] = had[d]
  <1>1. Done \in Progress /\ Done.at = "over"
    BY DEF Done, Doing, Progress, Steps
  <1>2. call'[c] = Done /\ todo'[c] = {} /\ had'[c] = {}
    BY DEF Ends, OrgTypes
  <1>3. CallSound(c)'
    BY <1>1, <1>2 DEF CallSound
  <1>. QED
    BY <1>1, <1>2, <1>3 DEF Ends, OrgTypes

LEMMA Moving ==
    ASSUME OrgTypes, NEW c \in Call, NEW step \in Steps,
           NEW v \in User \union {Org, None}, NEW n \in Network \union {None},
           Moves(c, step, v, n)
    PROVE  /\ call' \in [Call -> Progress]
           /\ call'[c] = Doing(step, call[c].by, v, call[c].role, n)
           /\ \A d \in Call \ {c} : call'[d] = call[d]
  <1>1. Doing(step, call[c].by, v, call[c].role, n) \in Progress
    BY DEF Doing, Progress, OrgTypes
  <1>. QED
    BY <1>1 DEF Moves, OrgTypes

\* A call that begins changes nothing else.
LEMMA Opening ==
    ASSUME OrgInv, NEW c \in Call, NEW u \in User, NEW step \in Steps,
           NEW v \in User \union {Org, None}, NEW r \in Roles \union {None},
           NEW n \in Network \union {None},
           Opens(c, u, step, v, r, n),
           step \in {"assigning", "forgetting"} => n \in used,
           step \notin {"attaching", "erasing", "connecting", "enrolling"},
           step \in {"adding", "granting", "inviting", "redeeming", "registering"}
              => r \in Roles /\ v \in User,
           step \in {"leaving", "surveying", "emptying",
             "creating"} => v \in User,
           step = "creating" => u \in registered,
           step = "leaving" => v # owner /\ org # "none"
    PROVE  OrgInv'
  <1>1. Doing(step, u, v, r, n) \in Progress
    BY DEF Doing, Progress
  <1>2. /\ call' = [call EXCEPT ![c] = Doing(step, u, v, r, n)]
        /\ UNCHANGED <<accounts, registered, admins, owner, role, members,
          halfway,
                       org, home, controller, used, invites, todo, had>>
    BY DEF Opens, Starts, peopleVars, personVars, membershipVars, networkVars,
           listVars
  <1>3. OrgTypes'
    BY <1>1, <1>2 DEF OrgInv, OrgTypes
  <1>4. OwnerBelongs' /\ OwnerIsWhole' /\ HomesAreUsed' /\ Onward
    BY <1>2 DEF OrgInv, OwnerBelongs, OwnerIsWhole, HomesAreUsed, Onward, Gone
  <1>5. CallSound(c)'
    <2>1. call'[c] = Doing(step, u, v, r, n)
      BY <1>2 DEF OrgInv, OrgTypes
    <2>2. CallSound(c)
      BY DEF OrgInv, CallsSound
    <2>. QED
      BY <1>2, <2>1, <2>2 DEF CallSound, Doing, Gone
  <1>6. \A d \in Call \ {c} : call'[d] = call[d] /\ todo'[d] = todo[d]
        /\ had'[d] = had[d]
    BY <1>2 DEF OrgInv, OrgTypes
  <1>7. CallsSound'
    BY <1>4, <1>5, <1>6, OthersSound DEF OrgInv
  <1>. QED
    BY <1>3, <1>4, <1>7 DEF OrgInv

\* What must hold of a step besides the calls' progress.
LEMMA Assembled ==
    ASSUME OrgInv, OrgTypes', OwnerBelongs', OwnerIsWhole', HomesAreUsed', Onward,
           NEW c \in Call, CallSound(c)',
           \A d \in Call \ {c} : /\ call'[d] = call[d]
                                 /\ todo'[d] = todo[d] /\ had'[d] = had[d]
    PROVE  OrgInv'
  <1>1. CallsSound'
    BY OthersSound DEF OrgInv
  <1>. QED
    BY <1>1 DEF OrgInv

\* Someone joins, whose role and membership are written together.
LEMMA Joining ==
    ASSUME OrgInv, NEW v \in User, NEW r \in Roles, org = "live",
           role' = [role EXCEPT ![v] = r], members' = members \union {v},
           UNCHANGED <<owner, halfway, org>>, registered \subseteq registered',
           accounts' \subseteq accounts \union {v}
    PROVE  /\ role' \in [User -> Roles \union {None}] /\ members' \subseteq User
           /\ OwnerBelongs' /\ OwnerIsWhole'
  <1>1. None \notin Roles /\ None \notin User
    BY OrgIsNoUser
  <1>. QED
    BY <1>1 DEF OrgInv, OrgTypes, OwnerBelongs, OwnerIsWhole

\* Someone goes, who is not the owner, or whose account goes too.
LEMMA Parting ==
    ASSUME OrgInv, NEW v \in User, UNCHANGED <<registered, owner, halfway, org>>,
           role' = [role EXCEPT ![v] = None], members' = members \ {v},
           accounts' \subseteq accounts,
           v # owner \/ v \notin accounts'
    PROVE  /\ role' \in [User -> Roles \union {None}] /\ members' \subseteq User
           /\ OwnerBelongs' /\ OwnerIsWhole'
  BY DEF OrgInv, OrgTypes, OwnerBelongs, OwnerIsWhole

-----------------------------------------------------------------------------
LEMMA AskStep ==
    ASSUME OrgInv, NEW c \in Call, NEW u \in User
    PROVE  /\ \A v \in User, r \in Grantable :
                 AskAdd(c, u, v, r) \/ AskRole(c, u, v, r) \/ AskInvite(c, u,
                   v, r) => OrgInv'
           /\ \A v \in User, r \in Grantable \union {None} : AskCreateUser(c,
             u, v, r) => OrgInv'
           /\ \A v \in User : AskLeave(c, u, v) \/ AskDeleteUser(c, u,
             v) => OrgInv'
           /\ AskNetwork(c, u) \/ AskDeleteOrg(c, u) => OrgInv'
           /\ \A n \in Network : AskAssign(c, u, n) \/ AskTransfer(c, u,
             n) => OrgInv'
           /\ \A n \in Network, shown \in {u, Org} : AskDelete(c, u, n,
             shown) => OrgInv'
  <1>. Grantable \subseteq Roles
    BY GrantableAreRoles
  <1>1. ASSUME NEW v \in User, NEW r \in Grantable,
               AskAdd(c, u, v, r) \/ AskRole(c, u, v, r) \/ AskInvite(c, u, v, r)
        PROVE  OrgInv'
    <2>1. PICK step \in {"adding", "granting", "inviting"} : Asks(c, u, step,
          v, r, None)
      BY <1>1 DEF AskAdd, AskRole, AskInvite
    <2>. QED
      BY <2>1, Opening DEF Asks, Steps
  <1>2. ASSUME NEW v \in User, AskLeave(c, u, v) PROVE OrgInv'
    <2>1. v # owner /\ org # "none"
      BY <1>2 DEF AskLeave, OrgInv, OwnerBelongs
    <2>. QED
      BY <1>2, <2>1, Opening DEF Asks, AskLeave, Steps
  <1>3. ASSUME NEW v \in User, AskDeleteUser(c, u, v) PROVE OrgInv'
    BY <1>3, Opening DEF Asks, AskDeleteUser, Steps
  <1>4. ASSUME AskNetwork(c, u) \/ AskDeleteOrg(c, u) PROVE OrgInv'
    <2>1. PICK step \in {"provisioning", "listing"} : Asks(c, u, step, None,
          None, None)
      BY <1>4 DEF AskNetwork, AskDeleteOrg
    <2>. QED
      BY <2>1, Opening DEF Asks, Steps
  <1>5. ASSUME NEW n \in Network, AskAssign(c, u, n) PROVE OrgInv'
    <2>1. n \in used
      BY <1>5 DEF AskAssign, OrgInv, OrgTypes
    <2>. QED
      BY <1>5, <2>1, Opening DEF Asks, AskAssign, Steps
  <1>6. ASSUME NEW n \in Network, AskTransfer(c, u, n) PROVE OrgInv'
    BY <1>6, Opening DEF Asks, AskTransfer, Steps
  <1>7. ASSUME NEW n \in Network, NEW shown \in {u, Org}, AskDelete(c, u, n,
               shown)
        PROVE  OrgInv'
    <2>1. n \in used
      BY <1>7, OrgIsNoUser DEF AskDelete, Access, OrgInv, HomesAreUsed
    <2>. QED
      BY <1>7, <2>1, Opening DEF Asks, AskDelete, Steps
  <1>8. ASSUME NEW v \in User, NEW r \in Grantable \union {None},
               AskCreateUser(c, u, v, r)
        PROVE  OrgInv'
    <2>1. u \in registered
      BY <1>8 DEF AskCreateUser, OrgInv, OrgTypes
    <2>. QED
      BY <1>8, <2>1, Opening DEF Asks, AskCreateUser, Steps
  <1>. QED
    BY <1>1, <1>2, <1>3, <1>4, <1>5, <1>6, <1>7, <1>8

\* Redeeming an invitation begins a call as well, with an account or without.
LEMMA AskRedeemStep ==
    ASSUME OrgInv, NEW c \in Call, NEW i \in invites, AskRedeem(c,
      i) \/ AskRegister(c, i)
    PROVE  OrgInv'
  <1>1. i.to \in User /\ i.by \in User /\ i.role \in Roles
    BY DEF OrgInv, OrgTypes, Invite
  <1>2. PICK u \in User, step \in {"redeeming", "registering"} :
           Opens(c, u, step, i.to, i.role, None)
    BY <1>1 DEF AskRedeem, AskRegister, Asks
  <1>. QED
    BY <1>1, <1>2, Opening DEF Steps

\* Procedures of a single step.
LEMMA OneStep ==
    ASSUME OrgInv, NEW c \in Call, NEW u \in User,
           \/ CreateOrg(c, u) \/ SignUp(c, u)
           \/ \E v \in User : ChangeRole(c, u, v)
           \/ \E i \in invites : DeleteInvite(c, u, i)
    PROVE  OrgInv'
  <1>1. /\ call' = [call EXCEPT ![c] = Done]
        /\ UNCHANGED <<home, controller, used, todo, had>>
    BY DEF CreateOrg, SignUp, ChangeRole, DeleteInvite, Comes, Starts,
           listVars, networkVars
  <1>2. Done \in Progress /\ Done.at = "over"
    BY DEF Done, Doing, Progress, Steps
  <1>3. /\ call' \in [Call -> Progress] /\ call'[c] = Done
        /\ \A d \in Call \ {c} : call'[d] = call[d] /\ todo'[d] = todo[d]
          /\ had'[d] = had[d]
    BY <1>1, <1>2 DEF OrgInv, OrgTypes
  <1>4. CallSound(c) /\ CallSound(c)'
    BY <1>1, <1>2, <1>3 DEF OrgInv, CallsSound, CallSound, Gone
  <1>5. HomesAreUsed'
    BY <1>1 DEF OrgInv, HomesAreUsed
  <1>6. ASSUME OrgTypes', OwnerBelongs', OwnerIsWhole', Onward
        PROVE  OrgInv'
    BY <1>3, <1>4, <1>5, <1>6, Assembled
  <1>7. CASE CreateOrg(c, u)
    <2>1. None \notin Roles /\ "ADMIN" \in Roles /\ u \in accounts /\ halfway = {}
      BY <1>7, OrgIsNoUser
         DEF Roles, Ranks, CreateOrg, Comes, OrgInv, OwnerIsWhole
    <2>2. OrgTypes' /\ OwnerBelongs' /\ OwnerIsWhole'
      BY <1>1, <1>3, <1>7, <2>1
         DEF CreateOrg, personVars, OrgInv, OrgTypes, OwnerBelongs,
                                    OwnerIsWhole
    <2>3. Onward
      BY <1>1, <1>7 DEF CreateOrg, personVars, Onward, Gone
    <2>. QED
      BY <1>6, <2>2, <2>3
  <1>8. CASE SignUp(c, u)
    <2>1. /\ u \notin registered /\ admins' \in {admins, {u}}
          /\ accounts' = accounts \union {u}
          /\ registered' = registered \union {u}
          /\ UNCHANGED <<owner, role, members, halfway, org, invites>>
      BY <1>8 DEF SignUp, Arrives, membershipVars
    <2>2. OrgTypes' /\ OwnerBelongs' /\ OwnerIsWhole'
      BY <1>1, <1>3, <2>1, OrgIsNoUser
         DEF OrgInv, OrgTypes, OwnerBelongs, OwnerIsWhole
    <2>3. Onward
      BY <1>1, <2>1 DEF Onward, Gone
    <2>. QED
      BY <1>6, <2>2, <2>3
  <1>9. CASE \E v \in User : ChangeRole(c, u, v)
    <2>1. OrgTypes' /\ OwnerBelongs' /\ OwnerIsWhole'
      BY <1>1, <1>3, <1>9
         DEF ChangeRole, membershipVars, OrgInv, OrgTypes, OwnerBelongs,
             OwnerIsWhole
    <2>2. Onward
      BY <1>1, <1>9 DEF ChangeRole, membershipVars, Onward, Gone
    <2>. QED
      BY <1>6, <2>1, <2>2
  <1>10. CASE \E i \in invites : DeleteInvite(c, u, i)
    <2>1. invites' \subseteq Invite
      BY <1>10 DEF DeleteInvite, OrgInv, OrgTypes, Invite
    <2>2. /\ UNCHANGED <<accounts, registered, admins, owner, role, members,
             halfway, org>>
      BY <1>10 DEF DeleteInvite, peopleVars, personVars, membershipVars
    <2>3. OrgTypes' /\ OwnerBelongs' /\ OwnerIsWhole' /\ Onward
      BY <1>1, <1>3, <2>1, <2>2
         DEF OrgInv, OrgTypes, OwnerBelongs, OwnerIsWhole, Onward, Gone
    <2>. QED
      BY <1>6, <2>3
  <1>. QED
    BY <1>7, <1>8, <1>9, <1>10

-----------------------------------------------------------------------------
\* The last step of a call that changes neither network rows nor controller.
LEMMA PeopleStep ==
    ASSUME OrgInv, NEW c \in Call,
           AddUser(c) \/ ChangeUserRole(c) \/ Leave(c) \/ InviteUserByMail(c)
              \/ ClearInvites(c) \/ Throws(c)
    PROVE  OrgInv'
  <1>1. /\ Ends(c)
        /\ UNCHANGED <<accounts, registered, admins, owner, halfway, org, home,
                       controller, used>>
    BY DEF AddUser, ChangeUserRole, Leave, InviteUserByMail, ClearInvites, Throws,
           peopleVars, personVars, membershipVars, networkVars
  <1>2. HomesAreUsed' /\ Onward
    BY <1>1 DEF OrgInv, HomesAreUsed, Onward, Gone
  <1>3. CallSound(c) /\ OrgTypes
    BY DEF OrgInv, CallsSound
  <1>4. ASSUME role' \in [User -> Roles \union {None}], members' \subseteq User,
               invites' \subseteq Invite, OwnerBelongs'
        PROVE  OrgInv'
    <2>1. OrgTypes'
      BY <1>1, <1>3, <1>4, Ending DEF OrgTypes
    <2>2. OwnerIsWhole'
      BY <1>1 DEF OrgInv, OwnerIsWhole
    <2>. QED
      BY <1>1, <1>2, <1>3, <1>4, <2>1, <2>2, Ending, Assembled
  <1>5. CASE AddUser(c)
    <2>1. call[c].who \in User /\ call[c].role \in Roles
      BY <1>3, <1>5 DEF AddUser, Awaits, CallSound
    <2>2. UNCHANGED invites
      BY <1>5 DEF AddUser
    <2>. QED
      BY <1>1, <1>3, <1>4, <1>5, <2>1, <2>2, Joining DEF AddUser, Joins, OrgTypes
  <1>6. CASE ChangeUserRole(c)
    <2>. DEFINE v == call[c].who
    <2>1. v \in User /\ call[c].role \in Roles /\ None \notin Roles
      BY <1>3, <1>6, OrgIsNoUser DEF ChangeUserRole, Awaits, CallSound
    <2>2. /\ role[v] # None /\ role' = [role EXCEPT ![v] = call[c].role]
          /\ members' = members /\ invites' = invites
      BY <1>6 DEF ChangeUserRole
    <2>3. /\ role' \in [User -> Roles \union {None}]
          /\ \A u \in User : role'[u] = None <=> role[u] = None
      BY <1>3, <2>1, <2>2 DEF OrgTypes
    <2>4. OwnerBelongs'
      BY <1>1, <1>3, <2>2, <2>3 DEF OrgInv, OrgTypes, OwnerBelongs, OwnerIsWhole
    <2>. QED
      BY <1>3, <1>4, <2>2, <2>3, <2>4 DEF OrgTypes
  <1>7. CASE Leave(c)
    <2>1. call[c].who \in User /\ call[c].who # owner
      BY <1>3, <1>7 DEF Leave, Awaits, CallSound
    <2>2. UNCHANGED invites
      BY <1>7 DEF Leave
    <2>. QED
      BY <1>1, <1>3, <1>4, <1>7, <2>1, <2>2, Parting DEF Leave, OrgTypes
  <1>8. CASE InviteUserByMail(c)
    <2>1. call[c].who \in User /\ call[c].role \in Roles /\ call[c].by \in User
      BY <1>3, <1>8 DEF InviteUserByMail, Awaits, CallSound
    <2>2. invites' \subseteq Invite
      <3>. DEFINE i == [to |-> call[c].who, role |-> call[c].role,
                        by |-> call[c].by, linked |-> TRUE]
      <3>1. i \in Invite
        BY <2>1 DEF Invite
      <3>2. invites' = invites \union {i}
        BY <1>8 DEF InviteUserByMail
      <3>. HIDE DEF i
      <3>. QED
        BY <1>3, <3>1, <3>2 DEF OrgTypes
    <2>. QED
      BY <1>4, <1>8, <2>2
         DEF InviteUserByMail, OrgInv, OrgTypes, OwnerBelongs, OwnerIsWhole,
             peopleVars, personVars, membershipVars
  <1>9. CASE ClearInvites(c)
    BY <1>4, <1>9
       DEF ClearInvites, OrgInv, OrgTypes, OwnerBelongs, OwnerIsWhole,
           peopleVars, personVars, membershipVars
  <1>10. CASE Throws(c)
    BY <1>4, <1>10
       DEF Throws, OrgInv, OrgTypes, OwnerBelongs, OwnerIsWhole, peopleVars,
           personVars, membershipVars
  <1>. QED
    BY <1>5, <1>6, <1>7, <1>8, <1>9, <1>10

LEMMA RedeemStep ==
    ASSUME OrgInv, NEW c \in Call, Redeem(c)
    PROVE  OrgInv'
  <1>1. OrgTypes /\ CallSound(c)
    BY DEF OrgInv, CallsSound
  <1>2. /\ call[c].who \in User /\ call[c].role \in Roles /\ call[c].by \in User
        /\ Joins(call[c].who, call[c].role)
        /\ Moves(c, "clearing", call[c].who, None)
        /\ UNCHANGED <<accounts, registered, admins, owner, halfway, org, home,
          controller, used,
                       invites, todo, had>>
    BY <1>1 DEF Redeem, Awaits, CallSound, personVars, networkVars, listVars
  <1>3. /\ call' \in [Call -> Progress]
        /\ call'[c] = Doing("clearing", call[c].by, call[c].who, call[c].role,
          None)
        /\ \A d \in Call \ {c} : call'[d] = call[d]
    BY <1>1, <1>2, Moving DEF Steps
  <1>4. OrgTypes' /\ OwnerBelongs' /\ OwnerIsWhole'
    BY <1>1, <1>2, <1>3, Joining DEF Joins, OrgTypes
  <1>5. HomesAreUsed' /\ Onward /\ CallSound(c)'
    BY <1>1, <1>2, <1>3 DEF OrgInv, HomesAreUsed, Onward, Gone, CallSound, Doing
  <1>. QED
    BY <1>2, <1>3, <1>4, <1>5, Assembled

\* An account that registers as a member, or is created.
LEMMA ArrivalStep ==
    ASSUME OrgInv, NEW c \in Call, Register(c) \/ CreateUser(c)
    PROVE  OrgInv'
  <1>1. OrgTypes /\ CallSound(c)
    BY DEF OrgInv, CallsSound
  <1>. DEFINE v == call[c].who
  <1>2. /\ v \in User /\ v \notin registered
        /\ registered' = registered \union {v} /\ accounts' = accounts \union {v}
        /\ admins' \in {admins, admins \union {v}}
        /\ UNCHANGED <<owner, halfway, org, home, controller, used>>
        /\ call[c].by \in User
    BY <1>1 DEF Register, CreateUser, Arrives, Awaits, CallSound,
                membershipVars, networkVars
  <1>3. HomesAreUsed' /\ Onward
    BY <1>2 DEF OrgInv, HomesAreUsed, Onward, Gone
  <1>4. CASE Register(c)
    <2>1. /\ call[c].role \in Roles /\ org = "live" /\ Ends(c)
             /\ invites' \subseteq invites
          /\ role' = [role EXCEPT ![v] = call[c].role]
            /\ members' = members \union {v}
      BY <1>1, <1>4 DEF Register, Awaits, CallSound
    <2>2. /\ role' \in [User -> Roles \union {None}] /\ members' \subseteq User
          /\ OwnerBelongs' /\ OwnerIsWhole'
      <3>. HIDE DEF v
      <3>. QED
        BY <1>2, <2>1, Joining
    <2>3. OrgTypes'
      BY <1>1, <1>2, <2>1, <2>2, Ending DEF OrgTypes
    <2>. QED
      BY <1>1, <1>3, <2>1, <2>2, <2>3, Ending, Assembled
  <1>5. CASE CreateUser(c)
    <2>1. UNCHANGED <<role, members, invites>>
      BY <1>5 DEF CreateUser, membershipVars
    <2>2. OwnerBelongs' /\ OwnerIsWhole'
      BY <1>2, <2>1, OrgIsNoUser DEF OrgInv, OrgTypes, OwnerBelongs, OwnerIsWhole
    <2>3. ASSUME call' \in [Call -> Progress], todo' \in [Call -> SUBSET Network],
                 had' \in [Call -> SUBSET Network]
          PROVE  OrgTypes'
      BY <1>1, <1>2, <2>1, <2>3 DEF OrgTypes
    <2>4. CASE Ends(c)
      BY <1>1, <1>3, <2>2, <2>3, <2>4, Ending, Assembled
    <2>5. CASE /\ call[c].role # None /\ Moves(c, "connecting", v, None)
               /\ UNCHANGED listVars
      <3>1. /\ call' \in [Call -> Progress]
            /\ call'[c] = Doing("connecting", call[c].by, v, call[c].role, None)
            /\ \A d \in Call \ {c} : call'[d] = call[d]
        BY <1>1, <1>2, <2>5, Moving DEF Steps
      <3>2. /\ todo' = todo /\ had' = had
            /\ call[c].role \in Roles /\ call[c].by # v
        BY <1>1, <1>2, <1>5, <2>5
           DEF CreateUser, Awaits, CallSound, OrgTypes, Progress,
                                      listVars
      <3>3. CallSound(c)'
        BY <1>1, <1>2, <3>1, <3>2 DEF CallSound, Doing, Gone
      <3>. QED
        BY <1>1, <1>3, <2>2, <2>3, <3>1, <3>2, <3>3, Assembled DEF OrgTypes
    <2>. QED
      BY <1>5, <2>4, <2>5 DEF CreateUser
  <1>. QED
    BY <1>4, <1>5

\* createUser connects the account and writes its role: it is halfway between.
LEMMA HalfwayStep ==
    ASSUME OrgInv, NEW c \in Call, Connect(c) \/ Enrol(c)
    PROVE  OrgInv'
  <1>1. OrgTypes /\ CallSound(c)
    BY DEF OrgInv, CallsSound
  <1>. DEFINE v == call[c].who
  <1>2. /\ v \in User /\ v \in registered /\ v # owner /\ org = "live"
        /\ call[c].role \in Roles /\ call[c].by \in User
        /\ UNCHANGED <<accounts, registered, admins, owner, org, home,
          controller, used,
                       invites>>
    BY <1>1 DEF Connect, Enrol, Awaits, CallSound, personVars, networkVars
  <1>3. HomesAreUsed' /\ Onward
    BY <1>2 DEF OrgInv, HomesAreUsed, Onward, Gone
  <1>4. CASE Connect(c)
    <2>1. /\ role' = role /\ members' = members \union {v}
             /\ halfway' = halfway \union {v}
          /\ Moves(c, "enrolling", v, None) /\ UNCHANGED <<todo, had>>
      BY <1>4 DEF Connect, listVars
    <2>2. /\ call' \in [Call -> Progress]
          /\ call'[c] = Doing("enrolling", call[c].by, v, call[c].role, None)
          /\ \A d \in Call \ {c} : call'[d] = call[d]
      BY <1>1, <1>2, <2>1, Moving DEF Steps
    <2>3. OrgTypes'
      BY <1>1, <1>2, <2>1, <2>2 DEF OrgTypes
    <2>4. OwnerBelongs' /\ OwnerIsWhole'
      BY <1>1, <1>2, <2>1 DEF OrgInv, OrgTypes, OwnerBelongs, OwnerIsWhole
    <2>5. CallSound(c)'
      BY <1>1, <1>2, <2>1, <2>2 DEF CallSound, Doing, Gone
    <2>. QED
      BY <1>1, <1>3, <2>1, <2>2, <2>3, <2>4, <2>5, Assembled
  <1>5. CASE Enrol(c)
    <2>1. /\ role' = [role EXCEPT ![v] = call[c].role] /\ members' = members
             /\ Ends(c)
          /\ halfway' = IF v \in members THEN halfway \ {v} ELSE halfway \union {v}
      BY <1>5 DEF Enrol
    <2>2. OrgTypes'
      BY <1>1, <1>2, <2>1, Ending DEF OrgTypes
    <2>3. OwnerBelongs' /\ OwnerIsWhole'
      <3>1. None \notin Roles
        BY OrgIsNoUser
      <3>. HIDE DEF v
      <3>. QED
        BY <1>1, <1>2, <2>1, <3>1 DEF OrgInv, OrgTypes, OwnerBelongs, OwnerIsWhole
    <2>. QED
      BY <1>1, <1>3, <2>1, <2>2, <2>3, Ending, Assembled
  <1>. QED
    BY <1>4, <1>5

\* A row that is written for a network the controller has known.
LEMMA RowStep ==
    ASSUME OrgInv, NEW c \in Call,
           Attach(c) \/ AssignNetwork(c) \/ TransferNetwork(c) \/ Erase(c)
    PROVE  /\ OrgInv'
           /\ \A n \in controller' : home[n] # None => home'[n] # None
  <1>. DEFINE n == call[c].net
  <1>1. OrgTypes /\ CallSound(c) /\ HomesAreUsed
    BY DEF OrgInv, CallsSound
  <1>2. Ends(c) /\ UNCHANGED <<accounts, registered, admins, owner, role,
        members, halfway, org,
                               controller, used, invites>>
    BY DEF Attach, AssignNetwork, TransferNetwork, Erase, Dropped, peopleVars,
           personVars, membershipVars
  <1>3. OwnerBelongs' /\ OwnerIsWhole' /\ Onward
    BY <1>2 DEF OrgInv, OwnerBelongs, OwnerIsWhole, Onward, Gone
  <1>4. /\ home' \in [Network -> User \union {Org, None}]
        /\ HomesAreUsed'
        /\ \A m \in controller' : home[m] # None => home'[m] # None
    <2>0. Org # None /\ None \notin User
      BY OrgIsNoUser
    <2>1. CASE Attach(c)
      BY <1>1, <1>2, <2>0, <2>1
         DEF Attach, OrgTypes, HomesAreUsed, CallSound, Awaits
    <2>2. CASE AssignNetwork(c)
      BY <1>1, <1>2, <2>0, <2>2
         DEF AssignNetwork, OrgTypes, HomesAreUsed, CallSound, Awaits
    <2>3. CASE TransferNetwork(c)
      <3>1. call[c].by \in User
        BY <1>1, <2>3 DEF TransferNetwork, Awaits, CallSound
      <3>. QED
        BY <1>1, <1>2, <2>0, <2>3, <3>1
           DEF TransferNetwork, OrgTypes, HomesAreUsed
    <2>4. CASE Erase(c)
      <3>1. n \in Gone
        BY <1>1, <2>4 DEF Erase, Dropped, Awaits, CallSound
      <3>. QED
        BY <1>1, <1>2, <2>4, <3>1 DEF Erase, Dropped, OrgTypes, HomesAreUsed, Gone
    <2>. QED
      BY <2>1, <2>2, <2>3, <2>4
  <1>5. OrgTypes'
    BY <1>1, <1>2, <1>4, Ending DEF OrgTypes
  <1>. QED
    BY <1>1, <1>2, <1>3, <1>4, <1>5, Ending, Assembled

\* The steps of the controller, and those that list, choose and strike off.
LEMMA ControllerStep ==
    ASSUME OrgInv, NEW c \in Call, Provision(c) \/ Forget(c) \/ EraseNext(c)
    PROVE  /\ OrgInv'
           /\ \A n \in controller' : home[n] # None => home'[n] # None
  <1>1. OrgTypes /\ CallSound(c) /\ HomesAreUsed
    BY DEF OrgInv, CallsSound
  <1>2. UNCHANGED <<accounts, registered, admins, owner, role, members,
        halfway, org, invites, had>>
    BY DEF Provision, Forget, EraseNext, Dropped, peopleVars, personVars,
           membershipVars, listVars
  <1>3. OwnerBelongs' /\ OwnerIsWhole'
    BY <1>2 DEF OrgInv, OwnerBelongs, OwnerIsWhole
  <1>4. CASE Provision(c)
    <2>1. PICK n \in Network \ used : /\ used' = used \union {n}
                                     /\ controller' = controller \union {n}
                                     /\ Moves(c, "attaching", None, n)
                                     /\ home' = home /\ todo' = todo
      BY <1>4 DEF Provision, listVars
    <2>2. /\ call' \in [Call -> Progress]
          /\ call'[c] = Doing("attaching", call[c].by, None, call[c].role, n)
          /\ \A d \in Call \ {c} : call'[d] = call[d]
      BY <1>1, <2>1, Moving DEF Steps
    <2>3. OrgTypes' /\ HomesAreUsed' /\ Onward
      BY <1>1, <1>2, <2>1, <2>2 DEF OrgTypes, HomesAreUsed, Onward, Gone
    <2>4. CallSound(c)'
      <3>1. call[c].by \in User
        BY <1>1, <1>4 DEF Provision, Awaits, CallSound
      <3>. QED
        BY <1>1, <1>2, <2>1, <2>2, <3>1 DEF CallSound, Doing, Gone, OrgTypes
    <2>. QED
      BY <1>2, <1>3, <2>1, <2>2, <2>3, <2>4, Assembled
  <1>5. CASE Forget(c)
    <2>1. PICK n \in controller : /\ n = call[c].net
                                  /\ controller' = controller \ {n}
                                  /\ Moves(c, "erasing", call[c].who, n)
                                  /\ home' = home /\ used' = used /\ todo' = todo
      BY <1>5 DEF Forget, listVars
    <2>2. /\ call' \in [Call -> Progress]
          /\ call'[c] = Doing("erasing", call[c].by, call[c].who, call[c].role, n)
          /\ \A d \in Call \ {c} : call'[d] = call[d]
      <3>1. call[c].who \in User \union {Org, None} /\ n \in Network
        BY <1>1 DEF OrgTypes, Progress
      <3>. QED
        BY <1>1, <2>1, <3>1, Moving DEF Steps
    <2>3. OrgTypes' /\ HomesAreUsed' /\ Onward
      BY <1>1, <1>2, <2>1, <2>2 DEF OrgTypes, HomesAreUsed, Onward, Gone
    <2>4. CallSound(c)'
      <3>1. call[c].by \in User
        BY <1>1, <1>5 DEF Forget, Awaits, CallSound
      <3>. QED
        BY <1>1, <1>2, <2>1, <2>2, <3>1 DEF CallSound, Doing, Gone, OrgTypes
    <2>. QED
      BY <1>2, <1>3, <2>1, <2>2, <2>3, <2>4, Assembled
  <1>6. CASE EraseNext(c)
    <2>. DEFINE n == call[c].net
    <2>1. /\ n \in Gone
          /\ home' \in {home, [home EXCEPT ![n] = None]}
          /\ controller' = controller /\ used' = used
          /\ todo' = [todo EXCEPT ![c] = @ \ {n}]
          /\ Moves(c, "purging", None, None)
      BY <1>1, <1>6 DEF EraseNext, Dropped, Awaits, CallSound
    <2>2. /\ call' \in [Call -> Progress]
          /\ call'[c] = Doing("purging", call[c].by, None, call[c].role, None)
          /\ \A d \in Call \ {c} : call'[d] = call[d]
      BY <1>1, <2>1, Moving DEF Steps
    <2>3. /\ OrgTypes' /\ HomesAreUsed' /\ Onward
          /\ \A m \in controller' : home[m] # None => home'[m] # None
      BY <1>1, <1>2, <2>1, <2>2 DEF OrgTypes, HomesAreUsed, Onward, Gone
    <2>4. CallSound(c)'
      <3>1. call[c].by \in User
        BY <1>1, <1>6 DEF EraseNext, Dropped, Awaits, CallSound
      <3>2. todo'[c] = todo[c] \ {n} /\ \A d \in Call \ {c} : todo'[d] = todo[d]
        BY <1>1, <2>1 DEF OrgTypes
      <3>. QED
        BY <1>1, <1>2, <2>1, <2>2, <3>1, <3>2 DEF CallSound, Doing, Gone
    <2>5. \A d \in Call \ {c} : todo'[d] = todo[d] /\ had'[d] = had[d]
      BY <1>1, <1>2, <2>1 DEF OrgTypes
    <2>. QED
      BY <1>3, <2>2, <2>3, <2>4, <2>5, Assembled
  <1>. QED
    BY <1>4, <1>5, <1>6

LEMMA ListStep ==
    ASSUME OrgInv, NEW c \in Call,
           ListNetworks(c) \/ ListAuthored(c) \/ Purge(c) \/ Empty(c)
    PROVE  OrgInv' /\ home' = home
  <1>1. OrgTypes /\ CallSound(c) /\ HomesAreUsed
    BY DEF OrgInv, CallsSound
  <1>2. /\ UNCHANGED <<accounts, registered, admins, owner, role, members,
           halfway, org, invites, home, used>>
        /\ call[c].by \in User
    BY <1>1 DEF ListNetworks, ListAuthored, Purge, Empty, Lists, peopleVars,
                personVars, membershipVars,
                networkVars, Awaits, CallSound
  <1>3. OwnerBelongs' /\ OwnerIsWhole' /\ HomesAreUsed'
    BY <1>2 DEF OrgInv, OwnerBelongs, OwnerIsWhole, HomesAreUsed
  <1>4. ASSUME NEW mine \in SUBSET Network, NEW next \in {"purging", "emptying"},
               Lists(c, mine, next), mine \subseteq used,
               call[c].who \in User \/ next = "purging"
        PROVE  OrgInv'
    <2>1. /\ todo' = [todo EXCEPT ![c] = mine] /\ had' = [had EXCEPT ![c] = mine]
          /\ Moves(c, next, call[c].who, None) /\ controller' = controller
      BY <1>4 DEF Lists, networkVars
    <2>2. call[c].who \in User \union {Org, None}
      BY <1>1 DEF OrgTypes, Progress
    <2>3. /\ call' \in [Call -> Progress]
          /\ call'[c] = Doing(next, call[c].by, call[c].who, call[c].role, None)
          /\ \A d \in Call \ {c} : call'[d] = call[d]
      BY <1>1, <2>1, <2>2, Moving DEF Steps
    <2>4. OrgTypes' /\ Onward
      BY <1>1, <1>2, <2>1, <2>3 DEF OrgTypes, Onward, Gone
    <2>5. /\ todo'[c] = mine /\ had'[c] = mine
          /\ \A d \in Call \ {c} : todo'[d] = todo[d] /\ had'[d] = had[d]
      BY <1>1, <2>1 DEF OrgTypes
    <2>6. CallSound(c)'
      BY <1>2, <1>4, <2>1, <2>3, <2>5 DEF CallSound, Doing, Gone
    <2>. QED
      BY <1>3, <2>3, <2>4, <2>5, <2>6, Assembled
  <1>5. CASE ListNetworks(c)
    <2>. DEFINE mine == {n \in Network : home[n] = Org}
    <2>1. mine \subseteq used /\ Lists(c, mine, "purging")
      BY <1>1, <1>5, OrgIsNoUser DEF ListNetworks, HomesAreUsed
    <2>. QED
      BY <1>2, <1>4, <2>1
  <1>6. CASE ListAuthored(c)
    <2>. DEFINE mine == {n \in Network : home[n] = call[c].who}
    <2>1. call[c].who \in User
      BY <1>1, <1>6 DEF ListAuthored, Awaits, CallSound
    <2>2. mine \subseteq used /\ Lists(c, mine, "emptying")
      BY <1>1, <1>6, <2>1, OrgIsNoUser DEF ListAuthored, HomesAreUsed
    <2>. QED
      BY <1>2, <1>4, <2>1, <2>2
  <1>7. CASE Purge(c)
    <2>1. PICK n \in todo[c] : /\ Moves(c, "forgetting", Org, n)
                               /\ UNCHANGED <<controller, todo, had>>
      BY <1>7 DEF Purge, networkVars, listVars
    <2>2. n \in Network /\ n \in used
      BY <1>1, <2>1 DEF OrgTypes, CallSound
    <2>3. /\ call' \in [Call -> Progress]
          /\ call'[c] = Doing("forgetting", call[c].by, Org, call[c].role, n)
          /\ \A d \in Call \ {c} : call'[d] = call[d]
      BY <1>1, <2>1, <2>2, Moving DEF Steps
    <2>4. OrgTypes' /\ Onward
      BY <1>1, <1>2, <2>1, <2>3 DEF OrgTypes, Onward, Gone
    <2>5. CallSound(c)'
      BY <1>1, <1>2, <2>1, <2>2, <2>3 DEF CallSound, Doing, Gone
    <2>. QED
      BY <1>2, <1>3, <2>1, <2>3, <2>4, <2>5, Assembled
  <1>8. CASE Empty(c)
    <2>1. PICK n \in todo[c] \intersect controller :
                /\ controller' = controller \ {n}
                /\ todo' = [todo EXCEPT ![c] = @ \ {n}]
                /\ call' = call /\ had' = had
      BY <1>8 DEF Empty
    <2>2. todo'[c] = todo[c] \ {n} /\ \A d \in Call \ {c} : todo'[d] = todo[d]
      BY <1>1, <2>1 DEF OrgTypes
    <2>3. OrgTypes' /\ Onward
      BY <1>1, <1>2, <2>1 DEF OrgTypes, Onward, Gone
    <2>4. CallSound(c)'
      BY <1>1, <1>2, <2>1, <2>2 DEF CallSound, Gone, OrgTypes
    <2>. QED
      BY <1>2, <1>3, <2>1, <2>2, <2>3, <2>4, Assembled
  <1>. QED
    BY <1>2, <1>5, <1>6, <1>7, <1>8

\* The transactions that end a deletion: nothing of what was listed is on the
\* controller any more.
LEMMA DeletionStep ==
    ASSUME OrgInv, NEW c \in Call, DeleteOrg(c) \/ DeleteUser(c)
    PROVE  /\ OrgInv'
           /\ \A n \in controller' : n \notin had[c]
           /\ call[c].at \in {"purging", "emptying"} /\ call'[c].at = "over"
  <1>1. OrgTypes /\ CallSound(c) /\ HomesAreUsed
    BY DEF OrgInv, CallsSound
  <1>2. /\ Ends(c) /\ UNCHANGED <<owner, controller, used>> /\ todo[c] = {}
        /\ call[c].at \in {"purging", "emptying"}
    BY DEF DeleteOrg, DeleteUser, Awaits
  <1>3. \A n \in controller' : n \notin had[c]
    BY <1>1, <1>2 DEF CallSound, Gone
  <1>4. CASE DeleteOrg(c)
    <2>1. None \notin Roles
      BY OrgIsNoUser
    <2>2. /\ UNCHANGED <<accounts, registered, admins, owner,
             halfway>> /\ org' = "deleted"
          /\ role' = [u \in User |-> None] /\ members' = {}
          /\ home' = [n \in Network |-> IF home[n] = Org THEN None ELSE home[n]]
      BY <1>4 DEF DeleteOrg, personVars
    <2>3. invites' \subseteq Invite
      <3>1. \A i \in Invite : [i EXCEPT !.linked = FALSE] \in Invite
        BY DEF Invite
      <3>. QED
        BY <1>1, <1>4, <3>1 DEF DeleteOrg, OrgTypes
    <2>4. OrgTypes'
      BY <1>1, <1>2, <2>2, <2>3, Ending DEF OrgTypes
    <2>5. OwnerBelongs' /\ OwnerIsWhole' /\ HomesAreUsed' /\ Onward
      BY <1>1, <1>2, <2>2
         DEF OrgInv, OrgTypes, OwnerBelongs, OwnerIsWhole, HomesAreUsed,
                              Onward, Gone
    <2>. QED
      BY <1>1, <1>2, <1>3, <2>4, <2>5, Ending, Assembled
  <1>5. CASE DeleteUser(c)
    <2>. DEFINE v == call[c].who
    <2>1. /\ v \in User /\ UNCHANGED <<registered, halfway, org>>
          /\ accounts' = accounts \ {v} /\ admins' = admins \ {v}
          /\ role' = [role EXCEPT ![v] = None] /\ members' = members \ {v}
          /\ home' = [n \in Network |-> IF home[n] = v THEN None ELSE home[n]]
          /\ invites' \subseteq invites
      BY <1>1, <1>5 DEF DeleteUser, OrgTypes
    <2>2. /\ role' \in [User -> Roles \union {None}] /\ members' \subseteq User
          /\ OwnerBelongs' /\ OwnerIsWhole'
      BY <1>2, <2>1, Parting
    <2>3. OrgTypes'
      BY <1>1, <1>2, <2>1, <2>2, Ending DEF OrgTypes
    <2>4. HomesAreUsed' /\ Onward
      BY <1>1, <1>2, <2>1 DEF OrgTypes, HomesAreUsed, Onward, Gone
    <2>. QED
      BY <1>1, <1>2, <1>3, <2>2, <2>3, <2>4, Ending, Assembled
  <1>. QED
    BY <1>4, <1>5

-----------------------------------------------------------------------------
Forgets ==
    \A n \in controller' :
       home[n] # None /\ home'[n] = None =>
          \E c \in Call : /\ call[c].at \in {"purging", "emptying"}
                          /\ call'[c].at = "over"
                          /\ n \notin had[c]

LEMMA OrgStep == OrgInv /\ [OrgNext]_orgVars => OrgInv' /\ Forgets
  <1>. SUFFICES ASSUME OrgInv, [OrgNext]_orgVars PROVE OrgInv' /\ Forgets
    OBVIOUS
  <1>0. home' = home => Forgets
    BY DEF Forgets
  <1>1. CASE UNCHANGED orgVars
    <2>1. UNCHANGED <<accounts, registered, admins, owner, role, members,
          halfway, org, home,
                      controller, used, invites, call, todo, had>>
      BY <1>1 DEF orgVars, peopleVars, personVars, membershipVars, networkVars,
                  listVars
    <2>. QED
      BY <1>0, <2>1
         DEF OrgInv, OrgTypes, OwnerBelongs, OwnerIsWhole, HomesAreUsed,
             CallsSound,
                        CallSound, Gone
  <1>2. ASSUME NEW c \in Call, Continues(c) PROVE OrgInv' /\ Forgets
    <2>1. CASE AddUser(c) \/ ChangeUserRole(c) \/ Leave(c) \/ InviteUserByMail(c)
                 \/ ClearInvites(c) \/ Throws(c)
      <3>1. home' = home
        BY <2>1 DEF AddUser, ChangeUserRole, Leave, InviteUserByMail,
                    ClearInvites,
                    Throws, networkVars
      <3>. QED
        BY <1>0, <2>1, <3>1, PeopleStep
    <2>2. CASE Redeem(c)
      BY <1>0, <2>2, RedeemStep DEF Redeem, networkVars
    <2>3. CASE Attach(c) \/ AssignNetwork(c) \/ TransferNetwork(c) \/ Erase(c)
      BY <2>3, RowStep DEF Forgets
    <2>4. CASE Provision(c) \/ Forget(c) \/ EraseNext(c)
      BY <2>4, ControllerStep DEF Forgets
    <2>5. CASE ListNetworks(c) \/ ListAuthored(c) \/ Purge(c) \/ Empty(c)
      BY <1>0, <2>5, ListStep
    <2>6. CASE DeleteOrg(c) \/ DeleteUser(c)
      BY <2>6, DeletionStep DEF Forgets
    <2>7. CASE Register(c) \/ CreateUser(c)
      BY <1>0, <2>7, ArrivalStep DEF Register, CreateUser, networkVars
    <2>8. CASE Connect(c) \/ Enrol(c)
      BY <1>0, <2>8, HalfwayStep DEF Connect, Enrol, networkVars
    <2>. QED
      BY <1>2, <2>1, <2>2, <2>3, <2>4, <2>5, <2>6, <2>7, <2>8 DEF Continues
  <1>3. ASSUME NEW c \in Call, NEW u \in User, AboutNetworks(c, u)
        PROVE  OrgInv' /\ Forgets
    <2>1. home' = home
      BY <1>3 DEF AboutNetworks, CreateOrg, AskDeleteOrg, AskNetwork, AskAssign,
                  AskTransfer, AskDelete, Asks, Opens, networkVars
    <2>. QED
      BY <1>0, <1>3, <2>1, AskStep, OneStep DEF AboutNetworks
  <1>4. ASSUME NEW c \in Call, NEW u \in User, NEW v \in User, AboutPeople(c,
               u, v)
        PROVE  OrgInv' /\ Forgets
    <2>1. home' = home
      BY <1>4 DEF AboutPeople, AskAdd, AskRole, AskInvite, AskCreateUser,
                  AskLeave,
                  AskDeleteUser, ChangeRole, Asks, Opens, networkVars
    <2>. QED
      BY <1>0, <1>4, <2>1, AskStep, OneStep DEF AboutPeople
  <1>5. ASSUME NEW c \in Call, NEW i \in invites,
               AskRedeem(c, i) \/ AskRegister(c,
                 i) \/ \E u \in User : DeleteInvite(c, u, i)
        PROVE  OrgInv' /\ Forgets
    <2>1. home' = home
      BY <1>5 DEF AskRedeem, AskRegister, DeleteInvite, Asks, Opens, networkVars
    <2>. QED
      BY <1>0, <1>5, <2>1, AskRedeemStep, OneStep
  <1>6. ASSUME NEW c \in Call, NEW u \in User, SignUp(c,
               u) PROVE OrgInv' /\ Forgets
    BY <1>0, <1>6, OneStep DEF SignUp, networkVars
  <1>. QED
    BY <1>1, <1>2, <1>3, <1>4, <1>5, <1>6 DEF OrgNext, Begins

LEMMA OrgStart == OrgInit => OrgInv
  <1>. SUFFICES ASSUME OrgInit PROVE OrgInv
    OBVIOUS
  <1>1. Doing("waiting", None, None, None, None) \in Progress
    BY DEF Doing, Progress, Steps
  <1>2. OrgTypes
    BY <1>1, GrantableAreRoles DEF OrgInit, OrgTypes
  <1>3. OwnerBelongs /\ OwnerIsWhole /\ HomesAreUsed
    BY DEF OrgInit, OwnerBelongs, OwnerIsWhole, HomesAreUsed
  <1>4. CallsSound
    BY DEF OrgInit, CallsSound, CallSound, Doing
  <1>. QED
    BY <1>2, <1>3, <1>4 DEF OrgInv

\* The invariant of an organization.
THEOREM OrgInvariant == OrgSpec => []OrgInv
  BY OrgStart, OrgStep, PTL DEF OrgSpec

\* Variables stay within their types, for any number of accounts, networks and
\* calls.
THEOREM OrgTypeCorrect == OrgSpec => []OrgTypes
  <1>1. OrgInv => OrgTypes
    BY DEF OrgInv
  <1>. QED
    BY <1>1, OrgInvariant, PTL

\* Membership and roles agree but for whom createUser left between the two, and
\* the owner has both.
THEOREM OwnerStays == OrgSpec => []OwnerBelongs
  <1>1. OrgInv => OwnerBelongs
    BY DEF OrgInv
  <1>. QED
    BY <1>1, OrgInvariant, PTL

\* No network on the controller loses its row but one that came after the list.
THEOREM NetworksAreFound == OrgSpec => NothingForgotten
  <1>1. OrgInv /\ [OrgNext]_orgVars => [Forgets]_orgVars
    BY OrgStep
  <1>2. OrgSpec => [][Forgets]_orgVars
    BY <1>1, OrgInvariant, PTL DEF OrgSpec
  <1>. QED
    BY <1>2 DEF NothingForgotten, Forgets
=============================================================================
