---------------------------- MODULE Registration ----------------------------
(***************************************************************************)
(* How accounts come to be: the registration form (authRouter.register),   *)
(* POST /api/v1/user, which calls the same procedure inside a transaction  *)
(* of its own, and the user-creation hook of a login with OAuth            *)
(* (lib/auth.ts).  Whoever finds no account becomes the administrator.     *)
(*                                                                         *)
(* The form's transaction is SERIALIZABLE, and its first statement waits   *)
(* for an advisory lock: PostgreSQL takes the snapshot of the transaction  *)
(* when that statement begins, so what the form decides with is the state  *)
(* before the wait.  A form that commits after another form has, fails to  *)
(* serialize.  The REST transaction and the hook are READ COMMITTED, and   *)
(* no form conflicts with them.                                            *)
(***************************************************************************)
EXTENDS Naturals, FiniteSets

CONSTANTS Form, Rest, OAuth,   \* requests; each runs once
          email,               \* request |-> normalized address
          Invite, timesCanUse, \* site invitations, and how many each admits
          Token,               \* invitations to an organization, for one account
          None

Request == Form \cup Rest \cup OAuth
Email == {email[r] : r \in Request}

ASSUME RegistrationAssumption ==
  /\ Form \cap Rest = {} /\ Form \cap OAuth = {} /\ Rest \cap OAuth = {}
  /\ None \notin Request \cup Email \cup Invite \cup Token
  /\ Invite \cap Token = {} /\ timesCanUse \in [Invite -> Nat]

VARIABLES
  configured,  \* INITIAL_ADMIN_EMAIL, or None
  exclusive,   \* OAUTH_EXCLUSIVE_LOGIN
  open,        \* globalOptions.enableRegistration
  users,       \* accounts: the request that made it, and its role
  used,        \* timesUsed of each site invitation
  invitations, \* Invitation rows: sites' and organizations'
  lock,        \* holder of the advisory lock "ztnet-user-registration"
  pc,          \* request |-> stage
  first,       \* request |-> it is to become the administrator
  carries,     \* form |-> the Invite or Token it came with, or None
  sawOpen,     \* form |-> enableRegistration when its request began
  snapshot     \* form |-> what its transaction sees

regVars == <<configured, exclusive, open, users, used, invitations, lock, pc,
             first, carries, sawOpen, snapshot>>
deployment == <<configured, exclusive>>
form == <<carries, sawOpen, snapshot>>

User == [by : Request, first : BOOLEAN]
Snapshot == [users : SUBSET User, used : [Invite -> Nat],
             invitations : SUBSET (Invite \cup Token)]
Stage == {"idle", "began", "waiting", "checking", "counting", "deciding",
          "writing", "done", "failed"}

RegistrationTypes ==
  /\ configured \in Email \cup {None} /\ exclusive \in BOOLEAN /\ open \in BOOLEAN
  /\ users \subseteq User /\ used \in [Invite -> Nat]
  /\ invitations \subseteq Invite \cup Token
  /\ lock \in Form \cup Rest \cup {None}
  /\ pc \in [Request -> Stage] /\ first \in [Request -> BOOLEAN]
  /\ carries \in [Form -> Invite \cup Token \cup {None}]
  /\ sawOpen \in [Form -> BOOLEAN] /\ snapshot \in [Form -> Snapshot]
  /\ \A r \in Form \cup Rest :
       pc[r] \in {"counting", "deciding", "writing"} => lock = r

Nothing == [users |-> {}, used |-> [i \in Invite |-> 0], invitations |-> {}]
Now == [users |-> users, used |-> used, invitations |-> invitations]

RegistrationInit ==
  /\ configured \in Email \cup {None} /\ exclusive \in BOOLEAN /\ open \in BOOLEAN
  /\ users = {} /\ used = [i \in Invite |-> 0] /\ invitations = Invite \cup Token
  /\ lock = None
  /\ pc = [r \in Request |-> "idle"] /\ first = [r \in Request |-> FALSE]
  /\ carries = [f \in Form |-> None]
  /\ sawOpen = [f \in Form |-> FALSE] /\ snapshot = [f \in Form |-> Nothing]

-----------------------------------------------------------------------------
Known(us, address) == \E u \in us : email[u.by] = address
Go(r, stage) == pc' = [pc EXCEPT ![r] = stage]

(* A request ends: its lock, its snapshot and what it had decided are gone. *)
Ends(r, stage) ==
  /\ Go(r, stage)
  /\ lock' = IF lock = r THEN None ELSE lock
  /\ first' = [first EXCEPT ![r] = FALSE]
  /\ sawOpen' = [f \in Form |-> f # r /\ sawOpen[f]]
  /\ snapshot' = [f \in Form |-> IF f = r THEN Nothing ELSE snapshot[f]]
  /\ carries' = [f \in Form |-> IF f = r /\ stage = "failed" THEN None ELSE carries[f]]

(* The unique key on the address of an account.                            *)
Store(r) == ~Known(users, email[r]) /\ users' = users \cup {[by |-> r, first |-> first[r]]}

Fails(r) ==
  /\ Ends(r, "failed")
  /\ UNCHANGED <<deployment, open, users, used, invitations>>

(* A refusal for a reason left out here (an expired invitation, a weak     *)
(* password, the rate limit), an error, a timeout or the end of the        *)
(* process: nothing is written, and the lock goes with the transaction.    *)
Abandon(r) == pc[r] \notin {"idle", "done", "failed"} /\ Fails(r)

-----------------------------------------------------------------------------
(* The form.                                                               *)

(* The settings and the organization's token are read before the           *)
(* transaction begins.                                                     *)
Begin(f) ==
  /\ pc[f] = "idle"
  /\ \E c \in Invite \cup (Token \cap invitations) \cup {None} :
       carries' = [carries EXCEPT ![f] = c]
  /\ Go(f, "began") /\ sawOpen' = [sawOpen EXCEPT ![f] = open]
  /\ UNCHANGED <<deployment, open, users, used, invitations, lock, first, snapshot>>

TakeSnapshot(f) ==
  /\ pc[f] = "began"
  /\ Go(f, "waiting") /\ snapshot' = [snapshot EXCEPT ![f] = Now]
  /\ UNCHANGED <<deployment, open, users, used, invitations, lock, first, carries,
                 sawOpen>>

\* Mutant: one registration more than the invitation is for.
HasUsesLeft(f) ==
  LET i == carries[f]
  IN i \in Invite => i \in snapshot[f].invitations /\ snapshot[f].used[i] <= timesCanUse[i]

HasUses(f) ==
  LET i == carries[f]
  IN i \in Invite => i \in snapshot[f].invitations /\ snapshot[f].used[i] < timesCanUse[i]

(* The only account that may be the first.                                 *)
MayBeFirst(r) == configured = None \/ email[r] = configured

Admitted(f) ==
  /\ HasUses(f)
  /\ sawOpen[f] \/ carries[f] # None
  /\ ~Known(snapshot[f].users, email[f])
  /\ snapshot[f].users = {} => MayBeFirst(f)

Decide(f) ==
  /\ pc[f] = "waiting" /\ lock = None /\ Admitted(f)
  /\ lock' = f /\ Go(f, "writing")
  /\ first' = [first EXCEPT ![f] = snapshot[f].users = {}]
  /\ UNCHANGED <<deployment, open, users, used, invitations, form>>

Refuse(f) == pc[f] = "waiting" /\ lock = None /\ ~Admitted(f) /\ Fails(f)

(* PostgreSQL lets no form commit on a snapshot that misses the account of *)
(* another form.                                                           *)
Serializes(f) == \A u \in users \ snapshot[f].users : u.by \notin Form

Redeemed(f) ==
  /\ carries[f] # None => carries[f] \in invitations
  /\ used' = IF carries[f] \in Invite THEN [used EXCEPT ![carries[f]] = @ + 1] ELSE used
  /\ invitations' = invitations \ (Token \cap {carries[f]})

Commit(f) ==
  /\ pc[f] = "writing" /\ Serializes(f) /\ Store(f) /\ Redeemed(f)
  /\ Ends(f, "done")
  /\ UNCHANGED <<deployment, open>>

-----------------------------------------------------------------------------
(* POST /api/v1/user.  Each statement sees what is committed by then.      *)

\* Mutant: nobody waits for a creation by REST.
RestLockless(r) ==
  /\ pc[r] = "idle" /\ lock = None
  /\ lock' = None /\ Go(r, "counting")
  /\ UNCHANGED <<deployment, open, users, used, invitations, first, form>>

RestLock(r) ==
  /\ pc[r] = "idle" /\ lock = None
  /\ lock' = r /\ Go(r, "counting")
  /\ UNCHANGED <<deployment, open, users, used, invitations, first, form>>

(* The first account needs no token of an administrator, every other does. *)
RestCount(r) ==
  /\ pc[r] = "counting" /\ Go(r, "deciding")
  /\ users = {} \/ \E u \in users : u.first
  /\ UNCHANGED <<deployment, open, users, used, invitations, lock, first, form>>

RestDecide(r) ==
  /\ pc[r] = "deciding"
  /\ open /\ ~Known(users, email[r]) /\ (users = {} => MayBeFirst(r))
  /\ Go(r, "writing") /\ first' = [first EXCEPT ![r] = users = {}]
  /\ UNCHANGED <<deployment, open, users, used, invitations, lock, form>>

RestCommit(r) ==
  /\ pc[r] = "writing" /\ Store(r)
  /\ Ends(r, "done")
  /\ UNCHANGED <<deployment, open, used, invitations>>

-----------------------------------------------------------------------------
(* A login with OAuth of an address that has no account.                   *)

(* The settings are skipped when OAuth is the only way to log in.          *)
HookSettings(o) ==
  /\ pc[o] = "idle" /\ ~Known(users, email[o]) /\ (exclusive \/ open)
  /\ Go(o, "checking")
  /\ UNCHANGED <<deployment, open, users, used, invitations, lock, first, form>>

\* Mutant: without a configured address anybody may be the first.
HookCountAnyone(o) ==
  /\ pc[o] = "checking"
  /\ users = {} => MayBeFirst(o)
  /\ Go(o, "writing") /\ first' = [first EXCEPT ![o] = users = {}]
  /\ UNCHANGED <<deployment, open, users, used, invitations, lock, form>>

\* Mutant: the hook stamps every account as an ordinary one.
HookCountUser(o) ==
  /\ pc[o] = "checking"
  /\ users = {} => configured # None /\ email[o] = configured
  /\ Go(o, "writing") /\ first' = [first EXCEPT ![o] = FALSE]
  /\ UNCHANGED <<deployment, open, users, used, invitations, lock, form>>

HookCount(o) ==
  /\ pc[o] = "checking"
  /\ users = {} => configured # None /\ email[o] = configured
  /\ Go(o, "writing") /\ first' = [first EXCEPT ![o] = users = {}]
  /\ UNCHANGED <<deployment, open, users, used, invitations, lock, form>>

HookStored(o) ==
  /\ pc[o] = "writing" /\ Store(o)
  /\ Ends(o, "done")
  /\ UNCHANGED <<deployment, open, used, invitations>>

-----------------------------------------------------------------------------
(* An administrator opens or closes registration.                          *)
SetRegistration ==
  /\ \E u \in users : u.first
  /\ open' = ~open
  /\ UNCHANGED <<deployment, users, used, invitations, lock, pc, first, form>>

(* An invitation is deleted, or used up by an account that exists.         *)
DeleteInvitation(i) ==
  /\ i \in invitations /\ (\E u \in users : u.first)
  /\ invitations' = invitations \ {i}
  /\ UNCHANGED <<deployment, open, users, used, lock, pc, first, form>>

RegistrationNext ==
  \/ \E f \in Form : Begin(f) \/ TakeSnapshot(f) \/ Decide(f) \/ Refuse(f) \/ Commit(f)
  \/ \E r \in Rest : RestLock(r) \/ RestCount(r) \/ RestDecide(r) \/ RestCommit(r)
  \/ \E o \in OAuth : HookSettings(o) \/ HookCount(o) \/ HookStored(o)
  \/ \E r \in Request : Abandon(r)
  \/ SetRegistration \/ \E i \in Invite \cup Token : DeleteInvitation(i)

RegistrationSpec == RegistrationInit /\ [][RegistrationNext]_regVars

-----------------------------------------------------------------------------
(* However forms and logins with OAuth interleave, one account at most is  *)
(* made the administrator for being the first, and one by REST at most;    *)
(* with a configured address there is one in all.                          *)
FirstAlone ==
  \A u, v \in users : u.first /\ v.first /\ u # v =>
    /\ configured = None
    /\ \E r \in Rest, f \in Form : {u.by, v.by} = {r, f}

(* authRouter.ts:158-159 says that registrations are serialized, "first-   *)
(* admin assignment, invitation consumption, and user creation one atomic  *)
(* decision": one administrator in all.                                    *)
OneFirstAdministrator ==
  \A u, v \in users : u.first /\ v.first => u = v

(* There is no server with accounts of which none was made administrator.  *)
SomeoneAdministers == users # {} => \E u \in users : u.first

(* An invitation admits as many accounts as it was made for, and counts    *)
(* them; an organization's admits one.                                     *)
Invited(i) == {u \in users : u.by \in Form /\ carries[u.by] = i}
InvitationsAreCounted ==
  /\ \A i \in Invite : used[i] = Cardinality(Invited(i)) /\ used[i] <= timesCanUse[i]
  /\ \A t \in Token : Cardinality(Invited(t)) <= 1
=============================================================================
