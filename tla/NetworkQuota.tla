---------------------------- MODULE NetworkQuota ----------------------------
(***************************************************************************)
(* Personal network quota of one account.                                  *)
(*                                                                         *)
(* A request that provisions a network first takes a short-lived           *)
(* reservation row in the database, then asks the ZeroTier controller for  *)
(* the network, which happens outside any transaction, and finally swaps   *)
(* the reservation for the network row.  Reserving and consuming lock the  *)
(* row of the user (SELECT ... FOR UPDATE), so each of the two is one      *)
(* step; everything between them interleaves with other requests, with the *)
(* minute job, with the clock and with billing changing the entitlement.   *)
(*                                                                         *)
(* Both transactions read the clock BEFORE they wait for the row lock, so  *)
(* the instant they decide with (stamp) may lie in the past.               *)
(***************************************************************************)
EXTENDS Integers, FiniteSets

CONSTANTS
    Requests,   \* provisioning requests; each runs once
    TTL,        \* lifetime of a reservation (NETWORK_QUOTA_RESERVATION_TTL_MS)
    Limits,     \* maxNetworks values plans may grant
    MaxClock    \* bound of the checked instance: the last instant

ASSUME RequestsFinite == IsFiniteSet(Requests)
ASSUME TTLPositive == TTL \in Nat \ {0}
ASSUME LimitsNatural == Limits \subseteq Nat
ASSUME MaxClockNatural == MaxClock \in Nat

VARIABLES
    clock,        \* wall clock
    entitlement,  \* what getEffectiveEntitlement returns for the account
    networks,     \* requests whose network row is stored, with no organization
    rows,         \* NetworkQuotaReservation rows
    pc,           \* where each request is
    stamp,        \* `now` of the transaction a request is about to run, else 0
    holds,        \* quotaReservationId is not null in the handler
    peak,         \* history: largest limit the account ever had
    exempt        \* history: the account was unlimited at some time

requestVars == <<rows, pc, stamp, holds>>
historyVars == <<peak, exempt>>
vars == <<clock, entitlement, networks, requestVars, historyVars>>

Phases == {"idle", "reserving", "creating", "created", "consuming",
           "releasing", "done"}

\* NONE: assertAccountActive throws.  UNLIMITED: sources ADMIN and
\* LEGACY_UNGROUPED.  LIMITED: a subscription or a legacy user group.
Entitlement ==
    [kind : {"NONE", "UNLIMITED"}, max : {0}] \union [kind : {"LIMITED"}, max : Limits]

Instant == 0 .. MaxClock

Row == [request : Requests, expiresAt : 0 .. MaxClock + TTL]

TypeOK ==
    /\ clock \in Instant
    /\ entitlement \in Entitlement
    /\ networks \subseteq Requests
    /\ rows \subseteq Row
    /\ pc \in [Requests -> Phases]
    /\ stamp \in [Requests -> Instant]
    /\ holds \in [Requests -> BOOLEAN]
    /\ peak \in Nat
    /\ exempt \in BOOLEAN

-----------------------------------------------------------------------------
\* Rows that still count at instant t (count where expiresAt > t).
LiveAt(R, t) == {row \in R : row.expiresAt > t}

\* Rows of the other requests (deleteMany of the own id leaves them).
RowsWithout(r) == {row \in rows : row.request # r}

\* assertNetworkQuota: room for one more network beside the reserved ones.
HasRoom(reserved) ==
    Cardinality(networks) + Cardinality(reserved) + 1 <= entitlement.max

Init ==
    /\ clock = 0
    /\ entitlement \in Entitlement
    /\ networks = {}
    /\ rows = {}
    /\ pc = [r \in Requests |-> "idle"]
    /\ stamp = [r \in Requests |-> 0]
    /\ holds = [r \in Requests |-> FALSE]
    /\ peak = entitlement.max
    /\ exempt = (entitlement.kind = "UNLIMITED")

-----------------------------------------------------------------------------
\* The request arrives and reads the clock, before it waits for the user row.
StartReserve(r) ==
    /\ pc[r] = "idle"
    /\ pc' = [pc EXCEPT ![r] = "reserving"]
    /\ stamp' = [stamp EXCEPT ![r] = clock]
    /\ UNCHANGED <<clock, entitlement, networks, rows, holds, historyVars>>

\* Seeded fault: the lifetime is added to an instant that already contains it.
ReserveTooLong(r) ==
    LET live == LiveAt(rows, stamp[r]) IN
    /\ pc[r] = "reserving"
    /\ entitlement.kind = "LIMITED" /\ HasRoom(live)
    /\ rows' = live \union {[request |-> r, expiresAt |-> stamp[r] + TTL + TTL]}
    /\ holds' = [holds EXCEPT ![r] = TRUE]
    /\ pc' = [pc EXCEPT ![r] = "creating"]
    /\ stamp' = [stamp EXCEPT ![r] = 0]
    /\ UNCHANGED <<clock, entitlement, networks, historyVars>>

\* The quota admits the request: expired rows go, a new row covers the
\* controller call to come.
ReserveGranted(r) ==
    LET live == LiveAt(rows, stamp[r]) IN
    /\ pc[r] = "reserving"
    /\ entitlement.kind = "LIMITED" /\ HasRoom(live)
    /\ rows' = live \union {[request |-> r, expiresAt |-> stamp[r] + TTL]}
    /\ holds' = [holds EXCEPT ![r] = TRUE]
    /\ pc' = [pc EXCEPT ![r] = "creating"]
    /\ stamp' = [stamp EXCEPT ![r] = 0]
    /\ UNCHANGED <<clock, entitlement, networks, historyVars>>

\* An unlimited account gets no row (reservation id null).
ReserveUnlimited(r) ==
    /\ pc[r] = "reserving"
    /\ entitlement.kind = "UNLIMITED"
    /\ rows' = LiveAt(rows, stamp[r])
    /\ pc' = [pc EXCEPT ![r] = "creating"]
    /\ stamp' = [stamp EXCEPT ![r] = 0]
    /\ UNCHANGED <<clock, entitlement, networks, holds, historyVars>>

\* EntitlementError: the transaction rolls back, expired rows included.
ReserveRefused(r) ==
    /\ pc[r] = "reserving"
    /\ \/ entitlement.kind = "NONE"
       \/ entitlement.kind = "LIMITED" /\ ~HasRoom(LiveAt(rows, stamp[r]))
    /\ pc' = [pc EXCEPT ![r] = "done"]
    /\ stamp' = [stamp EXCEPT ![r] = 0]
    /\ UNCHANGED <<clock, entitlement, networks, rows, holds, historyVars>>

\* ztController.network_create succeeds.
ControllerCreate(r) ==
    /\ pc[r] = "creating"
    /\ pc' = [pc EXCEPT ![r] = "created"]
    /\ UNCHANGED <<clock, entitlement, networks, rows, stamp, holds, historyVars>>

\* It throws: the finally block releases the reservation, if there is one.
ControllerFails(r) ==
    /\ pc[r] = "creating"
    /\ pc' = [pc EXCEPT ![r] = IF holds[r] THEN "releasing" ELSE "done"]
    /\ UNCHANGED <<clock, entitlement, networks, rows, stamp, holds, historyVars>>

StartConsume(r) ==
    /\ pc[r] = "created" /\ holds[r]
    /\ pc' = [pc EXCEPT ![r] = "consuming"]
    /\ stamp' = [stamp EXCEPT ![r] = clock]
    /\ UNCHANGED <<clock, entitlement, networks, rows, holds, historyVars>>

\* Seeded fault: the reservation is trusted even if it expired meanwhile.
ConsumeUnchecked(r) ==
    /\ pc[r] = "consuming"
    /\ entitlement.kind # "NONE"
    /\ rows' = RowsWithout(r)
    /\ networks' = networks \union {r}
    /\ holds' = [holds EXCEPT ![r] = FALSE]
    /\ pc' = [pc EXCEPT ![r] = "done"]
    /\ stamp' = [stamp EXCEPT ![r] = 0]
    /\ UNCHANGED <<clock, entitlement, historyVars>>

\* consumeNetworkQuotaReservation: the own row goes, the quota is asserted a
\* second time, and the network row is written in the same transaction.  The
\* own row may have expired, and been deleted, by then.
ConsumeGranted(r) ==
    /\ pc[r] = "consuming"
    /\ \/ entitlement.kind = "UNLIMITED"
       \/ entitlement.kind = "LIMITED" /\ HasRoom(LiveAt(RowsWithout(r), stamp[r]))
    /\ rows' = RowsWithout(r)
    /\ networks' = networks \union {r}
    /\ holds' = [holds EXCEPT ![r] = FALSE]
    /\ pc' = [pc EXCEPT ![r] = "done"]
    /\ stamp' = [stamp EXCEPT ![r] = 0]
    /\ UNCHANGED <<clock, entitlement, historyVars>>

\* The second assertion fails: rolled back, then the finally block releases.
\* The network stays on the controller without a database row (not modelled:
\* nothing in the code reads it back).
ConsumeRefused(r) ==
    /\ pc[r] = "consuming"
    /\ \/ entitlement.kind = "NONE"
       \/ entitlement.kind = "LIMITED" /\ ~HasRoom(LiveAt(RowsWithout(r), stamp[r]))
    /\ pc' = [pc EXCEPT ![r] = "releasing"]
    /\ stamp' = [stamp EXCEPT ![r] = 0]
    /\ UNCHANGED <<clock, entitlement, networks, rows, holds, historyVars>>

\* Without a reservation id the network is stored with no further check.
StoreUnreserved(r) ==
    /\ pc[r] = "created" /\ ~holds[r]
    /\ networks' = networks \union {r}
    /\ pc' = [pc EXCEPT ![r] = "done"]
    /\ UNCHANGED <<clock, entitlement, rows, stamp, holds, historyVars>>

Release(r) ==
    /\ pc[r] = "releasing"
    /\ rows' = RowsWithout(r)
    /\ pc' = [pc EXCEPT ![r] = "done"]
    /\ holds' = [holds EXCEPT ![r] = FALSE]
    /\ UNCHANGED <<clock, entitlement, networks, stamp, historyVars>>

\* The process dies, or the release itself fails and is only logged: the row
\* stays until it expires.
Abandon(r) ==
    /\ pc[r] \notin {"idle", "done"}
    /\ pc' = [pc EXCEPT ![r] = "done"]
    /\ stamp' = [stamp EXCEPT ![r] = 0]
    /\ holds' = [holds EXCEPT ![r] = FALSE]
    /\ UNCHANGED <<clock, entitlement, networks, rows, historyVars>>

-----------------------------------------------------------------------------
\* Seeded fault: the comparison of the minute job is the wrong way round.
CleanupLive ==
    /\ rows' = {row \in rows : row.expiresAt <= clock}
    /\ rows' # rows
    /\ UNCHANGED <<clock, entitlement, networks, pc, stamp, holds, historyVars>>

\* The minute job.
CleanupExpired ==
    /\ rows' = LiveAt(rows, clock)
    /\ rows' # rows
    /\ UNCHANGED <<clock, entitlement, networks, pc, stamp, holds, historyVars>>

\* deleteNetwork: the row goes once the controller has forgotten the network.
DeleteNetwork(r) ==
    /\ r \in networks
    /\ networks' = networks \ {r}
    /\ UNCHANGED <<clock, entitlement, requestVars, historyVars>>

\* Any billing write: renewal, plan assignment, suspension, expiry, role change.
ChangeEntitlement ==
    /\ \E e \in Entitlement :
          /\ entitlement' = e
          /\ peak' = IF e.max > peak THEN e.max ELSE peak
          /\ exempt' = (exempt \/ e.kind = "UNLIMITED")
    /\ UNCHANGED <<clock, networks, requestVars>>

Tick ==
    /\ clock < MaxClock
    /\ clock' = clock + 1
    /\ UNCHANGED <<entitlement, networks, requestVars, historyVars>>

RequestStep(r) ==
    \/ StartReserve(r) \/ ReserveGranted(r) \/ ReserveUnlimited(r)
    \/ ReserveRefused(r) \/ ControllerCreate(r) \/ ControllerFails(r)
    \/ StartConsume(r) \/ ConsumeGranted(r) \/ ConsumeRefused(r)
    \/ StoreUnreserved(r) \/ Release(r) \/ Abandon(r)
    \/ DeleteNetwork(r)

Next ==
    \/ \E r \in Requests : RequestStep(r)
    \/ CleanupExpired \/ ChangeEntitlement \/ Tick

Spec == Init /\ [][Next]_vars

\* Time passes and the minute job keeps running; requests owe nothing.
FairSpec == Spec /\ WF_vars(Tick) /\ WF_vars(CleanupExpired)

-----------------------------------------------------------------------------
\* A decision is never taken with an instant that lies in the future.
StampsArePast == \A r \in Requests : stamp[r] <= clock

\* The history variables dominate the entitlement in force.
HistoryDominates ==
    /\ entitlement.max <= peak
    /\ entitlement.kind = "UNLIMITED" => exempt

\* A request without a reservation id was admitted while unlimited.
UnreservedIsExempt ==
    \A r \in Requests : pc[r] \in {"creating", "created"} /\ ~holds[r] => exempt

\* The stored networks together with the reservations that still count never
\* exceed the largest limit the account was ever granted, whatever the requests,
\* expiries, crashes and entitlement changes interleave, unless the account was
\* unlimited at some time: reserveNetworkQuota and consumeNetworkQuotaReservation
\* cannot be raced into over-provisioning.
QuotaRespected ==
    exempt \/ Cardinality(networks) + Cardinality(LiveAt(rows, clock)) <= peak

\* The inductive strengthening of QuotaRespected: rows are finitely many, and
\* the three facts above.
QuotaInv ==
    /\ TypeOK
    /\ IsFiniteSet(rows)
    /\ StampsArePast
    /\ HistoryDominates
    /\ UnreservedIsExempt
    /\ QuotaRespected

\* No slot is lost for good: a reservation row disappears within its lifetime
\* even when the request that took it crashed or its release failed, because the
\* row expires and the minute job removes it.
SlotsComeBack ==
    \A r \in Requests :
        (\E row \in rows : row.request = r /\ row.expiresAt <= MaxClock)
            ~> (\A row \in rows : row.request # r)
=============================================================================
