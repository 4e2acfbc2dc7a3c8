# Verification of ztnet-custom

ztnet-custom is a web front end for a self-hosted ZeroTier controller, extended
with paid plans. A Next.js server keeps users, networks, members, orders and
subscriptions in PostgreSQL, drives the controller over HTTP, collects money
through Alipay and runs a job every minute. This directory holds TLA+ models of
the parts whose correctness depends on the order in which requests, payment
notifications, the minute job, controller calls and crashes interleave.

Paths below are relative to the repository; `billing/` abbreviates
`src/server/billing/`.

## 1 Inventory

| Component | State | Operations | Hard because | What makes it correct |
|---|---|---|---|---|
| Personal network quota (`billing/entitlements.ts`, `services/networkService.ts`) | `NetworkQuotaReservation` rows, `network` rows, the effective entitlement | reserve, create on the controller, consume, release, clean up, delete | the controller call lies between two transactions; reservations expire by the clock | never more networks than the account may have; no slot lost |
| Orders and payments (`billing/orders.ts`, `payment.ts`, `service.ts`, `runtime.ts`, `routers/billingRouter.ts`, `routers/billingAdminRouter.ts`, `pages/api/billing/alipay/notify.ts`) | `BillingOrder`, `PaymentEvent`, `Subscription` rows; Alipay's trade | create, pay, notify, query, close, record, apply, restore, mark, renew by hand | notifications are repeated and reordered, race with cancellation and expiry, fulfilment is four separate writes | months are added once, paid orders are kept, every payment is granted or refused, no downgrade |
| Expiry and suspension (`billing/suspension.ts`, `billing/adminAssignment.ts`, `routers/adminRoute.ts`) | `User.isActive`/`suspensionReason`, `SubscriptionSuspensionSnapshot` rows, the members on the controller | suspend, retry, restore, roll back, assign, switch by hand | a loop of remote calls with no exclusion against another loop on the same rows | an expired account is off, a renewed one comes back, a failure is retried |
| Minute job (`cronTasks.ts`) | none of its own, one run at a time | expiry, clean-up, fulfilment of paid orders, expiry of unpaid orders | overtakes the request handlers | takes up whatever a crash left |
| Planet lifecycle (`planetFiles.ts`, `planetStartupRecovery.ts`, `startupRetry.ts`, `instrumentation.ts`) | planet files, a journal file, one database row, a lock file with heartbeat | activate, restore the original, recover, lock, steal a stale lock | a transaction over files and database, crashes at any point, stolen locks | files and row agree after recovery; two holders never both write |
| Live member sync (`sync/syncManager.ts`, `pages/api/websocket/index.ts`) | reference counts, one timer per network | subscribe, unsubscribe, disconnect, tick | subscription while an access check is awaited, unsubscription while a tick runs | one loop per watched network, none for an unwatched one |
| Member reconciliation (`services/memberService.ts`, `routers/memberRouter.ts`) | `network_members` cache of the controller | reconcile, edit, stash, delete | a reconcile started before an edit writes after it | the cache converges to the controller |
| Pricing functions (`billing/orders.ts`) | none | fee, upgrade price, month arithmetic, amounts | rounding, end of month | equal to a reference definition |
| Organizations (`routers/organizationRouter.ts`, `utils/role.ts`, `utils/networkAccess.ts`, and what `adminRoute.ts` does to accounts and networks) | `Organization`, `UserOrganizationRole`, the relation of members, `Invitation` and its link, `network` rows, networks on the controller | create, add, change role, leave or kick, invite, withdraw, redeem, create, take, hand over and delete networks, delete the organization, create and delete accounts | the role is checked by one query and the write is another; an account is created into the organization by separate writes; a deletion lists networks and then calls the controller for each | members and roles agree, the owner stays, no running network loses the row it is reached by |
| Managed routes (`routers/networkRouter.ts`, `services/routesService.ts`) | `Routes` rows with the users' notes, the routes on the controller | load a page, mirror, send a list, move a route to another gateway, assign pools | every load reads, asks and mirrors in three steps, two loads share one mirroring, edits send whole lists | a note is kept as long as its route is there; rows and controller agree in the end |
| Accounts (`routers/authRouter.ts`, `lib/auth.ts`, `pages/api/v1/user`) | `User` and `Invitation` rows, an advisory lock | register, create by REST, log in with OAuth | transactions of different isolation beside a hook without any | one first administrator, an invitation admits as many as it says |
| Alipay protocol (`billing/alipay.ts`, `config.ts`) | none | sign, verify, parse | - | only verified messages reach the orders |
| Pools, DNS and flow rules of networks, sessions and tokens, backups and update, user interface, deployment | - | see `PROJECT.json` | mostly one database statement or one remote call | - |

How they interact. Handlers and the minute job call the same functions
(`fulfilPaidOrder`, `restoreSubscriptionExpiredUser`) on the same rows. They
exclude one another only by PostgreSQL: serializable transactions and advisory
locks keyed by the order and by the account. Calls of the controller and of
Alipay are made outside any transaction. A subscription's state decides the
entitlement, which the quota reads in both of its transactions. Suspension
disables the account, and every other component checks that when a request
begins, not when it ends.

## 2 Plan

Modules in order of importance; each is written with CONSTANT parameters and
named assumptions, one action per operation, and no RECURSIVE operator.

1. `NetworkQuota` - done, proved.
2. `BillingOrders` and the abstract `OrderLedger` - done, proved.
3. `Suspension` - done, proved.
4. `PlanetTransaction`, the journalled replacement of planet files and database
   rows, and the abstract `PlanetSwitch` - done, proved.
5. `PlanetLock`, the lock file between processes - done, proved; mutual exclusion
   for two processes, with the exception section 6 names.
6. `LiveMembers`, the sockets and the loop of `SyncManager`, over `MemberCache`,
   the reconciliation of member rows - done, proved.
7. `NetworkRoutes`, the managed routes and the rows that mirror them - done,
   proved.
8. `Registration`, who becomes the administrator and what an invitation admits -
   done, proved.
9. `Pricing`, the arithmetic of orders - operators, proved for all inputs.
10. `Organization`, the people, invitations and networks of an organization and
    what administrators do to them - done, proved.

`SuspensionMC`, `LiveMembersMC`, `AccessMC`, `NetworkPageMC` and `LocksMC` give
the instances; the last three run two components that share no state in one run,
and `part` says which of the two a behaviour is about.

Theorems still worth stating: what mutual exclusion of `PlanetLock` keeps when a
process dies while it has the gate aside (each change of a file is fenced, which
the model does not follow), and lemmas that make `RoutesConverge` and
`ViewIsHealed` shorter to argue about, such as what each pass of a reconcile
leaves true.

## 3 Modules and the code

### NetworkQuota

One account and a set of provisioning requests. `rows` are the
`NetworkQuotaReservation` rows, `networks` the stored personal networks, `pc` and
`holds` the progress of `networkProvisioningFactory` and whether it has a
reservation id. `entitlement` is what `getEffectiveEntitlement` returns; any
billing write may change it at any time (`ChangeEntitlement`).

| Action | Code |
|---|---|
| `StartReserve`, `ReserveGranted`, `ReserveUnlimited`, `ReserveRefused` | `reserveNetworkQuota` and `assertNetworkQuota` |
| `ControllerCreate`, `ControllerFails` | `ztController.network_create` |
| `StartConsume`, `ConsumeGranted`, `ConsumeRefused`, `StoreUnreserved` | `consumeNetworkQuotaReservation` with the network row |
| `Release`, `Abandon` | the `finally` block, or a crash |
| `CleanupExpired` | the minute job |
| `DeleteNetwork` | `networkRouter.deleteNetwork` |

Both transactions lock the row of the user, so each is one step, but each has
read the clock before it waits: `stamp` is that older instant. `peak` and
`exempt` are history variables for the property only.

### BillingOrders and OrderLedger

One account. `order` are the `BillingOrder` rows (status, deadline, level,
`entitlementAppliedAt` as `applied`), `processed` the distinct payloads recorded
as payment events, `trade` Alipay's own state of the order, `sub` and `user` the
subscription and account, `suspending` whether snapshots are unfinished. A worker
(handler or minute job) is at one stage of one order in `work`; every stage is
one transaction or one call of Alipay:

| Stage | Action | Code |
|---|---|---|
| record | `RecordPayment` | `recordVerifiedAlipayPayment` |
| fulfil | `StartFulfil` | the first read of `fulfilPaidOrder` |
| apply | `ApplyPaidOrder`, `AlreadyApplied`, `ApplyRefused` | `applyPaidOrder` in its transaction |
| restore, activate | `RestoreAccess`, `Activate` | `restoreSubscriptionExpiredUser` before and in its last transaction |
| mark | `MarkOrderFulfilled` | `markOrderFulfilled` |
| ask, askClose, close, expire | `AlipayAnswers`, `AlipayCloses`, `CloseLocally`, `CloseExpired` | `queryAndReconcileAlipayOrder`, `closePendingAlipayOrder`, `closePendingOrderLocally`, the minute job |

Every worker may fail between two stages (`WorkerFails`: a crash, an aborted
transaction, an error of a remote call), and the database keeps what was
committed. An amount or seller that does not match is rejected before anything
is written and is left out. The refusal of an activation because the
subscription started after the restoration began is one of the failures.
`CreateOrder` is one step, since the account's advisory lock is held from the
search for an unpaid order to the store of the new one. So `OneLiveOrder` shows
what the search achieves against closings, expiries and earlier orders, and not
the race of two requests that the lock prevents.

`OrderLedger` says what billing promises, with no handlers and no protocol: an
order is opened, may lapse, is collected when money was really taken, and a
collected order is granted or refused, once. The refinement mapping reads the
standing of an order off its status and `applied`, and the collected orders off
`trade` and the orders an administrator renewed by hand.

### Suspension

The same account one level deeper: the members one by one. `authorised` are the
members the controller lets in, together with the cache column of
`network_members`, which the code writes after each call; `snapshots` are the
`SubscriptionSuspensionSnapshot` rows with `suspendedAt` and `restoredAt` as
flags. A worker is at one step of `suspendExpiredSubscription` (`PrepareSuspension`,
`ListUnfinished`, `Deauthorise`, `Stamp`) or `restoreSubscriptionExpiredUser`
(`CheckAccount`, `GatherSnapshots`, `Recheck`, `Authorise`, `StampBack`,
`ActivateAccount`, `RollBack`, `Unstamp`). Only the minute job suspends; every
worker restores.

A controller call that fails may still have been carried out (a lost answer), a
snapshot write may fail, a worker may crash, and a request of the owner that was
admitted before the suspension may reach the controller after it; all of these
count in `faults`. `unfulfilled` is the paid order whose access is not restored
yet, one at a time; marking it is merged into the last step of the restoration.

### PlanetTransaction and PlanetSwitch

A planet is four things that have to change together: the file `planet`, the
folder `zt-mkworld` with the signing keys, `local.conf`, and rows of the
database. `planet`, `world` and `conf` are the live files, `pending`,
`prevPlanet` and `prevWorld` the files the journal names, `staged` the folder a
request prepares, `journal` the journal file with its phase, `marker` the file
that remembers an owed restart. `holder` holds the lifecycle lock and is at
`step`; `app` is the stage of the process.

| Actions | Code |
|---|---|
| `TakeLock`, `Reconcile`, `Return` | `withPlanetLifecycleLock`, `reconcilePlanetTransaction` |
| `SnapshotKeys` | `snapshotPlanetSigningKeys`, under a first hold of the lock |
| `Begin`, `Refuse` | the checks of `activatePreparedPlanet` and `restoreOriginalPlanet`, `ensureOriginalPlanetBackup` |
| `WriteJournal` .. `MarkCommitted` | the file operations, journal writes and commit of both |
| `RemoveConf` .. `DropJournal` | `rollbackPlanetTransaction` |
| `CompleteCleanup`, `Completed` | `completePlanetTransaction` |
| `StartProcess` .. `ClearRestartRequired` | `register`, `runPlanetStartupRecovery`, `restartZeroTier` |
| `ThrowIn...`, `LoseCommitReply`, `MkworldFails`, `Crash` | a failing call, a commit whose answer is lost, the end of the process between any two steps |

`PlanetSwitch` is what a caller may rely on: one value, replaced at once. The
refinement mapping is `Active`, the state a reader is left with once an open
journal is resolved: the files on disk when the journal would be rolled forward,
and the files it would put back otherwise. It is assumed that a commit which
outlives its client settles before the next holder reads the rows.

### PlanetLock

The lock file of `planetFiles.ts` and the gate file that serialises whoever
creates, reclaims or removes it. A file is an inode number; `at` maps the two
paths to inodes, `owner` and `old` are a file's metadata and whether its lease is
over, `fd`, `seen` and `aside` what a process holds open, has judged and has
renamed away.

| Actions | Code |
|---|---|
| `Create`, `WriteMetadata` | `createControlFile`: the file exists before its content |
| `GateExists`, `TimeOut` | `acquireGate` |
| `AssertGate`, `Look`, `LockExists` | `acquirePlanetFileLock` |
| `Rename`, `Judge` | `quarantineStaleControlFile` |
| `Remove`, `Take`, `Drop` | `removeOwnedControlFile` |
| `Finish`, `Heartbeat` | `releasePlanetFileLock`, the timer of the lock |
| `Age`, `Die` | time, and a process that dies at any stage |

### MemberCache and LiveMembers

One network. `ctl` is the controller's configuration of each member with its
revision, `db` the row; a reconcile (`live` for the guarded one, `cron` for the
backstop) is at a step `at` with what it has read in `revs`, `rows` and
`details`. A user's operation is a `task` of up to three calls.

| Actions | Code |
|---|---|
| `ListRevisions`, `ReadRows`, `FetchDetail`, `AddRow`, `CacheDetail`, `RemoveOrphans`, `Report`, `Fail` | `reconcileNetworkMembers`, one action per call |
| `Backstop` | `updatePeers` of the minute job |
| `Ask` and `UpdateController` .. `DeleteRow` | `Update`, `stash`, `create`, `delete` of `memberRouter.ts` |
| `Unstash`, `BulkDelete` | `UpdateDatabaseOnly`, `bulkDeleteStashed` |
| `Acquire`, `Release`, `Fire`, `FinishRun`, `FailRun` | `SyncManager`: a tick waits for the run it shares, then sets a timer |
| `Subscribe`, `Granted`, `Denied`, `Unsubscribe`, `Disconnect` | the handlers of `pages/api/websocket/index.ts`, with the awaited access check |
| `LoadPage` | `getNetworkById`, which reconciles in the background |

Timers are counted (`armed`), and `handle` says whether the state of the network
still knows one of them; a tick begun for a state that was dropped is a `stray`.

### NetworkRoutes

One network. `live` are the routes on the controller, `row` says of each route
which row it has, so that a route that was removed and added again is told from
one that stayed; `page` is how far each load is and what it has read,
`mirroring` the transaction under way, `edit` the list an edit is about to send.
`once`, for the property only, are the rows whose route the controller has been
without.

| Actions | Code |
|---|---|
| `ReadRoutes`, `AskController`, `LoadFails`, `Compare` | `getNetworkById`: the rows, the controller, the comparison |
| `Commit`, `MirroringFails` | the transaction of `syncNetworkRoutes`, one at a time by `syncNetworkRoutesOnce` |
| `SendRoutes` | `managedRoutes` with a list, `easyIpAssignment` |
| `PrepareVia`, `PreparePools`, `Send`, `EditFails` | `managedRoutes` with a new via, `advancedIpAssignment`: the list is made, then sent |

### Registration

Accounts come from the form, from `POST /api/v1/user` (the same procedure inside
a transaction of its own) and from a login with OAuth. `users` are the accounts
with the request that made each and whether it was made the administrator,
`lock` the advisory lock, `snapshot` what the SERIALIZABLE transaction of a form
sees.

| Actions | Code |
|---|---|
| `Begin`, `TakeSnapshot`, `Decide`, `Refuse`, `Commit` | `authRouter.register`; the snapshot is taken by its first statement, before that has waited for the lock |
| `RestLock`, `RestCount`, `RestDecide`, `RestCommit` | `pages/api/v1/user`, READ COMMITTED |
| `HookSettings`, `HookCount`, `HookStored` | `databaseHooks.user.create.before` of `lib/auth.ts` |
| `Abandon` | a refusal for a reason left out, an error, the end of the process |
| `SetRegistration`, `DeleteInvitation` | administrators |

A form fails to serialize when its snapshot misses the account of another form:
PostgreSQL guarantees that between SERIALIZABLE transactions, and between no
others.

### Organization

One organization. `accounts` are the users there are and `registered` those there
have ever been. `role` are the `userOrganizationRole` rows and `members` the
relation of users, two tables that are meant to say the same thing; every
procedure writes them together, but `createUser` writes one after the other, and
`halfway` remembers for whom that did not come to its end while they were
members. `owner` is a column without a foreign key. `home` is the `network` row (its author, `Org`, or no
row) and `controller` the networks that exist on the controller. `call` is what
each call of a procedure does next, and `todo` what a deletion still has to
delete; `had` remembers what it had listed, for the property only.

| Actions | Code |
|---|---|
| `AskAdd`/`AddUser`, `AskRole`/`ChangeUserRole`, `AskLeave`/`Leave` | `addUser`, `changeUserRole`, `leave`: the checks, then the write |
| `AskInvite`/`InviteUserByMail`, `DeleteInvite`, `AskRedeem`/`Redeem`/`ClearInvites` | `inviteUserByMail`, `deleteInvite`, `preValidateUserInvite` |
| `AskRegister`/`Register`, `SignUp` | `authRouter.register` with an invitation of the organization (`validateOrganizationToken`, then one transaction); an account that comes about otherwise |
| `AskCreateUser`/`CreateUser`/`Connect`/`Enrol` | `adminRoute.createUser`: the account, the membership and the role, each written by itself |
| `AskNetwork`/`Provision`/`Attach` | `createOrgNetwork`: controller first, row afterwards |
| `AskAssign`/`AssignNetwork`, `AskTransfer`/`TransferNetwork` | `unlinkedNetwork` with `assignNetworkToUser`, `transferNetworkOwnership` |
| `AskDelete`/`Forget`/`Erase` | `networkRouter.deleteNetwork`: access check, controller, row |
| `AskDeleteOrg`/`ListNetworks`/`Purge`/`Forget`/`EraseNext`/`DeleteOrg` | `deleteOrg`, which calls `deleteNetwork` for each network it has listed |
| `AskDeleteUser`/`ListAuthored`/`Empty`/`DeleteUser`, `ChangeRole` | `adminRoute.deleteUser`, `changeRole` |
| `Throws` | a failing call at any step, or the end of the process |

`Allowed` is `checkUserOrganizationRole` and `Access` is `checkNetworkAccess`.
What the database does by itself is part of the actions: a nested write is
atomic, a primary key refuses a second role, and a deletion cascades. `createOrg`
and the rows of a single statement need no steps. A user is both an id and an
address here: an id never comes back, and an address is not used again after its
account was deleted.

### Pricing

Operators on integers, one per function of `billing/orders.ts`. They have no
state and no run; `PricingProofs` proves what is claimed of them.

## 4 Runs

| Run | Instance | States | Shows |
|---|---|---|---|
| `quota` | 3 requests, limits {1, 2}, lifetime 1, instants 0..2 | 309 393 | `QuotaRespected` and `SlotsComeBack` |
| `orders` | 2 orders, 2 levels, 1 handler and the minute job, 2 payloads, term and deadline 1, instants 0..1 | 1 996 211 | `EntitlementMatchesOrder`, `RecordedPaymentKept`, `OneLiveOrder` |
| `ledger` | 1 order, instants 0..2 | 112 703 | `NoAccessAfterExpiry`, `ImplementsLedger`, `PaymentSettled` |
| `downgrade` | 2 orders | - | violates `NoPaidDowngrade` in 13 steps |
| `access` | 1 member, 1 handler and the minute job, instants 0..2, 1 fault; 2 people, 2 networks, 3 calls | 287 502 | `ExpiredIsOff`, `StampedIsOff`, `SuspensionEnds`, `AccessReturns`; `OwnerBelongs`, `NothingForgotten` |
| `overtaken` | 1 member, instants 0..3, no fault | - | violates `AllDeauthorised` |
| `deadend` | 1 member, 1 fault | - | violates `RetryPossible` |
| `reactivation` | 1 member, no fault | - | violates `NotReactivatedWhilePending` in 22 states |
| `planet` | a generated planet, an import with keys, a reset, 3 faults, 2 attempts at startup | 190 972 | `NothingLeftBehind`, `RestartRemembered`, `SwitchesAtomically`, `SuccessIsInstalled`, `RecoveryFinishes` |
| `locks` | 2 processes, 5 inodes, 1 death, 1 lapse; 2 forms, 1 creation by REST, 1 login with OAuth | 565 637 | `MutualExclusion`, `ConfirmedOwnerKeepsLock`, `OrphansAreReclaimed`; `FirstAlone`, `SomeoneAdministers`, `InvitationsAreCounted` |
| `members` | 1 member, 1 administrator, 2 sockets, five budgets; 2 routes, 2 loads, 1 edit at a time | 208 409 | `ViewersAreCounted`, `LoopSurvives`, `LoopStops`, `ViewIsHealed`; `OnlyDeadRowsGo`, `RoutesConverge` |
| `viewerleak` | 2 sockets | - | violates `LastViewerStopsLoop` |

Why the bounds are enough for the cases that matter.

- Quota: the race over the limit needs a request that reserves, one that takes
  its slot after the expiry and one more; two limits let the entitlement shrink
  and grow; with lifetime 1 and three instants a reservation expires during its
  own controller call and a decision is taken with an old instant.
- Orders: the races are between at most two workers on one order, and between
  two orders of different level. Payloads are two because recording a third
  meets the same rows as the second. The two handlers of the server that could
  race with each other are represented by one handler and the minute job, which
  runs the same stages. Orders and payloads are interchangeable, levels are
  not: symmetry is used for the former, and only in the safety run.
- Ledger: three instants, so that a subscription that was renewed can expire
  again while a restoration is under way.
- Suspension: three instants are what a second expiry during a restoration needs.
  One member, because the loops take members one by one and what is asked for is
  asked of each; that a loop has several, and that one may fail after another
  succeeded, is covered by the theorems. Two members without a fault (1 250 000
  states) and two handlers (4 900 000) pass as well. `overtaken` needs a fourth
  instant, for a third expiry.
- Organization: two people, because a conflict is between whoever acts and
  whoever is acted upon, and either may be an administrator of the organization,
  of the server, or both. Two networks, so that a deletion can get through the
  first and fail at the second, or be overtaken by one created meanwhile. Three
  calls, so that a deletion which was cut short can be followed by others. Calls
  are numbered as they arrive; a behaviour begins before the organization exists
  or with the second person as its administrator, outside it, or still without an
  account, to be created, invited or signed up. The three calls then suffice for
  an administrator who puts out or admits whom `createUser` is at. `part` says
  whether a behaviour of the run is about this or about a suspension, which share
  no state.
- Planet: a roll-back that is itself interrupted and then interrupted again at
  startup needs three faults. The two activations commit rows of the same
  identity, which is the harder case: only then an interrupted commit cannot be
  told from a finished one.
- Planet lock: two processes, as when a container is replaced while its
  predecessor still runs. With seven inodes no further state is reached.
- Routes: a direct route and one with the same target by way of a gateway, so
  that pools and a new via move between the two; two loads, so that one can take
  the result of the other; two edits, so that a route can go and come back during
  a load, or one edit and a failure. Three row identities are one more than a
  behaviour ever has in use of one route.
- Registration: every race is between two requests. Three forms (906 000 states)
  pass as well. The two locks share no state: `part` says which of the two a
  behaviour of the run is about.
- Members: one member, because rows of different members never meet, except in
  the loop that stores them one by one. A budget says how often users operate,
  devices join, calls fail, the backstop runs and sockets ask: (2,1,0,0,1),
  (1,1,0,1,1), (0,1,2,0,1), (0,0,1,0,3) and (4,0,0,0,1). Wider budgets,
  (2,1,0,1,1) and (4,1,0,0,1), pass as well and take minutes. The five never let
  a member that was deleted join again, (4,1,0,0,1) does. There is one
  administrator: with two `ViewIsHealed` fails, see below. `ViewersAreCounted`
  finds a count that is too low; one that is too high keeps a loop alive, which
  is what `LastViewerStopsLoop` and `viewerleak` are about.

All names `Max...` are bounds of the instances. `MaxClock` stops the clock and
`MaxFaults` the failures; nothing else in the models knows of them, except that
a term in `Suspension` ends at `MaxClock + 1` at the latest, beyond the clock.

### Fairness

- `NetworkQuota`: weak fairness of the clock and of the clean-up. Requests owe
  nothing, so the property holds for crashed ones.
- `BillingOrders`: weak fairness of a worker's next stage (the event loop goes
  on), strong fairness of the minute job taking each paid order and of Alipay
  repeating the notification until one payload was recorded (it repeats them
  for a day unless answered `success`, which `notify.ts` sends after recording);
  weak fairness of the retry of a suspension; failures come to an end.
  Strong fairness is right for the minute job because it takes the paid orders
  in turn and is idle between two of them; the limit of 100 orders per pass is
  not modelled.
- `Suspension`: weak fairness of each worker, strong fairness of the minute job
  reaching an expired subscription and an order that is still PAID. Customers,
  owners, administrators and the clock owe nothing.
- `PlanetTransaction`: weak fairness of the holder's next step, of recovery and
  of startup. A stopped process is started again: `restart: unless-stopped`,
  `docker-compose.yml:41`. Requests and faults owe nothing.
- `PlanetLock`: a living process takes its next step, and files grow old. A
  process need not want the lock, and need not die.
- `LiveMembers`: timers fire, a run that has begun goes on, requests are served.
  Viewers, users and devices owe nothing.
- `NetworkRoutes`: an open page is loaded again every minute at the latest
  (`pages/network/[id].tsx:77`), and a load and a transaction come to their end.
  Users owe nothing, but their edits come to an end.
- `Registration` and `Organization` claim safety only and have no fairness.

Deadlock is switched off where the bounded clock lets the system come to a
stop; it is checked everywhere else.

## 5 What was found

1. `downgrade`: whether an order lowers the plan is decided when its payment is
   recorded and not when it is applied. An order left PAID by a crash is applied
   by the minute job over a higher plan bought meanwhile.
2. `deadend`: once an administrator suspends an account with a pending snapshot,
   the minute job skips it (`SKIPPED_MANUAL`), and payment, plan assignment and
   activation all refuse because of the snapshot or of the expired
   subscription. The advice to retry after the expiration check leads nowhere.
3. `reactivation`: a roll-back clears `restoredAt` of a row that a second expiry
   has reset. The row is pending again, although another restoration has found
   none pending, and the account becomes active.
4. `overtaken`: an expiry that crosses a restoration leaves a row that is stamped
   restored after its suspension was reset. The next expiry takes it neither for
   unfinished nor for a new cycle (`billing/suspension.ts:314-315`) and passes over
   the member: the account is suspended, and the member stays on the controller.
5. `viewerleak`: a socket that closes while its access check is awaited is
   counted afterwards, and nothing releases the count.

Also met while modelling, and excluded by name from properties rather than
hidden:

- `AccessReturns` excludes a pending snapshot. With one, and a renewed
  subscription that is not expired, nothing ever finishes the snapshot: the
  minute job retries only expired subscriptions. The paying customer waits until
  the new term runs out.
- `ExpiredIsOff` and `StampedIsOff` are stated for histories without failed or
  late calls; with one they are false, because nothing reads the controller back.
  `ExpiredIsOff` leaves out the rows of `overtaken` (`Overtaken`).
- That a customer gets back every member is not claimed: an administrator who
  suspends during the expiry and activates after a new plan leaves the snapshots
  unrestored, and two restorations, one of which rolls back, can leave a member
  off on an active account.
- The comment at `billing/suspension.ts:344` says members are deauthorised before
  the account is disabled; the code disables the account first.
- A second payload that arrives after a later upgrade sets FAILED on an order
  that is already applied (`billing/service.ts:111`), and `markOrderFulfilled`
  may write over it. The money is not granted twice, but the row may ask for a
  refund of service that was given.
- Registration. The form takes its snapshot with its first statement, which then
  waits for the advisory lock. If `POST /api/v1/user`, which found no account,
  holds that lock and commits an administrator, the form decides on the older
  snapshot and commits a second one. `authRouter.ts:158-159` promises "one atomic
  decision": `OneFirstAdministrator` states it and fails, `FirstAlone` is what
  holds.
- Planet lock. A waiter moves the gate away, judges it and puts it back
  (`quarantineStaleControlFile`). If it dies in between, the gate of a process at
  work is gone and the next waiter makes another: of two processes, two deaths
  let an owner lose its lock file, and three deaths, or one and three lapses,
  bring two inside; with three processes one death is enough. Each change of a
  file is still fenced by `assertPlanetLockOwnership`. A waiter can put back the file of a
  process that has given up (`Stranded`): lifecycle operations are then blocked
  until that process ends.
- Planet. When the rows an import commits equal the rows there are, a failed
  commit is rolled forward, although `planetFiles.ts:1357-1358` says "A failed
  database commit restores all prior files".
- Members. With two administrators on one member `ViewIsHealed` fails: the older
  write-through can land after the newer change was reconciled, and then the row
  has the current revision and the older configuration. Nothing in the code
  passes `full: true`, which `memberService.ts:424-425` offers for that. A row
  shown again after its permanent deletion is listed and skipped by every
  reconcile. Drift cleanup deletes a row that was stashed since the rows were
  read, and a member made by `create` before its device joined.
- Routes. A new via is made of the rows and not of the controller's routes
  (`PrepareVia`): a row that is behind sends back a route that was removed, or
  drops one that was added. Every edit sends the whole list, so of two edits the
  later one wins. The note on a route is lost when the route is removed and added
  again, also if a load that had read in between mirrors it afterwards. Assigning
  pools keeps one route of every other target.
- Two loops of one network can run after a viewer leaves and another comes during
  a run, although `syncManager.ts:16-17` says a loop "can never overlap itself";
  the in-flight guard keeps the reconciles apart. The backstop is outside the
  guard.
- `cronTasks.ts:421` returns, instead of going on, at the first inactive user
  without a network: the backstop does not reach the users after that one.
- Organization. `NothingForgotten` leaves out a network that comes to the
  organization after `deleteOrg` has listed its networks
  (`organizationRouter.ts:209`), or to an account after `deleteUser` has
  (`adminRoute.ts:355`): the cascade takes its row, and it goes on running. A
  network that is gone from the controller and still has its row (the process
  ended between the two, or the page named the wrong owner) makes `deleteOrg` and
  `deleteUser` throw every time, because listing its members does.
  `assignNetworkToUser` takes a network that another call is about to attach, and
  gives it to the caller whatever `userId` says.
- An organization can lose its administrators: two of them remove or demote each
  other, and an owner who was demoted on the server can be deleted, since
  `Organization.ownerId` is no reference. In the same way two administrators of
  the server can demote each other. `OwnerBelongs` claims the owner only as long
  as the account exists, and no particular role for the owner.
- `createUser` (`adminRoute.ts:512-528`) connects the new account to the
  organization and writes its role afterwards, outside a transaction. A crash in
  between leaves a member without a role, whom `addUser` can still admit. If an
  administrator kicks the account in between, the role is written all the same:
  it passes `checkUserOrganizationRole`, but neither `leave` nor a kick removes
  it ("User not found in organization.", `organizationRouter.ts:1088-1091`), nor
  can it be added as a member. TLC reaches both; `OwnerBelongs` leaves out those
  in `halfway` and claims that nothing else makes the two tables differ.
- `deleteInvite` and the cascade of `deleteOrg` remove the link of an invitation
  and leave the invitation; `preValidateUserInvite` looks the token up without
  the link. A withdrawn invitation still admits, and `ClearInvites` does not
  clear it, so that it admits again after a kick.
- Pricing. `manualRenew` (`billingAdminRouter.ts:297-324`) stores the price of the
  plan's own term with the months that were granted. A year granted of a plan of
  10.00 a month counts as 10.00 a year when an upgrade to 20.00 a month is priced,
  and the upgrade asks about 19.17 instead of 10.00 a month. The price of an
  upgrade is fixed when the order is made; another paid order that is applied
  before it lengthens the term whose difference was paid.

## 6 Proofs

All theorems are for arbitrary sets of requests, orders, levels, payloads,
handlers, members, processes, sockets, routes and people, any lifetime, term,
clock bound and number of faults, from the named ASSUMEs of the modules (finitely
many requests and members; positive lifetime, term and deadline; natural limits
and levels; members are taken in an order; the minute job is no handler; the
values that stand for "none" are fresh). The one restriction is that of mutual
exclusion below, and it is written into its theorem.

- `NetworkQuotaProofs`. `QuotaRespected` is not inductive. `QuotaInv` adds: rows
  are finitely many; a decision's instant is never in the future, so rows that
  are live at `clock` are live at the instant that was counted with; the
  history variables dominate the entitlement; a request without a reservation id
  was admitted while unlimited. Lemmas about cardinalities show that filtering by
  a later instant only removes rows and that a grant adds one. Theorems
  `QuotaInvariant`, `TypeCorrect`, `QuotaSafe`.
- `BillingOrdersProofs`. `EntitlementMatchesOrder` needs to know that a worker
  about to restore or mark has an applied order, that an order which is still
  PENDING or CLOSED was never applied, and that a worker which records knows of
  a real payment. `OrdersInv` is the conjunction of `UnappliedUntilPaid`,
  `TradeHasOrder`, `PaidIsCollected` and `WorkIsBacked` with the property and the
  types; its proof has one lemma per action. Theorems `OrdersInvariant`,
  `OrdersTypeCorrect`, `EntitlementOnce`. Under
  `OrdersInv` every step of `BillingOrders` is a step of `OrderLedger` or leaves
  it unchanged: `LedgerImplemented`. `RecordedPaymentKept` and
  `NoAccessAfterExpiry` follow step by step from what a worker has read;
  `OneLiveOrder` needs that an order with a passed deadline stays passed, and
  that no two orders are PENDING and within their deadline.
- `SuspensionProofs`. Neither property is inductive: between the controller call
  and the stamp a member is on or off and no row says so. `SuspInv` says that as
  long as no call has failed, a member that is on while the account is suspended
  has a row that is not stamped, or is in the list of a restoration that has not
  come to take it off again (`OnIsKnown`), and that a member about to be stamped
  is off or in such a list (`StampIsTrue`). A restoration that gives the account
  back ends the claim, one that does not empties its list. Theorems `TypeCorrect`,
  `SuspensionInvariant`, `ExpiredAreOff`, `StampedAreOff`; the first also says
  that no worker is at a member when it has none left.
- `PlanetTransactionProofs`. The invariant says for each step of the holder, and
  for each phase of the journal when there is no holder, which of the live,
  pending and previous files exist and whose they are. `Active` is then the state
  before or after the transaction, and every step leaves it unchanged or is the
  commit. Theorems `NothingIsLeft`, `RestartIsRemembered`, `ActivationIsAtomic`
  (the refinement of `PlanetSwitch`), `SuccessInstalls`.
- `NetworkPageProofs`. Viewers are counted one by one (cardinality lemmas); the
  loop survives because a tick that waits has a run to wait for, and a run that
  ends sets the timers of all that wait. `MembersTyped` needs that what a
  reconcile has left to store it has fetched. For the routes: a row without a
  route now, a row a load found without one, and a row a mirroring deletes have
  all been without one since they exist (`RowsInv`), although the mirroring may be
  another load's; that is `OnlyDeadRowsGo`.
- `LocksProofs`, the planet's lock. For any number of processes an open file is
  open once and is the file of one path (`FilesInv`), which gives the types. For
  two processes, `GateIsHeld`: whoever is at the lock file, or about to remove the
  gate, finds the gate in place, or the other one has it aside and will put it
  back; so nobody replaces the lock file while another is entering
  (`NobodyEnters`), and who created it finds it in place (`LockIsHeld`). This
  needs that the one with the gate aside does put it back, and `TwoSpec` excludes
  exactly the death there. `TwoExclude` and `OwnerKeepsLock` are for any
  number of deaths elsewhere, of lapses and of inodes, where the run has one
  death, anywhere, and one lapse.
- `LocksProofs`, registration. `AdminInv` says what a request that has decided knew: it
  holds the lock, or its snapshot is older than a creation by REST only. `CountInv`
  ties `timesUsed` to the forms that are done. For any number of requests.
- `OrganizationProofs`. `OwnerBelongs` needs what a call knows at each of its
  steps: the user about to leave is not the owner, nor is the one `createUser` is
  connecting, whose account is younger than its caller's (`OwnerIsWhole`); networks with a row have been
  given out by the controller, and a network a deletion is done with, or whose row it is about to drop,
  has just left the controller, where an id never comes back. `OrgInv` is the
  conjunction with the types; the lemmas are one per action. `OrgTypeCorrect`,
  `OwnerStays`, `NetworksAreFound`, for any number of people, networks and calls.
- `PricingProofs`. Amounts are read back as they were written, the fee is the
  nearest cent, the upgrade price covers the difference by less than a cent and
  falls with time, months keep the day, renewals reach no farther than one
  purchase. An order asks for the price of the terms, for an upgrade to a dearer
  plan the difference over the rest of the term up to the next cent, and the
  nearest fee on both, and for nothing else (`AmountsAddUp`).

Model-checked only: the liveness properties (`SlotsComeBack`, `PaymentSettled`,
`SuspensionEnds`, `AccessReturns`, `RecoveryFinishes`, `OrphansAreReclaimed`,
`LoopStops`, `ViewIsHealed`, `RoutesConverge`), since fairness and ENABLED are
outside the prover's reach, and the two exclusions of `PlanetLock` for the one
death while the gate is aside. Every other invariant and action property of a
passing run has its theorem, and so has the refinement of `OrderLedger` and of
`PlanetSwitch`.

## 7 Not modelled

- Amounts, fees and calendar months inside `BillingOrders`: a term is a number of
  clock units there, and `Pricing` has the arithmetic. The two are not composed.
- Signatures and parsing of Alipay's messages: only a verified message is an
  action.
- The batch limit of the minute job, deleted members, and the legacy expiry of
  accounts without a subscription.
- The network that stays on the controller when the second quota check refuses:
  nothing in the code reads it back.
- The content of planets and archives, and the validation of paths.
- Names, addresses, tags and notations of members, and webhooks.
- Two-factor codes, sessions and API tokens; expired invitations are refusals
  (`Abandon`).
- Messages, webhooks, settings and notification templates of organizations;
  several organizations, which share accounts and nothing else.
- The notes on routes other than by the row they are in; pools, DNS and flow rules
  of networks, backups, system update, user interface, installers: single
  statements, single remote calls, library or shell code; the reason is given
  with each component in `PROJECT.json`.

## 8 Running

    tlc -config NetworkQuotaMC.cfg NetworkQuotaMC
    tlc -config BillingOrdersMC.cfg BillingOrdersMC
    tlc -config BillingLedgerMC.cfg BillingOrdersMC
    tlc -config BillingDowngrade.cfg BillingOrdersMC
    tlc -config AccessMC.cfg AccessMC
    tlc -config SuspensionOvertaken.cfg SuspensionMC
    tlc -config SuspensionDeadEnd.cfg SuspensionMC
    tlc -config SuspensionReactivation.cfg SuspensionMC
    tlc -config PlanetTransactionMC.cfg PlanetTransactionMC
    tlc -config LocksMC.cfg LocksMC
    tlc -config NetworkPageMC.cfg NetworkPageMC
    tlc -config LiveMembersLeak.cfg LiveMembersMC
    tlapm NetworkQuotaProofs.tla
    tlapm BillingOrdersProofs.tla
    tlapm SuspensionProofs.tla
    tlapm PlanetTransactionProofs.tla
    tlapm LocksProofs.tla
    tlapm NetworkPageProofs.tla
    tlapm OrganizationProofs.tla
    tlapm PricingProofs.tla

Operators introduced as a "seeded fault" are broken variants of the definition
that follows them. Putting one in the place of the original must make TLC report
the property that guards against it; `PROJECT.json` lists the pairs.
