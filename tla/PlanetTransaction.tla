------------------------- MODULE PlanetTransaction -------------------------
(***************************************************************************)
(* The journaled planet transaction of src/src/server/planetFiles.ts with  *)
(* the handlers that start it (adminRoute.ts makeWorld and resetWorld,     *)
(* pages/api/mkworld/config.ts importWorld) and the recovery at startup    *)
(* (planetStartupRecovery.ts, instrumentation.ts).                         *)
(*                                                                         *)
(* A planet is four things that must change together: the file "planet",   *)
(* the folder "zt-mkworld" with the signing keys, local.conf, and the rows *)
(* of the database.  Every file operation is a step of its own: between    *)
(* any two the process may die (Crash) or the second may throw (Throw).    *)
(* The lifecycle lock appears here as "holder": PlanetLock is its model.   *)
(***************************************************************************)
EXTENDS Naturals, FiniteSets

CONSTANTS Activation,  \* requests that generate or import a planet
          Reset,       \* requests that restore the original planet
          WithKeys,    \* imports whose archive holds a signing key pair
          DbId,        \* activation |-> identity of the rows it commits
          Orig, DefaultConf, NoRows, None,
          Boot,        \* the startup recovery, as a holder of the lock
          Attempts,    \* tries of a startup task before the process gives up
          MaxFaults    \* bound: crashes and failing steps of a behaviour

Request == Activation \cup Reset

ASSUME RequestsAssumption ==
  /\ Activation \cap Reset = {} /\ WithKeys \subseteq Activation
  /\ None \notin Request /\ Boot \notin Request /\ Orig \notin Request
  /\ DefaultConf \notin Request /\ None \notin {Orig, DefaultConf, Boot}
ASSUME BoundsAssumption == Attempts \in Nat \ {0} /\ MaxFaults \in Nat

Planets == Request \cup {Orig, None}
WorldFolders == [by : Activation, keys : Activation \cup {None}]
Worlds == WorldFolders \cup {None}
Confs == Activation \cup {DefaultConf, None}
Rows == {DbId[r] : r \in Activation} \cup {NoRows}
Phases == {"prepared", "files_installed", "database_commit_started",
           "database_committed"}
JournalFiles == [by : Request, phase : Phases, hadWorld : BOOLEAN,
                 hadPlanet : BOOLEAN, conf : Confs, target : Rows]
Journals == JournalFiles \cup {None}

ASSUME NoneAssumption == None \notin WorldFolders /\ None \notin JournalFiles

(* The steps of a holder of the lock, in the order the code takes them.    *)
OperationSteps == {"journal", "copy", "moveWorld", "installWorld", "movePlanet",
                   "installPlanet", "markInstalled", "ports", "markStarted",
                   "commit", "markCommitted"}
RollbackSteps == {"removeConf", "writeConf", "removePlanet", "returnPlanet",
                  "removeWorld", "returnWorld", "rollbackCleanup", "dropJournal"}
CompleteSteps == {"completeCleanup", "completed"}
Steps == {"idle", "reconcile", "operate"} \cup OperationSteps
           \cup RollbackSteps \cup CompleteSteps

VARIABLES
  planet, world, conf, backup,       \* the live files and the original's backup
  pending, prevPlanet, prevWorld,    \* files the journal names
  staged,                            \* request |-> its .zt-mkworld-* folder
  journal,                           \* .ztnet-planet-transaction.json
  db,                                \* identity of the committed planet rows
  marker,                            \* .ztnet-planet-restart-required exists
  owed,                              \* startup recovery changed what ZeroTier read
  app,                               \* stage of the process
  tries,                             \* failed tries of the startup task
  pc, expected,                      \* request |-> stage, signing state it saw
  holder, step, after,               \* the lock's holder, its step, its caller
  faults

files == <<planet, world, conf, pending, prevPlanet, prevWorld>>
disk == <<files, backup, staged, journal, marker>>
boot == <<marker, owed, app, tries>>
reqs == <<pc, expected, staged>>
lock == <<holder, step, after>>
vars == <<files, backup, staged, journal, db, marker, owed, app, tries, pc,
          expected, holder, step, after, faults>>

TypeOK ==
  /\ planet \in Planets /\ world \in Worlds /\ conf \in Confs
  /\ backup \in {Orig, None}
  /\ pending \in Planets /\ prevPlanet \in Planets /\ prevWorld \in Worlds
  /\ staged \in [Activation -> Worlds]
  /\ journal \in Journals /\ db \in Rows
  /\ marker \in BOOLEAN /\ owed \in BOOLEAN
  /\ app \in {"down", "inspect", "mark", "recover", "restart", "clear", "serving"}
  /\ tries \in 0..Attempts
  /\ pc \in [Request -> {"snapshot", "apply", "done", "failed"}]
  /\ expected \in [Activation -> Activation \cup {None}]
  /\ holder \in Request \cup {Boot, None}
  /\ step \in Steps /\ after \in {"operate", "throw", "finish"}
  /\ faults \in 0..MaxFaults

(* A server whose administrator has, or has not, a planet file and a       *)
(* local.conf, and may have removed the planet after it was backed up.     *)
Init ==
  /\ planet \in {Orig, None} /\ conf \in {DefaultConf, None}
  /\ backup \in {Orig, None}
  /\ world = None /\ pending = None /\ prevPlanet = None /\ prevWorld = None
  /\ staged = [r \in Activation |-> None]
  /\ journal = None /\ db = NoRows
  /\ marker = FALSE /\ owed = FALSE /\ app = "inspect" /\ tries = 0
  /\ pc = [r \in Request |-> IF r \in Reset THEN "apply" ELSE "snapshot"]
  /\ expected = [r \in Activation |-> None]
  /\ holder = None /\ step = "idle" /\ after = "operate" /\ faults = 0

----------------------------------------------------------------------------
(* The steps of whoever holds the lock.                                    *)

Keys(w) == IF w = None THEN None ELSE w.keys
By == journal.by
Target(r) == IF r \in Reset THEN NoRows ELSE DbId[r]

At(s) == holder # None /\ step = s
Go(s) == step' = s /\ UNCHANGED <<holder, after>>
Release == holder' = None /\ step' = "idle" /\ after' = "operate"
Ends(r, outcome) == Release /\ pc' = [pc EXCEPT ![r] = outcome]
(* The handlers remove their staging folder in a "finally" unless the      *)
(* activation returned.                                                    *)
Discard(r) == staged' = IF r \in Activation THEN [staged EXCEPT ![r] = None] ELSE staged

TakeLock(r) ==
  /\ app = "serving" /\ holder = None /\ pc[r] \in {"snapshot", "apply"}
  /\ holder' = r /\ step' = "reconcile" /\ after' = "operate"
  /\ UNCHANGED <<disk, db, owed, app, tries, pc, expected, faults>>

\* Mutant: the caller of a reconciled operation is told of a success.
ReturnDone ==
  CASE after = "operate" /\ holder # Boot ->
         Go("operate") /\ UNCHANGED <<pc, staged, app, tries>>
    [] after \in {"throw", "finish"} ->
         Ends(holder, "done") /\ UNCHANGED <<staged, app, tries>>
    [] OTHER ->
         Release /\ app' = "restart" /\ tries' = 0 /\ UNCHANGED <<pc, staged>>

(* What happens once a reconciliation is over: the operation begins, the   *)
(* error that led to it is rethrown, or startup goes on to its restart.    *)
Return ==
  CASE after = "operate" /\ holder # Boot ->
         Go("operate") /\ UNCHANGED <<pc, staged, app, tries>>
    [] after = "throw" ->
         Ends(holder, "failed") /\ Discard(holder) /\ UNCHANGED <<app, tries>>
    [] after = "finish" ->
         Ends(holder, "done") /\ UNCHANGED <<staged, app, tries>>
    [] OTHER ->
         Release /\ app' = "restart" /\ tries' = 0 /\ UNCHANGED <<pc, staged>>

\* Mutant: only the last phase counts as committed.
RollsForwardLast == journal.phase = "database_committed"

(* The current state of the database decides an interrupted commit.        *)
RollsForward ==
  \/ journal.phase = "database_committed"
  \/ journal.phase = "database_commit_started" /\ db = journal.target

Reconcile ==
  /\ At("reconcile")
  /\ IF journal = None
       THEN Return
       ELSE /\ Go(IF RollsForward THEN "completeCleanup" ELSE "removeConf")
            /\ UNCHANGED <<pc, staged, app, tries>>
  /\ UNCHANGED <<files, backup, journal, db, marker, owed, expected, faults>>

Touched == owed' = (owed \/ holder = Boot)

(* The entry actions leave everything but the named files alone.           *)
FileStep(s, next) ==
  /\ At(s) /\ Go(next)
  /\ UNCHANGED <<backup, db, marker, app, tries, pc, expected, faults>>
OwnStep(s, next) == FileStep(s, next) /\ UNCHANGED owed

RemoveConf ==
  /\ FileStep("removeConf", "writeConf") /\ Touched
  /\ conf' = None
  /\ UNCHANGED <<planet, world, pending, prevPlanet, prevWorld, staged, journal>>
WriteConf ==
  /\ FileStep("writeConf", "removePlanet") /\ Touched
  /\ conf' = journal.conf
  /\ UNCHANGED <<planet, world, pending, prevPlanet, prevWorld, staged, journal>>
RemovePlanet ==
  /\ FileStep("removePlanet", "returnPlanet") /\ Touched
  /\ planet' = IF prevPlanet # None \/ ~journal.hadPlanet THEN None ELSE planet
  /\ UNCHANGED <<world, conf, pending, prevPlanet, prevWorld, staged, journal>>
ReturnPlanet ==
  /\ FileStep("returnPlanet", "removeWorld") /\ Touched
  /\ planet' = IF prevPlanet # None THEN prevPlanet ELSE planet
  /\ prevPlanet' = None
  /\ UNCHANGED <<world, conf, pending, prevWorld, staged, journal>>
RemoveWorld ==
  /\ FileStep("removeWorld", "returnWorld") /\ Touched
  /\ world' = IF prevWorld # None \/ ~journal.hadWorld THEN None ELSE world
  /\ UNCHANGED <<planet, conf, pending, prevPlanet, prevWorld, staged, journal>>
ReturnWorld ==
  /\ FileStep("returnWorld", "rollbackCleanup") /\ Touched
  /\ world' = IF prevWorld # None THEN prevWorld ELSE world
  /\ prevWorld' = None
  /\ UNCHANGED <<planet, conf, pending, prevPlanet, staged, journal>>
RollbackCleanup ==
  /\ FileStep("rollbackCleanup", "dropJournal") /\ Touched
  /\ pending' = None /\ prevPlanet' = None /\ prevWorld' = None
  /\ Discard(By)
  /\ UNCHANGED <<planet, world, conf, journal>>
(* Both outcomes are verified before the journal goes; a mismatch throws.  *)
RolledBack == /\ conf = journal.conf
              /\ (planet # None) = journal.hadPlanet
              /\ (world # None) = journal.hadWorld
Installed == planet # None /\ (world # None) = (By \in Activation)
Verified == /\ step = "dropJournal" => RolledBack
            /\ step = "completeCleanup" => Installed
DropJournal ==
  /\ At("dropJournal") /\ Verified
  /\ journal' = None /\ Return /\ Touched
  /\ UNCHANGED <<files, backup, db, marker, expected, faults>>

\* Mutant: the replaced world folder is not removed.
CleanupKeepsWorld ==
  /\ FileStep("completeCleanup", "completed") /\ Touched /\ Verified
  /\ pending' = None /\ prevPlanet' = None
  /\ Discard(By)
  /\ UNCHANGED <<planet, world, conf, prevWorld, journal>>

CompleteCleanup ==
  /\ FileStep("completeCleanup", "completed") /\ Touched
  /\ Verified
  /\ pending' = None /\ prevPlanet' = None /\ prevWorld' = None
  /\ Discard(By)
  /\ UNCHANGED <<planet, world, conf, journal>>
Completed ==
  /\ At("completed")
  /\ journal' = None /\ Return /\ Touched
  /\ UNCHANGED <<files, backup, db, marker, expected, faults>>

----------------------------------------------------------------------------
(* The handlers.                                                           *)

(* Under the lock: copy the active keys to the staging folder if it has    *)
(* none, and remember which keys were active.  Until the second call takes *)
(* the lock the folder is this request's own: ztmkworld makes the planet   *)
(* there, and a key pair if it still finds none.                           *)
SnapshotKeys(r) ==
  /\ At("operate") /\ holder = r /\ pc[r] = "snapshot"
  /\ expected' = [expected EXCEPT ![r] = Keys(world)]
  /\ staged' = [staged EXCEPT ![r] =
       [by |-> r, keys |-> IF r \in WithKeys \/ world = None THEN r ELSE Keys(world)]]
  /\ Ends(r, "apply")
  /\ UNCHANGED <<files, backup, journal, db, boot, faults>>

\* Mutant: the backup of the original planet is taken every time.
BeginAlwaysBackup(r) ==
  /\ At("operate") /\ holder = r /\ pc[r] = "apply"
  /\ IF r \in Activation
       THEN Keys(world) = expected[r] /\ (backup # None \/ planet # None)
       ELSE backup # None
  /\ backup' = IF planet # None THEN planet ELSE backup
  /\ Go("journal")
  /\ UNCHANGED <<files, staged, journal, db, boot, pc, expected, faults>>

(* Checks made before anything changes, and the original's backup.         *)
Begin(r) ==
  /\ At("operate") /\ holder = r /\ pc[r] = "apply"
  /\ IF r \in Activation
       THEN Keys(world) = expected[r] /\ (backup # None \/ planet # None)
       ELSE backup # None
  /\ backup' = IF backup = None THEN planet ELSE backup
  /\ Go("journal")
  /\ UNCHANGED <<files, staged, journal, db, boot, pc, expected, faults>>
Refuse(r) ==
  /\ At("operate") /\ holder = r /\ pc[r] = "apply"
  /\ \/ r \in Activation /\ Keys(world) # expected[r]
     \/ backup = None /\ (r \in Reset \/ planet = None)
  /\ Ends(r, "failed") /\ Discard(r)
  /\ UNCHANGED <<files, backup, journal, db, boot, expected, faults>>

WriteJournal ==
  /\ OwnStep("journal", "copy")
  /\ journal = None
  /\ journal' = [by |-> holder, phase |-> "prepared", hadWorld |-> world # None,
                 hadPlanet |-> planet # None, conf |-> conf,
                 target |-> Target(holder)]
  /\ UNCHANGED <<files, staged>>
CopyPlanet ==
  /\ OwnStep("copy", "moveWorld")
  /\ pending' = IF By \in Activation THEN By ELSE backup
  /\ UNCHANGED <<planet, world, conf, prevPlanet, prevWorld, staged, journal>>
MoveWorld ==
  /\ OwnStep("moveWorld", IF By \in Activation THEN "installWorld" ELSE "movePlanet")
  /\ prevWorld' = world /\ world' = None
  /\ UNCHANGED <<planet, conf, pending, prevPlanet, staged, journal>>
InstallWorld ==
  /\ OwnStep("installWorld", "movePlanet")
  /\ world' = staged[By] /\ staged' = [staged EXCEPT ![By] = None]
  /\ UNCHANGED <<planet, conf, pending, prevPlanet, prevWorld, journal>>
MovePlanet ==
  /\ OwnStep("movePlanet", "installPlanet")
  /\ prevPlanet' = planet /\ planet' = None
  /\ UNCHANGED <<world, conf, pending, prevWorld, staged, journal>>
InstallPlanet ==
  /\ OwnStep("installPlanet", "markInstalled")
  /\ planet' = pending /\ pending' = None
  /\ UNCHANGED <<world, conf, prevPlanet, prevWorld, staged, journal>>
Mark(s, phase, next) ==
  /\ OwnStep(s, next)
  /\ journal' = [journal EXCEPT !.phase = phase]
  /\ UNCHANGED <<files, staged>>
MarkInstalled == Mark("markInstalled", "files_installed", "ports")
UpdatePorts ==
  /\ OwnStep("ports", "markStarted")
  /\ conf' = IF By \in Activation THEN By ELSE DefaultConf
  /\ UNCHANGED <<planet, world, pending, prevPlanet, prevWorld, staged, journal>>
MarkStarted == Mark("markStarted", "database_commit_started", "commit")
CommitDatabase ==
  /\ At("commit") /\ Go("markCommitted")
  /\ db' = Target(holder)
  /\ UNCHANGED <<disk, owed, app, tries, pc, expected, faults>>
(* The transaction is over for its caller: what is left is cleanup whose   *)
(* failure is only logged.                                                 *)
MarkCommitted ==
  /\ At("markCommitted")
  /\ journal' = [journal EXCEPT !.phase = "database_committed"]
  /\ step' = "completeCleanup" /\ after' = "finish" /\ UNCHANGED holder
  /\ UNCHANGED <<files, staged, backup, db, boot, pc, expected, faults>>

Operation == \/ WriteJournal \/ CopyPlanet \/ MoveWorld \/ InstallWorld
             \/ MovePlanet \/ InstallPlanet \/ MarkInstalled \/ UpdatePorts
             \/ MarkStarted \/ CommitDatabase \/ MarkCommitted
Recovery == \/ Reconcile \/ RemoveConf \/ WriteConf \/ RemovePlanet
            \/ ReturnPlanet \/ RemoveWorld \/ ReturnWorld \/ RollbackCleanup
            \/ DropJournal \/ CompleteCleanup \/ Completed

----------------------------------------------------------------------------
(* Startup: register() runs before the first request is served.            *)

StartProcess ==
  /\ app = "down" /\ app' = "inspect" /\ tries' = 0
  /\ UNCHANGED <<disk, db, owed, reqs, lock, faults>>

\* Mutant: the marker of an earlier start is not looked for.
InspectJournalOnly ==
  /\ app = "inspect" /\ app' = IF journal # None THEN "mark" ELSE "serving"
  /\ UNCHANGED <<disk, db, owed, tries, reqs, lock, faults>>

Inspect ==
  /\ app = "inspect"
  /\ app' = IF journal # None THEN "mark" ELSE IF marker THEN "restart" ELSE "serving"
  /\ UNCHANGED <<disk, db, owed, tries, reqs, lock, faults>>

\* Mutant: recovery starts before the marker is written.
MarkNothing ==
  /\ app = "mark" /\ app' = "recover"
  /\ UNCHANGED <<disk, db, owed, tries, reqs, lock, faults>>

MarkRestartRequired ==
  /\ app = "mark" /\ app' = "recover" /\ marker' = TRUE
  /\ UNCHANGED <<files, backup, journal, db, owed, tries, reqs, lock, faults>>
Recover ==
  /\ app = "recover" /\ holder = None
  /\ holder' = Boot /\ step' = "reconcile" /\ after' = "operate"
  /\ UNCHANGED <<disk, db, owed, app, tries, reqs, faults>>
RestartZeroTier ==
  /\ app = "restart" /\ app' = "clear" /\ owed' = FALSE
  /\ UNCHANGED <<disk, db, tries, reqs, lock, faults>>
ClearRestartRequired ==
  /\ app = "clear" /\ app' = "serving" /\ marker' = FALSE
  /\ UNCHANGED <<files, backup, journal, db, owed, tries, reqs, lock, faults>>

Startup == \/ StartProcess \/ Inspect \/ MarkRestartRequired \/ Recover
           \/ RestartZeroTier \/ ClearRestartRequired

----------------------------------------------------------------------------
(* Faults.                                                                 *)

Begun(r) == holder = r \/ (r \in Activation /\ pc[r] = "apply")
Fault == faults < MaxFaults /\ faults' = faults + 1
(* A startup task is tried Attempts times, then the process stops.         *)
RetryOrStop ==
  IF tries + 1 < Attempts THEN tries' = tries + 1 /\ UNCHANGED app
                          ELSE app' = "down" /\ tries' = 0

(* A step of the operation throws: the catch block reconciles.             *)
ThrowInOperation ==
  /\ Fault /\ holder # None /\ step \in OperationSteps
  /\ step' = "reconcile" /\ after' = "throw" /\ UNCHANGED holder
  /\ UNCHANGED <<disk, db, owed, app, tries, pc, expected>>
(* The commit throws although the database carried it out.                 *)
LoseCommitReply ==
  /\ Fault /\ At("commit") /\ db' = Target(holder)
  /\ step' = "reconcile" /\ after' = "throw" /\ UNCHANGED holder
  /\ UNCHANGED <<disk, owed, app, tries, pc, expected>>
(* A step of the reconciliation throws: the journal stays.  The caller     *)
(* logs it after an operation, fails before one, and retries at startup.   *)
ThrowInRecovery ==
  /\ holder # None /\ IF Verified THEN Fault ELSE UNCHANGED faults
  /\ step \in RollbackSteps \cup CompleteSteps \cup {"reconcile"}
  /\ CASE holder = Boot -> Release /\ RetryOrStop /\ UNCHANGED <<pc, staged>>
       [] holder # Boot /\ after = "finish" ->
            Ends(holder, "done") /\ UNCHANGED <<staged, app, tries>>
       [] OTHER ->
            Ends(holder, "failed") /\ Discard(holder) /\ UNCHANGED <<app, tries>>
  /\ UNCHANGED <<files, backup, journal, db, marker, owed, expected>>
ThrowInStartup ==
  /\ Fault /\ app \in {"inspect", "mark", "restart", "clear"}
  /\ IF app = "restart" THEN RetryOrStop ELSE app' = "down" /\ UNCHANGED tries
  /\ UNCHANGED <<disk, db, owed, reqs, lock>>
(* ztmkworld fails.                                                        *)
MkworldFails(r) ==
  /\ Fault /\ app = "serving" /\ pc[r] = "apply" /\ holder # r
  /\ pc' = [pc EXCEPT ![r] = "failed"] /\ Discard(r)
  /\ UNCHANGED <<files, backup, journal, db, boot, expected, lock>>
(* The process dies, and with it the requests it had begun and its hold of *)
(* the lock.  A commit the database had received may still be carried out. *)
Crash ==
  /\ Fault /\ app # "down" /\ app' = "down" /\ tries' = 0
  /\ pc' = [r \in Request |-> IF Begun(r) THEN "failed" ELSE pc[r]]
  /\ db' \in {db} \cup (IF At("commit") THEN {Target(holder)} ELSE {})
  /\ Release
  /\ UNCHANGED <<disk, owed, expected>>

Faults == \/ ThrowInOperation \/ LoseCommitReply \/ ThrowInRecovery
          \/ ThrowInStartup \/ (\E r \in Activation : MkworldFails(r)) \/ Crash

----------------------------------------------------------------------------
Held(r) == Begin(r) \/ Refuse(r) \/ (r \in Activation /\ SnapshotKeys(r))
Next == \/ Operation \/ Recovery \/ Startup \/ Faults
        \/ \E r \in Request : TakeLock(r) \/ Held(r)

(* The lock's holder runs its code to the end and a stopped process is     *)
(* started again (docker-compose.yml:41 restart: unless-stopped).          *)
Fairness == WF_vars(Operation \/ Recovery \/ Startup \/ \E r \in Request : Held(r))
Spec == Init /\ [][Next]_vars /\ Fairness

----------------------------------------------------------------------------
(* The state a reader is left with once any open journal is resolved.      *)
Before == [planet |-> IF prevPlanet # None THEN prevPlanet
                      ELSE IF journal.hadPlanet THEN planet ELSE None,
           world |-> IF prevWorld # None THEN prevWorld
                     ELSE IF journal.hadWorld THEN world ELSE None,
           conf |-> journal.conf, db |-> db]
OnDisk == [planet |-> planet, world |-> world, conf |-> conf, db |-> db]
Active == IF journal = None \/ RollsForward THEN OnDisk ELSE Before

(* Files and rows change together: however a transaction is interrupted,   *)
(* what recovery makes of the disk is the state before it or the state     *)
(* after it, the new keys continue the old ones, and nothing but a commit  *)
(* moves between the two (planetFiles.ts:1356-1360).                       *)
Switch == INSTANCE PlanetSwitch WITH active <- Active
SwitchesAtomically == Switch!Spec

(* Without a journal there is nothing left of a transaction: no half       *)
(* installed planet, and no folder with the replaced private keys.         *)
NothingLeftBehind ==
  journal = None => pending = None /\ prevPlanet = None /\ prevWorld = None

(* A request is answered with success only in a step after which its own   *)
(* planet, keys and rows are the active ones, whatever failed on the way.  *)
SuccessIsInstalled ==
  [][\A r \in Request : pc[r] # "done" /\ pc'[r] = "done" =>
       /\ Active'.planet = IF r \in Reset THEN Orig ELSE r
       /\ Active'.db = Target(r)]_vars

(* A startup recovery that touched the files of a running ZeroTier is      *)
(* followed by its restart even if the process dies in between: until then *)
(* the marker is on disk (planetStartupRecovery.ts:233-234).               *)
RestartRemembered == owed => marker

(* A process that went down comes back to serve with the transaction       *)
(* resolved and ZeroTier restarted (instrumentation.ts:39-88).             *)
RecoveryFinishes ==
  app = "down" ~> app = "serving" /\ journal = None /\ ~marker /\ ~owed
=============================================================================
