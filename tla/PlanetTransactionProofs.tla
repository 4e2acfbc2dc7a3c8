----------------------- MODULE PlanetTransactionProofs -----------------------
(***************************************************************************)
(* The planet transaction implements PlanetSwitch, for any requests, any   *)
(* number of failing steps and crashes, and any identities of the rows.    *)
(*                                                                         *)
(* The argument: while a journal is open, what a roll-back would restore   *)
(* ("Before") is not changed by any step, forward or backward, because a   *)
(* file is moved aside before it is replaced and the journal tells whether *)
(* there was one.  Before the commit everything the request brings is in   *)
(* place, so a commit moves from Before to the new state at once.          *)
(***************************************************************************)
EXTENDS PlanetTransaction, TLAPS

(* What a request makes of the server.                                     *)
NewPlanet(r) == IF r \in Activation THEN r ELSE Orig
NewWorld(r, w) ==
  IF r \in Activation THEN [by |-> r, keys |-> Switch!KeysAfter(r, w)] ELSE None
NewConf(r) == IF r \in Activation THEN r ELSE DefaultConf

-----------------------------------------------------------------------------
(* The parts of the inductive invariant.                                   *)

\* The lock has a holder while there is a step; the startup recovery only
\* recovers; after a throw nothing but the reconciliation follows.
LockInv ==
  /\ holder = None <=> step = "idle"
  /\ holder = Boot => /\ app = "recover" /\ after = "operate"
                      /\ step \notin OperationSteps \cup {"operate"}
  /\ after = "throw" => step \notin OperationSteps \cup {"operate"}
  /\ after = "finish" => step \in CompleteSteps

\* The marker is on disk from before the recovery to after the restart.
RestartInv ==
  /\ RestartRemembered
  /\ app = "recover" => marker
  /\ app = "clear" => ~owed

\* Without a journal nothing is left of a transaction.  With one, the request
\* that wrote it holds the lock, or is over.
JournalInv ==
  IF journal = None
    THEN /\ pending = None /\ prevPlanet = None /\ prevWorld = None
         /\ step \in {"idle", "reconcile", "operate", "journal"}
    ELSE /\ step \notin {"operate", "journal"}
         /\ backup = Orig /\ journal.target = Target(By)
         /\ prevWorld # None => journal.hadWorld
         /\ prevPlanet # None => journal.hadPlanet
         /\ IF holder = By THEN after # "operate" \/ step \in OperationSteps
                           ELSE pc[By] \in {"done", "failed"}

\* The original's backup is taken before anything is replaced.
BackupInv == backup = None => planet \in {Orig, None} /\ step # "journal"

\* The phase of the journal at each step, and what the recovery has done.
PhaseInv ==
  /\ step \in OperationSteps \ {"journal"} => holder = By
  /\ step \in {"copy", "moveWorld", "installWorld", "movePlanet", "installPlanet",
               "markInstalled"} => journal.phase = "prepared"
  /\ step \in {"ports", "markStarted"} => journal.phase = "files_installed"
  /\ step \in {"commit", "markCommitted"} => journal.phase = "database_commit_started"
  /\ step = "markCommitted" => db = journal.target
  /\ step \in RollbackSteps => ~RollsForward
  /\ step \in CompleteSteps => RollsForward
  /\ step \in {"removeWorld", "returnWorld", "rollbackCleanup", "dropJournal"}
       => prevPlanet = None
  /\ step \in {"rollbackCleanup", "dropJournal"} => prevWorld = None
  /\ step = "dropJournal" => pending = None
  /\ step = "completed" => pending = None /\ prevPlanet = None /\ prevWorld = None

\* What was there is in its place, then moved aside.
AsideInv ==
  /\ step \in {"copy", "moveWorld"}
       => prevWorld = None /\ journal.hadWorld = (world # None)
  /\ step \in {"installWorld", "movePlanet", "installPlanet", "markInstalled",
               "ports", "markStarted", "commit"}
       => journal.hadWorld = (prevWorld # None)
  /\ step \in {"copy", "moveWorld", "installWorld", "movePlanet"}
       => prevPlanet = None /\ journal.hadPlanet = (planet # None)
  /\ step \in {"installPlanet", "markInstalled", "ports", "markStarted", "commit"}
       => journal.hadPlanet = (prevPlanet # None)

\* What the request brings is staged, then in its place.
InstallInv ==
  /\ step = "journal" /\ holder \in Activation
       => staged[holder] = NewWorld(holder, world)
  /\ step \in {"copy", "moveWorld"} /\ By \in Activation
       => staged[By] = NewWorld(By, world)
  /\ step = "installWorld" => By \in Activation /\ staged[By] = NewWorld(By, prevWorld)
  /\ step \in {"movePlanet", "installPlanet", "markInstalled", "ports",
               "markStarted", "commit"} => world = NewWorld(By, prevWorld)
  /\ step \in {"moveWorld", "installWorld", "movePlanet", "installPlanet"}
       => pending = NewPlanet(By)
  /\ step \in {"markInstalled", "ports", "markStarted", "commit", "markCommitted"}
       => planet = NewPlanet(By)
  /\ step \in {"markStarted", "commit"} => conf = NewConf(By)
  /\ after = "finish" => /\ planet = NewPlanet(By) /\ db = Target(By)
                         /\ holder = By /\ journal.phase = "database_committed"

\* A world folder has keys, and the folder of a request that is about to apply
\* has those it copied or made.
KeysInv ==
  /\ world # None => world.keys # None
  /\ prevWorld # None => prevWorld.keys # None
  /\ \A r \in Activation : staged[r] # None => staged[r].keys # None
  /\ \A r \in Activation :
       pc[r] = "apply" /\ (journal = None \/ By # r) =>
         staged[r] = [by |-> r, keys |-> IF r \in WithKeys \/ expected[r] = None
                                           THEN r ELSE expected[r]]

PlanetInv ==
  /\ TypeOK /\ LockInv /\ RestartInv /\ JournalInv /\ BackupInv
  /\ PhaseInv /\ AsideInv /\ InstallInv /\ KeysInv

-----------------------------------------------------------------------------
(* What the types give: the flags, and that None is not a folder or a      *)
(* journal.                                                                *)
LEMMA TypeFlags ==
    ASSUME TypeOK
    PROVE  marker \in BOOLEAN /\ owed \in BOOLEAN
  BY DEF TypeOK

LEMMA Types ==
    ASSUME TypeOK, journal # None
    PROVE  /\ journal \in JournalFiles /\ By \in Request /\ By # None /\ By # Boot
           /\ journal.phase \in Phases /\ journal.conf \in Confs /\ journal.target \in Rows
           /\ journal.hadWorld \in BOOLEAN /\ journal.hadPlanet \in BOOLEAN
  BY RequestsAssumption DEF TypeOK, Journals, JournalFiles, By

(* A journal that is marked with its next phase differs in nothing else.   *)
LEMMA Marked ==
    ASSUME TypeOK, journal # None, NEW phase \in Phases,
           journal' = [journal EXCEPT !.phase = phase]
    PROVE  /\ journal' \in JournalFiles /\ journal' # None /\ journal'.phase = phase
           /\ journal'.by = journal.by /\ journal'.conf = journal.conf
           /\ journal'.target = journal.target
           /\ journal'.hadWorld = journal.hadWorld
           /\ journal'.hadPlanet = journal.hadPlanet
  <1>1. journal \in JournalFiles
    BY Types
  <1>2. journal' \in JournalFiles
    BY <1>1 DEF JournalFiles
  <1>. QED
    BY <1>1, <1>2, NoneAssumption DEF JournalFiles

(* The end of a reconciliation.                                            *)
LEMMA Returned ==
    ASSUME TypeOK, LockInv, holder # None, Return
    PROVE  /\ pc' \in [Request -> {"snapshot", "apply", "done", "failed"}]
           /\ staged' \in [Activation -> Worlds]
           /\ app' \in {"down", "inspect", "mark", "recover", "restart", "clear", "serving"}
           /\ tries' \in 0..Attempts
           /\ holder' \in Request \cup {Boot, None}
           /\ step' \in {"idle", "operate"} /\ after' \in {"operate", "throw", "finish"}
  <1>1. CASE after = "operate" /\ holder # Boot
    BY <1>1 DEF Return, TypeOK, Go
  <1>2. CASE after = "throw"
    <2>1. holder \in Request
      BY <1>2 DEF LockInv, TypeOK
    <2>2. pc' \in [Request -> {"snapshot", "apply", "done", "failed"}]
      BY <1>2, <2>1, Zenon DEF Return, TypeOK, Ends
    <2>. QED
      BY <1>2, <2>1, <2>2 DEF Return, TypeOK, Ends, Release, Discard, Worlds
  <1>3. CASE after = "finish"
    <2>1. holder \in Request
      BY <1>3 DEF LockInv, TypeOK
    <2>. QED
      BY <1>3, <2>1 DEF Return, TypeOK, Ends, Release
  <1>4. CASE after = "operate" /\ holder = Boot
    BY <1>4, BoundsAssumption DEF Return, TypeOK, Release
  <1>. QED
    BY <1>1, <1>2, <1>3, <1>4 DEF TypeOK

(* What the end of a reconciliation may do to the requests: the one it was *)
(* made for ends, the folder of no other is touched.                       *)
LEMMA ReturnKeeps ==
    ASSUME TypeOK, LockInv, holder # None, Return
    PROVE  /\ \A r \in Activation : staged'[r] \in {staged[r], None}
           /\ \A r \in Activation : pc'[r] = "apply" =>
                pc[r] = "apply" /\ staged'[r] = staged[r]
           /\ after # "operate" => pc'[holder] \in {"done", "failed"}
           /\ \A r \in Request : pc[r] \in {"done", "failed"} => pc'[r] \in {"done", "failed"}
  <1>1. CASE after = "operate"
    BY <1>1 DEF Return, Release, Go
  <1>2. CASE after = "throw"
    <2>1. holder \in Request
      BY <1>2 DEF LockInv, TypeOK
    <2>. QED
      BY <1>2, <2>1, RequestsAssumption DEF Return, TypeOK, Ends, Discard, Request
  <1>3. CASE after = "finish"
    <2>1. holder \in Request
      BY <1>3 DEF LockInv, TypeOK
    <2>. QED
      BY <1>3, <2>1, RequestsAssumption DEF Return, TypeOK, Ends, Request
  <1>. QED
    BY <1>1, <1>2, <1>3 DEF TypeOK

LEMMA ReturnKeys ==
    ASSUME PlanetInv, holder # None, Return, journal # None, journal' = None,
           step \notin OperationSteps, UNCHANGED <<world, prevWorld, expected>>
    PROVE  KeysInv'
  <1>1. TypeOK /\ LockInv /\ KeysInv
    BY DEF PlanetInv
  <1>2. pc'[By] # "apply"
    <2>1. CASE holder = By
      BY <1>1, <2>1, ReturnKeeps DEF PlanetInv, JournalInv
    <2>2. CASE holder # By
      BY <1>1, <2>2, Types, ReturnKeeps DEF PlanetInv, JournalInv
    <2>. QED
      BY <2>1, <2>2
  <1>3. \A r \in Activation : staged'[r] # None => staged'[r].keys # None
    BY <1>1, ReturnKeeps DEF KeysInv
  <1>4. ASSUME NEW r \in Activation, pc'[r] = "apply"
        PROVE  staged'[r] = [by |-> r, keys |-> IF r \in WithKeys \/ expected[r] = None
                                                 THEN r ELSE expected[r]]
    <2>1. pc[r] = "apply" /\ staged'[r] = staged[r]
      BY <1>1, <1>4, ReturnKeeps
    <2>2. By # r
      BY <1>2, <1>4
    <2>. QED
      BY <1>1, <2>1, <2>2 DEF KeysInv
  <1>. QED
    BY <1>1, <1>3, <1>4, Zenon DEF KeysInv

-----------------------------------------------------------------------------
(* The parts of the invariant at the steps that disturb them most.         *)
LEMMA ReconcileKeepsTypes == ASSUME PlanetInv, Reconcile PROVE TypeOK'
  <1>1. TypeOK /\ LockInv /\ holder # None
    BY DEF PlanetInv, Reconcile, At
  <1>2. CASE journal = None
    <2>1. Return /\ UNCHANGED <<files, backup, journal, db, marker, owed, expected, faults>>
      BY <1>2 DEF Reconcile
    <2>. QED
      BY <1>1, <2>1, Returned, Zenon DEF TypeOK, files, Steps
  <1>3. CASE journal # None
    <2>1. /\ step' \in {"completeCleanup", "removeConf"}
          /\ UNCHANGED <<files, backup, journal, db, marker, owed, expected, faults>>
          /\ UNCHANGED <<holder, after, pc, staged, app, tries>>
      BY <1>3 DEF Reconcile, Go
    <2>. QED
      BY <1>1, <2>1, Zenon DEF TypeOK, files, Steps, RollbackSteps, CompleteSteps
  <1>. QED
    BY <1>2, <1>3

LEMMA DropJournalKeepsTypes == ASSUME PlanetInv, DropJournal PROVE TypeOK'
  <1>1. /\ TypeOK /\ LockInv /\ holder # None /\ Return /\ journal' = None
        /\ owed' = (owed \/ holder = Boot)
        /\ UNCHANGED <<files, backup, db, marker, expected, faults>>
    BY DEF PlanetInv, DropJournal, At, Touched
  <1>. QED
    BY <1>1, Returned, Zenon DEF TypeOK, files, Steps, Journals

LEMMA DropJournalKeepsKeys == ASSUME PlanetInv, DropJournal PROVE KeysInv'
  <1>1. /\ holder # None /\ Return /\ journal' = None /\ UNCHANGED <<files, expected>>
        /\ step \notin OperationSteps
    BY DEF DropJournal, At, OperationSteps
  <1>2. journal # None
    BY DEF PlanetInv, JournalInv, DropJournal, At
  <1>. QED
    BY <1>1, <1>2, ReturnKeys DEF files

LEMMA CompletedKeepsTypes == ASSUME PlanetInv, Completed PROVE TypeOK'
  <1>1. /\ TypeOK /\ LockInv /\ holder # None /\ Return /\ journal' = None
        /\ owed' = (owed \/ holder = Boot)
        /\ UNCHANGED <<files, backup, db, marker, expected, faults>>
    BY DEF PlanetInv, Completed, At, Touched
  <1>. QED
    BY <1>1, Returned, Zenon DEF TypeOK, files, Steps, Journals

LEMMA CompletedKeepsKeys == ASSUME PlanetInv, Completed PROVE KeysInv'
  <1>1. /\ holder # None /\ Return /\ journal' = None /\ UNCHANGED <<files, expected>>
        /\ step \notin OperationSteps
    BY DEF Completed, At, OperationSteps
  <1>2. journal # None
    BY DEF PlanetInv, JournalInv, Completed, At
  <1>. QED
    BY <1>1, <1>2, ReturnKeys DEF files

LEMMA BeginKeepsTypes == ASSUME PlanetInv, NEW r \in Request, Begin(r) PROVE TypeOK'
  <1>1. backup' \in {Orig, None}
    BY DEF PlanetInv, TypeOK, BackupInv, Begin
  <1>. QED
    BY <1>1, Zenon DEF PlanetInv, TypeOK, Begin, Go, files, boot, Steps, OperationSteps

LEMMA BeginStages == ASSUME PlanetInv, NEW r \in Request, Begin(r) PROVE InstallInv'
  <1>1. /\ step = "operate" /\ holder = r /\ pc[r] = "apply" /\ step' = "journal"
        /\ UNCHANGED <<files, staged, journal, db, pc, expected, holder, after>>
        /\ r \in Activation => Keys(world) = expected[r]
    BY DEF Begin, At, Go
  <1>2. after # "finish"
    BY <1>1 DEF PlanetInv, LockInv, CompleteSteps
  <1>3. ASSUME r \in Activation
        PROVE  staged[r] = NewWorld(r, world)
    <2>1. journal = None
      BY <1>1 DEF PlanetInv, JournalInv
    <2>2. staged[r] = [by |-> r, keys |-> IF r \in WithKeys \/ expected[r] = None
                                            THEN r ELSE expected[r]]
      BY <1>1, <1>3, <2>1 DEF PlanetInv, KeysInv
    <2>3. world = None <=> expected[r] = None
      BY <1>1, <1>3 DEF PlanetInv, KeysInv, Keys
    <2>. QED
      BY <1>1, <1>3, <2>2, <2>3 DEF NewWorld, Switch!KeysAfter, Keys
  <1>. QED
    BY <1>1, <1>2, <1>3 DEF InstallInv, files

LEMMA WriteJournalKeepsJournal == ASSUME PlanetInv, WriteJournal PROVE JournalInv'
  <1>1. /\ step = "journal" /\ step' = "copy" /\ journal = None
        /\ journal' = [by |-> holder, phase |-> "prepared", hadWorld |-> world # None,
                       hadPlanet |-> planet # None, conf |-> conf, target |-> Target(holder)]
        /\ UNCHANGED <<files, backup, pc, holder, after>>
    BY DEF WriteJournal, OwnStep, FileStep, At, Go
  <1>2. holder \in Request
    BY <1>1 DEF PlanetInv, TypeOK, LockInv, OperationSteps
  <1>3. journal' \in JournalFiles
    BY <1>1, <1>2, Zenon DEF PlanetInv, TypeOK, JournalFiles, Phases, Target, Request, Rows
  <1>4. journal' # None /\ journal'.by = holder /\ journal'.target = Target(holder)
    BY <1>1, <1>3, NoneAssumption
  <1>5. pending = None /\ prevPlanet = None /\ prevWorld = None /\ backup = Orig
    BY <1>1 DEF PlanetInv, JournalInv, BackupInv, TypeOK
  <1>. QED
    BY <1>1, <1>4, <1>5, Zenon DEF JournalInv, files, By, Target, OperationSteps

LEMMA MoveWorldKeepsJournal == ASSUME PlanetInv, MoveWorld PROVE JournalInv'
  <1>1. /\ step = "moveWorld" /\ step' \in {"installWorld", "movePlanet"}
        /\ prevWorld' = world
        /\ UNCHANGED <<prevPlanet, backup, journal, pc, holder, after>>
    BY DEF MoveWorld, OwnStep, FileStep, At, Go
  <1>2. journal # None /\ (world # None => journal.hadWorld)
    BY <1>1 DEF PlanetInv, JournalInv, AsideInv
  <1>3. JournalInv
    BY DEF PlanetInv
  <1>. QED
    BY <1>1, <1>2, <1>3, Zenon DEF JournalInv, By, Target, OperationSteps

LEMMA MovePlanetKeepsJournal == ASSUME PlanetInv, MovePlanet PROVE JournalInv'
  <1>1. /\ step = "movePlanet" /\ step' = "installPlanet"
        /\ prevPlanet' = planet
        /\ UNCHANGED <<prevWorld, backup, journal, pc, holder, after>>
    BY DEF MovePlanet, OwnStep, FileStep, At, Go
  <1>2. journal # None /\ (planet # None => journal.hadPlanet)
    BY <1>1 DEF PlanetInv, JournalInv, AsideInv
  <1>3. JournalInv
    BY DEF PlanetInv
  <1>. QED
    BY <1>1, <1>2, <1>3, Zenon DEF JournalInv, By, Target, OperationSteps

LEMMA BackupKept == ASSUME PlanetInv, journal # None, UNCHANGED backup PROVE backup' # None
  BY RequestsAssumption DEF PlanetInv, JournalInv

LEMMA ReturnPlanetKeepsBackup == ASSUME PlanetInv, ReturnPlanet PROVE BackupInv'
  <1>1. journal # None
    BY DEF PlanetInv, JournalInv, ReturnPlanet, FileStep, At
  <1>. QED
    BY <1>1, BackupKept DEF ReturnPlanet, FileStep, BackupInv

LEMMA InstallPlanetKeepsBackup == ASSUME PlanetInv, InstallPlanet PROVE BackupInv'
  <1>1. journal # None
    BY DEF PlanetInv, JournalInv, InstallPlanet, OwnStep, FileStep, At
  <1>. QED
    BY <1>1, BackupKept DEF InstallPlanet, OwnStep, FileStep, BackupInv

LEMMA InstallWorldKeepsTypes == ASSUME PlanetInv, InstallWorld PROVE TypeOK'
  <1>1. By \in Activation
    BY DEF PlanetInv, InstallInv, InstallWorld, OwnStep, FileStep, At
  <1>2. world' \in Worlds /\ staged' \in [Activation -> Worlds]
    BY <1>1 DEF PlanetInv, TypeOK, InstallWorld, Worlds
  <1>. QED
    BY <1>2, Zenon DEF PlanetInv, TypeOK, InstallWorld, OwnStep, FileStep, Go, Steps, OperationSteps

LEMMA InstallWorldKeepsKeys == ASSUME PlanetInv, InstallWorld PROVE KeysInv'
  <1>1. /\ By \in Activation /\ journal # None
        /\ world' = staged[By] /\ staged' = [staged EXCEPT ![By] = None]
        /\ UNCHANGED <<prevWorld, journal, pc, expected>>
    BY DEF PlanetInv, InstallInv, JournalInv, InstallWorld, OwnStep, FileStep, At
  <1>2. KeysInv /\ staged \in [Activation -> Worlds]
    BY DEF PlanetInv, TypeOK
  <1>. QED
    BY <1>1, <1>2 DEF KeysInv, By

LEMMA MarkKeepsJournal ==
    ASSUME PlanetInv, journal # None, NEW phase \in Phases,
           journal' = [journal EXCEPT !.phase = phase],
           step' \notin {"operate", "journal"}, UNCHANGED <<files, backup, pc, holder>>,
           holder = By,
           after' # "operate" \/ step' \in OperationSteps
    PROVE  JournalInv'
  <1>1. /\ journal' # None /\ journal'.by = journal.by
        /\ journal'.target = journal.target
        /\ journal'.hadWorld = journal.hadWorld
        /\ journal'.hadPlanet = journal.hadPlanet
    BY Marked DEF PlanetInv
  <1>2. JournalInv
    BY DEF PlanetInv
  <1>. QED
    BY <1>1, <1>2, Zenon DEF JournalInv, By, files, Target

LEMMA MarkKeepsKeys ==
    ASSUME PlanetInv, journal # None, NEW phase \in Phases,
           journal' = [journal EXCEPT !.phase = phase],
           UNCHANGED <<files, staged, pc, expected>>
    PROVE  KeysInv'
  <1>1. journal' # None /\ journal'.by = journal.by
    BY Marked DEF PlanetInv
  <1>2. KeysInv
    BY DEF PlanetInv
  <1>. QED
    BY <1>1, <1>2, Zenon DEF KeysInv, By, files

(* The startup tasks and the failures.                                     *)
LEMMA StartProcessKeepsTypes == ASSUME PlanetInv, StartProcess PROVE TypeOK'
  <1>1. tries' \in 0..Attempts
    BY BoundsAssumption DEF StartProcess
  <1>. QED
    BY <1>1, Zenon DEF PlanetInv, TypeOK, StartProcess, disk, files, reqs, lock

LEMMA RestartKeepsTypes == ASSUME PlanetInv, RestartZeroTier PROVE TypeOK'
  BY Zenon DEF PlanetInv, TypeOK, RestartZeroTier, disk, files, reqs, lock
LEMMA ClearKeepsTypes == ASSUME PlanetInv, ClearRestartRequired PROVE TypeOK'
  BY Zenon DEF PlanetInv, TypeOK, ClearRestartRequired, files, reqs, lock

LEMMA Counted ==
    ASSUME TypeOK, Fault
    PROVE  faults' \in 0..MaxFaults
  BY BoundsAssumption DEF TypeOK, Fault

LEMMA ThrowInOperationKeepsTypes == ASSUME PlanetInv, ThrowInOperation PROVE TypeOK'
  <1>1. faults' \in 0..MaxFaults
    BY Counted DEF PlanetInv, ThrowInOperation
  <1>. QED
    BY <1>1, Zenon DEF PlanetInv, TypeOK, ThrowInOperation, disk, files, Steps

LEMMA LoseReplyKeepsTypes == ASSUME PlanetInv, LoseCommitReply PROVE TypeOK'
  <1>1. faults' \in 0..MaxFaults
    BY Counted DEF PlanetInv, LoseCommitReply
  <1>2. holder \in Request
    BY DEF PlanetInv, TypeOK, LockInv, LoseCommitReply, At, OperationSteps
  <1>3. db' \in Rows
    BY <1>2 DEF LoseCommitReply, Target, Request, Rows
  <1>. QED
    BY <1>1, <1>3, Zenon DEF PlanetInv, TypeOK, LoseCommitReply, disk, files, Steps

LEMMA ThrowInStartupKeepsTypes == ASSUME PlanetInv, ThrowInStartup PROVE TypeOK'
  <1>1. faults' \in 0..MaxFaults
    BY Counted DEF PlanetInv, ThrowInStartup
  <1>2. /\ tries' \in 0..Attempts
        /\ app' \in {"down", "inspect", "mark", "recover", "restart", "clear", "serving"}
    BY BoundsAssumption DEF PlanetInv, TypeOK, ThrowInStartup, RetryOrStop
  <1>. QED
    BY <1>1, <1>2, Zenon DEF PlanetInv, TypeOK, ThrowInStartup, disk, files, reqs, lock

LEMMA MkworldFailsKeepsTypes == ASSUME PlanetInv, NEW r \in Activation, MkworldFails(r) PROVE TypeOK'
  <1>1. faults' \in 0..MaxFaults
    BY Counted DEF PlanetInv, MkworldFails
  <1>2. /\ pc' \in [Request -> {"snapshot", "apply", "done", "failed"}]
        /\ staged' \in [Activation -> Worlds]
    BY DEF PlanetInv, TypeOK, MkworldFails, Discard, Worlds, Request
  <1>. QED
    BY <1>1, <1>2, Zenon DEF PlanetInv, TypeOK, MkworldFails, files, boot, lock

LEMMA CrashKeepsTypes == ASSUME PlanetInv, Crash PROVE TypeOK'
  <1>1. faults' \in 0..MaxFaults /\ tries' \in 0..Attempts
    BY Counted, BoundsAssumption DEF PlanetInv, Crash
  <1>2. pc' \in [Request -> {"snapshot", "apply", "done", "failed"}]
    BY DEF PlanetInv, TypeOK, Crash
  <1>3. db' \in Rows
    <2>1. CASE At("commit")
      <3>1. holder \in Request
        BY <2>1 DEF PlanetInv, TypeOK, LockInv, At, OperationSteps
      <3>. QED
        BY <2>1, <3>1 DEF PlanetInv, TypeOK, Crash, Target, Request, Rows
    <2>2. CASE ~At("commit")
      BY <2>2 DEF PlanetInv, TypeOK, Crash
    <2>. QED
      BY <2>1, <2>2
  <1>. QED
    BY <1>1, <1>2, <1>3, Zenon DEF PlanetInv, TypeOK, Crash, Release, disk, files, Steps

LEMMA ThrowInRecoveryKeepsTypes == ASSUME PlanetInv, ThrowInRecovery PROVE TypeOK'
  <1>1. faults' \in 0..MaxFaults
    BY Counted, Zenon DEF PlanetInv, ThrowInRecovery, TypeOK
  <1>2. /\ holder' = None /\ step' = "idle" /\ after' = "operate"
        /\ UNCHANGED <<files, backup, journal, db, marker, owed, expected>>
    BY Zenon DEF ThrowInRecovery, Ends, Release
  <1>3. /\ tries' \in 0..Attempts
        /\ app' \in {"down", "inspect", "mark", "recover", "restart", "clear", "serving"}
    BY BoundsAssumption DEF PlanetInv, TypeOK, ThrowInRecovery, RetryOrStop
  <1>4. /\ pc' \in [Request -> {"snapshot", "apply", "done", "failed"}]
        /\ staged' \in [Activation -> Worlds]
    <2>1. CASE holder = Boot
      BY <2>1 DEF PlanetInv, TypeOK, ThrowInRecovery
    <2>2. CASE holder # Boot
      <3>1. holder \in Request
        BY <2>2 DEF PlanetInv, TypeOK, ThrowInRecovery
      <3>. QED
        BY <2>2, <3>1 DEF PlanetInv, TypeOK, ThrowInRecovery, Ends, Discard, Worlds
    <2>. QED
      BY <2>1, <2>2
  <1>. QED
    BY <1>1, <1>2, <1>3, <1>4, Zenon DEF PlanetInv, TypeOK, files, Steps

LEMMA ThrowInRecoveryKeepsJournal == ASSUME PlanetInv, ThrowInRecovery PROVE JournalInv'
  <1>1. /\ holder # None /\ holder' = None /\ step' = "idle"
        /\ UNCHANGED <<files, backup, journal>>
    BY Zenon DEF ThrowInRecovery, Ends, Release
  <1>2. CASE journal = None
    BY <1>1, <1>2 DEF PlanetInv, JournalInv, files
  <1>3. CASE journal # None
    <2>1. pc'[By] \in {"done", "failed"}
      <3>1. CASE holder = By
        BY <1>3, <3>1, Types DEF PlanetInv, TypeOK, ThrowInRecovery, Ends
      <3>2. CASE holder # By
        <4>1. pc[By] \in {"done", "failed"}
          BY <1>3, <3>2 DEF PlanetInv, JournalInv
        <4>2. pc'[By] = pc[By] \/ pc'[By] \in {"done", "failed"}
          BY <1>3, Types DEF PlanetInv, TypeOK, ThrowInRecovery, Ends
        <4>. QED
          BY <4>1, <4>2
      <3>. QED
        BY <3>1, <3>2
    <2>2. By # None
      BY <1>3, Types DEF PlanetInv
    <2>3. JournalInv
      BY DEF PlanetInv
    <2>. QED
      BY <1>1, <1>3, <2>1, <2>2, <2>3, Zenon DEF JournalInv, files, By, Target
  <1>. QED
    BY <1>2, <1>3

LEMMA MarkInstalledKeepsJournal == ASSUME PlanetInv, MarkInstalled PROVE JournalInv'
  <1>1. /\ step = "markInstalled" /\ step' \in OperationSteps \ {"journal"}
        /\ journal' = [journal EXCEPT !.phase = "files_installed"]
        /\ UNCHANGED <<files, backup, pc, holder>>
    BY DEF MarkInstalled, Mark, OwnStep, FileStep, At, Go, OperationSteps
  <1>2. journal # None /\ holder = By
    BY <1>1 DEF PlanetInv, JournalInv, PhaseInv, OperationSteps
  <1>. QED
    BY <1>1, <1>2, MarkKeepsJournal DEF Phases, OperationSteps

LEMMA MarkInstalledKeepsKeys == ASSUME PlanetInv, MarkInstalled PROVE KeysInv'
  <1>1. journal # None
    BY DEF PlanetInv, JournalInv, MarkInstalled, Mark, OwnStep, FileStep, At
  <1>. QED
    BY <1>1, MarkKeepsKeys DEF MarkInstalled, Mark, OwnStep, FileStep, Phases

LEMMA MarkStartedKeepsJournal == ASSUME PlanetInv, MarkStarted PROVE JournalInv'
  <1>1. /\ step = "markStarted" /\ step' \in OperationSteps \ {"journal"}
        /\ journal' = [journal EXCEPT !.phase = "database_commit_started"]
        /\ UNCHANGED <<files, backup, pc, holder>>
    BY DEF MarkStarted, Mark, OwnStep, FileStep, At, Go, OperationSteps
  <1>2. journal # None /\ holder = By
    BY <1>1 DEF PlanetInv, JournalInv, PhaseInv, OperationSteps
  <1>. QED
    BY <1>1, <1>2, MarkKeepsJournal DEF Phases, OperationSteps

LEMMA MarkStartedKeepsKeys == ASSUME PlanetInv, MarkStarted PROVE KeysInv'
  <1>1. journal # None
    BY DEF PlanetInv, JournalInv, MarkStarted, Mark, OwnStep, FileStep, At
  <1>. QED
    BY <1>1, MarkKeepsKeys DEF MarkStarted, Mark, OwnStep, FileStep, Phases

LEMMA MarkCommittedKeepsJournal == ASSUME PlanetInv, MarkCommitted PROVE JournalInv'
  <1>1. /\ step = "markCommitted" /\ step' = "completeCleanup" /\ after' = "finish"
        /\ journal' = [journal EXCEPT !.phase = "database_committed"]
        /\ UNCHANGED <<files, backup, pc, holder>>
    BY DEF MarkCommitted, At
  <1>2. journal # None /\ holder = By
    BY <1>1 DEF PlanetInv, JournalInv, PhaseInv, OperationSteps
  <1>. QED
    BY <1>1, <1>2, MarkKeepsJournal DEF Phases

LEMMA MarkCommittedKeepsKeys == ASSUME PlanetInv, MarkCommitted PROVE KeysInv'
  <1>1. journal # None
    BY DEF PlanetInv, JournalInv, MarkCommitted, At
  <1>. QED
    BY <1>1, MarkKeepsKeys DEF MarkCommitted, Phases

-----------------------------------------------------------------------------
(* Each action keeps the invariant: the steps of a holder of the lock.     *)
LEMMA StepTakeLock ==
    ASSUME PlanetInv, NEW r \in Request, TakeLock(r)
    PROVE  PlanetInv'
  <1> USE DEF PlanetInv, TakeLock, disk, files
  <1>1. TypeOK' /\ RestartInv' /\ BackupInv' /\ PhaseInv' /\ AsideInv' /\
       InstallInv' /\ KeysInv'
    BY DEF TypeOK, Planets, Worlds, Confs, Journals, Rows, Request, Steps,
       WorldFolders, JournalFiles, OperationSteps, RollbackSteps,
       CompleteSteps, Phases, RestartInv, RestartRemembered, BackupInv,
       PhaseInv, By, RollsForward, AsideInv, InstallInv, NewWorld,
       NewPlanet, NewConf, Target, KeysInv
  <1>2. LockInv'
    BY RequestsAssumption, Zenon DEF LockInv, OperationSteps, CompleteSteps
  <1>3. JournalInv'
    BY RequestsAssumption, Zenon DEF JournalInv, Target, By,
       OperationSteps, TypeOK, Planets, Worlds, Confs, Journals, Rows,
       Request, Steps, WorldFolders, JournalFiles, RollbackSteps,
       CompleteSteps, Phases
  <1>. QED
    BY <1>1, <1>2, <1>3

LEMMA StepReconcile ==
    ASSUME PlanetInv, Reconcile
    PROVE  PlanetInv'
  <1> USE DEF PlanetInv, Reconcile, At, Return, Go, RollsForward, files,
     Ends, Discard, Release
  <1>1. TypeOK'
    BY ReconcileKeepsTypes
  <1>2. LockInv'
    BY RequestsAssumption, Zenon DEF LockInv, OperationSteps, CompleteSteps
  <1>3. RestartInv' /\ JournalInv' /\ BackupInv' /\ PhaseInv' /\ AsideInv' /\
       InstallInv'
    BY DEF RestartInv, RestartRemembered, JournalInv, Target, By,
       OperationSteps, BackupInv, PhaseInv, RollbackSteps, CompleteSteps,
       AsideInv, InstallInv, NewWorld, NewPlanet, NewConf
  <1>4. KeysInv'
    BY DEF KeysInv, By, TypeOK, Planets, Worlds, Confs, Journals, Rows,
       Request, Steps, WorldFolders, JournalFiles, OperationSteps,
       RollbackSteps, CompleteSteps, Phases
  <1>. QED
    BY <1>1, <1>2, <1>3, <1>4

(* The roll-back.                                                          *)
LEMMA StepRemoveConf ==
    ASSUME PlanetInv, RemoveConf
    PROVE  PlanetInv'
  <1> USE DEF PlanetInv, RemoveConf, FileStep, Touched, At, Go
  <1>1. TypeOK' /\ LockInv' /\ JournalInv' /\ BackupInv' /\ PhaseInv' /\
       AsideInv' /\ InstallInv' /\ KeysInv'
    BY DEF TypeOK, Planets, Worlds, Confs, Journals, Rows, Request, Steps,
       WorldFolders, JournalFiles, OperationSteps, RollbackSteps,
       CompleteSteps, Phases, LockInv, JournalInv, Target, By, BackupInv,
       PhaseInv, RollsForward, AsideInv, InstallInv, NewWorld, NewPlanet,
       NewConf, KeysInv
  <1>2. RestartInv'
    BY RequestsAssumption, Zenon DEF RestartInv, RestartRemembered,
       LockInv, OperationSteps, CompleteSteps
  <1>. QED
    BY <1>1, <1>2

LEMMA StepWriteConf ==
    ASSUME PlanetInv, WriteConf
    PROVE  PlanetInv'
  <1> USE DEF PlanetInv, WriteConf, FileStep, Touched, At, Go
  <1>1. TypeOK'
    BY DEF TypeOK, Planets, Worlds, Confs, Journals, Rows, Request, Steps,
       WorldFolders, JournalFiles, OperationSteps, RollbackSteps,
       CompleteSteps, Phases, JournalInv, Target, By
  <1>2. LockInv' /\ JournalInv' /\ BackupInv' /\ PhaseInv' /\ AsideInv' /\
       InstallInv' /\ KeysInv'
    BY DEF LockInv, OperationSteps, CompleteSteps, JournalInv, Target, By,
       BackupInv, PhaseInv, RollbackSteps, RollsForward, AsideInv,
       InstallInv, NewWorld, NewPlanet, NewConf, KeysInv
  <1>3. RestartInv'
    BY RequestsAssumption, Zenon DEF RestartInv, RestartRemembered,
       LockInv, OperationSteps, CompleteSteps
  <1>. QED
    BY <1>1, <1>2, <1>3

LEMMA StepRemovePlanet ==
    ASSUME PlanetInv, RemovePlanet
    PROVE  PlanetInv'
  <1> USE DEF PlanetInv, RemovePlanet, FileStep, Touched, At, Go
  <1>1. TypeOK' /\ LockInv' /\ JournalInv' /\ BackupInv' /\ PhaseInv' /\
       AsideInv' /\ KeysInv'
    BY DEF TypeOK, Planets, Worlds, Confs, Journals, Rows, Request, Steps,
       WorldFolders, JournalFiles, OperationSteps, RollbackSteps,
       CompleteSteps, Phases, LockInv, JournalInv, Target, By, BackupInv,
       PhaseInv, RollsForward, AsideInv, KeysInv
  <1>2. RestartInv'
    BY RequestsAssumption, Zenon DEF RestartInv, RestartRemembered,
       LockInv, OperationSteps, CompleteSteps
  <1>3. InstallInv'
    BY DEF InstallInv, NewWorld, By, NewPlanet, NewConf, Target, LockInv,
       OperationSteps, CompleteSteps
  <1>. QED
    BY <1>1, <1>2, <1>3

LEMMA StepReturnPlanet ==
    ASSUME PlanetInv, ReturnPlanet
    PROVE  PlanetInv'
  <1> USE DEF PlanetInv, ReturnPlanet, FileStep, Touched, At, Go
  <1>1. TypeOK' /\ LockInv' /\ JournalInv' /\ PhaseInv' /\ AsideInv' /\
       KeysInv'
    BY DEF TypeOK, Planets, Worlds, Confs, Journals, Rows, Request, Steps,
       WorldFolders, JournalFiles, OperationSteps, RollbackSteps,
       CompleteSteps, Phases, LockInv, JournalInv, Target, By, PhaseInv,
       RollsForward, AsideInv, KeysInv
  <1>2. RestartInv'
    BY RequestsAssumption, Zenon DEF RestartInv, RestartRemembered,
       LockInv, OperationSteps, CompleteSteps
  <1>3. BackupInv'
    BY ReturnPlanetKeepsBackup
  <1>4. InstallInv'
    BY DEF InstallInv, NewWorld, By, NewPlanet, NewConf, Target, LockInv,
       OperationSteps, CompleteSteps
  <1>. QED
    BY <1>1, <1>2, <1>3, <1>4

LEMMA StepRemoveWorld ==
    ASSUME PlanetInv, RemoveWorld
    PROVE  PlanetInv'
  <1> USE DEF PlanetInv, RemoveWorld, FileStep, Touched, At, Go
  <1>1. TypeOK' /\ LockInv' /\ JournalInv' /\ BackupInv' /\ PhaseInv' /\
       AsideInv' /\ InstallInv' /\ KeysInv'
    BY DEF TypeOK, Planets, Worlds, Confs, Journals, Rows, Request, Steps,
       WorldFolders, JournalFiles, OperationSteps, RollbackSteps,
       CompleteSteps, Phases, LockInv, JournalInv, Target, By, BackupInv,
       PhaseInv, RollsForward, AsideInv, InstallInv, NewWorld, NewPlanet,
       NewConf, KeysInv
  <1>2. RestartInv'
    BY RequestsAssumption, Zenon DEF RestartInv, RestartRemembered,
       LockInv, OperationSteps, CompleteSteps
  <1>. QED
    BY <1>1, <1>2

LEMMA StepReturnWorld ==
    ASSUME PlanetInv, ReturnWorld
    PROVE  PlanetInv'
  <1> USE DEF PlanetInv, ReturnWorld, FileStep, Touched, At, Go
  <1>1. TypeOK' /\ LockInv' /\ JournalInv' /\ BackupInv' /\ PhaseInv' /\
       AsideInv' /\ InstallInv' /\ KeysInv'
    BY DEF TypeOK, Planets, Worlds, Confs, Journals, Rows, Request, Steps,
       WorldFolders, JournalFiles, OperationSteps, RollbackSteps,
       CompleteSteps, Phases, LockInv, JournalInv, Target, By, BackupInv,
       PhaseInv, RollsForward, AsideInv, InstallInv, NewWorld, NewPlanet,
       NewConf, KeysInv
  <1>2. RestartInv'
    BY RequestsAssumption, Zenon DEF RestartInv, RestartRemembered,
       LockInv, OperationSteps, CompleteSteps
  <1>. QED
    BY <1>1, <1>2

LEMMA StepRollbackCleanup ==
    ASSUME PlanetInv, RollbackCleanup
    PROVE  PlanetInv'
  <1> USE DEF PlanetInv, RollbackCleanup, FileStep, Touched, Discard, By, At,
     Go
  <1>1. TypeOK' /\ LockInv' /\ JournalInv' /\ BackupInv' /\ PhaseInv' /\
       AsideInv' /\ InstallInv'
    BY DEF TypeOK, Planets, Worlds, Confs, Journals, Rows, Request, Steps,
       WorldFolders, JournalFiles, OperationSteps, RollbackSteps,
       CompleteSteps, Phases, LockInv, JournalInv, Target, BackupInv,
       PhaseInv, RollsForward, AsideInv, InstallInv, NewWorld, NewPlanet,
       NewConf
  <1>2. RestartInv'
    BY RequestsAssumption, Zenon DEF RestartInv, RestartRemembered,
       LockInv, OperationSteps, CompleteSteps
  <1>3. KeysInv'
    BY DEF KeysInv, JournalInv, Target, OperationSteps
  <1>. QED
    BY <1>1, <1>2, <1>3

LEMMA StepDropJournal ==
    ASSUME PlanetInv, DropJournal
    PROVE  PlanetInv'
  <1> USE DEF PlanetInv, DropJournal, At, Verified, Return, Touched, files,
     RolledBack, Installed, Go, Ends, Discard, Release, By
  <1>1. TypeOK'
    BY DropJournalKeepsTypes
  <1>2. LockInv'
    BY RequestsAssumption, Zenon DEF LockInv, OperationSteps, CompleteSteps
  <1>3. RestartInv'
    BY RequestsAssumption, Zenon DEF RestartInv, RestartRemembered,
       LockInv, OperationSteps, CompleteSteps
  <1>4. JournalInv'
    BY DEF JournalInv, Target, OperationSteps, PhaseInv, RollbackSteps,
       RollsForward, CompleteSteps
  <1>5. BackupInv' /\ PhaseInv' /\ AsideInv' /\ InstallInv'
    BY DEF BackupInv, PhaseInv, OperationSteps, RollbackSteps,
       RollsForward, CompleteSteps, AsideInv, InstallInv, NewWorld,
       NewPlanet, NewConf, Target
  <1>6. KeysInv'
    BY DropJournalKeepsKeys
  <1>. QED
    BY <1>1, <1>2, <1>3, <1>4, <1>5, <1>6

(* The roll-forward.                                                       *)
LEMMA StepCompleteCleanup ==
    ASSUME PlanetInv, CompleteCleanup
    PROVE  PlanetInv'
  <1> USE DEF PlanetInv, CompleteCleanup, FileStep, Touched, Verified,
     Discard, By, At, Go, RolledBack, Installed
  <1>1. TypeOK' /\ LockInv' /\ JournalInv' /\ BackupInv' /\ PhaseInv' /\
       AsideInv' /\ InstallInv'
    BY DEF TypeOK, Planets, Worlds, Confs, Journals, Rows, Request, Steps,
       WorldFolders, JournalFiles, OperationSteps, RollbackSteps,
       CompleteSteps, Phases, LockInv, JournalInv, Target, BackupInv,
       PhaseInv, RollsForward, AsideInv, InstallInv, NewWorld, NewPlanet,
       NewConf
  <1>2. RestartInv'
    BY RequestsAssumption, Zenon DEF RestartInv, RestartRemembered,
       LockInv, OperationSteps, CompleteSteps
  <1>3. KeysInv'
    BY DEF KeysInv, JournalInv, Target, OperationSteps
  <1>. QED
    BY <1>1, <1>2, <1>3

LEMMA StepCompleted ==
    ASSUME PlanetInv, Completed
    PROVE  PlanetInv'
  <1> USE DEF PlanetInv, Completed, At, Return, Touched, files, Go, Ends,
     Discard, Release
  <1>1. TypeOK'
    BY CompletedKeepsTypes
  <1>2. LockInv'
    BY RequestsAssumption, Zenon DEF LockInv, OperationSteps, CompleteSteps
  <1>3. RestartInv'
    BY RequestsAssumption, Zenon DEF RestartInv, RestartRemembered,
       LockInv, OperationSteps, CompleteSteps
  <1>4. JournalInv'
    BY DEF JournalInv, Target, By, OperationSteps, PhaseInv, RollbackSteps,
       RollsForward, CompleteSteps
  <1>5. BackupInv' /\ PhaseInv' /\ AsideInv' /\ InstallInv'
    BY DEF BackupInv, PhaseInv, OperationSteps, By, RollbackSteps,
       RollsForward, CompleteSteps, AsideInv, InstallInv, NewWorld,
       NewPlanet, NewConf, Target
  <1>6. KeysInv'
    BY CompletedKeepsKeys
  <1>. QED
    BY <1>1, <1>2, <1>3, <1>4, <1>5, <1>6

(* The operation: before its journal ...                                   *)
LEMMA StepSnapshotKeys ==
    ASSUME PlanetInv, NEW r \in Activation, SnapshotKeys(r)
    PROVE  PlanetInv'
  <1> USE DEF PlanetInv, SnapshotKeys, At, Keys, Ends, files, boot, Release
  <1>1. TypeOK' /\ RestartInv' /\ JournalInv' /\ BackupInv' /\ PhaseInv' /\
       AsideInv' /\ InstallInv'
    BY DEF TypeOK, Planets, Worlds, Confs, Journals, Rows, Request, Steps,
       WorldFolders, JournalFiles, OperationSteps, RollbackSteps,
       CompleteSteps, Phases, RestartInv, RestartRemembered, JournalInv,
       Target, By, BackupInv, PhaseInv, RollsForward, AsideInv, InstallInv,
       NewWorld, NewPlanet, NewConf
  <1>2. LockInv'
    BY RequestsAssumption, Zenon DEF LockInv, OperationSteps, CompleteSteps
  <1>3. KeysInv'
    BY DEF KeysInv, By, TypeOK, Planets, Worlds, Confs, Journals, Rows,
       Request, Steps, WorldFolders, JournalFiles, OperationSteps,
       RollbackSteps, CompleteSteps, Phases
  <1>. QED
    BY <1>1, <1>2, <1>3

LEMMA StepBegin ==
    ASSUME PlanetInv, NEW r \in Request, Begin(r)
    PROVE  PlanetInv'
  <1> USE DEF PlanetInv, Begin, At, Keys, Go, files, boot
  <1>1. TypeOK'
    BY BeginKeepsTypes
  <1>2. LockInv' /\ RestartInv' /\ JournalInv' /\ BackupInv' /\ PhaseInv' /\
       AsideInv' /\ KeysInv'
    BY DEF LockInv, OperationSteps, CompleteSteps, RestartInv,
       RestartRemembered, JournalInv, Target, By, BackupInv, PhaseInv,
       RollbackSteps, RollsForward, AsideInv, KeysInv
  <1>3. InstallInv'
    BY BeginStages
  <1>. QED
    BY <1>1, <1>2, <1>3

LEMMA StepRefuse ==
    ASSUME PlanetInv, NEW r \in Request, Refuse(r)
    PROVE  PlanetInv'
  <1> USE DEF PlanetInv, Refuse, At, Keys, Ends, Discard, files, boot,
     Release
  <1>1. TypeOK' /\ RestartInv' /\ JournalInv' /\ BackupInv' /\ PhaseInv' /\
       AsideInv' /\ InstallInv'
    BY DEF TypeOK, Planets, Worlds, Confs, Journals, Rows, Request, Steps,
       WorldFolders, JournalFiles, OperationSteps, RollbackSteps,
       CompleteSteps, Phases, RestartInv, RestartRemembered, JournalInv,
       Target, By, BackupInv, PhaseInv, RollsForward, AsideInv, InstallInv,
       NewWorld, NewPlanet, NewConf
  <1>2. LockInv'
    BY RequestsAssumption, Zenon DEF LockInv, OperationSteps, CompleteSteps
  <1>3. KeysInv'
    BY DEF KeysInv, By, TypeOK, Planets, Worlds, Confs, Journals, Rows,
       Request, Steps, WorldFolders, JournalFiles, OperationSteps,
       RollbackSteps, CompleteSteps, Phases
  <1>. QED
    BY <1>1, <1>2, <1>3

(* ... and with it.                                                        *)
LEMMA StepWriteJournal ==
    ASSUME PlanetInv, WriteJournal
    PROVE  PlanetInv'
  <1> USE DEF PlanetInv, WriteJournal, OwnStep, Target, files, FileStep, At,
     Go
  <1>1. TypeOK' /\ InstallInv'
    BY DEF TypeOK, Planets, Worlds, Confs, Journals, Rows, Request, Steps,
       WorldFolders, JournalFiles, OperationSteps, RollbackSteps,
       CompleteSteps, Phases, InstallInv, NewWorld, By, NewPlanet, NewConf,
       LockInv
  <1>2. LockInv' /\ RestartInv' /\ BackupInv' /\ PhaseInv' /\ KeysInv'
    BY DEF LockInv, OperationSteps, CompleteSteps, RestartInv,
       RestartRemembered, BackupInv, PhaseInv, By, RollbackSteps,
       RollsForward, KeysInv
  <1>3. JournalInv'
    BY WriteJournalKeepsJournal
  <1>4. AsideInv'
    BY DEF AsideInv, JournalInv, By, OperationSteps
  <1>. QED
    BY <1>1, <1>2, <1>3, <1>4

LEMMA StepCopyPlanet ==
    ASSUME PlanetInv, CopyPlanet
    PROVE  PlanetInv'
  <1> USE DEF PlanetInv, CopyPlanet, OwnStep, By, FileStep, At, Go
  <1>1. TypeOK' /\ LockInv' /\ RestartInv' /\ JournalInv' /\ BackupInv' /\
       PhaseInv' /\ AsideInv' /\ KeysInv'
    BY DEF TypeOK, Planets, Worlds, Confs, Journals, Rows, Request, Steps,
       WorldFolders, JournalFiles, OperationSteps, RollbackSteps,
       CompleteSteps, Phases, LockInv, RestartInv, RestartRemembered,
       JournalInv, Target, BackupInv, PhaseInv, RollsForward, AsideInv,
       KeysInv
  <1>2. InstallInv'
    BY DEF InstallInv, NewWorld, NewPlanet, NewConf, Target, JournalInv,
       OperationSteps
  <1>. QED
    BY <1>1, <1>2

LEMMA StepMoveWorld ==
    ASSUME PlanetInv, MoveWorld
    PROVE  PlanetInv'
  <1> USE DEF PlanetInv, MoveWorld, OwnStep, By, FileStep, At, Go
  <1>1. TypeOK' /\ LockInv' /\ RestartInv' /\ BackupInv' /\ PhaseInv' /\
       AsideInv' /\ InstallInv' /\ KeysInv'
    BY DEF TypeOK, Planets, Worlds, Confs, Journals, Rows, Request, Steps,
       WorldFolders, JournalFiles, OperationSteps, RollbackSteps,
       CompleteSteps, Phases, LockInv, RestartInv, RestartRemembered,
       BackupInv, PhaseInv, RollsForward, AsideInv, InstallInv, NewWorld,
       NewPlanet, NewConf, Target, KeysInv
  <1>2. JournalInv'
    BY MoveWorldKeepsJournal
  <1>. QED
    BY <1>1, <1>2

LEMMA StepInstallWorld ==
    ASSUME PlanetInv, InstallWorld
    PROVE  PlanetInv'
  <1> USE DEF PlanetInv, InstallWorld, OwnStep, By, FileStep, At, Go
  <1>1. TypeOK'
    BY InstallWorldKeepsTypes
  <1>2. LockInv' /\ RestartInv' /\ JournalInv' /\ BackupInv' /\ PhaseInv' /\
       AsideInv' /\ InstallInv'
    BY DEF LockInv, OperationSteps, CompleteSteps, RestartInv,
       RestartRemembered, JournalInv, Target, BackupInv, PhaseInv,
       RollbackSteps, RollsForward, AsideInv, InstallInv, NewWorld,
       NewPlanet, NewConf
  <1>3. KeysInv'
    BY InstallWorldKeepsKeys
  <1>. QED
    BY <1>1, <1>2, <1>3

LEMMA StepMovePlanet ==
    ASSUME PlanetInv, MovePlanet
    PROVE  PlanetInv'
  <1> USE DEF PlanetInv, MovePlanet, OwnStep, FileStep, At, Go
  <1>1. TypeOK' /\ LockInv' /\ RestartInv' /\ BackupInv' /\ PhaseInv' /\
       AsideInv' /\ KeysInv'
    BY DEF TypeOK, Planets, Worlds, Confs, Journals, Rows, Request, Steps,
       WorldFolders, JournalFiles, OperationSteps, RollbackSteps,
       CompleteSteps, Phases, LockInv, RestartInv, RestartRemembered,
       BackupInv, PhaseInv, By, RollsForward, AsideInv, KeysInv
  <1>2. JournalInv'
    BY MovePlanetKeepsJournal
  <1>3. InstallInv'
    BY DEF InstallInv, NewWorld, By, NewPlanet, NewConf, Target, LockInv,
       OperationSteps, CompleteSteps
  <1>. QED
    BY <1>1, <1>2, <1>3

LEMMA StepInstallPlanet ==
    ASSUME PlanetInv, InstallPlanet
    PROVE  PlanetInv'
  <1> USE DEF PlanetInv, InstallPlanet, OwnStep, FileStep, At, Go
  <1>1. TypeOK' /\ LockInv' /\ RestartInv' /\ JournalInv' /\ PhaseInv' /\
       AsideInv' /\ InstallInv' /\ KeysInv'
    BY DEF TypeOK, Planets, Worlds, Confs, Journals, Rows, Request, Steps,
       WorldFolders, JournalFiles, OperationSteps, RollbackSteps,
       CompleteSteps, Phases, LockInv, RestartInv, RestartRemembered,
       JournalInv, Target, By, PhaseInv, RollsForward, AsideInv,
       InstallInv, NewWorld, NewPlanet, NewConf, KeysInv
  <1>2. BackupInv'
    BY InstallPlanetKeepsBackup
  <1>. QED
    BY <1>1, <1>2

LEMMA StepMarkInstalled ==
    ASSUME PlanetInv, MarkInstalled
    PROVE  PlanetInv'
  <1> USE DEF PlanetInv, MarkInstalled, Mark, OwnStep, files, FileStep, At,
     Go
  <1>1. TypeOK'
    BY DEF TypeOK, Planets, Worlds, Confs, Journals, Rows, Request, Steps,
       WorldFolders, JournalFiles, OperationSteps, RollbackSteps,
       CompleteSteps, Phases, JournalInv, Target, By
  <1>2. LockInv' /\ RestartInv' /\ BackupInv' /\ PhaseInv' /\ AsideInv'
    BY DEF LockInv, OperationSteps, CompleteSteps, RestartInv,
       RestartRemembered, BackupInv, PhaseInv, By, RollbackSteps,
       RollsForward, AsideInv
  <1>3. JournalInv'
    BY MarkInstalledKeepsJournal
  <1>4. InstallInv'
    BY DEF InstallInv, NewWorld, By, NewPlanet, NewConf, Target, LockInv,
       OperationSteps, CompleteSteps
  <1>5. KeysInv'
    BY MarkInstalledKeepsKeys
  <1>. QED
    BY <1>1, <1>2, <1>3, <1>4, <1>5

LEMMA StepUpdatePorts ==
    ASSUME PlanetInv, UpdatePorts
    PROVE  PlanetInv'
  <1> USE DEF PlanetInv, UpdatePorts, OwnStep, By, FileStep, At, Go
  <1>1. TypeOK' /\ LockInv' /\ RestartInv' /\ JournalInv' /\ BackupInv' /\
       PhaseInv' /\ AsideInv' /\ InstallInv' /\ KeysInv'
    BY DEF TypeOK, Planets, Worlds, Confs, Journals, Rows, Request, Steps,
       WorldFolders, JournalFiles, OperationSteps, RollbackSteps,
       CompleteSteps, Phases, LockInv, RestartInv, RestartRemembered,
       JournalInv, Target, BackupInv, PhaseInv, RollsForward, AsideInv,
       InstallInv, NewWorld, NewPlanet, NewConf, KeysInv
  <1>. QED
    BY <1>1

LEMMA StepMarkStarted ==
    ASSUME PlanetInv, MarkStarted
    PROVE  PlanetInv'
  <1> USE DEF PlanetInv, MarkStarted, Mark, OwnStep, files, FileStep, At, Go
  <1>1. TypeOK'
    BY DEF TypeOK, Planets, Worlds, Confs, Journals, Rows, Request, Steps,
       WorldFolders, JournalFiles, OperationSteps, RollbackSteps,
       CompleteSteps, Phases, JournalInv, Target, By
  <1>2. LockInv' /\ RestartInv' /\ BackupInv' /\ PhaseInv' /\ AsideInv'
    BY DEF LockInv, OperationSteps, CompleteSteps, RestartInv,
       RestartRemembered, BackupInv, PhaseInv, By, RollbackSteps,
       RollsForward, AsideInv
  <1>3. JournalInv'
    BY MarkStartedKeepsJournal
  <1>4. InstallInv'
    BY DEF InstallInv, NewWorld, By, NewPlanet, NewConf, Target, LockInv,
       OperationSteps, CompleteSteps
  <1>5. KeysInv'
    BY MarkStartedKeepsKeys
  <1>. QED
    BY <1>1, <1>2, <1>3, <1>4, <1>5

LEMMA StepCommitDatabase ==
    ASSUME PlanetInv, CommitDatabase
    PROVE  PlanetInv'
  <1> USE DEF PlanetInv, CommitDatabase, At, Go, Target, disk, files
  <1>1. TypeOK'
    BY DEF TypeOK, Planets, Worlds, Confs, Journals, Rows, Request, Steps,
       WorldFolders, JournalFiles, OperationSteps, RollbackSteps,
       CompleteSteps, Phases, LockInv
  <1>2. LockInv' /\ RestartInv' /\ JournalInv' /\ BackupInv' /\ AsideInv' /\
       InstallInv' /\ KeysInv'
    BY DEF LockInv, OperationSteps, CompleteSteps, RestartInv,
       RestartRemembered, JournalInv, By, BackupInv, AsideInv, InstallInv,
       NewWorld, NewPlanet, NewConf, KeysInv
  <1>3. PhaseInv'
    BY DEF PhaseInv, OperationSteps, By, RollbackSteps, RollsForward,
       CompleteSteps, JournalInv
  <1>. QED
    BY <1>1, <1>2, <1>3

LEMMA StepMarkCommitted ==
    ASSUME PlanetInv, MarkCommitted
    PROVE  PlanetInv'
  <1> USE DEF PlanetInv, MarkCommitted, At, files, boot
  <1>1. TypeOK'
    BY DEF TypeOK, Planets, Worlds, Confs, Journals, Rows, Request, Steps,
       WorldFolders, JournalFiles, OperationSteps, RollbackSteps,
       CompleteSteps, Phases, JournalInv, Target, By
  <1>2. LockInv' /\ RestartInv' /\ BackupInv' /\ PhaseInv' /\ AsideInv'
    BY DEF LockInv, OperationSteps, CompleteSteps, RestartInv,
       RestartRemembered, BackupInv, PhaseInv, By, RollbackSteps,
       RollsForward, AsideInv
  <1>3. JournalInv'
    BY MarkCommittedKeepsJournal
  <1>4. InstallInv'
    BY DEF InstallInv, NewWorld, By, NewPlanet, NewConf, Target,
       JournalInv, OperationSteps, PhaseInv, RollbackSteps, RollsForward,
       CompleteSteps
  <1>5. KeysInv'
    BY MarkCommittedKeepsKeys
  <1>. QED
    BY <1>1, <1>2, <1>3, <1>4, <1>5

(* Startup.                                                                *)
LEMMA StepStartProcess ==
    ASSUME PlanetInv, StartProcess
    PROVE  PlanetInv'
  <1> USE DEF PlanetInv, StartProcess, disk, reqs, lock, files
  <1>1. TypeOK'
    BY StartProcessKeepsTypes
  <1>2. LockInv' /\ RestartInv' /\ JournalInv' /\ BackupInv' /\ PhaseInv' /\
       AsideInv' /\ InstallInv' /\ KeysInv'
    BY DEF LockInv, OperationSteps, CompleteSteps, RestartInv,
       RestartRemembered, JournalInv, Target, By, BackupInv, PhaseInv,
       RollbackSteps, RollsForward, AsideInv, InstallInv, NewWorld,
       NewPlanet, NewConf, KeysInv
  <1>. QED
    BY <1>1, <1>2

LEMMA StepInspect ==
    ASSUME PlanetInv, Inspect
    PROVE  PlanetInv'
  <1> USE DEF PlanetInv, Inspect, disk, reqs, lock, files
  <1>1. TypeOK' /\ LockInv' /\ RestartInv' /\ JournalInv' /\ BackupInv' /\
       PhaseInv' /\ AsideInv' /\ InstallInv' /\ KeysInv'
    BY DEF TypeOK, Planets, Worlds, Confs, Journals, Rows, Request, Steps,
       WorldFolders, JournalFiles, OperationSteps, RollbackSteps,
       CompleteSteps, Phases, LockInv, RestartInv, RestartRemembered,
       JournalInv, Target, By, BackupInv, PhaseInv, RollsForward, AsideInv,
       InstallInv, NewWorld, NewPlanet, NewConf, KeysInv
  <1>. QED
    BY <1>1

LEMMA StepMarkRestartRequired ==
    ASSUME PlanetInv, MarkRestartRequired
    PROVE  PlanetInv'
  <1> USE DEF PlanetInv, MarkRestartRequired, files, reqs, lock
  <1>1. TypeOK' /\ LockInv' /\ RestartInv' /\ JournalInv' /\ BackupInv' /\
       PhaseInv' /\ AsideInv' /\ InstallInv' /\ KeysInv'
    BY DEF TypeOK, Planets, Worlds, Confs, Journals, Rows, Request, Steps,
       WorldFolders, JournalFiles, OperationSteps, RollbackSteps,
       CompleteSteps, Phases, LockInv, RestartInv, RestartRemembered,
       JournalInv, Target, By, BackupInv, PhaseInv, RollsForward, AsideInv,
       InstallInv, NewWorld, NewPlanet, NewConf, KeysInv
  <1>. QED
    BY <1>1

LEMMA StepRecover ==
    ASSUME PlanetInv, Recover
    PROVE  PlanetInv'
  <1> USE DEF PlanetInv, Recover, disk, reqs, files
  <1>1. TypeOK' /\ RestartInv' /\ BackupInv' /\ PhaseInv' /\ AsideInv' /\
       InstallInv' /\ KeysInv'
    BY DEF TypeOK, Planets, Worlds, Confs, Journals, Rows, Request, Steps,
       WorldFolders, JournalFiles, OperationSteps, RollbackSteps,
       CompleteSteps, Phases, RestartInv, RestartRemembered, BackupInv,
       PhaseInv, By, RollsForward, AsideInv, InstallInv, NewWorld,
       NewPlanet, NewConf, Target, KeysInv
  <1>2. LockInv'
    BY RequestsAssumption, Zenon DEF LockInv, OperationSteps, CompleteSteps
  <1>3. JournalInv'
    BY RequestsAssumption, Zenon DEF JournalInv, Target, By,
       OperationSteps, TypeOK, Planets, Worlds, Confs, Journals, Rows,
       Request, Steps, WorldFolders, JournalFiles, RollbackSteps,
       CompleteSteps, Phases
  <1>. QED
    BY <1>1, <1>2, <1>3

LEMMA StepRestartZeroTier ==
    ASSUME PlanetInv, RestartZeroTier
    PROVE  PlanetInv'
  <1> USE DEF PlanetInv, RestartZeroTier, disk, reqs, lock, files
  <1>1. TypeOK'
    BY RestartKeepsTypes
  <1>2. LockInv' /\ RestartInv' /\ JournalInv' /\ BackupInv' /\ PhaseInv' /\
       AsideInv' /\ InstallInv' /\ KeysInv'
    BY DEF LockInv, OperationSteps, CompleteSteps, RestartInv,
       RestartRemembered, JournalInv, Target, By, BackupInv, PhaseInv,
       RollbackSteps, RollsForward, AsideInv, InstallInv, NewWorld,
       NewPlanet, NewConf, KeysInv
  <1>. QED
    BY <1>1, <1>2

LEMMA StepClearRestartRequired ==
    ASSUME PlanetInv, ClearRestartRequired
    PROVE  PlanetInv'
  <1> USE DEF PlanetInv, ClearRestartRequired, files, reqs, lock
  <1>1. TypeOK'
    BY ClearKeepsTypes
  <1>2. LockInv' /\ RestartInv' /\ JournalInv' /\ BackupInv' /\ PhaseInv' /\
       AsideInv' /\ InstallInv' /\ KeysInv'
    BY DEF LockInv, OperationSteps, CompleteSteps, RestartInv,
       RestartRemembered, JournalInv, Target, By, BackupInv, PhaseInv,
       RollbackSteps, RollsForward, AsideInv, InstallInv, NewWorld,
       NewPlanet, NewConf, KeysInv
  <1>. QED
    BY <1>1, <1>2

(* Failing steps, and the death of the process.                            *)
LEMMA StepThrowInOperation ==
    ASSUME PlanetInv, ThrowInOperation
    PROVE  PlanetInv'
  <1> USE DEF PlanetInv, ThrowInOperation, Fault, OperationSteps, disk, files
  <1>1. TypeOK'
    BY ThrowInOperationKeepsTypes
  <1>2. LockInv' /\ RestartInv' /\ JournalInv' /\ BackupInv' /\ PhaseInv' /\
       AsideInv' /\ InstallInv' /\ KeysInv'
    BY DEF LockInv, CompleteSteps, RestartInv, RestartRemembered,
       JournalInv, Target, By, BackupInv, PhaseInv, RollbackSteps,
       RollsForward, AsideInv, InstallInv, NewWorld, NewPlanet, NewConf,
       KeysInv
  <1>. QED
    BY <1>1, <1>2

LEMMA StepLoseCommitReply ==
    ASSUME PlanetInv, LoseCommitReply
    PROVE  PlanetInv'
  <1> USE DEF PlanetInv, LoseCommitReply, Fault, At, Target, disk, files
  <1>1. TypeOK'
    BY LoseReplyKeepsTypes
  <1>2. LockInv' /\ RestartInv' /\ JournalInv' /\ BackupInv' /\ PhaseInv' /\
       AsideInv' /\ InstallInv' /\ KeysInv'
    BY DEF LockInv, OperationSteps, CompleteSteps, RestartInv,
       RestartRemembered, JournalInv, By, BackupInv, PhaseInv,
       RollbackSteps, RollsForward, AsideInv, InstallInv, NewWorld,
       NewPlanet, NewConf, KeysInv
  <1>. QED
    BY <1>1, <1>2

LEMMA StepThrowInRecovery ==
    ASSUME PlanetInv, ThrowInRecovery
    PROVE  PlanetInv'
  <1> USE DEF PlanetInv, ThrowInRecovery, Verified, Fault, RollbackSteps,
     CompleteSteps, Release, RetryOrStop, Ends, Discard, files, RolledBack,
     Installed, By
  <1>1. TypeOK'
    BY ThrowInRecoveryKeepsTypes
  <1>2. LockInv'
    BY RequestsAssumption, Zenon DEF LockInv, OperationSteps
  <1>3. RestartInv' /\ BackupInv' /\ PhaseInv' /\ AsideInv' /\ InstallInv'
    BY DEF RestartInv, RestartRemembered, BackupInv, PhaseInv,
       OperationSteps, RollsForward, AsideInv, InstallInv, NewWorld,
       NewPlanet, NewConf, Target
  <1>4. JournalInv'
    BY ThrowInRecoveryKeepsJournal
  <1>5. KeysInv'
    BY DEF KeysInv, TypeOK, Planets, Worlds, Confs, Journals, Rows,
       Request, Steps, WorldFolders, JournalFiles, OperationSteps, Phases
  <1>. QED
    BY <1>1, <1>2, <1>3, <1>4, <1>5

LEMMA StepThrowInStartup ==
    ASSUME PlanetInv, ThrowInStartup
    PROVE  PlanetInv'
  <1> USE DEF PlanetInv, ThrowInStartup, Fault, RetryOrStop, disk, reqs,
     lock, files
  <1>1. TypeOK'
    BY ThrowInStartupKeepsTypes
  <1>2. LockInv' /\ RestartInv' /\ JournalInv' /\ BackupInv' /\ PhaseInv' /\
       AsideInv' /\ InstallInv' /\ KeysInv'
    BY DEF LockInv, OperationSteps, CompleteSteps, RestartInv,
       RestartRemembered, JournalInv, Target, By, BackupInv, PhaseInv,
       RollbackSteps, RollsForward, AsideInv, InstallInv, NewWorld,
       NewPlanet, NewConf, KeysInv
  <1>. QED
    BY <1>1, <1>2

LEMMA StepMkworldFails ==
    ASSUME PlanetInv, NEW r \in Activation, MkworldFails(r)
    PROVE  PlanetInv'
  <1> USE DEF PlanetInv, MkworldFails, Fault, Discard, files, boot, lock
  <1>1. TypeOK'
    BY MkworldFailsKeepsTypes
  <1>2. LockInv' /\ RestartInv' /\ JournalInv' /\ BackupInv' /\ PhaseInv' /\
       AsideInv'
    BY DEF LockInv, OperationSteps, CompleteSteps, RestartInv,
       RestartRemembered, JournalInv, Target, By, BackupInv, PhaseInv,
       RollbackSteps, RollsForward, AsideInv
  <1>3. InstallInv'
    BY DEF InstallInv, NewWorld, By, NewPlanet, NewConf, Target, PhaseInv,
       OperationSteps, RollbackSteps, RollsForward, CompleteSteps
  <1>4. KeysInv'
    BY DEF KeysInv, By, TypeOK, Planets, Worlds, Confs, Journals, Rows,
       Request, Steps, WorldFolders, JournalFiles, OperationSteps,
       RollbackSteps, CompleteSteps, Phases
  <1>. QED
    BY <1>1, <1>2, <1>3, <1>4

LEMMA StepCrash ==
    ASSUME PlanetInv, Crash
    PROVE  PlanetInv'
  <1> USE DEF PlanetInv, Crash, Fault, Request, Begun, At, Target, Release,
     disk, files
  <1>1. TypeOK'
    BY CrashKeepsTypes
  <1>2. LockInv'
    BY RequestsAssumption, Zenon DEF LockInv, OperationSteps, CompleteSteps
  <1>3. RestartInv' /\ BackupInv' /\ PhaseInv' /\ AsideInv' /\ InstallInv' /\
       KeysInv'
    BY DEF RestartInv, RestartRemembered, BackupInv, PhaseInv,
       OperationSteps, By, RollbackSteps, RollsForward, CompleteSteps,
       AsideInv, InstallInv, NewWorld, NewPlanet, NewConf, KeysInv
  <1>4. JournalInv'
    BY RequestsAssumption, Zenon DEF JournalInv, By, OperationSteps,
       TypeOK, Planets, Worlds, Confs, Journals, Rows, Steps, WorldFolders,
       JournalFiles, RollbackSteps, CompleteSteps, Phases
  <1>. QED
    BY <1>1, <1>2, <1>3, <1>4

-----------------------------------------------------------------------------
(* The inductive invariant.                                                *)

LEMMA InitPlanet == Init => PlanetInv
  <1> SUFFICES ASSUME Init PROVE PlanetInv
    OBVIOUS
  <1>1. TypeOK
    <2>1. tries \in 0..Attempts /\ faults \in 0..MaxFaults
      <3>1. tries = 0 /\ faults = 0
        BY Zenon DEF Init
      <3>. QED
        BY <3>1, BoundsAssumption
    <2>2. pc \in [Request -> {"snapshot", "apply", "done", "failed"}]
      <3>1. pc = [r \in Request |-> IF r \in Reset THEN "apply" ELSE "snapshot"]
        BY Zenon DEF Init
      <3>. QED
        BY <3>1
    <2>3. /\ staged \in [Activation -> Worlds]
          /\ expected \in [Activation -> Activation \cup {None}]
      <3>1. /\ staged = [r \in Activation |-> None]
            /\ expected = [r \in Activation |-> None]
        BY Zenon DEF Init
      <3>. QED
        BY <3>1, Zenon DEF Worlds
    <2>4. /\ planet \in Planets /\ world \in Worlds /\ conf \in Confs
          /\ backup \in {Orig, None}
          /\ pending \in Planets /\ prevPlanet \in Planets /\ prevWorld \in Worlds
      BY Zenon DEF Init, Planets, Worlds, Confs
    <2>5. /\ journal \in Journals /\ db \in Rows /\ marker \in BOOLEAN /\ owed \in BOOLEAN
      BY Zenon DEF Init, Journals, Rows
    <2>6. /\ app \in {"down", "inspect", "mark", "recover", "restart", "clear", "serving"}
          /\ after \in {"operate", "throw", "finish"}
          /\ holder \in Request \cup {Boot, None}
          /\ step \in Steps
      BY Zenon DEF Init, Steps
    <2>. QED
      BY <2>1, <2>2, <2>3, <2>4, <2>5, <2>6 DEF TypeOK
  <1>2. LockInv /\ RestartInv
    BY RequestsAssumption
    DEF Init, LockInv, RestartInv, RestartRemembered, OperationSteps, CompleteSteps
  <1>3. JournalInv /\ BackupInv
    BY DEF Init, JournalInv, BackupInv
  <1>4. PhaseInv /\ AsideInv /\ InstallInv
    BY DEF Init, PhaseInv, AsideInv, InstallInv, OperationSteps, RollbackSteps,
           CompleteSteps
  <1>5. KeysInv
    <2>1. world = None /\ prevWorld = None /\ staged = [r \in Activation |-> None]
      BY Zenon DEF Init
    <2>2. pc = [r \in Request |-> IF r \in Reset THEN "apply" ELSE "snapshot"]
      BY Zenon DEF Init
    <2>3. \A r \in Activation : pc[r] # "apply" /\ staged[r] = None
      BY <2>1, <2>2, RequestsAssumption DEF Request
    <2>. QED
      BY <2>1, <2>3 DEF KeysInv
  <1>. QED
    BY <1>1, <1>2, <1>3, <1>4, <1>5 DEF PlanetInv

LEMMA NextPlanet == PlanetInv /\ [Next]_vars => PlanetInv'
  <1> SUFFICES ASSUME PlanetInv, [Next]_vars PROVE PlanetInv'
    OBVIOUS
  <1>1. CASE Operation
    BY <1>1, StepWriteJournal, StepCopyPlanet, StepMoveWorld, StepInstallWorld,
       StepMovePlanet, StepInstallPlanet, StepMarkInstalled, StepUpdatePorts,
       StepMarkStarted, StepCommitDatabase, StepMarkCommitted DEF Operation
  <1>2. CASE Recovery
    BY <1>2, StepReconcile, StepRemoveConf, StepWriteConf, StepRemovePlanet,
       StepReturnPlanet, StepRemoveWorld, StepReturnWorld, StepRollbackCleanup,
       StepDropJournal, StepCompleteCleanup, StepCompleted DEF Recovery
  <1>3. CASE Startup
    BY <1>3, StepStartProcess, StepInspect, StepMarkRestartRequired, StepRecover,
       StepRestartZeroTier, StepClearRestartRequired DEF Startup
  <1>4. CASE Faults
    BY <1>4, StepThrowInOperation, StepLoseCommitReply, StepThrowInRecovery,
       StepThrowInStartup, StepMkworldFails, StepCrash DEF Faults
  <1>5. ASSUME NEW r \in Request, TakeLock(r) \/ Held(r)
        PROVE  PlanetInv'
    BY <1>5, StepTakeLock, StepBegin, StepRefuse, StepSnapshotKeys DEF Held
  <1>6. CASE UNCHANGED vars
    <2>1. UNCHANGED <<planet, world, conf, pending, prevPlanet, prevWorld, backup,
                      staged, journal, db, marker, owed, app, tries, pc, expected,
                      holder, step, after, faults>>
      BY <1>6 DEF vars, files
    <2>2. /\ TypeOK /\ LockInv /\ RestartInv /\ JournalInv /\ BackupInv
          /\ PhaseInv /\ AsideInv /\ InstallInv /\ KeysInv
      BY DEF PlanetInv
    <2>3. TypeOK'
      BY <2>1, <2>2 DEF TypeOK
    <2>4. LockInv' /\ RestartInv' /\ JournalInv' /\ BackupInv'
      BY <2>1, <2>2
      DEF LockInv, RestartInv, RestartRemembered, JournalInv, BackupInv, By, Target
    <2>5. PhaseInv' /\ AsideInv'
      BY <2>1, <2>2 DEF PhaseInv, AsideInv, RollsForward, By
    <2>6. InstallInv' /\ KeysInv'
      BY <2>1, <2>2 DEF InstallInv, KeysInv, NewPlanet, NewConf, By, Target
    <2>. QED
      BY <2>3, <2>4, <2>5, <2>6 DEF PlanetInv
  <1>. QED
    BY <1>1, <1>2, <1>3, <1>4, <1>5, <1>6 DEF Next

(* The inductive invariant holds in every reachable state.                 *)
THEOREM PlanetInvariant == Spec => []PlanetInv
  BY InitPlanet, NextPlanet, PTL DEF Spec

(* Every variable of the transaction keeps its type, with any number of    *)
(* requests, crashes and failing steps.                                    *)
THEOREM PlanetTypes == Spec => []TypeOK
  <1>1. PlanetInv => TypeOK
    BY DEF PlanetInv
  <1>. QED
    BY <1>1, PlanetInvariant, PTL

(* Without a journal there is no half installed planet and no folder with  *)
(* replaced private keys (planetFiles.ts:841-899).                         *)
THEOREM NothingIsLeft == Spec => []NothingLeftBehind
  <1>1. PlanetInv => NothingLeftBehind
    BY DEF PlanetInv, JournalInv, NothingLeftBehind
  <1>. QED
    BY <1>1, PlanetInvariant, PTL

(* A restart that startup owes to ZeroTier is on disk until it has been    *)
(* made (planetStartupRecovery.ts:233-255).                                *)
THEOREM RestartIsRemembered == Spec => []RestartRemembered
  <1>1. PlanetInv => RestartRemembered
    BY DEF PlanetInv, RestartInv
  <1>. QED
    BY <1>1, PlanetInvariant, PTL

-----------------------------------------------------------------------------
(* What a reader is left with changes by a commit only.                    *)

LEMMA SameActive ==
    ASSUME UNCHANGED <<files, journal, db>>
    PROVE  Active' = Active
  BY DEF Active, OnDisk, Before, RollsForward, files

\* While the journal rolls back, only what was moved aside counts.
LEMMA SameBefore ==
    ASSUME journal # None, ~RollsForward, UNCHANGED <<journal, db>>,
           (IF prevPlanet # None THEN prevPlanet
              ELSE IF journal.hadPlanet THEN planet ELSE None)'
             = (IF prevPlanet # None THEN prevPlanet
                  ELSE IF journal.hadPlanet THEN planet ELSE None),
           (IF prevWorld # None THEN prevWorld
              ELSE IF journal.hadWorld THEN world ELSE None)'
             = (IF prevWorld # None THEN prevWorld
                  ELSE IF journal.hadWorld THEN world ELSE None)
    PROVE  Active' = Active
  BY DEF Active, Before, RollsForward

\* The steps of an operation up to the mark before its commit.
LEMMA OperationKeeps ==
    ASSUME PlanetInv, \/ CopyPlanet \/ MoveWorld \/ InstallWorld
                      \/ MovePlanet \/ InstallPlanet \/ UpdatePorts
    PROVE  Active' = Active
  <1> USE DEF PlanetInv, FileStep, OwnStep, At, Go
  <1>1. UNCHANGED <<journal, db>>
    BY DEF CopyPlanet, MoveWorld, InstallWorld, MovePlanet, InstallPlanet, UpdatePorts
  <1>2. journal # None
    BY DEF JournalInv, CopyPlanet, MoveWorld, InstallWorld, MovePlanet,
           InstallPlanet, UpdatePorts
  <1>3. ~RollsForward
    BY DEF PhaseInv, RollsForward, CopyPlanet, MoveWorld, InstallWorld, MovePlanet,
           InstallPlanet, UpdatePorts
  <1>4. (IF prevPlanet # None THEN prevPlanet
           ELSE IF journal.hadPlanet THEN planet ELSE None)'
          = (IF prevPlanet # None THEN prevPlanet
               ELSE IF journal.hadPlanet THEN planet ELSE None)
    BY DEF AsideInv, CopyPlanet, MoveWorld, InstallWorld, MovePlanet, InstallPlanet,
           UpdatePorts
  <1>5. (IF prevWorld # None THEN prevWorld
           ELSE IF journal.hadWorld THEN world ELSE None)'
          = (IF prevWorld # None THEN prevWorld
               ELSE IF journal.hadWorld THEN world ELSE None)
    BY DEF AsideInv, CopyPlanet, MoveWorld, InstallWorld, MovePlanet, InstallPlanet,
           UpdatePorts
  <1>. QED
    BY <1>1, <1>2, <1>3, <1>4, <1>5, SameBefore

\* The steps of a roll-back.
LEMMA RollbackKeeps ==
    ASSUME PlanetInv, \/ RemoveConf \/ WriteConf \/ RemovePlanet \/ ReturnPlanet
                      \/ RemoveWorld \/ ReturnWorld \/ RollbackCleanup
    PROVE  Active' = Active
  <1> USE DEF PlanetInv, FileStep, At, Go
  <1>1. UNCHANGED <<journal, db>>
    BY DEF RemoveConf, WriteConf, RemovePlanet, ReturnPlanet, RemoveWorld,
           ReturnWorld, RollbackCleanup
  <1>2. journal # None
    BY DEF JournalInv, RemoveConf, WriteConf, RemovePlanet, ReturnPlanet, RemoveWorld,
           ReturnWorld, RollbackCleanup
  <1>3. ~RollsForward
    BY DEF PhaseInv, RollbackSteps, RemoveConf, WriteConf, RemovePlanet, ReturnPlanet,
           RemoveWorld, ReturnWorld, RollbackCleanup
  <1>4. (IF prevPlanet # None THEN prevPlanet
           ELSE IF journal.hadPlanet THEN planet ELSE None)'
          = (IF prevPlanet # None THEN prevPlanet
               ELSE IF journal.hadPlanet THEN planet ELSE None)
    BY <1>2 DEF JournalInv, PhaseInv, RemoveConf, WriteConf, RemovePlanet,
           ReturnPlanet, RemoveWorld, ReturnWorld, RollbackCleanup
  <1>5. (IF prevWorld # None THEN prevWorld
           ELSE IF journal.hadWorld THEN world ELSE None)'
          = (IF prevWorld # None THEN prevWorld
               ELSE IF journal.hadWorld THEN world ELSE None)
    BY <1>2 DEF JournalInv, PhaseInv, RemoveConf, WriteConf, RemovePlanet,
           ReturnPlanet, RemoveWorld, ReturnWorld, RollbackCleanup
  <1>. QED
    BY <1>1, <1>2, <1>3, <1>4, <1>5, SameBefore

\* The journal appears, is marked and disappears without a change.
LEMMA WriteJournalKeeps == ASSUME PlanetInv, WriteJournal PROVE Active' = Active
  <1>1. /\ journal = None /\ UNCHANGED <<files, db>>
        /\ journal' = [by |-> holder, phase |-> "prepared", hadWorld |-> world # None,
                       hadPlanet |-> planet # None, conf |-> conf,
                       target |-> Target(holder)]
    BY DEF WriteJournal, OwnStep, FileStep
  <1>2. prevPlanet = None /\ prevWorld = None
    BY <1>1 DEF PlanetInv, JournalInv
  <1>3. journal' # None
    <2>1. holder \in Request
      BY DEF PlanetInv, TypeOK, LockInv, WriteJournal, OwnStep, FileStep, At,
             OperationSteps
    <2>2. journal' \in JournalFiles
      BY <1>1, <2>1, Zenon
      DEF PlanetInv, TypeOK, JournalFiles, Phases, Target, Request, Rows
    <2>. QED
      BY <2>2, NoneAssumption
  <1>4. ~RollsForward'
    BY <1>1 DEF RollsForward
  <1>. QED
    BY <1>1, <1>2, <1>3, <1>4 DEF Active, OnDisk, Before, files

LEMMA MarkInstalledKeeps == ASSUME PlanetInv, MarkInstalled PROVE Active' = Active
  <1>1. /\ journal' = [journal EXCEPT !.phase = "files_installed"]
        /\ step = "markInstalled" /\ UNCHANGED <<files, db>>
    BY DEF MarkInstalled, Mark, OwnStep, FileStep, At
  <1>2. journal # None /\ ~RollsForward
    BY <1>1 DEF PlanetInv, JournalInv, PhaseInv, RollsForward
  <1>3. /\ journal' # None /\ journal'.phase = "files_installed"
        /\ journal'.conf = journal.conf
        /\ journal'.hadWorld = journal.hadWorld /\ journal'.hadPlanet = journal.hadPlanet
    BY <1>1, <1>2, Marked DEF PlanetInv, Phases
  <1>. QED
    BY <1>1, <1>2, <1>3 DEF Active, Before, RollsForward, files

LEMMA MarkCommittedKeeps == ASSUME PlanetInv, MarkCommitted PROVE Active' = Active
  <1>1. /\ journal' = [journal EXCEPT !.phase = "database_committed"]
        /\ step = "markCommitted" /\ UNCHANGED <<files, db>>
    BY DEF MarkCommitted, At
  <1>2. journal # None /\ RollsForward
    BY <1>1 DEF PlanetInv, JournalInv, PhaseInv, RollsForward
  <1>3. journal'.phase = "database_committed"
    BY <1>1, <1>2, Marked DEF PlanetInv, Phases
  <1>. QED
    BY <1>1, <1>2, <1>3 DEF Active, OnDisk, RollsForward, files

LEMMA DropJournalKeeps == ASSUME PlanetInv, DropJournal PROVE Active' = Active
  <1>1. /\ journal' = None /\ RolledBack /\ step = "dropJournal"
        /\ UNCHANGED <<files, db>>
    BY DEF DropJournal, At, Verified
  <1>2. journal # None /\ ~RollsForward /\ prevPlanet = None /\ prevWorld = None
    BY <1>1 DEF PlanetInv, JournalInv, PhaseInv, RollbackSteps
  <1>3. /\ conf = journal.conf
        /\ journal.hadPlanet = (planet # None) /\ journal.hadWorld = (world # None)
    BY <1>1 DEF RolledBack
  <1>. QED
    BY <1>1, <1>2, <1>3 DEF Active, OnDisk, Before, files

LEMMA CompleteKeeps ==
    ASSUME PlanetInv, CompleteCleanup \/ Completed
    PROVE  Active' = Active
  <1>1. step \in CompleteSteps /\ UNCHANGED <<planet, world, conf, db>>
    BY DEF CompleteCleanup, Completed, FileStep, At, files, CompleteSteps
  <1>2. RollsForward
    BY <1>1 DEF PlanetInv, PhaseInv
  <1>3. journal' = journal \/ journal' = None
    BY DEF CompleteCleanup, Completed
  <1>. QED
    BY <1>1, <1>2, <1>3 DEF Active, OnDisk, RollsForward

-----------------------------------------------------------------------------
(* The commit: from what the roll-back would restore to what was installed.*)

LEMMA Installing ==
    ASSUME PlanetInv, step \in {"markStarted", "commit"}, ~RollsForward,
           Active' = [planet |-> planet, world |-> world, conf |-> conf,
                      db |-> Target(By)]
    PROVE  Switch!Next
  <1>1. journal # None /\ holder = By /\ By \in Request
    BY Types DEF PlanetInv, JournalInv, PhaseInv, OperationSteps
  <1>2. /\ planet = NewPlanet(By) /\ world = NewWorld(By, prevWorld)
        /\ conf = NewConf(By) /\ journal.hadWorld = (prevWorld # None)
    BY DEF PlanetInv, InstallInv, AsideInv
  <1>3. Active.world = prevWorld
    BY <1>1, <1>2 DEF Active, Before
  <1>4. CASE By \in Activation
    <2>1. By \notin Reset
      BY <1>4, RequestsAssumption
    <2>2. Active' = [planet |-> By,
                     world |-> [by |-> By, keys |-> Switch!KeysAfter(By, Active.world)],
                     conf |-> By, db |-> DbId[By]]
      BY <1>2, <1>3, <1>4, <2>1 DEF NewPlanet, NewWorld, NewConf, Target
    <2>. QED
      BY <1>4, <2>2 DEF Switch!Next, Switch!Activate, Switch!Activated
  <1>5. CASE By \in Reset
    <2>1. By \notin Activation
      BY <1>5, RequestsAssumption
    <2>. QED
      BY <1>2, <1>5, <2>1
      DEF NewPlanet, NewWorld, NewConf, Target, Switch!Next, Switch!Restore,
          Switch!Restored
  <1>. QED
    BY <1>1, <1>4, <1>5 DEF Request

LEMMA MarkStartedSwitches ==
    ASSUME PlanetInv, MarkStarted
    PROVE  [Switch!Next]_Active
  <1>1. /\ journal' = [journal EXCEPT !.phase = "database_commit_started"]
        /\ step = "markStarted" /\ UNCHANGED <<files, db>>
    BY DEF MarkStarted, Mark, OwnStep, FileStep, At
  <1>2. journal # None /\ ~RollsForward /\ journal.target = Target(By)
    BY <1>1 DEF PlanetInv, JournalInv, PhaseInv, RollsForward
  <1>3. /\ journal' # None /\ journal'.phase = "database_commit_started"
        /\ journal'.conf = journal.conf /\ journal'.target = journal.target
        /\ journal'.hadWorld = journal.hadWorld /\ journal'.hadPlanet = journal.hadPlanet
    BY <1>1, <1>2, Marked DEF PlanetInv, Phases
  <1>4. CASE db = journal.target
    <2>1. Active' = [planet |-> planet, world |-> world, conf |-> conf,
                     db |-> Target(By)]
      BY <1>1, <1>2, <1>3, <1>4 DEF Active, OnDisk, RollsForward, files
    <2>. QED
      BY <1>1, <1>2, <2>1, Installing
  <1>5. CASE db # journal.target
    <2>1. Active' = Active
      BY <1>1, <1>2, <1>3, <1>5 DEF Active, Before, RollsForward, files
    <2>. QED
      BY <2>1
  <1>. QED
    BY <1>4, <1>5

\* The rows are committed, whatever becomes of the reply.
LEMMA CommitSwitches ==
    ASSUME PlanetInv, step = "commit", UNCHANGED <<files, journal>>,
           db' \in {db, Target(holder)}
    PROVE  [Switch!Next]_Active
  <1>1. /\ journal # None /\ holder = By /\ journal.target = Target(By)
        /\ journal.phase = "database_commit_started"
    BY DEF PlanetInv, JournalInv, PhaseInv, OperationSteps
  <1>2. CASE db' = db
    BY <1>2, SameActive
  <1>3. CASE db' = Target(holder) /\ db' # db
    <2>1. ~RollsForward
      BY <1>1, <1>3 DEF RollsForward
    <2>2. Active' = [planet |-> planet, world |-> world, conf |-> conf,
                     db |-> Target(By)]
      BY <1>1, <1>3 DEF Active, OnDisk, RollsForward, files
    <2>. QED
      BY <2>1, <2>2, Installing
  <1>. QED
    BY <1>2, <1>3

LEMMA SwitchStep == PlanetInv /\ [Next]_vars => [Switch!Next]_Active
  <1> SUFFICES ASSUME PlanetInv, [Next]_vars PROVE [Switch!Next]_Active
    OBVIOUS
  <1>1. CASE Operation
    <2>1. CASE CommitDatabase
      BY <2>1, CommitSwitches DEF CommitDatabase, At, disk
    <2>. QED
      BY <1>1, <2>1, WriteJournalKeeps, OperationKeeps, MarkInstalledKeeps,
         MarkStartedSwitches, MarkCommittedKeeps DEF Operation
  <1>2. CASE Recovery
    <2>1. CASE Reconcile
      BY <2>1, SameActive DEF Reconcile
    <2>. QED
      BY <1>2, <2>1, RollbackKeeps, DropJournalKeeps, CompleteKeeps DEF Recovery
  <1>3. CASE Startup
    <2>1. UNCHANGED <<files, journal, db>>
      BY <1>3 DEF Startup, StartProcess, Inspect, MarkRestartRequired, Recover,
                  RestartZeroTier, ClearRestartRequired, disk
    <2>. QED
      BY <2>1, SameActive
  <1>4. CASE Faults
    <2>1. CASE LoseCommitReply
      BY <2>1, CommitSwitches DEF LoseCommitReply, At, disk
    <2>2. CASE Crash
      <3>1. CASE At("commit")
        BY <2>2, <3>1, CommitSwitches DEF Crash, At, disk
      <3>2. CASE ~At("commit")
        BY <2>2, <3>2, SameActive DEF Crash, disk
      <3>. QED
        BY <3>1, <3>2
    <2>3. CASE ThrowInOperation \/ ThrowInRecovery \/ ThrowInStartup
      BY <2>3, SameActive DEF ThrowInOperation, ThrowInRecovery, ThrowInStartup, disk
    <2>4. CASE \E r \in Activation : MkworldFails(r)
      BY <2>4, SameActive DEF MkworldFails
    <2>. QED
      BY <1>4, <2>1, <2>2, <2>3, <2>4 DEF Faults
  <1>5. ASSUME NEW r \in Request, TakeLock(r) \/ Held(r)
        PROVE  [Switch!Next]_Active
    <2>1. UNCHANGED <<files, journal, db>>
      BY <1>5 DEF TakeLock, Held, Begin, Refuse, SnapshotKeys, disk
    <2>. QED
      BY <2>1, SameActive
  <1>6. CASE UNCHANGED vars
    BY <1>6, SameActive DEF vars
  <1>. QED
    BY <1>1, <1>2, <1>3, <1>4, <1>5, <1>6 DEF Next

LEMMA SwitchInit == Init => Switch!Init
  BY DEF Init, Switch!Init, Active, OnDisk

(* An activation or a reset is atomic: whatever fails, wherever the process*)
(* dies and however often, the files, the keys and the rows that recovery  *)
(* leaves are those before it or those after it (planetFiles.ts:1356-1440).*)
THEOREM ActivationIsAtomic == Spec => SwitchesAtomically
  BY SwitchInit, SwitchStep, PlanetInvariant, PTL
  DEF Spec, SwitchesAtomically, Switch!Spec

-----------------------------------------------------------------------------
(* Success is reported by the two steps that can end a committed           *)
(* transaction.                                                            *)
Succeeds ==
  \A r \in Request : pc[r] # "done" /\ pc'[r] = "done" =>
    /\ Active'.planet = IF r \in Reset THEN Orig ELSE r
    /\ Active'.db = Target(r)

LEMMA CommittedIsActive ==
    ASSUME PlanetInv, after = "finish", UNCHANGED <<planet, db>>,
           journal' \in {journal, None}
    PROVE  /\ holder \in Request /\ Active'.db = Target(holder)
           /\ Active'.planet = IF holder \in Reset THEN Orig ELSE holder
  <1>1. /\ holder = By /\ planet = NewPlanet(By) /\ db = Target(By)
        /\ journal.phase = "database_committed"
    BY DEF PlanetInv, InstallInv
  <1>2. journal # None
    BY DEF PlanetInv, LockInv, JournalInv, CompleteSteps
  <1>3. By \in Request
    BY <1>2, Types DEF PlanetInv
  <1>4. Active' = OnDisk'
    BY <1>1 DEF Active, RollsForward
  <1>. QED
    BY <1>1, <1>3, <1>4, RequestsAssumption DEF OnDisk, NewPlanet, Request

LEMMA ReturnSucceeds ==
    ASSUME PlanetInv, Return, holder # None, step \notin CompleteSteps
    PROVE  \A r \in Request : pc'[r] = "done" => pc[r] = "done"
  <1>1. after # "finish"
    BY DEF PlanetInv, LockInv
  <1>2. CASE after = "operate"
    BY <1>2 DEF Return
  <1>3. CASE after = "throw"
    <2>1. pc' = [pc EXCEPT ![holder] = "failed"]
      BY <1>3 DEF Return, Ends
    <2>. QED
      BY <2>1 DEF PlanetInv, TypeOK
  <1>. QED
    BY <1>1, <1>2, <1>3 DEF PlanetInv, TypeOK

LEMMA CompletedSucceeds == ASSUME PlanetInv, Completed PROVE Succeeds
  <1>1. holder # None /\ Return /\ journal' = None /\ UNCHANGED <<planet, db>>
    BY DEF Completed, At, files
  <1>2. CASE after = "finish"
    <2>1. pc' = [pc EXCEPT ![holder] = "done"]
      BY <1>1, <1>2 DEF Return, Ends
    <2>2. /\ holder \in Request /\ Active'.db = Target(holder)
          /\ Active'.planet = IF holder \in Reset THEN Orig ELSE holder
      BY <1>1, <1>2, CommittedIsActive
    <2>3. \A r \in Request : pc[r] # "done" /\ pc'[r] = "done" => r = holder
      BY <2>1 DEF PlanetInv, TypeOK
    <2>. QED
      BY <2>2, <2>3 DEF Succeeds
  <1>3. CASE after = "throw"
    <2>1. pc' = [pc EXCEPT ![holder] = "failed"]
      BY <1>1, <1>3 DEF Return, Ends
    <2>2. \A r \in Request : pc'[r] = "done" => pc[r] = "done"
      BY <2>1 DEF PlanetInv, TypeOK
    <2>. QED
      BY <2>2 DEF Succeeds
  <1>4. CASE after = "operate"
    BY <1>1, <1>4 DEF Return, Succeeds
  <1>. QED
    BY <1>2, <1>3, <1>4 DEF PlanetInv, TypeOK

LEMMA ThrowInRecoverySucceeds == ASSUME PlanetInv, ThrowInRecovery PROVE Succeeds
  <1>1. holder # None /\ UNCHANGED <<planet, journal, db>>
    BY DEF ThrowInRecovery, files
  <1>2. CASE holder # Boot /\ after = "finish"
    <2>1. pc' = [pc EXCEPT ![holder] = "done"]
      BY <1>2 DEF ThrowInRecovery, Ends
    <2>2. /\ holder \in Request /\ Active'.db = Target(holder)
          /\ Active'.planet = IF holder \in Reset THEN Orig ELSE holder
      BY <1>1, <1>2, CommittedIsActive
    <2>3. \A r \in Request : pc[r] # "done" /\ pc'[r] = "done" => r = holder
      BY <2>1 DEF PlanetInv, TypeOK
    <2>. QED
      BY <2>2, <2>3 DEF Succeeds
  <1>3. CASE holder # Boot /\ after # "finish"
    <2>1. pc' = [pc EXCEPT ![holder] = "failed"]
      BY <1>3 DEF ThrowInRecovery, Ends
    <2>2. \A r \in Request : pc'[r] = "done" => pc[r] = "done"
      BY <2>1 DEF PlanetInv, TypeOK
    <2>. QED
      BY <2>2 DEF Succeeds
  <1>4. CASE holder = Boot
    BY <1>4 DEF ThrowInRecovery, Succeeds
  <1>. QED
    BY <1>2, <1>3, <1>4

LEMMA SuccessStep == PlanetInv /\ [Next]_vars => Succeeds \/ UNCHANGED vars
  <1> SUFFICES ASSUME PlanetInv, Next PROVE Succeeds
    OBVIOUS
  <1>1. ASSUME \A r \in Request : pc'[r] = "done" => pc[r] = "done"
        PROVE  Succeeds
    BY <1>1 DEF Succeeds
  <1>2. ASSUME UNCHANGED pc
        PROVE  Succeeds
    BY <1>2 DEF Succeeds
  <1>3. CASE Operation
    <2>1. UNCHANGED pc
      BY <1>3 DEF Operation, WriteJournal, CopyPlanet, MoveWorld, InstallWorld,
                  MovePlanet, InstallPlanet, MarkInstalled, UpdatePorts, MarkStarted,
                  CommitDatabase, MarkCommitted, Mark, OwnStep, FileStep
    <2>. QED
      BY <1>2, <2>1
  <1>4. CASE Recovery
    <2>1. CASE Reconcile \/ DropJournal
      <3>1. holder # None /\ step \notin CompleteSteps
        BY <2>1 DEF Reconcile, DropJournal, At, CompleteSteps
      <3>2. Return \/ UNCHANGED pc
        BY <2>1 DEF Reconcile, DropJournal
      <3>. QED
        BY <1>1, <1>2, <3>1, <3>2, ReturnSucceeds
    <2>2. CASE \/ RemoveConf \/ WriteConf \/ RemovePlanet \/ ReturnPlanet
               \/ RemoveWorld \/ ReturnWorld \/ RollbackCleanup \/ CompleteCleanup
      <3>1. UNCHANGED pc
        BY <2>2 DEF RemoveConf, WriteConf, RemovePlanet, ReturnPlanet, RemoveWorld,
                    ReturnWorld, RollbackCleanup, CompleteCleanup, FileStep
      <3>. QED
        BY <1>2, <3>1
    <2>. QED
      BY <1>4, <2>1, <2>2, CompletedSucceeds DEF Recovery
  <1>5. CASE Startup
    <2>1. UNCHANGED pc
      BY <1>5 DEF Startup, StartProcess, Inspect, MarkRestartRequired, Recover,
                  RestartZeroTier, ClearRestartRequired, reqs
    <2>. QED
      BY <1>2, <2>1
  <1>6. CASE Faults
    <2>1. CASE ThrowInOperation \/ LoseCommitReply \/ ThrowInStartup
      <3>1. UNCHANGED pc
        BY <2>1 DEF ThrowInOperation, LoseCommitReply, ThrowInStartup, reqs
      <3>. QED
        BY <1>2, <3>1
    <2>2. CASE \E r \in Activation : MkworldFails(r)
      <3>1. \A r \in Request : pc'[r] = "done" => pc[r] = "done"
        BY <2>2 DEF MkworldFails, PlanetInv, TypeOK
      <3>. QED
        BY <1>1, <3>1
    <2>3. CASE Crash
      <3>1. \A r \in Request : pc'[r] = "done" => pc[r] = "done"
        BY <2>3 DEF Crash
      <3>. QED
        BY <1>1, <3>1
    <2>. QED
      BY <1>6, <2>1, <2>2, <2>3, ThrowInRecoverySucceeds DEF Faults
  <1>7. ASSUME NEW r \in Request, TakeLock(r) \/ Held(r)
        PROVE  Succeeds
    <2>1. \A q \in Request : pc'[q] = "done" => pc[q] = "done"
      BY <1>7 DEF TakeLock, Held, Begin, Refuse, SnapshotKeys, Ends, PlanetInv, TypeOK
    <2>. QED
      BY <1>1, <2>1
  <1>. QED
    BY <1>3, <1>4, <1>5, <1>6, <1>7 DEF Next

(* Whoever is told that an activation or a reset has worked has its planet *)
(* and its rows in force at that moment (planetFiles.ts:1408-1440).        *)
THEOREM SuccessInstalls == Spec => SuccessIsInstalled
  <1>1. PlanetInv /\ [Next]_vars =>
          [\A r \in Request : pc[r] # "done" /\ pc'[r] = "done" =>
             /\ Active'.planet = IF r \in Reset THEN Orig ELSE r
             /\ Active'.db = Target(r)]_vars
    BY SuccessStep DEF Succeeds
  <1>. QED
    BY <1>1, PlanetInvariant, PTL DEF Spec, SuccessIsInstalled
=============================================================================
