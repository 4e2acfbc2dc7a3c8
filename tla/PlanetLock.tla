----------------------------- MODULE PlanetLock -----------------------------
(***************************************************************************)
(* The lifecycle lock of src/src/server/planetFiles.ts between processes   *)
(* that share the ZeroTier folder: a lock file, and a gate file that       *)
(* serialises whoever creates, reclaims or removes the lock file.          *)
(*                                                                         *)
(* Every step of a process is one group of system calls that reads or      *)
(* changes a path; between two steps the others run, the process may die,  *)
(* or it may sleep while the files it owns grow old.  A file is an inode   *)
(* number, free again when no path and no open descriptor refers to it.    *)
(***************************************************************************)
EXTENDS Naturals, FiniteSets

CONSTANTS Process, Inode, Nil,
          Dead,        \* the owner of a file whose process is gone
          MaxDeaths,   \* bound: processes that die
          MaxSleeps    \* bound: leases that lapse under a living owner

ASSUME LockAssumption ==
  /\ Inode \subseteq Nat /\ Nil \notin Process \cup Inode
  /\ Dead \notin Process \cup {Nil}
  /\ MaxDeaths \in Nat /\ MaxSleeps \in Nat

Path == {"gate", "lock"}
Stages == {"idle", "create", "write", "assert", "look", "rename", "judge",
           "remove", "take", "drop", "critical"}

VARIABLES
  at,        \* path |-> inode, or Nil
  owner,     \* inode |-> process in its metadata; Nil while it is empty
  old,       \* inode |-> its mtime is past the stale limit
  sameHost,  \* owners can be looked up: one host and a readable /proc
  on, stage, \* process |-> the path it works on, and what it does next
  goal,      \* process |-> why it wants, or what follows, the gate
  fd,        \* process |-> path |-> inode it created and holds open
  seen,      \* process |-> inode it judged reclaimable
  aside,     \* process |-> inode it renamed out of the way
  deaths, sleeps

paths == <<at, owner, old>>
walk == <<on, stage, goal>>
hands == <<fd, seen, aside>>
bounds == <<sameHost, deaths, sleeps>>
lockVars == <<paths, walk, hands, bounds>>

LockTypes ==
  /\ at \in [Path -> Inode \cup {Nil}]
  /\ owner \in [Inode -> Process \cup {Nil, Dead}]
  /\ old \in [Inode -> BOOLEAN] /\ sameHost \in BOOLEAN
  /\ on \in [Process -> Path] /\ stage \in [Process -> Stages]
  /\ goal \in [Process -> {"acquire", "enter", "release", "leave"}]
  /\ fd \in [Process -> [Path -> Inode \cup {Nil}]]
  /\ seen \in [Process -> Inode \cup {Nil}]
  /\ aside \in [Process -> Inode \cup {Nil}]
  /\ deaths \in 0..MaxDeaths /\ sleeps \in 0..MaxSleeps
  /\ \A p \in Process : stage[p] = "critical" => fd[p]["lock"] # Nil

LockInit ==
  /\ at = [f \in Path |-> Nil]
  /\ owner = [i \in Inode |-> Nil] /\ old = [i \in Inode |-> FALSE]
  /\ sameHost \in BOOLEAN
  /\ on = [p \in Process |-> "gate"] /\ stage = [p \in Process |-> "idle"]
  /\ goal = [p \in Process |-> "acquire"]
  /\ fd = [p \in Process |-> [f \in Path |-> Nil]]
  /\ seen = [p \in Process |-> Nil] /\ aside = [p \in Process |-> Nil]
  /\ deaths = 0 /\ sleeps = 0

----------------------------------------------------------------------------
Is(p, f, s) == on[p] = f /\ stage[p] = s
Step(p, f, s, g) == /\ on' = [on EXCEPT ![p] = f]
                    /\ stage' = [stage EXCEPT ![p] = s]
                    /\ goal' = [goal EXCEPT ![p] = g]
Proceed(p, f, s) == Step(p, f, s, goal[p])

(* The lock is busy: give the gate back, and wait for another turn.        *)
Wait(p) == Step(p, "gate", "remove", "acquire")

Free(i) == /\ \A f \in Path : at[f] # i
           /\ \A p \in Process : aside[p] # i /\ \A f \in Path : fd[p][f] # i

(* The content of a file goes with its last name and descriptor.           *)
Forget == /\ owner' = [i \in Inode |-> IF Free(i)' THEN Nil ELSE owner[i]]
          /\ old' = [i \in Inode |-> ~Free(i)' /\ old[i]]

\* Mutants: a lease that is over outweighs a living owner; a file without
\* metadata is never reclaimed.
ReclaimableByAge(i) == owner[i] = Dead \/ old[i]
ReclaimableIfKnown(i) ==
  owner[i] # Nil /\ IF sameHost THEN owner[i] = Dead ELSE old[i]

(* canReclaimControlFile: a dead owner at once, a living one never; an     *)
(* owner that cannot be looked up, or an empty file, when the lease is over.*)
Reclaimable(i) ==
  IF sameHost /\ owner[i] # Nil THEN owner[i] = Dead ELSE old[i]

(* assertControlFileOwnership                                              *)
Owns(p, f) == fd[p][f] # Nil /\ at[f] = fd[p][f] /\ owner[at[f]] = p

(* One operation of a process at a time: withInProcessPlanetLock.          *)
Want(p) ==
  /\ Is(p, "gate", "idle") /\ Step(p, "gate", "create", "acquire")
  /\ UNCHANGED <<paths, hands, bounds>>

(* open(O_CREAT | O_EXCL): the file is there before its metadata is.       *)
Create(p, f) ==
  /\ Is(p, f, "create") /\ at[f] = Nil
  /\ \E i \in Inode :
       /\ Free(i) /\ \A j \in Inode : j < i => ~Free(j)
       /\ at' = [at EXCEPT ![f] = i]
       /\ owner' = [owner EXCEPT ![i] = Nil] /\ old' = [old EXCEPT ![i] = FALSE]
       /\ fd' = [fd EXCEPT ![p][f] = i]
  /\ Proceed(p, f, "write")
  /\ UNCHANGED <<seen, aside, bounds>>
WriteMetadata(p, f) ==
  /\ Is(p, f, "write")
  /\ owner' = [owner EXCEPT ![fd[p][f]] = p]
  /\ IF f = "gate" THEN Proceed(p, "gate", "assert")
                   ELSE Step(p, "gate", "remove", "enter")
  /\ UNCHANGED <<at, old, hands, bounds>>
(* EEXIST: the gate is tried again until it can be reclaimed; a lock that  *)
(* appeared meanwhile is waited for.                                       *)
GateExists(p) ==
  /\ Is(p, "gate", "create") /\ at["gate"] # Nil /\ Reclaimable(at["gate"])
  /\ seen' = [seen EXCEPT ![p] = at["gate"]] /\ Proceed(p, "gate", "rename")
  /\ UNCHANGED <<paths, fd, aside, bounds>>
LockExists(p) ==
  /\ Is(p, "lock", "create") /\ at["lock"] # Nil /\ Wait(p)
  /\ UNCHANGED <<paths, hands, bounds>>
TimeOut(p) ==
  /\ Is(p, "gate", "create") /\ at["gate"] # Nil
  /\ Step(p, "gate", "idle", "acquire")
  /\ fd' = [fd EXCEPT ![p]["lock"] = Nil]
  /\ UNCHANGED <<at, seen, aside, bounds>> /\ Forget

(* Holding the gate is checked before the lock file is looked at; a gate   *)
(* that was lost ends the attempt.                                         *)
AssertGate(p) ==
  /\ Is(p, "gate", "assert")
  /\ CASE Owns(p, "gate") /\ goal[p] = "acquire" -> Proceed(p, "lock", "look")
       [] Owns(p, "gate") /\ goal[p] = "release" -> Proceed(p, "lock", "remove")
       [] OTHER -> Step(p, "gate", "remove", "leave")
  /\ UNCHANGED <<paths, hands, bounds>>

\* Mutant: a lock that is there is removed without being judged.
LookBlindly(p) ==
  /\ Is(p, "lock", "look") /\ Proceed(p, "lock", "create") /\ UNCHANGED seen
  /\ at' = [at EXCEPT !["lock"] = Nil]
  /\ UNCHANGED <<fd, aside, bounds>> /\ Forget

Look(p) ==
  /\ Is(p, "lock", "look")
  /\ CASE at["lock"] = Nil -> Proceed(p, "lock", "create") /\ UNCHANGED seen
       [] at["lock"] # Nil /\ Reclaimable(at["lock"]) ->
            Proceed(p, "lock", "rename") /\ seen' = [seen EXCEPT ![p] = at["lock"]]
       [] OTHER -> Wait(p) /\ UNCHANGED seen
  /\ UNCHANGED <<paths, fd, aside, bounds>>

(* quarantineStaleControlFile: whatever is at the path now is renamed away *)
(* and judged again; a file that is not the one seen, or no longer         *)
(* reclaimable, is linked back unless the path was taken.                  *)
Rename(p, f) ==
  /\ Is(p, f, "rename")
  /\ IF at[f] = Nil
       THEN Proceed(p, f, "create") /\ seen' = [seen EXCEPT ![p] = Nil]
            /\ UNCHANGED <<at, aside>>
       ELSE /\ aside' = [aside EXCEPT ![p] = at[f]]
            /\ at' = [at EXCEPT ![f] = Nil] /\ Proceed(p, f, "judge")
            /\ UNCHANGED seen
  /\ UNCHANGED <<owner, old, fd, bounds>>
LinkBack(p, f) == at' = [at EXCEPT ![f] = IF @ = Nil THEN aside[p] ELSE @]
Judge(p, f) ==
  /\ Is(p, f, "judge")
  /\ IF aside[p] = seen[p] /\ Reclaimable(aside[p])
       THEN Proceed(p, f, "create") /\ UNCHANGED at
       ELSE LinkBack(p, f) /\ IF f = "gate" THEN Proceed(p, f, "create") ELSE Wait(p)
  /\ aside' = [aside EXCEPT ![p] = Nil] /\ seen' = [seen EXCEPT ![p] = Nil]
  /\ UNCHANGED <<fd, bounds>> /\ Forget

\* Mutant: both descriptors are closed when the gate is given back.
RemovedBoth(p, f) ==
  IF f = "lock"
    THEN Step(p, "gate", "remove", "leave") /\ UNCHANGED fd
    ELSE /\ fd' = [fd EXCEPT ![p] = [g \in Path |-> Nil]]
         /\ CASE goal[p] = "enter" -> Proceed(p, "lock", "critical")
              [] goal[p] = "leave" -> Step(p, "gate", "idle", "acquire")
              [] OTHER -> Proceed(p, "gate", "create")

(* removeOwnedControlFile, and what follows it.                            *)
Removed(p, f) ==
  IF f = "lock"
    THEN Step(p, "gate", "remove", "leave") /\ UNCHANGED fd
    ELSE CASE goal[p] = "enter" ->
                Proceed(p, "lock", "critical") /\ fd' = [fd EXCEPT ![p]["gate"] = Nil]
           [] goal[p] = "leave" ->
                /\ Step(p, "gate", "idle", "acquire")
                /\ fd' = [fd EXCEPT ![p] = [g \in Path |-> Nil]]
           [] OTHER ->
                Proceed(p, "gate", "create") /\ fd' = [fd EXCEPT ![p]["gate"] = Nil]
Remove(p, f) ==
  /\ Is(p, f, "remove")
  /\ IF Owns(p, f) THEN Proceed(p, f, "take") /\ UNCHANGED fd ELSE Removed(p, f)
  /\ UNCHANGED <<at, seen, aside, bounds>> /\ Forget
(* Its own file is renamed away and deleted; another file that came to the *)
(* path meanwhile is linked back.                                          *)
Take(p, f) ==
  /\ Is(p, f, "take")
  /\ at' = [at EXCEPT ![f] = Nil]
  /\ IF at[f] \in {Nil, fd[p][f]}
       THEN Removed(p, f) /\ UNCHANGED aside
       ELSE aside' = [aside EXCEPT ![p] = at[f]] /\ Proceed(p, f, "drop") /\ UNCHANGED fd
  /\ UNCHANGED <<seen, bounds>> /\ Forget
Drop(p, f) ==
  /\ Is(p, f, "drop") /\ LinkBack(p, f)
  /\ aside' = [aside EXCEPT ![p] = Nil] /\ Removed(p, f)
  /\ UNCHANGED <<seen, bounds>> /\ Forget

(* The operation returned, or threw: it checks its ownership before every  *)
(* change it makes.                                                        *)
Finish(p) ==
  /\ Is(p, "lock", "critical") /\ Step(p, "gate", "create", "release")
  /\ UNCHANGED <<paths, hands, bounds>>

----------------------------------------------------------------------------
Heartbeat(p) ==
  /\ stage[p] = "critical" /\ old[fd[p]["lock"]]
  /\ old' = [old EXCEPT ![fd[p]["lock"]] = FALSE]
  /\ UNCHANGED <<at, owner, walk, hands, bounds>>
(* A file grows old under a dead owner, or while a living one is paused or *)
(* its event loop is blocked.  The pause counts as a lapse when nothing    *)
(* but the file's age speaks for its owner.  The age of a gate whose owner *)
(* can be looked up, or of a dead owner's file, is never read.             *)
Lapse(f) == /\ \E p \in Process : fd[p][f] = at[f]
            /\ sameHost => owner[at[f]] = Nil
Age(f) ==
  /\ at[f] # Nil /\ ~old[at[f]] /\ old' = [old EXCEPT ![at[f]] = TRUE]
  /\ sameHost => owner[at[f]] = Nil \/ (f = "lock" /\ owner[at[f]] # Dead)
  /\ IF Lapse(f) THEN sleeps < MaxSleeps /\ sleeps' = sleeps + 1
                 ELSE UNCHANGED sleeps
  /\ UNCHANGED <<at, owner, walk, hands, sameHost, deaths>>
Die(p) ==
  /\ stage[p] # "idle" /\ deaths < MaxDeaths /\ deaths' = deaths + 1
  /\ Step(p, "gate", "idle", "acquire")
  /\ fd' = [fd EXCEPT ![p] = [f \in Path |-> Nil]]
  /\ aside' = [aside EXCEPT ![p] = Nil] /\ seen' = [seen EXCEPT ![p] = Nil]
  /\ UNCHANGED <<at, sameHost, sleeps>>
  /\ owner' = [i \in Inode |-> IF Free(i)' THEN Nil
                              ELSE IF owner[i] = p THEN Dead ELSE owner[i]]
  /\ old' = [i \in Inode |-> ~Free(i)' /\ old[i]]

Code(p) ==
  \/ GateExists(p) \/ LockExists(p) \/ AssertGate(p) \/ Look(p)
  \/ Finish(p)
  \/ \E f \in Path : \/ Create(p, f) \/ WriteMetadata(p, f) \/ Rename(p, f)
                     \/ Judge(p, f) \/ Remove(p, f) \/ Take(p, f) \/ Drop(p, f)
LockNext ==
  \/ \E p \in Process : Want(p) \/ Code(p) \/ TimeOut(p) \/ Heartbeat(p) \/ Die(p)
  \/ \E f \in Path : Age(f)

(* A living process goes on, and time passes.                              *)
LockFairness == /\ \A p \in Process : WF_lockVars(Code(p))
                /\ \A f \in Path : WF_lockVars(Age(f))
LockSpec == LockInit /\ [][LockNext]_lockVars /\ LockFairness

----------------------------------------------------------------------------
Inside(p) == stage[p] = "critical"

(* Two processes are never inside a lifecycle operation at once, as long   *)
(* as owners can be looked up or no living owner slept past its lease      *)
(* (planetFiles.ts:1274-1277, "while serializing against Planet            *)
(* activation, reset, and startup recovery").  It is a property of two     *)
(* processes: with a third one, the death of a holder of the gate is       *)
(* enough for two to be inside.  Of two, either may die at any step, but   *)
(* only one of them once while it has the other one's gate moved away.     *)
MutualExclusion ==
  sameHost \/ sleeps = 0 => \A p, q \in Process : Inside(p) /\ Inside(q) => p = q

(* An owner that is confirmed alive keeps its lock file however old the    *)
(* file is and whoever else looks at it (planetFiles.test.ts:770), unless  *)
(* it slept past the lease before its metadata was written.                *)
ConfirmedOwnerKeepsLock ==
  sameHost /\ sleeps = 0 =>
    \A p \in Process : Inside(p) => Owns(p, "lock")

(* Whatever file a dead process left, at whichever step it died, the only  *)
(* process that waits is not blocked for ever.  Not so when a waiter has   *)
(* put back the file of a process that had already given up: that owner is *)
(* alive, and the file stays as long as it lives.                          *)
Waiting(p) == stage[p] # "idle" /\ goal[p] = "acquire"
Stranded == sameHost /\ \E p \in Process, f \in Path :
              at[f] # Nil /\ owner[at[f]] = p /\ fd[p][f] # at[f]
OrphansAreReclaimed ==
  \A p \in Process :
    ~<>[](/\ Waiting(p) /\ ~Stranded
          /\ \A q \in Process \ {p} : stage[q] = "idle")
=============================================================================
