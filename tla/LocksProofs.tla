---------------------------- MODULE LocksProofs ----------------------------
(***************************************************************************)
(* The two locks of the code.                                              *)
(*                                                                         *)
(* The planet's: its state is well-formed for any number of processes, and *)
(* of two processes one at a time is inside.  The argument: whoever has    *)
(* passed the check of the gate keeps it, because the other one can only   *)
(* move it away and, finding that its owner is alive, put it back; so one  *)
(* process at a time looks at the lock file, and a lock file whose owner   *)
(* is about to enter or inside is never found reclaimable.                 *)
(*                                                                         *)
(* Registration's administrator and its invitations, for any number of     *)
(* requests, addresses and invitations.                                    *)
(***************************************************************************)
EXTENDS PlanetLock, Registration, FiniteSetTheorems, TLAPS


Goals == {"acquire", "enter", "release", "leave"}

(* What a process does next is always one of its stages, on one of the     *)
(* paths.                                                                  *)
Walks(p) == \E f \in Path, s \in Stages, g \in Goals : Step(p, f, s, g)
WalkTypes == /\ on \in [Process -> Path] /\ stage \in [Process -> Stages]
             /\ goal \in [Process -> Goals]

LEMMA WalkTyped == ASSUME WalkTypes, NEW p \in Process, Walks(p) PROVE WalkTypes'
  BY DEF WalkTypes, Walks, Step

LEMMA CodeWalks == ASSUME WalkTypes, NEW p \in Process, Code(p) PROVE Walks(p)
<1> USE DEF Walks, Proceed, Wait, Path, Stages, Goals
<1>0. goal[p] \in Goals
  BY DEF WalkTypes
<1>1. CASE GateExists(p) \/ LockExists(p) \/ Finish(p)
  BY <1>0, <1>1 DEF GateExists, LockExists, Finish
<1>2. CASE AssertGate(p)
  BY <1>0, <1>2 DEF AssertGate
<1>3. CASE Look(p)
  BY <1>0, <1>3 DEF Look
<1>4. ASSUME NEW f \in Path, Create(p, f) PROVE Walks(p)
  BY <1>0, <1>4 DEF Create
<1>5. ASSUME NEW f \in Path, WriteMetadata(p, f) PROVE Walks(p)
  BY <1>0, <1>5 DEF WriteMetadata
<1>6. ASSUME NEW f \in Path, Rename(p, f) PROVE Walks(p)
  BY <1>0, <1>6 DEF Rename
<1>7. ASSUME NEW f \in Path, Judge(p, f) PROVE Walks(p)
  BY <1>0, <1>7 DEF Judge
<1>8. ASSUME NEW f \in Path, Removed(p, f) PROVE Walks(p)
  BY <1>0, <1>8 DEF Removed
<1>9. ASSUME NEW f \in Path, Remove(p, f) \/ Take(p, f) \/ Drop(p, f) PROVE Walks(p)
  BY <1>0, <1>8, <1>9 DEF Remove, Take, Drop
<1>. QED
  BY <1>1, <1>2, <1>3, <1>4, <1>5, <1>6, <1>7, <1>9 DEF Code

LEMMA WalkStep == WalkTypes /\ [LockNext]_lockVars => WalkTypes'
<1> SUFFICES ASSUME WalkTypes, [LockNext]_lockVars PROVE WalkTypes'
  OBVIOUS
<1>1. ASSUME NEW p \in Process, Want(p) \/ Finish(p) \/ TimeOut(p) \/ Die(p) PROVE Walks(p)
  BY <1>1 DEF Want, Finish, TimeOut, Die, Walks, Path, Stages, Goals
<1>2. ASSUME NEW p \in Process, Heartbeat(p) PROVE WalkTypes'
  BY <1>2 DEF Heartbeat, walk, WalkTypes
<1>3. ASSUME NEW f \in Path, Age(f) PROVE WalkTypes'
  BY <1>3 DEF Age, walk, WalkTypes
<1>4. CASE UNCHANGED lockVars
  BY <1>4 DEF lockVars, walk, WalkTypes
<1>. QED
  BY <1>1, <1>2, <1>3, <1>4, CodeWalks, WalkTyped DEF LockNext

(* The files, and what the processes have of them.                         *)
File == Inode \cup {Nil}
FileTypes ==
  /\ at \in [Path -> File] /\ owner \in [Inode -> Process \cup {Nil, Dead}]
  /\ old \in [Inode -> BOOLEAN] /\ sameHost \in BOOLEAN
  /\ fd \in [Process -> [Path -> File]]
  /\ seen \in [Process -> File] /\ aside \in [Process -> File]
  /\ deaths \in 0..MaxDeaths /\ sleeps \in 0..MaxSleeps

LEMMA Closed ==
  ASSUME FileTypes, NEW p \in Process, NEW f \in Path, Removed(p, f)
  PROVE  fd' \in [Process -> [Path -> File]]
<1> USE DEF FileTypes, Removed, Path, File
<1>1. \/ UNCHANGED fd
      \/ fd' = [fd EXCEPT ![p]["gate"] = Nil]
      \/ fd' = [fd EXCEPT ![p] = [g \in Path |-> Nil]]
  BY Zenon
<1>. QED
  BY <1>1

LEMMA Forgotten ==
  ASSUME FileTypes, Forget
  PROVE  /\ owner' \in [Inode -> Process \cup {Nil, Dead}] /\ old' \in [Inode -> BOOLEAN]
  BY DEF FileTypes, Forget

LEMMA FileTypesStep == FileTypes /\ [LockNext]_lockVars => FileTypes'
<1> SUFFICES ASSUME FileTypes, [LockNext]_lockVars PROVE FileTypes'
  OBVIOUS
<1> USE LockAssumption DEF LockAssumption, paths, hands, bounds
<1>1. ASSUME NEW p \in Process, Want(p) \/ LockExists(p) \/ AssertGate(p) \/ Finish(p)
      PROVE  FileTypes'
  BY <1>1 DEF Want, LockExists, AssertGate, Finish, FileTypes
<1>2. ASSUME NEW p \in Process, NEW f \in Path, Create(p, f) PROVE FileTypes'
  BY <1>2 DEF Create, FileTypes, File
<1>3. ASSUME NEW p \in Process, NEW f \in Path, WriteMetadata(p, f) PROVE FileTypes'
  BY <1>3 DEF WriteMetadata, FileTypes
<1>4. ASSUME NEW p \in Process, GateExists(p) \/ Look(p) PROVE FileTypes'
  <2>1. seen' = seen \/ \E f \in Path : seen' = [seen EXCEPT ![p] = at[f]]
    BY <1>4 DEF GateExists, Look, Path
  <2>2. UNCHANGED <<at, owner, old, fd, aside, sameHost, deaths, sleeps>>
    BY <1>4 DEF GateExists, Look
  <2>. QED
    BY <2>1, <2>2 DEF FileTypes
<1>5. ASSUME NEW p \in Process, TimeOut(p) PROVE FileTypes'
  BY <1>5, Forgotten DEF TimeOut, FileTypes, File, Path
<1>6. ASSUME NEW p \in Process, NEW f \in Path, Rename(p, f) PROVE FileTypes'
  <2>1. /\ at' = at \/ at' = [at EXCEPT ![f] = Nil]
        /\ aside' = aside \/ aside' = [aside EXCEPT ![p] = at[f]]
        /\ seen' = seen \/ seen' = [seen EXCEPT ![p] = Nil]
        /\ UNCHANGED <<owner, old, fd, sameHost, deaths, sleeps>>
    BY <1>6, Zenon DEF Rename
  <2>. QED
    BY <2>1 DEF FileTypes, File
<1>7. ASSUME NEW p \in Process, NEW f \in Path, Judge(p, f) PROVE FileTypes'
  <2>1. at' \in [Path -> File]
    BY <1>7 DEF Judge, LinkBack, FileTypes
  <2>. QED
    BY <1>7, <2>1, Forgotten DEF Judge, FileTypes, File
<1>8. ASSUME NEW p \in Process, NEW f \in Path, Remove(p, f) PROVE FileTypes'
  <2>1. fd' \in [Process -> [Path -> File]]
    BY <1>8, Closed DEF Remove, FileTypes
  <2>. QED
    BY <1>8, <2>1, Forgotten DEF Remove, FileTypes
<1>9. ASSUME NEW p \in Process, NEW f \in Path, Take(p, f) PROVE FileTypes'
  <2>1. fd' \in [Process -> [Path -> File]]
    BY <1>9, Closed DEF Take, FileTypes
  <2>2. aside' = aside \/ aside' = [aside EXCEPT ![p] = at[f]]
    BY <1>9, Zenon DEF Take
  <2>3. aside' \in [Process -> File]
    BY <2>2 DEF FileTypes
  <2>4. at' \in [Path -> File]
    BY <1>9 DEF Take, FileTypes, File
  <2>. QED
    BY <1>9, <2>1, <2>3, <2>4, Forgotten DEF Take, FileTypes
<1>10. ASSUME NEW p \in Process, NEW f \in Path, Drop(p, f) PROVE FileTypes'
  <2>1. fd' \in [Process -> [Path -> File]]
    BY <1>10, Closed DEF Drop, FileTypes
  <2>2. at' \in [Path -> File]
    BY <1>10 DEF Drop, LinkBack, FileTypes
  <2>3. aside' \in [Process -> File]
    BY <1>10 DEF Drop, FileTypes, File
  <2>. QED
    BY <1>10, <2>1, <2>2, <2>3, Forgotten DEF Drop, FileTypes
<1>11. ASSUME NEW p \in Process, Heartbeat(p) PROVE FileTypes'
  BY <1>11 DEF Heartbeat, FileTypes
<1>12. ASSUME NEW p \in Process, Die(p) PROVE FileTypes'
  BY <1>12 DEF Die, FileTypes, File
<1>13. ASSUME NEW f \in Path, Age(f) PROVE FileTypes'
  <2>1. sleeps' \in 0..MaxSleeps
    BY <1>13 DEF Age, FileTypes
  <2>2. old' \in [Inode -> BOOLEAN]
    BY <1>13 DEF Age, FileTypes, File
  <2>. QED
    BY <1>13, <2>1, <2>2 DEF Age, FileTypes
<1>14. CASE UNCHANGED lockVars
  BY <1>14 DEF lockVars, FileTypes
<1>. QED
  BY <1>1, <1>2, <1>3, <1>4, <1>5, <1>6, <1>7, <1>8, <1>9, <1>10, <1>11, <1>12, <1>13,
     <1>14 DEF LockNext, Code

(* Where a process is, and what it has in its hands there.                 *)
Stations == \A p \in Process :
  /\ stage[p] \in {"idle", "assert"} => on[p] = "gate"
  /\ stage[p] \in {"look", "critical"} => on[p] = "lock"
  /\ Inside(p) => goal[p] = "enter"
  /\ goal[p] = "enter" =>
       /\ fd[p]["lock"] # Nil
       /\ Inside(p) \/ (on[p] = "gate" /\ stage[p] \in {"remove", "take", "drop"})
  /\ stage[p] = "write" => fd[p][on[p]] # Nil
  /\ aside[p] # Nil <=> stage[p] \in {"judge", "drop"}

(* An open file is open once, and it is the file of one path.              *)
FilesApart ==
  \A p, q \in Process, f, g \in Path : fd[p][f] # Nil =>
    /\ fd[p][f] = fd[q][g] => p = q /\ f = g
    /\ fd[p][f] = at[g] => f = g
    /\ fd[p][f] = aside[q] => on[q] = f

FilesInv == WalkTypes /\ FileTypes /\ Stations /\ FilesApart

(* Every step keeps files apart and hands in order.  A new file is one     *)
(* that no path and no process refers to.                                  *)
LEMMA FilesStep == FilesInv /\ [LockNext]_lockVars => FilesInv'
<1> SUFFICES ASSUME FilesInv, [LockNext]_lockVars PROVE Stations' /\ FilesApart'
  BY WalkStep, FileTypesStep DEF FilesInv
<1> USE LockAssumption
        DEF LockAssumption, FilesInv, WalkTypes, FileTypes, Stations, FilesApart, Path,
            Stages, Goals, File, Inside, Is, Step, Proceed, Wait, paths, walk, hands, bounds
<1>1. ASSUME NEW p \in Process, Want(p) PROVE Stations' /\ FilesApart'
  BY <1>1 DEF Want
<1>2. ASSUME NEW p \in Process, NEW f \in Path, Create(p, f) PROVE Stations' /\ FilesApart'
  <2>1. PICK i \in Inode :
          /\ Free(i)
          /\ at' = [at EXCEPT ![f] = i]
          /\ fd' = [fd EXCEPT ![p][f] = i]
    BY <1>2 DEF Create
  <2>2. /\ on[p] = f /\ stage[p] = "create" /\ at[f] = Nil
        /\ on' = [on EXCEPT ![p] = f] /\ stage' = [stage EXCEPT ![p] = "write"]
        /\ goal' = [goal EXCEPT ![p] = goal[p]]
        /\ UNCHANGED <<seen, aside, sameHost, deaths, sleeps>>
    BY <1>2 DEF Create
  <2>3. /\ \A g \in Path : at[g] # i
        /\ \A q \in Process : aside[q] # i /\ \A g \in Path : fd[q][g] # i
    BY <2>1 DEF Free
  <2>4. Stations'
    BY <2>1, <2>2
  <2>5. FilesApart'
    BY <2>1, <2>2, <2>3
  <2>. QED
    BY <2>4, <2>5
<1>3. ASSUME NEW p \in Process, NEW f \in Path, WriteMetadata(p, f)
      PROVE  Stations' /\ FilesApart'
  <2>0. /\ on[p] = f /\ stage[p] = "write" /\ UNCHANGED <<at, fd, aside>>
        /\ \/ f = "gate" /\ Step(p, "gate", "assert", goal[p])
           \/ f = "lock" /\ Step(p, "gate", "remove", "enter")
    BY <1>3, Zenon DEF WriteMetadata
  <2>1. Stations'
    BY <2>0
  <2>2. FilesApart'
    BY <2>0
  <2>. QED
    BY <2>1, <2>2
<1>4. ASSUME NEW p \in Process, GateExists(p) \/ LockExists(p) \/ AssertGate(p) \/ Look(p)
      PROVE  Stations' /\ FilesApart'
  <2>1. Stations'
    <3>1. CASE GateExists(p) \/ LockExists(p)
      BY <3>1 DEF GateExists, LockExists
    <3>2. CASE AssertGate(p)
      BY <3>2 DEF AssertGate
    <3>3. CASE Look(p)
      BY <3>3 DEF Look
    <3>. QED
      BY <1>4, <3>1, <3>2, <3>3
  <2>2. FilesApart'
    BY <1>4 DEF GateExists, LockExists, AssertGate, Look
  <2>. QED
    BY <2>1, <2>2
<1>5. ASSUME NEW p \in Process, Finish(p) \/ Heartbeat(p)
      PROVE  Stations' /\ FilesApart'
  <2>1. Stations'
    BY <1>5 DEF Finish, Heartbeat
  <2>2. FilesApart'
    BY <1>5 DEF Finish, Heartbeat
  <2>. QED
    BY <2>1, <2>2
<1>6. ASSUME NEW p \in Process, TimeOut(p)
      PROVE  Stations' /\ FilesApart'
  <2>1. Stations'
    BY <1>6 DEF TimeOut
  <2>2. FilesApart'
    BY <1>6 DEF TimeOut
  <2>. QED
    BY <2>1, <2>2
<1>7. ASSUME NEW p \in Process, NEW f \in Path, Rename(p, f)
      PROVE  Stations' /\ FilesApart'
  <2>1. Stations'
    BY <1>7 DEF Rename
  <2>2. FilesApart'
    BY <1>7 DEF Rename
  <2>. QED
    BY <2>1, <2>2
<1>8. ASSUME NEW p \in Process, NEW f \in Path, Judge(p, f)
      PROVE  Stations' /\ FilesApart'
  <2>1. Stations'
    BY <1>8 DEF Judge, LinkBack
  <2>2. FilesApart'
    BY <1>8 DEF Judge, LinkBack
  <2>. QED
    BY <2>1, <2>2
<1>9. ASSUME NEW p \in Process, NEW f \in Path, Remove(p, f)
      PROVE  Stations' /\ FilesApart'
  <2>1. Stations'
    <3>1. CASE Owns(p, f)
      BY <1>9, <3>1 DEF Remove
    <3>2. CASE ~Owns(p, f) /\ f = "lock"
      BY <1>9, <3>2 DEF Remove, Removed
    <3>3. CASE ~Owns(p, f) /\ f = "gate"
      BY <1>9, <3>3 DEF Remove, Removed
    <3>. QED
      BY <3>1, <3>2, <3>3
  <2>2. FilesApart'
    BY <1>9 DEF Remove, Removed
  <2>. QED
    BY <2>1, <2>2
<1>10. ASSUME NEW p \in Process, NEW f \in Path, Take(p, f)
      PROVE  Stations' /\ FilesApart'
  <2>1. Stations'
    BY <1>10 DEF Take, Removed
  <2>2. FilesApart'
    BY <1>10 DEF Take, Removed
  <2>. QED
    BY <2>1, <2>2
<1>11. ASSUME NEW p \in Process, NEW f \in Path, Drop(p, f)
      PROVE  Stations' /\ FilesApart'
  <2>1. Stations'
    BY <1>11 DEF Drop, LinkBack, Removed
  <2>2. FilesApart'
    <3>1. /\ on[p] = f /\ aside' = [aside EXCEPT ![p] = Nil]
          /\ \A g \in Path : at'[g] = at[g] \/ (g = f /\ at'[g] = aside[p])
      BY <1>11 DEF Drop, LinkBack
    <3>2. \A q \in Process, g \in Path : fd'[q][g] = fd[q][g] \/ fd'[q][g] = Nil
      BY <1>11 DEF Drop, Removed
    <3>3. \A q \in Process : q # p => on'[q] = on[q]
      BY <1>11 DEF Drop, Removed
    <3>. QED
      BY <3>1, <3>2, <3>3
  <2>. QED
    BY <2>1, <2>2
<1>12. ASSUME NEW p \in Process, Die(p)
      PROVE  Stations' /\ FilesApart'
  <2>1. Stations'
    BY <1>12 DEF Die
  <2>2. FilesApart'
    BY <1>12 DEF Die
  <2>. QED
    BY <2>1, <2>2
<1>13. ASSUME NEW f \in Path, Age(f) PROVE Stations' /\ FilesApart'
  BY <1>13 DEF Age
<1>14. CASE UNCHANGED lockVars
  BY <1>14 DEF lockVars
<1> HIDE DEF FilesInv, WalkTypes, FileTypes, Stations, FilesApart, Is, Step, Proceed, Wait
<1>. QED
  BY <1>1, <1>2, <1>3, <1>4, <1>5, <1>6, <1>7, <1>8, <1>9, <1>10, <1>11, <1>12, <1>13,
     <1>14 DEF LockNext, Code

LEMMA FilesInit == LockInit => FilesInv
  BY LockAssumption DEF LockInit, LockAssumption, FilesInv, WalkTypes, FileTypes, Stations,
     FilesApart, Path, Stages, Goals, File, Inside

(* The lock's state is well-formed, and a process inside has an open lock  *)
(* file, for any number of processes, deaths and lapses.                   *)
THEOREM LockTypeCorrect == LockSpec => []LockTypes
<1>1. FilesInv => LockTypes
  BY DEF FilesInv, WalkTypes, FileTypes, Stations, Goals, File, Inside, LockTypes
<1>. QED
  BY <1>1, FilesInit, FilesStep, PTL DEF LockSpec

----------------------------------------------------------------------------
(* The planet's lock between two processes.                                *)
AtMostTwo == \A p, q, r \in Process : p = q \/ q = r \/ p = r

(* What mutual exclusion hangs on: a process that has moved the gate away  *)
(* lives until it has judged it.  Dying there it takes along the gate of a *)
(* process that is at work, and the next one makes itself another.         *)
PutsGateBack == \A p \in Process : Die(p) => ~Is(p, "gate", "judge")
TwoSpec == LockInit /\ [][LockNext /\ PutsGateBack]_lockVars

(* Owners can be looked up, or no lease lapsed: then no file that is held  *)
(* open is reclaimable once its owner is known.                            *)
Sober == sameHost \/ sleeps = 0
NeverDrops == \A p \in Process : stage[p] # "drop"
HeldAreFresh ==
  ~sameHost => \A p \in Process, f \in Path : fd[p][f] # Nil => ~old[fd[p][f]]

(* Another process has moved the gate of this one aside, and will put it   *)
(* back.                                                                   *)
Borrowed(p) == \E q \in Process \ {p} :
  Is(q, "gate", "judge") /\ aside[q] = fd[p]["gate"] /\ at["gate"] = Nil
HasGate(p) == /\ fd[p]["gate"] # Nil /\ owner[fd[p]["gate"]] = p
              /\ at["gate"] = fd[p]["gate"] \/ Borrowed(p)

(* Whoever is at the lock file, or about to remove the gate, has it.       *)
AtLock(p) == on[p] = "lock" /\ ~Inside(p)
GateIsHeld == \A p \in Process : AtLock(p) \/ Is(p, "gate", "take") => HasGate(p)

(* Whoever created the lock file and has not begun to release it finds it  *)
(* in place, and nobody else is at work on another one.                    *)
Entering(p) == Is(p, "lock", "write") \/ goal[p] = "enter"
LockIsHeld == \A p \in Process :
  /\ Entering(p) \/ Is(p, "lock", "take") =>
       fd[p]["lock"] # Nil /\ at["lock"] = fd[p]["lock"]
  /\ goal[p] = "enter" => owner[fd[p]["lock"]] = p
Replacing(p) == on[p] = "lock" /\ stage[p] \in {"create", "write", "rename", "judge"}
NobodyEnters == \A p, q \in Process : p # q /\ Replacing(p) => ~Entering(q)

TwoInv ==
  /\ NeverDrops /\ HeldAreFresh /\ GateIsHeld /\ LockIsHeld /\ NobodyEnters

(* A file that stays open keeps its metadata and its age when names and    *)
(* descriptors of others go.                                               *)
KeptOpen(q, f) == fd[q][f] # Nil /\ fd'[q][f] = fd[q][f]
SameFile(i) == owner'[i] = owner[i] /\ old'[i] = old[i]

LEMMA Remembered ==
  ASSUME FileTypes, Forget
  PROVE  \A q \in Process, f \in Path : KeptOpen(q, f) => SameFile(fd[q][f])
<1> SUFFICES ASSUME NEW q \in Process, NEW f \in Path, KeptOpen(q, f)
             PROVE  SameFile(fd[q][f])
  OBVIOUS
<1>1. PICK i \in Inode : i = fd[q][f]
  BY DEF KeptOpen, FileTypes, File
<1>2. ~Free(i)'
  BY <1>1 DEF KeptOpen, Free
<1>. QED
  BY <1>1, <1>2 DEF Forget, SameFile, FileTypes

(* The files of a process that dies are a dead owner's, and only they.     *)
LEMMA Mourned ==
  ASSUME FileTypes, NEW p \in Process, Die(p)
  PROVE  \A q \in Process, f \in Path : KeptOpen(q, f) =>
           /\ old'[fd[q][f]] = old[fd[q][f]]
           /\ owner[fd[q][f]] # p => owner'[fd[q][f]] = owner[fd[q][f]]
<1> SUFFICES ASSUME NEW q \in Process, NEW f \in Path, KeptOpen(q, f)
             PROVE  /\ old'[fd[q][f]] = old[fd[q][f]]
                    /\ owner[fd[q][f]] # p => owner'[fd[q][f]] = owner[fd[q][f]]
  OBVIOUS
<1>1. PICK i \in Inode : i = fd[q][f]
  BY DEF KeptOpen, FileTypes, File
<1>2. ~Free(i)'
  BY <1>1 DEF KeptOpen, Free
<1>. QED
  BY <1>1, <1>2 DEF Die, FileTypes

(* What Create does, with the inode it takes.                              *)
Creates(p, f, i) ==
  /\ \A q \in Process, g \in Path : fd[q][g] # i /\ at[g] # i /\ aside[q] # i
  /\ Is(p, f, "create") /\ at[f] = Nil
  /\ at' = [at EXCEPT ![f] = i] /\ fd' = [fd EXCEPT ![p][f] = i]
  /\ owner' = [owner EXCEPT ![i] = Nil] /\ old' = [old EXCEPT ![i] = FALSE]
  /\ Step(p, f, "write", goal[p]) /\ UNCHANGED <<seen, aside, bounds>>

LEMMA CreatesSomeFile ==
  ASSUME NEW p \in Process, NEW f \in Path, Create(p, f)
  PROVE  \E i \in Inode : Creates(p, f, i)
  BY DEF Create, Creates, Free, Proceed

(* Every step of either process keeps the gate with whoever checked it and *)
(* the lock file with whoever is to enter.  Only Judge could delete a file *)
(* of the other process, and only Rename and Take move it.                 *)
LEMMA TwoStep ==
  ASSUME AtMostTwo, FilesInv, Sober, Sober', TwoInv,
         LockNext /\ PutsGateBack
  PROVE  TwoInv'
<1> USE LockAssumption
        DEF LockAssumption, FilesInv, WalkTypes, FileTypes, Stations, FilesApart, Path,
            Stages, Goals, File, Inside, Is, Step, Proceed, Wait, paths, walk, hands, bounds,
            TwoInv, NeverDrops, HeldAreFresh, HasGate, AtLock, GateIsHeld,
            Borrowed, Entering, LockIsHeld, Replacing, NobodyEnters, AtMostTwo
<1>1. ASSUME NEW p \in Process, Want(p) \/ Finish(p)
      PROVE  TwoInv'
  <2>1. NeverDrops'
    BY <1>1 DEF Want, Finish
  <2>2. HeldAreFresh'
    BY <1>1 DEF Want, Finish
  <2>3. GateIsHeld'
    <3>1. /\ UNCHANGED <<at, owner, fd, aside>>
          /\ \A q \in Process : q # p => on'[q] = on[q] /\ stage'[q] = stage[q]
          /\ on'[p] = "gate" /\ stage'[p] = "create" /\ stage[p] # "judge"
      BY <1>1 DEF Want, Finish
    <3>. QED
      BY <3>1
  <2>4. LockIsHeld'
    BY <1>1 DEF Want, Finish
  <2>5. NobodyEnters'
    BY <1>1 DEF Want, Finish
  <2>. QED
    BY <2>1, <2>2, <2>3, <2>4, <2>5
<1>2. ASSUME NEW p \in Process, NEW f \in Path, Create(p, f)
      PROVE  TwoInv'
  <2>0. PICK i \in Inode : Creates(p, f, i)
    BY <1>2, CreatesSomeFile
  <2>1. NeverDrops'
    BY <2>0 DEF Creates
  <2>2. HeldAreFresh'
    BY <2>0 DEF Creates
  <2>3. GateIsHeld'
    BY <2>0 DEF Creates
  <2>4. LockIsHeld'
    BY <2>0 DEF Creates
  <2>5. NobodyEnters'
    BY <2>0 DEF Creates
  <2>. QED
    BY <2>1, <2>2, <2>3, <2>4, <2>5
<1>3. ASSUME NEW p \in Process, NEW f \in Path, WriteMetadata(p, f)
      PROVE  TwoInv'
  <2>1. NeverDrops'
    BY <1>3 DEF WriteMetadata
  <2>2. HeldAreFresh'
    BY <1>3 DEF WriteMetadata
  <2>3. GateIsHeld'
    BY <1>3 DEF WriteMetadata
  <2>4. LockIsHeld'
    BY <1>3 DEF WriteMetadata
  <2>5. NobodyEnters'
    <3>1. /\ \A q \in Process : q # p =>
                on'[q] = on[q] /\ stage'[q] = stage[q] /\ goal'[q] = goal[q]
          /\ on'[p] = "gate" /\ stage'[p] # "write" /\ Is(p, f, "write")
          /\ goal'[p] = goal[p] \/ (goal'[p] = "enter" /\ f = "lock")
      BY <1>3 DEF WriteMetadata
    <3>2. ASSUME NEW q \in Process, q # p, Replacing(q)' PROVE ~Entering(p)'
      BY <3>1, <3>2
    <3>3. ASSUME NEW q \in Process, NEW r \in Process, q # r, Replacing(q)', r # p
          PROVE  ~Entering(r)'
      BY <3>1, <3>3
    <3> HIDE DEF Entering, Replacing, FilesInv
    <3>. QED
      BY <3>2, <3>3 DEF NobodyEnters
  <2>. QED
    BY <2>1, <2>2, <2>3, <2>4, <2>5
<1>4. ASSUME NEW p \in Process, GateExists(p) \/ LockExists(p)
      PROVE  TwoInv'
  <2>1. NeverDrops'
    BY <1>4 DEF GateExists, LockExists
  <2>2. HeldAreFresh'
    BY <1>4 DEF GateExists, LockExists
  <2>3. GateIsHeld'
    <3>1. CASE GateExists(p)
      BY <3>1 DEF GateExists
    <3>2. CASE LockExists(p)
      BY <3>2 DEF LockExists
    <3>. QED
      BY <1>4, <3>1, <3>2
  <2>4. LockIsHeld'
    <3>1. CASE GateExists(p)
      BY <3>1 DEF GateExists
    <3>2. CASE LockExists(p)
      BY <3>2 DEF LockExists
    <3>. QED
      BY <1>4, <3>1, <3>2
  <2>5. NobodyEnters'
    BY <1>4 DEF GateExists, LockExists
  <2>. QED
    BY <2>1, <2>2, <2>3, <2>4, <2>5
<1>5. ASSUME NEW p \in Process, AssertGate(p)
      PROVE  TwoInv'
  <2>1. NeverDrops'
    BY <1>5 DEF AssertGate, Owns
  <2>2. HeldAreFresh'
    BY <1>5 DEF AssertGate, Owns
  <2>3. GateIsHeld'
    BY <1>5 DEF AssertGate, Owns
  <2>4. LockIsHeld'
    BY <1>5 DEF AssertGate, Owns
  <2>5. NobodyEnters'
    BY <1>5 DEF AssertGate, Owns
  <2>. QED
    BY <2>1, <2>2, <2>3, <2>4, <2>5
<1>6. ASSUME NEW p \in Process, Look(p)
      PROVE  TwoInv'
  <2>1. NeverDrops'
    BY <1>6 DEF Look, Reclaimable
  <2>2. HeldAreFresh'
    BY <1>6 DEF Look, Reclaimable
  <2>3. GateIsHeld'
    BY <1>6 DEF Look, Reclaimable
  <2>4. LockIsHeld'
    BY <1>6 DEF Look, Reclaimable
  <2>5. NobodyEnters'
    BY <1>6 DEF Look, Reclaimable
  <2>. QED
    BY <2>1, <2>2, <2>3, <2>4, <2>5
<1>7. ASSUME NEW p \in Process, TimeOut(p)
      PROVE  TwoInv'
  <2>0. \A q \in Process, g \in Path : KeptOpen(q, g) => SameFile(fd[q][g])
    BY <1>7, Remembered DEF TimeOut
  <2>1. NeverDrops'
    BY <1>7, <2>0 DEF TimeOut, KeptOpen, SameFile
  <2>2. HeldAreFresh'
    <3>1. \A q \in Process, g \in Path : fd'[q][g] = fd[q][g] \/ fd'[q][g] = Nil
      BY <1>7 DEF TimeOut
    <3>2. UNCHANGED sameHost
      BY <1>7 DEF TimeOut
    <3>. QED
      BY <2>0, <3>1, <3>2 DEF KeptOpen, SameFile
  <2>3. GateIsHeld'
    BY <1>7, <2>0 DEF TimeOut, KeptOpen, SameFile
  <2>4. LockIsHeld'
    BY <1>7, <2>0 DEF TimeOut, KeptOpen, SameFile
  <2>5. NobodyEnters'
    BY <1>7, <2>0 DEF TimeOut, KeptOpen, SameFile
  <2>. QED
    BY <2>1, <2>2, <2>3, <2>4, <2>5
<1>8. ASSUME NEW p \in Process, NEW f \in Path, Rename(p, f)
      PROVE  TwoInv'
  <2>1. NeverDrops'
    BY <1>8 DEF Rename
  <2>2. HeldAreFresh'
    BY <1>8 DEF Rename
  <2>3. GateIsHeld'
    BY <1>8 DEF Rename
  <2>4. LockIsHeld'
    BY <1>8 DEF Rename
  <2>5. NobodyEnters'
    BY <1>8 DEF Rename
  <2>. QED
    BY <2>1, <2>2, <2>3, <2>4, <2>5
<1>9. ASSUME NEW p \in Process, NEW f \in Path, Judge(p, f)
      PROVE  TwoInv'
  <2>0. \A q \in Process, g \in Path : KeptOpen(q, g) => SameFile(fd[q][g])
    BY <1>9, Remembered DEF Judge
  <2>1. NeverDrops'
    BY <1>9, <2>0 DEF Judge, LinkBack, KeptOpen, SameFile, Reclaimable
  <2>2. HeldAreFresh'
    BY <1>9, <2>0 DEF Judge, LinkBack, KeptOpen, SameFile, Reclaimable
  <2>3. GateIsHeld'
    BY <1>9, <2>0 DEF Judge, LinkBack, KeptOpen, SameFile, Reclaimable
  <2>4. LockIsHeld'
    BY <1>9, <2>0 DEF Judge, LinkBack, KeptOpen, SameFile, Reclaimable
  <2>5. NobodyEnters'
    BY <1>9, <2>0 DEF Judge, LinkBack, KeptOpen, SameFile, Reclaimable
  <2>. QED
    BY <2>1, <2>2, <2>3, <2>4, <2>5
<1>10. ASSUME NEW p \in Process, NEW f \in Path, Remove(p, f)
      PROVE  TwoInv'
  <2>0. \A q \in Process, g \in Path : KeptOpen(q, g) => SameFile(fd[q][g])
    BY <1>10, Remembered DEF Remove
  <2>1. NeverDrops'
    BY <1>10, <2>0 DEF Remove, Removed, KeptOpen, SameFile, Owns
  <2>2. HeldAreFresh'
    <3>1. \A q \in Process, g \in Path : fd'[q][g] = fd[q][g] \/ fd'[q][g] = Nil
      BY <1>10 DEF Remove, Removed
    <3>2. UNCHANGED sameHost
      BY <1>10 DEF Remove, Removed
    <3>. QED
      BY <2>0, <3>1, <3>2 DEF KeptOpen, SameFile
  <2>3. GateIsHeld'
    <3>1. CASE Owns(p, f)
      BY <1>10, <2>0, <3>1 DEF Remove, KeptOpen, SameFile, Owns
    <3>2. CASE ~Owns(p, f) /\ f = "lock"
      BY <1>10, <2>0, <3>2 DEF Remove, Removed, KeptOpen, SameFile
    <3>3. CASE ~Owns(p, f) /\ f = "gate"
      BY <1>10, <2>0, <3>3 DEF Remove, Removed, KeptOpen, SameFile
    <3>. QED
      BY <3>1, <3>2, <3>3
  <2>4. LockIsHeld'
    BY <1>10, <2>0 DEF Remove, Removed, KeptOpen, SameFile, Owns
  <2>5. NobodyEnters'
    BY <1>10, <2>0 DEF Remove, Removed, KeptOpen, SameFile, Owns
  <2>. QED
    BY <2>1, <2>2, <2>3, <2>4, <2>5
<1>11. ASSUME NEW p \in Process, NEW f \in Path, Take(p, f)
      PROVE  TwoInv'
  <2>0. \A q \in Process, g \in Path : KeptOpen(q, g) => SameFile(fd[q][g])
    BY <1>11, Remembered DEF Take
  <2>1. NeverDrops'
    BY <1>11, <2>0 DEF Take, Removed, KeptOpen, SameFile
  <2>2. HeldAreFresh'
    <3>1. \A q \in Process, g \in Path : fd'[q][g] = fd[q][g] \/ fd'[q][g] = Nil
      <4>1. Removed(p, f) \/ UNCHANGED fd
        BY <1>11, Zenon DEF Take
      <4>2. ASSUME Removed(p, f)
            PROVE  \/ UNCHANGED fd \/ fd' = [fd EXCEPT ![p]["gate"] = Nil]
                   \/ fd' = [fd EXCEPT ![p] = [g \in Path |-> Nil]]
        BY <4>2, Zenon DEF Removed
      <4>. QED
        BY <4>1, <4>2
    <3>2. UNCHANGED sameHost
      BY <1>11 DEF Take
    <3>. QED
      BY <2>0, <3>1, <3>2 DEF KeptOpen, SameFile
  <2>3. GateIsHeld'
    BY <1>11, <2>0 DEF Take, Removed, KeptOpen, SameFile
  <2>4. LockIsHeld'
    <3>1. CASE f = "gate"
      <4>1. /\ at'["lock"] = at["lock"]
            /\ \A q \in Process : fd[q]["lock"] # Nil /\ fd'[q]["lock"] = fd[q]["lock"] =>
                 owner'[fd[q]["lock"]] = owner[fd[q]["lock"]]
        BY <1>11, <2>0, <3>1 DEF Take, KeptOpen, SameFile
      <4>2. /\ \A q \in Process : q # p =>
                 fd'[q] = fd[q] /\ on'[q] = on[q] /\ stage'[q] = stage[q] /\ goal'[q] = goal[q]
            /\ goal'[p] = "enter" => goal[p] = "enter" /\ fd'[p]["lock"] = fd[p]["lock"]
            /\ stage'[p] \notin {"write", "take"}
        BY <1>11, <3>1 DEF Take, Removed
      <4>. QED
        BY <4>1, <4>2
    <3>2. CASE f = "lock"
      BY <1>11, <2>0, <3>2 DEF Take, Removed, KeptOpen, SameFile
    <3>. QED
      BY <3>1, <3>2
  <2>5. NobodyEnters'
    BY <1>11, <2>0 DEF Take, Removed, KeptOpen, SameFile
  <2>. QED
    BY <2>1, <2>2, <2>3, <2>4, <2>5
<1>12. ASSUME NEW p \in Process, Heartbeat(p)
      PROVE  TwoInv'
  <2>1. NeverDrops'
    BY <1>12 DEF Heartbeat
  <2>2. HeldAreFresh'
    BY <1>12 DEF Heartbeat
  <2>3. GateIsHeld'
    BY <1>12 DEF Heartbeat
  <2>4. LockIsHeld'
    BY <1>12 DEF Heartbeat
  <2>5. NobodyEnters'
    BY <1>12 DEF Heartbeat
  <2>. QED
    BY <2>1, <2>2, <2>3, <2>4, <2>5
<1>13. ASSUME NEW p \in Process, Die(p)
      PROVE  TwoInv'
  <2>1. ~Is(p, "gate", "judge")
    BY <1>13, Zenon DEF PutsGateBack
  <2>2. /\ UNCHANGED <<at, sameHost>>
        /\ on' = [on EXCEPT ![p] = "gate"] /\ stage' = [stage EXCEPT ![p] = "idle"]
        /\ goal' = [goal EXCEPT ![p] = "acquire"]
        /\ fd' = [fd EXCEPT ![p] = [g \in Path |-> Nil]]
        /\ aside' = [aside EXCEPT ![p] = Nil]
    BY <1>13 DEF Die
  <2>3. \A q \in Process, f \in Path : KeptOpen(q, f) =>
          /\ old'[fd[q][f]] = old[fd[q][f]]
          /\ owner[fd[q][f]] # p => owner'[fd[q][f]] = owner[fd[q][f]]
    BY <1>13, Mourned
  <2> USE <2>1, <2>2, <2>3 DEF KeptOpen
  <2>4. NeverDrops'
    OBVIOUS
  <2>5. HeldAreFresh'
    OBVIOUS
  <2>6. GateIsHeld'
    OBVIOUS
  <2>7. LockIsHeld'
    OBVIOUS
  <2>8. NobodyEnters'
    OBVIOUS
  <2>. QED
    BY <2>4, <2>5, <2>6, <2>7, <2>8
<1>14. ASSUME NEW p \in Process, NEW f \in Path, Drop(p, f) PROVE TwoInv'
  BY <1>14 DEF Drop
<1>15. ASSUME NEW f \in Path, Age(f) PROVE TwoInv'
  BY <1>15 DEF Age, Lapse, Sober
<1> HIDE DEF FilesInv, TwoInv, Is, Step, Proceed, Wait
<1>. QED
  BY <1>1, <1>2, <1>3, <1>4, <1>5, <1>6, <1>7, <1>8, <1>9, <1>10, <1>11, <1>12, <1>13,
     <1>14, <1>15 DEF LockNext, Code

LEMMA TwoInit == LockInit => TwoInv
  BY DEF LockInit, TwoInv, NeverDrops, HeldAreFresh, GateIsHeld, LockIsHeld,
     NobodyEnters, AtLock, Entering, Replacing, Is, Inside, Path

(* A lapse is not undone.                                                  *)
LEMMA SoberBefore == FilesInv /\ [LockNext]_lockVars /\ Sober' => Sober
<1> SUFFICES ASSUME FilesInv, [LockNext]_lockVars, Sober' PROVE Sober
  OBVIOUS
<1> USE DEF bounds
<1>1. ASSUME NEW f \in Path, Age(f) PROVE sameHost' = sameHost /\ (sleeps' = 0 => sleeps = 0)
  <2>1. UNCHANGED sleeps \/ sleeps' = sleeps + 1
    BY <1>1, Zenon DEF Age
  <2>2. UNCHANGED sameHost
    BY <1>1, Zenon DEF Age
  <2>. QED
    BY <2>1, <2>2 DEF FilesInv, FileTypes
<1>2. ASSUME NEW p \in Process, Code(p) PROVE UNCHANGED <<sameHost, sleeps>>
  BY <1>2, Zenon DEF Code, GateExists, LockExists, AssertGate, Look, Finish, Create,
     WriteMetadata, Rename, Judge, Remove, Take, Drop
<1>3. ASSUME NEW p \in Process, Want(p) \/ TimeOut(p) \/ Heartbeat(p) \/ Die(p)
      PROVE  UNCHANGED <<sameHost, sleeps>>
  BY <1>3, Zenon DEF Want, TimeOut, Heartbeat, Die
<1>4. CASE UNCHANGED lockVars
  BY <1>4 DEF lockVars, Sober
<1>. QED
  BY <1>1, <1>2, <1>3, <1>4 DEF LockNext, Sober

HeldInv == FilesInv /\ (Sober => TwoInv)

LEMMA HeldStep ==
  ASSUME AtMostTwo PROVE HeldInv /\ [LockNext /\ PutsGateBack]_lockVars => HeldInv'
<1> SUFFICES ASSUME HeldInv, [LockNext /\ PutsGateBack]_lockVars, Sober'
             PROVE  FilesInv' /\ TwoInv'
  BY FilesStep DEF HeldInv
<1>1. FilesInv /\ FilesInv' /\ Sober /\ TwoInv
  BY FilesStep, SoberBefore DEF HeldInv
<1>2. CASE UNCHANGED lockVars
  BY <1>1, <1>2 DEF lockVars, paths, walk, hands, bounds, TwoInv, NeverDrops, HeldAreFresh,
     HasGate, AtLock, GateIsHeld, Borrowed, Entering, LockIsHeld, Replacing, NobodyEnters,
     Is, Inside
<1>. QED
  BY <1>1, <1>2, TwoStep

(* Who is inside owns the lock file.                                       *)
LEMMA HeldKeeps == HeldInv /\ Sober => \A p \in Process : Inside(p) => Owns(p, "lock")
  BY DEF HeldInv, FilesInv, Stations, TwoInv, LockIsHeld, Entering, Owns

(* Of two processes only one is ever inside a lifecycle operation          *)
(* (planetFiles.ts:1274-1277), whatever their steps, however often they    *)
(* die and whichever lease lapses, unless one dies between moving the gate *)
(* away and putting it back.                                               *)
THEOREM TwoExclude == ASSUME AtMostTwo PROVE TwoSpec => []MutualExclusion
<1>1. LockInit => HeldInv
  BY FilesInit, TwoInit DEF HeldInv
<1>2. HeldInv => MutualExclusion
  BY HeldKeeps DEF HeldInv, FilesInv, FilesApart, Owns, Path, Sober, MutualExclusion
<1>. QED
  BY <1>1, <1>2, HeldStep, PTL DEF TwoSpec

(* The owner's lock file stays in place for as long as it is inside        *)
(* (planetFiles.test.ts:770), under the same conditions.                   *)
THEOREM OwnerKeepsLock == ASSUME AtMostTwo PROVE TwoSpec => []ConfirmedOwnerKeepsLock
<1>1. LockInit => HeldInv
  BY FilesInit, TwoInit DEF HeldInv
<1>2. HeldInv => ConfirmedOwnerKeepsLock
  BY HeldKeeps DEF Sober, ConfirmedOwnerKeepsLock
<1>. QED
  BY <1>1, <1>2, HeldStep, PTL DEF TwoSpec

----------------------------------------------------------------------------
(* Registration.                                                           *)


(* Who has an account is done, and no two accounts have one address.       *)
AccountsAreDone == \A u \in users : pc[u.by] = "done"
OnePerAddress == \A u, v \in users : email[u.by] = email[v.by] => u = v

(* Who is to become the administrator may.                                 *)
MayAdminister(r) ==
  /\ configured # None => email[r] = configured
  /\ r \in OAuth => configured # None
PendingMay == \A r \in Request : first[r] => pc[r] = "writing" /\ MayAdminister(r)
StoredMay == \A u \in users : u.first => MayAdminister(u.by)

(* A form decides with what its transaction saw, which is not undone.      *)
SnapshotsArePast == \A f \in Form : snapshot[f].users \subseteq users
FormsDecide == \A f \in Form : pc[f] = "writing" => (first[f] <=> snapshot[f].users = {})

(* The others saw an account, or hold the lock against whoever might be    *)
(* the first besides them.                                                 *)
OthersSaw == \A r \in Rest \cup OAuth : pc[r] = "writing" /\ ~first[r] => users # {}
RestAlone == \A r \in Rest :
  pc[r] = "writing" /\ first[r] /\ configured = None => users = {}

(* The first account stored by a form is so among forms, and likewise for  *)
(* REST unless an address is configured.                                   *)
FormAlone == \A u, v \in users :
  u.first /\ v.first /\ u.by \in Form /\ v.by \in Form => u = v
RestOnce == \A u, v \in users :
  u.first /\ v.first /\ u.by \in Rest /\ v.by \in Rest /\ configured = None => u = v

AdminInv ==
  /\ RegistrationTypes
  /\ AccountsAreDone /\ OnePerAddress /\ PendingMay /\ StoredMay
  /\ SnapshotsArePast /\ FormsDecide /\ OthersSaw /\ RestAlone
  /\ FormAlone /\ RestOnce /\ SomeoneAdministers

(* Every step keeps the invariant.  A form that stores the first account   *)
(* has seen no other form's; nobody is first by REST while a form or a     *)
(* login may be, since the forms wait for the lock and a login that found  *)
(* no account needs the configured address.                                *)
LEMMA AdminStep == AdminInv /\ [RegistrationNext]_regVars => AdminInv'
<1> SUFFICES ASSUME AdminInv, [RegistrationNext]_regVars PROVE AdminInv'
  OBVIOUS
<1> USE RegistrationAssumption
        DEF RegistrationAssumption, AdminInv, RegistrationTypes, AccountsAreDone,
            OnePerAddress, PendingMay, StoredMay, SnapshotsArePast, FormsDecide,
            OthersSaw, RestAlone, FormAlone, RestOnce, SomeoneAdministers,
            Request, MayAdminister, User, Snapshot, Stage, Now, Nothing, Email
<1>1. ASSUME NEW f \in Form, Begin(f) PROVE AdminInv'
  BY <1>1 DEF Begin, Go, form, deployment
<1>2. ASSUME NEW f \in Form, TakeSnapshot(f) PROVE AdminInv'
  BY <1>2 DEF TakeSnapshot, Go, deployment
<1>3. ASSUME NEW f \in Form, Decide(f) PROVE AdminInv'
  <2> USE <1>3 DEF Decide, Go, form, deployment, Admitted, Known, MayBeFirst, HasUses
  <2>1. RegistrationTypes'
    OBVIOUS
  <2>2. AccountsAreDone' /\ OnePerAddress' /\ StoredMay'
    OBVIOUS
  <2>3. PendingMay'
    OBVIOUS
  <2>4. FormsDecide'
    OBVIOUS
  <2>5. SnapshotsArePast' /\ OthersSaw' /\ RestAlone'
    OBVIOUS
  <2>6. FormAlone' /\ RestOnce' /\ SomeoneAdministers'
    OBVIOUS
  <2> QED BY <2>1, <2>2, <2>3, <2>4, <2>5, <2>6
<1>4. ASSUME NEW f \in Form, Refuse(f) PROVE AdminInv'
  BY <1>4 DEF Refuse, Fails, Ends, Go, deployment
<1>5. ASSUME NEW f \in Form, Commit(f) PROVE AdminInv'
  BY <1>5 DEF Commit, Serializes, Store, Redeemed, Ends, Go, deployment, Known
<1>6. ASSUME NEW r \in Rest, RestLock(r) PROVE AdminInv'
  BY <1>6 DEF RestLock, Go, form, deployment
<1>7. ASSUME NEW r \in Rest, RestCount(r) PROVE AdminInv'
  BY <1>7 DEF RestCount, Go, form, deployment
<1>8. ASSUME NEW r \in Rest, RestDecide(r) PROVE AdminInv'
  <2> USE <1>8 DEF RestDecide, Go, form, deployment, MayBeFirst, Known
  <2>1. RegistrationTypes'
    OBVIOUS
  <2>2. AccountsAreDone' /\ OnePerAddress' /\ StoredMay'
    OBVIOUS
  <2>3. PendingMay' /\ FormsDecide'
    OBVIOUS
  <2>4. SnapshotsArePast' /\ OthersSaw' /\ RestAlone'
    OBVIOUS
  <2>5. FormAlone' /\ RestOnce' /\ SomeoneAdministers'
    OBVIOUS
  <2> QED BY <2>1, <2>2, <2>3, <2>4, <2>5
<1>9. ASSUME NEW r \in Rest, RestCommit(r) PROVE AdminInv'
  BY <1>9 DEF RestCommit, Store, Ends, Go, deployment, Known
<1>10. ASSUME NEW o \in OAuth, HookSettings(o) PROVE AdminInv'
  BY <1>10 DEF HookSettings, Go, form, deployment, Known
<1>11. ASSUME NEW o \in OAuth, HookCount(o) PROVE AdminInv'
  <2> USE <1>11 DEF HookCount, Go, form, deployment
  <2>1. RegistrationTypes'
    OBVIOUS
  <2>2. AccountsAreDone' /\ OnePerAddress' /\ StoredMay'
    OBVIOUS
  <2>3. PendingMay' /\ FormsDecide'
    OBVIOUS
  <2>4. SnapshotsArePast' /\ OthersSaw' /\ RestAlone'
    OBVIOUS
  <2>5. FormAlone' /\ RestOnce' /\ SomeoneAdministers'
    OBVIOUS
  <2> QED BY <2>1, <2>2, <2>3, <2>4, <2>5
<1>12. ASSUME NEW o \in OAuth, HookStored(o) PROVE AdminInv'
  BY <1>12 DEF HookStored, Store, Ends, Go, deployment, Known
<1>13. ASSUME NEW r \in Request, Abandon(r) PROVE AdminInv'
  BY <1>13 DEF Abandon, Fails, Ends, Go, deployment
<1>14. CASE SetRegistration
  BY <1>14 DEF SetRegistration, form, deployment
<1>15. ASSUME NEW i \in Invite \cup Token, DeleteInvitation(i) PROVE AdminInv'
  BY <1>15 DEF DeleteInvitation, form, deployment
<1>16. CASE UNCHANGED regVars
  BY <1>16 DEF regVars
<1> QED
  BY <1>1, <1>2, <1>3, <1>4, <1>5, <1>6, <1>7, <1>8, <1>9, <1>10, <1>11, <1>12,
     <1>13, <1>14, <1>15, <1>16 DEF RegistrationNext

(* It holds of a server without accounts.                                  *)
LEMMA AdminStart == RegistrationInit => AdminInv
BY DEF RegistrationInit, AdminInv, RegistrationTypes, AccountsAreDone, OnePerAddress,
       PendingMay, StoredMay, SnapshotsArePast, FormsDecide, OthersSaw, RestAlone,
       FormAlone, RestOnce, SomeoneAdministers, Request, User, Snapshot, Stage, Nothing

(* The inductive invariant holds in every behaviour of register, the REST  *)
(* handler and the OAuth hook together.                                    *)
THEOREM AdminInvariant == RegistrationSpec => []AdminInv
BY AdminStart, AdminStep, PTL DEF RegistrationSpec

(* Two first administrators have one address if one is configured; if none *)
(* is, neither came with OAuth, and they are not of a kind.                *)
LEMMA AdminIsAlone == AdminInv => FirstAlone
<1> SUFFICES ASSUME AdminInv, NEW u \in users, NEW v \in users,
                    u.first, v.first, u # v
             PROVE configured = None /\ \E r \in Rest, f \in Form : {u.by, v.by} = {r, f}
  BY DEF FirstAlone
<1>1. configured = None
  BY DEF AdminInv, StoredMay, MayAdminister, OnePerAddress
<1>2. u.by \notin OAuth /\ v.by \notin OAuth
  BY <1>1 DEF AdminInv, StoredMay, MayAdminister
<1>3. u.by \in Form \cup Rest /\ v.by \in Form \cup Rest
  BY <1>2 DEF AdminInv, RegistrationTypes, User, Request
<1>4. CASE u.by \in Form
  <2>1. v.by \in Rest
    BY <1>3, <1>4 DEF AdminInv, FormAlone
  <2> QED BY <1>1, <1>4, <2>1
<1>5. CASE u.by \in Rest
  <2>1. v.by \in Form
    BY <1>1, <1>3, <1>5 DEF AdminInv, RestOnce
  <2> QED BY <1>1, <1>5, <2>1
<1> QED BY <1>3, <1>4, <1>5

(* However registrations interleave, a second first administrator needs a  *)
(* form and a creation by REST, on a server with no configured address.    *)
THEOREM FirstIsAlone == RegistrationSpec => []FirstAlone
BY AdminInvariant, AdminIsAlone, PTL

(* A server with accounts has one that was made administrator for being    *)
(* the first.                                                              *)
THEOREM SomeoneIsAdministrator == RegistrationSpec => []SomeoneAdministers
BY AdminInvariant, PTL DEF AdminInv

(* Types, and that whoever counts accounts in a transaction that took the  *)
(* advisory lock still holds it.                                           *)
THEOREM AccountTypes == RegistrationSpec => []RegistrationTypes
BY AdminInvariant, PTL DEF AdminInv

-----------------------------------------------------------------------------
(* A snapshot that misses no form's account has every invitation's count.  *)
SnapshotsCount == \A f \in Form, i \in Invite :
  /\ pc[f] \in {"waiting", "writing"}
  /\ \A u \in users \ snapshot[f].users : u.by \notin Form
  => snapshot[f].used[i] = used[i]
WritersHaveUses == \A f \in Form : pc[f] = "writing" => HasUses(f)
TokensAreFresh == \A t \in Token \cap invitations : Invited(t) = {}
CountInv == IsFiniteSet(users) /\ SnapshotsCount /\ WritersHaveUses
            /\ TokensAreFresh /\ InvitationsAreCounted

(* What an account carried does not change, so a step that stores none     *)
(* leaves every set of invited accounts as it was, and one that does adds  *)
(* the account to the set of what it carried.                              *)
LEMMA InvitedStay ==
  ASSUME AdminInv, NEW i \in Invite \cup Token, users' = users,
         \A f \in Form : pc[f] = "done" => carries'[f] = carries[f]
  PROVE  Invited(i)' = Invited(i)
BY DEF AdminInv, AccountsAreDone, Invited

LEMMA InvitedGrows ==
  ASSUME AdminInv, NEW i \in Invite \cup Token, NEW f \in Form, Commit(f)
  PROVE  Invited(i)' = IF carries[f] = i
                         THEN Invited(i) \cup {[by |-> f, first |-> first[f]]}
                         ELSE Invited(i)
BY DEF AdminInv, RegistrationTypes, AccountsAreDone, Invited, Commit, Store, Ends, Go

LEMMA OthersInviteNobody ==
  ASSUME AdminInv, NEW i \in Invite \cup Token, NEW r \in Rest \cup OAuth, Store(r),
         Ends(r, "done")
  PROVE  Invited(i)' = Invited(i)
BY RegistrationAssumption
   DEF RegistrationAssumption, AdminInv, RegistrationTypes, AccountsAreDone, Invited,
       Store, Ends, Go, Request

(* A step that stores no account and gives no form a snapshot.             *)
LEMMA CountUndisturbed ==
  ASSUME AdminInv, CountInv, UNCHANGED <<users, used>>,
         invitations' \subseteq invitations,
         \A f \in Form :
           /\ pc[f] = "done" => carries'[f] = carries[f]
           /\ pc'[f] \in {"waiting", "writing"} =>
                /\ snapshot'[f] = snapshot[f] /\ carries'[f] = carries[f]
                /\ pc[f] \in {"waiting", "writing"}
                /\ pc'[f] = "writing" => pc[f] = "writing" \/ HasUses(f)
  PROVE  CountInv'
<1>1. \A i \in Invite \cup Token : Invited(i)' = Invited(i)
  BY InvitedStay
<1>2. IsFiniteSet(users)' /\ SnapshotsCount'
  BY DEF CountInv, SnapshotsCount
<1>3. WritersHaveUses'
  BY DEF CountInv, WritersHaveUses, HasUses
<1>4. TokensAreFresh'
  BY <1>1 DEF CountInv, TokensAreFresh
<1>5. InvitationsAreCounted'
  BY <1>1 DEF CountInv, InvitationsAreCounted
<1> QED BY <1>2, <1>3, <1>4, <1>5 DEF CountInv

(* Every step keeps the counts: a form that redeems an invitation has seen *)
(* what every other form made of it.                                       *)
LEMMA CountStep == AdminInv /\ CountInv /\ [RegistrationNext]_regVars => CountInv'
<1> SUFFICES ASSUME AdminInv, CountInv, [RegistrationNext]_regVars PROVE CountInv'
  OBVIOUS
<1> USE RegistrationAssumption DEF RegistrationAssumption, Request
<1>1. ASSUME NEW f \in Form, Begin(f) \/ Decide(f) \/ Refuse(f) PROVE CountInv'
  BY <1>1, CountUndisturbed
     DEF Begin, Decide, Admitted, Refuse, Fails, Ends, Go, form, AdminInv, RegistrationTypes
<1>2. ASSUME NEW r \in Rest, RestLock(r) \/ RestCount(r) \/ RestDecide(r) PROVE CountInv'
  BY <1>2, CountUndisturbed
     DEF RestLock, RestCount, RestDecide, Go, form, AdminInv, RegistrationTypes
<1>3. ASSUME NEW o \in OAuth, HookSettings(o) \/ HookCount(o) PROVE CountInv'
  BY <1>3, CountUndisturbed
     DEF HookSettings, HookCount, Go, form, AdminInv, RegistrationTypes
<1>4. ASSUME NEW r \in Request, Abandon(r) PROVE CountInv'
  BY <1>4, CountUndisturbed DEF Abandon, Fails, Ends, Go, AdminInv, RegistrationTypes
<1>5. CASE SetRegistration \/ \E i \in Invite \cup Token : DeleteInvitation(i)
  BY <1>5, CountUndisturbed DEF SetRegistration, DeleteInvitation, form
<1>6. CASE UNCHANGED regVars
  BY <1>6, CountUndisturbed DEF regVars
<1>7. ASSUME NEW f \in Form, TakeSnapshot(f) PROVE CountInv'
  <2>1. \A i \in Invite \cup Token : Invited(i)' = Invited(i)
    BY <1>7, InvitedStay DEF TakeSnapshot
  <2>2. IsFiniteSet(users)' /\ SnapshotsCount'
    BY <1>7 DEF TakeSnapshot, Go, Now, CountInv, SnapshotsCount, AdminInv, RegistrationTypes
  <2>3. WritersHaveUses'
    BY <1>7 DEF TakeSnapshot, Go, CountInv, WritersHaveUses, HasUses, AdminInv,
                RegistrationTypes
  <2>4. TokensAreFresh' /\ InvitationsAreCounted'
    BY <1>7, <2>1 DEF TakeSnapshot, CountInv, TokensAreFresh, InvitationsAreCounted
  <2> QED BY <2>2, <2>3, <2>4 DEF CountInv
<1>8. ASSUME NEW r \in Rest \cup OAuth, RestCommit(r) \/ HookStored(r) PROVE CountInv'
  <2> USE <1>8 DEF RestCommit, HookStored, Store
  <2>1. \A i \in Invite \cup Token : Invited(i)' = Invited(i)
    BY OthersInviteNobody
  <2>2. IsFiniteSet(users)'
    <3>1. PICK u : users' = users \cup {u}
      OBVIOUS
    <3>2. IsFiniteSet(users \cup {u})
      BY FS_AddElement DEF CountInv
    <3> QED BY <3>1, <3>2
  <2>3. SnapshotsCount'
    BY DEF Ends, Go, CountInv, SnapshotsCount, AdminInv, RegistrationTypes
  <2>4. WritersHaveUses'
    BY DEF Ends, Go, CountInv, WritersHaveUses, HasUses, AdminInv, RegistrationTypes
  <2>5. TokensAreFresh' /\ InvitationsAreCounted'
    BY <2>1 DEF CountInv, TokensAreFresh, InvitationsAreCounted
  <2> QED BY <2>2, <2>3, <2>4, <2>5 DEF CountInv
<1>9. ASSUME NEW f \in Form, Commit(f) PROVE CountInv'
  <2> DEFINE account == [by |-> f, first |-> first[f]]
  <2>1. IsFiniteSet(users)'
    BY <1>9, FS_AddElement DEF Commit, Store, CountInv
  <2>2. SnapshotsCount'
    <3> SUFFICES ASSUME NEW g \in Form, NEW i \in Invite,
                        pc'[g] \in {"waiting", "writing"},
                        \A u \in users' \ snapshot'[g].users : u.by \notin Form
                 PROVE  FALSE
      BY DEF SnapshotsCount
    <3>1. g # f /\ snapshot'[g] = snapshot[g]
      BY <1>9 DEF Commit, Ends, Go, AdminInv, RegistrationTypes
    <3>2. account \in users' /\ account \notin users
      BY <1>9 DEF Commit, Store, Known
    <3> QED BY <3>1, <3>2 DEF AdminInv, SnapshotsArePast
  <2>3. WritersHaveUses'
    BY <1>9 DEF Commit, Ends, Go, CountInv, WritersHaveUses, HasUses, AdminInv,
                RegistrationTypes
  <2>4. TokensAreFresh'
    BY <1>9, InvitedGrows DEF Commit, Redeemed, CountInv, TokensAreFresh
  <2>5. account \notin users
    BY <1>9 DEF Commit, Store, Known
  <2>6. ASSUME NEW i \in Invite
        PROVE  (used[i] = Cardinality(Invited(i)) /\ used[i] <= timesCanUse[i])'
    <3>1. CASE carries[f] = i
      <4>1. used'[i] = used[i] + 1
        BY <1>9, <3>1 DEF Commit, Redeemed, AdminInv, RegistrationTypes
      <4>2. Cardinality(Invited(i))' = Cardinality(Invited(i)) + 1
        <5>1. IsFiniteSet(Invited(i))
          BY FS_Subset DEF CountInv, Invited
        <5>2. account \notin Invited(i) /\ Invited(i)' = Invited(i) \cup {account}
          BY <1>9, <3>1, <2>5, InvitedGrows DEF Invited
        <5> QED BY <5>1, <5>2, FS_AddElement
      <4>3. used[i] < timesCanUse[i]
        BY <1>9, <3>1 DEF Commit, Serializes, CountInv, SnapshotsCount, WritersHaveUses,
                          HasUses
      <4> QED
        BY <4>1, <4>2, <4>3 DEF CountInv, InvitationsAreCounted, AdminInv, RegistrationTypes
    <3>2. CASE carries[f] # i
      BY <1>9, <3>2, InvitedGrows DEF Commit, Redeemed, CountInv, InvitationsAreCounted,
                                      AdminInv, RegistrationTypes
    <3> QED BY <3>1, <3>2
  <2>7. ASSUME NEW t \in Token PROVE (Cardinality(Invited(t)) <= 1)'
    <3>1. CASE carries[f] = t
      <4>1. Invited(t) = {}
        BY <1>9, <3>1 DEF Commit, Redeemed, CountInv, TokensAreFresh
      <4>2. Invited(t)' = {account}
        BY <1>9, <3>1, <4>1, InvitedGrows
      <4>3. Cardinality({account}) = 1
        BY FS_Singleton
      <4>4. Cardinality(Invited(t))' = Cardinality({account})
        BY <4>2
      <4> QED BY <4>3, <4>4
    <3>2. CASE carries[f] # t
      BY <1>9, <3>2, InvitedGrows DEF CountInv, InvitationsAreCounted
    <3> QED BY <3>1, <3>2
  <2> QED BY <2>1, <2>2, <2>3, <2>4, <2>6, <2>7 DEF CountInv, InvitationsAreCounted
<1> QED BY <1>1, <1>2, <1>3, <1>4, <1>5, <1>6, <1>7, <1>8, <1>9 DEF RegistrationNext

(* No invitation is used on a server without accounts.                     *)
LEMMA CountStart == RegistrationInit => CountInv
<1> SUFFICES ASSUME RegistrationInit PROVE CountInv
  OBVIOUS
<1>1. IsFiniteSet(users) /\ Cardinality({}) = 0
  BY FS_EmptySet DEF RegistrationInit
<1>2. \A i \in Invite \cup Token : Invited(i) = {}
  BY DEF RegistrationInit, Invited
<1>3. InvitationsAreCounted
  <2>1. \A i \in Invite \cup Token : Cardinality(Invited(i)) = 0
    BY <1>1, <1>2
  <2> QED
    BY <2>1, RegistrationAssumption
       DEF RegistrationInit, InvitationsAreCounted, RegistrationAssumption
<1>4. SnapshotsCount /\ WritersHaveUses
  BY DEF RegistrationInit, SnapshotsCount, WritersHaveUses, Request
<1> QED BY <1>1, <1>2, <1>3, <1>4 DEF CountInv, TokensAreFresh

(* An invitation admits no more accounts than it was made for, and its     *)
(* timesUsed is their number, for any number of forms that carry it.       *)
THEOREM InvitationsCount == RegistrationSpec => []InvitationsAreCounted
<1>1. CountInv => InvitationsAreCounted
  BY DEF CountInv
<1> QED BY <1>1, AdminInvariant, CountStart, CountStep, PTL DEF RegistrationSpec
=============================================================================
