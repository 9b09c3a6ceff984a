--------------------------- MODULE StoreLockProofs ---------------------------
(***************************************************************************)
(* What StoreLock guarantees for every set of processes and hosts.         *)
(***************************************************************************)
EXTENDS StoreLock, TLAPS

\* Until an unlink misfires, the lock file is there exactly while a live
\* process owns the lock or a dead one has left it behind.
FileTellsOwner ==
  ~misfire =>
    /\ \A p \in Procs : Owns(p) => lockFile # None /\ lockFile.creator = p
    /\ lockFile # None /\ Alive(lockFile.creator) => Owns(lockFile.creator)

IInv == TypeOK /\ FileTellsOwner

-----------------------------------------------------------------------------
\* The fields of a lock file that exists.
LEMMA LockFileFields ==
  ASSUME TypeOK, lockFile # None
  PROVE  /\ lockFile \in LockFiles
         /\ lockFile.creator \in Procs
  BY DEF TypeOK, LockFiles

\* The variables start with values of their types.
LEMMA TypeOKInit ==
  ASSUME Init
  PROVE  TypeOK
<1>1. agings \in 0..MaxAgings
  BY BoundAssumption DEF Init
<1>2. misfire \in BOOLEAN
  BY DEF Init
<1> QED
  BY <1>1, <1>2, NoneAssumption DEF Init, TypeOK, Phases

\* Every variable of _acquire_store_lock keeps to its values.
LEMMA TypeOKStep ==
  ASSUME TypeOK, [Next]_vars
  PROVE  TypeOK'
<1> USE NoneAssumption, HostAssumption, BoundAssumption DEF TypeOK, Phases, Goto, Unlink
<1>1. ASSUME NEW p \in Procs, Start(p) PROVE TypeOK'
  BY <1>1 DEF Start
<1>2. ASSUME NEW p \in Procs, Create(p) PROVE TypeOK'
  BY <1>2 DEF Create, LockFiles
<1>3. ASSUME NEW p \in Procs, CreateFails(p) PROVE TypeOK'
  BY <1>3 DEF CreateFails
<1>4. ASSUME NEW p \in Procs, WriteMetadata(p) PROVE TypeOK'
  BY <1>4 DEF WriteMetadata, LockFiles
<1>5. ASSUME NEW p \in Procs, Condemn(p) PROVE TypeOK'
  BY <1>5 DEF Condemn, Condemns, LockFiles
<1>6. ASSUME NEW p \in Procs, Respect(p) PROVE TypeOK'
  BY <1>6 DEF Respect
<1>7. ASSUME NEW p \in Procs, TakeOver(p) PROVE TypeOK'
  BY <1>7 DEF TakeOver
<1>8. ASSUME NEW p \in Procs, Sleep(p) PROVE TypeOK'
  BY <1>8 DEF Sleep
<1>9. ASSUME NEW p \in Procs, GiveUp(p) PROVE TypeOK'
  BY <1>9 DEF GiveUp
<1>10. ASSUME NEW p \in Procs, Release(p) PROVE TypeOK'
  BY <1>10 DEF Release
<1>11. ASSUME NEW p \in Procs, Die(p) PROVE TypeOK'
  BY <1>11 DEF Die
<1>12. CASE Age
  <2>1. lockFile' \in LockFiles
    BY <1>12 DEF Age, LockFiles
  <2>2. agings' \in 0..MaxAgings
    BY <1>12 DEF Age
  <2> QED
    BY <1>12, <2>1, <2>2 DEF Age
<1>13. CASE UNCHANGED vars
  BY <1>13 DEF vars
<1> QED
  BY <1>1, <1>2, <1>3, <1>4, <1>5, <1>6, <1>7, <1>8, <1>9, <1>10, <1>11, <1>12, <1>13
  DEF Next, Proceed

\* The variables of the lock protocol keep to their values.
THEOREM LockTypeCorrect == Spec => []TypeOK
  BY TypeOKInit, TypeOKStep, PTL DEF Spec

-----------------------------------------------------------------------------
\* An unlink that does not misfire removes a file nobody alive owns.
LEMMA CleanUnlink ==
  ASSUME IInv, NEW p \in Procs, Unlink(p), ~misfire', lockFile # None, lockFile.creator # p
  PROVE  ~Alive(lockFile.creator)
  BY LockFileFields DEF IInv, FileTellsOwner, Unlink, Owns

\* Until some unlink misfires, whoever owns the lock has created the file at the
\* path; this is what every action keeps.
LEMMA FileTellsOwnerStep ==
  ASSUME IInv, [Next]_vars
  PROVE  FileTellsOwner'
<1> SUFFICES ASSUME ~misfire' PROVE FileTellsOwner'
  BY DEF FileTellsOwner
<1>0. TypeOK /\ TypeOK'
  BY TypeOKStep DEF IInv
<1>b. ~misfire
  BY <1>0 DEF TypeOK, Next, Proceed, Start, Create, CreateFails, WriteMetadata, Condemn, Respect,
    TakeOver, Sleep, GiveUp, Release, Die, Age, Unlink, vars
<1>a. /\ \A p \in Procs : Owns(p) => lockFile # None /\ lockFile.creator = p
      /\ lockFile # None /\ Alive(lockFile.creator) => Owns(lockFile.creator)
  BY <1>b DEF IInv, FileTellsOwner
<1> USE <1>0, <1>a, <1>b, NoneAssumption, LockFileFields DEF FileTellsOwner, Owns, Alive, Goto, Phases
\* The steps that neither create nor remove the file, of a process that does not own it.
<1>1. ASSUME NEW p \in Procs, NEW to \in Phases \ {"write", "held", "dead"},
             pc[p] \notin {"write", "held", "dead"}, pc' = [pc EXCEPT ![p] = to], lockFile' = lockFile
      PROVE  FileTellsOwner'
  BY <1>1 DEF TypeOK
<1>2. ASSUME NEW p \in Procs, Start(p) \/ CreateFails(p) \/ Condemn(p) \/ Respect(p) \/ Sleep(p) \/ GiveUp(p)
      PROVE  FileTellsOwner'
  BY <1>1, <1>2 DEF Start, CreateFails, Condemn, Respect, Sleep, GiveUp
<1>3. ASSUME NEW p \in Procs, Create(p) PROVE FileTellsOwner'
  <2>1. lockFile' # None /\ lockFile'.creator = p
    <3>1. lockFile' = [creator |-> p, written |-> FALSE, aged |-> FALSE]
      BY <1>3 DEF Create
    <3>2. lockFile' \in LockFiles
      BY <3>1 DEF LockFiles
    <3> QED
      BY <3>1, <3>2
  <2>2. pc'[p] = "write" /\ \A q \in Procs \ {p} : pc'[q] = pc[q] /\ ~Owns(q)
    BY <1>3 DEF Create, TypeOK
  <2> QED
    BY <2>1, <2>2
<1>4. ASSUME NEW p \in Procs, WriteMetadata(p) PROVE FileTellsOwner'
  BY <1>4 DEF WriteMetadata, TypeOK, LockFiles
<1>5. ASSUME NEW p \in Procs, TakeOver(p) PROVE FileTellsOwner'
  <2>1. \A q \in Procs : ~Owns(q)
    BY <1>5, CleanUnlink DEF TakeOver, Unlink, IInv
  <2> QED
    BY <1>5, <2>1 DEF TakeOver, Unlink, TypeOK
<1>6. ASSUME NEW p \in Procs, Release(p) PROVE FileTellsOwner'
  <2>1. \A q \in Procs \ {p} : ~Owns(q)
    BY <1>6 DEF Release
  <2> QED
    BY <1>6, <2>1 DEF Release, Unlink, TypeOK
<1>7. ASSUME NEW p \in Procs, Die(p) PROVE FileTellsOwner'
  BY <1>7 DEF Die, TypeOK
<1>8. CASE Age
  BY <1>8 DEF Age, TypeOK, LockFiles
<1>9. CASE UNCHANGED vars
  BY <1>9 DEF vars
<1> QED
  BY <1>2, <1>3, <1>4, <1>5, <1>6, <1>7, <1>8, <1>9 DEF Next, Proceed

\* Types, and that the file at the path tells the owner until an unlink misfires.
THEOREM LockInvariant == Spec => []IInv
<1>1. Init => IInv
  BY NoneAssumption, TypeOKInit DEF Init, IInv, FileTellsOwner, Owns
<1>2. IInv /\ [Next]_vars => IInv'
  BY TypeOKStep, FileTellsOwnerStep DEF IInv
<1> QED
  BY <1>1, <1>2, PTL DEF Spec

\* At most one live process is past _acquire_store_lock until an unlink
\* removes the lock of a live owner.
THEOREM OneOwnerUntilMisfire == Spec => []MutexUnlessMisfire
<1>1. IInv => MutexUnlessMisfire
  BY DEF IInv, FileTellsOwner, MutexUnlessMisfire
<1> QED
  BY <1>1, LockInvariant, PTL

-----------------------------------------------------------------------------
NothingAges == agings = 0 /\ lockFile # None => ~lockFile.aged

\* While no lock file has reached lock_max_age, the one that is there has not.
LEMMA NothingAgesStep ==
  ASSUME TypeOK, NothingAges, [Next]_vars
  PROVE  NothingAges'
<1> USE NoneAssumption DEF NothingAges, TypeOK, LockFiles, Goto, Unlink
<1>1. ASSUME NEW p \in Procs, Start(p) \/ Proceed(p) \/ Die(p) PROVE NothingAges'
  <2>1. CASE Create(p)
    BY <2>1 DEF Create
  <2>2. CASE WriteMetadata(p)
    BY <2>2 DEF WriteMetadata
  <2>3. CASE TakeOver(p) \/ Release(p)
    BY <2>3 DEF TakeOver, Release
  <2> QED
    BY <1>1, <2>1, <2>2, <2>3 DEF Start, Proceed, Die, CreateFails, Condemn, Respect, Sleep, GiveUp
<1> QED
  BY <1>1 DEF Next, Age, vars

\* Deaths are for ever, and only a verdict of the process itself changes what
\* it is about to unlink.
LEMMA VerdictStep ==
  ASSUME TypeOK, NothingAges, VerdictNamesDead, [Next]_vars
  PROVE  VerdictNamesDead'
<1> SUFFICES ASSUME NEW q \in Procs, pc'[q] = "condemn", agings' = 0
             PROVE  judged'[q] # None /\ ~Alive(judged[q])'
  BY DEF VerdictNamesDead
<1>1. agings = 0
  <2>1. agings' = agings \/ agings' = agings + 1
    BY DEF Next, Proceed, Start, Create, CreateFails, WriteMetadata, Condemn, Respect,
      TakeOver, Sleep, GiveUp, Release, Die, Age, vars
  <2> QED
    BY <2>1, BoundAssumption DEF TypeOK
<1>2. \A p \in Procs : pc[p] = "dead" => pc'[p] = "dead"
  BY DEF TypeOK, Next, Proceed, Start, Create, CreateFails, WriteMetadata, Condemn, Respect,
    TakeOver, Sleep, GiveUp, Release, Die, Age, Goto, vars
<1>3. CASE Condemn(q)
  <2>1. lockFile # None /\ lockFile.creator \in Procs /\ judged'[q] = lockFile.creator
    BY <1>3, LockFileFields DEF Condemn, Condemns, TypeOK
  <2>2. ~Alive(lockFile.creator)
    BY <1>1, <1>3, <2>1 DEF NothingAges, Condemn, Condemns
  <2> QED
    BY <1>2, <2>1, <2>2, NoneAssumption DEF Alive
<1>4. CASE ~Condemn(q)
  <2>1. pc[q] = "condemn" /\ judged'[q] = judged[q]
    BY <1>4 DEF TypeOK, Next, Proceed, Start, Create, CreateFails, WriteMetadata, Condemn, Respect,
      TakeOver, Sleep, GiveUp, Release, Die, Age, Goto, vars
  <2>2. judged[q] # None /\ ~Alive(judged[q]) /\ judged[q] \in Procs
    BY <1>1, <2>1 DEF VerdictNamesDead, TypeOK
  <2> QED
    BY <2>1, <2>2, <1>2 DEF Alive
<1> QED
  BY <1>3, <1>4

\* Whoever is about to unlink has judged a dead process, as long as no lock
\* file has reached lock_max_age.
THEOREM VerdictsNameTheDead == Spec => []VerdictNamesDead
<1>1. Init => NothingAges /\ VerdictNamesDead
  BY DEF Init, NothingAges, VerdictNamesDead
<1> QED
  BY <1>1, LockTypeCorrect, NothingAgesStep, VerdictStep, PTL DEF Spec

-----------------------------------------------------------------------------
\* One step of the lock protocol is a step of the abstract lock, or changes
\* neither the holder nor the dead, or misfires.
LEMMA MutexStep ==
  ASSUME IInv, Next
  PROVE  misfire' \/ Mutex!MutexNext \/ UNCHANGED <<Creator, TheDead>>
<1> SUFFICES ASSUME ~misfire'
             PROVE  Mutex!MutexNext \/ UNCHANGED <<Creator, TheDead>>
  OBVIOUS
<1>0. TypeOK /\ TypeOK'
  BY TypeOKStep DEF IInv
<1> USE <1>0, NoneAssumption DEF Goto, Alive
\* A process that goes on living and leaves the file with its creator.
<1>1. ASSUME NEW p \in Procs, NEW to \in Phases \ {"dead"}, pc[p] # "dead",
             pc' = [pc EXCEPT ![p] = to]
      PROVE  UNCHANGED TheDead
  BY <1>1 DEF TheDead, TypeOK
<1>2. ASSUME NEW p \in Procs,
             Start(p) \/ CreateFails(p) \/ Condemn(p) \/ Respect(p) \/ Sleep(p) \/ GiveUp(p)
      PROVE  UNCHANGED <<Creator, TheDead>>
  <2>1. lockFile' = lockFile
    BY <1>2 DEF Start, CreateFails, Condemn, Respect, Sleep, GiveUp
  <2>2. \E to \in Phases \ {"dead"} : pc[p] # "dead" /\ pc' = [pc EXCEPT ![p] = to]
    BY <1>2 DEF Start, CreateFails, Condemn, Respect, Sleep, GiveUp, Phases
  <2> QED
    BY <2>1, <2>2, <1>1 DEF Creator
<1>3. ASSUME NEW p \in Procs, Create(p)
      PROVE  Mutex!MutexNext
  <2>1. UNCHANGED TheDead
    BY <1>3, <1>1 DEF Create, Phases
  <2>2. Creator = None /\ p \notin TheDead
    BY <1>3 DEF Create, Creator, TheDead
  <2>3. Creator' = p
    <3>1. lockFile' = [creator |-> p, written |-> FALSE, aged |-> FALSE]
      BY <1>3 DEF Create
    <3>2. lockFile' \in LockFiles
      BY <3>1 DEF LockFiles
    <3> QED
      BY <3>1, <3>2 DEF Creator
  <2> QED
    BY <2>1, <2>2, <2>3 DEF Mutex!MutexNext, Mutex!Acquire
<1>4. ASSUME NEW p \in Procs, WriteMetadata(p)
      PROVE  UNCHANGED <<Creator, TheDead>>
  <2>1. UNCHANGED TheDead
    BY <1>4, <1>1 DEF WriteMetadata, Phases
  <2> QED
    BY <1>4, <2>1 DEF WriteMetadata, Creator, TypeOK, LockFiles
<1>5. ASSUME NEW p \in Procs, TakeOver(p)
      PROVE  Mutex!MutexNext \/ UNCHANGED <<Creator, TheDead>>
  <2>1. UNCHANGED TheDead /\ Creator' = None
    BY <1>5, <1>1 DEF TakeOver, Unlink, Creator, Phases
  <2>2. CASE lockFile = None
    BY <2>1, <2>2 DEF Creator
  <2>3. CASE lockFile # None
    <3>1. lockFile.creator # p
      BY <1>5, <2>3, LockFileFields DEF IInv, FileTellsOwner, TakeOver, Unlink, Owns
    <3>2. Creator \in TheDead
      BY <1>5, <2>3, <3>1, CleanUnlink, LockFileFields DEF TakeOver, Creator, TheDead
    <3> QED
      BY <2>1, <3>2 DEF Mutex!MutexNext, Mutex!Reclaim
  <2> QED
    BY <2>2, <2>3
<1>6. ASSUME NEW p \in Procs, Release(p)
      PROVE  Mutex!MutexNext
  <2>1. UNCHANGED TheDead /\ Creator' = None /\ p \notin TheDead
    BY <1>6, <1>1 DEF Release, Unlink, Creator, TheDead, Phases
  <2>2. Creator = p
    BY <1>6 DEF Release, Unlink, IInv, FileTellsOwner, Owns, Creator
  <2> QED
    BY <2>1, <2>2 DEF Mutex!MutexNext, Mutex!Release
<1>7. ASSUME NEW p \in Procs, Die(p)
      PROVE  Mutex!MutexNext
  <2>1. TheDead' = TheDead \cup {p} /\ p \notin TheDead /\ UNCHANGED Creator
    BY <1>7 DEF Die, TheDead, Creator, TypeOK
  <2> QED
    BY <2>1 DEF Mutex!MutexNext, Mutex!Die
<1>8. CASE Age
  BY <1>8 DEF Age, Creator, TheDead, TypeOK, LockFiles
<1> QED
  BY <1>2, <1>3, <1>4, <1>5, <1>6, <1>7, <1>8 DEF Next, Proceed

\* Up to the first misdirected unlink, the lock file implements the lock of
\* StoreMutex.
THEOREM LockFileImplementsMutex == Spec => ImplementsMutexUntilMisfire
<1>1. Init => Mutex!MutexInit
  BY NoneAssumption DEF Init, Mutex!MutexInit, Creator, TheDead, Alive
<1>2. IInv /\ [Next]_vars => [misfire' \/ Mutex!MutexNext]_<<Creator, TheDead>>
  BY MutexStep DEF vars, Creator, TheDead, Alive
<1> QED
  BY <1>1, <1>2, LockInvariant, PTL DEF Spec, ImplementsMutexUntilMisfire

=============================================================================
