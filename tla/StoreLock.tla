------------------------------ MODULE StoreLock ------------------------------
(***************************************************************************)
(* The lock file .roadmap/activity.jsonl.lock (store.py).  A process       *)
(* creates it with O_CREAT|O_EXCL and only then writes its pid and host    *)
(* into it; a process that finds it there reads it, decides whether its    *)
(* owner is gone, and if so unlinks whatever is at that path and tries     *)
(* again.  Reading, deciding and unlinking are separate system calls, and  *)
(* neither the takeover nor the release checks that the file it unlinks is *)
(* the one it means.                                                       *)
(***************************************************************************)
EXTENDS Naturals, FiniteSets

CONSTANTS
  Procs,      \* processes on all hosts
  Hosts,
  HostOf,     \* the host each process runs on
  MaxAgings,  \* bound: how many lock files may reach lock_max_age
  MaxDeaths,  \* bound: how many processes may die
  None        \* no lock file; nobody judged

LockFiles == [creator : Procs, written : BOOLEAN, aged : BOOLEAN]

ASSUME NoneAssumption == None \notin Procs /\ None \notin LockFiles
ASSUME HostAssumption == HostOf \in [Procs -> Hosts]
ASSUME BoundAssumption == MaxAgings \in Nat /\ MaxDeaths \in Nat

VARIABLES
  lockFile,  \* the file at the lock path: who created it, whether its
             \* metadata has been written, whether it is older than lock_max_age
  pc,        \* where each process is in _acquire_store_lock
  judged,    \* history: whose file the process last decided to take over
  misfire,   \* history: some unlink removed the lock of a live owner
  agings     \* how many lock files have reached lock_max_age

vars == <<lockFile, pc, judged, misfire, agings>>

Phases == {"idle", "open", "exists", "condemn", "wait", "write", "held", "dead"}

TypeOK ==
  /\ lockFile \in LockFiles \cup {None}
  /\ pc \in [Procs -> Phases]
  /\ judged \in [Procs -> Procs \cup {None}]
  /\ misfire \in BOOLEAN
  /\ agings \in 0..MaxAgings

Init ==
  /\ lockFile = None
  /\ pc = [p \in Procs |-> "idle"]
  /\ judged = [p \in Procs |-> None]
  /\ misfire = FALSE
  /\ agings = 0

Alive(p) == pc[p] # "dead"

\* The process created the lock file and has not released it.
Owns(p) == pc[p] \in {"write", "held"}

Goto(p, from, to) ==
  /\ pc[p] = from
  /\ pc' = [pc EXCEPT ![p] = to]

\* Unlink the lock path on behalf of p: FileNotFoundError is swallowed, and
\* whose file it is is not looked at.
Unlink(p) ==
  /\ lockFile' = None
  /\ misfire' = (misfire \/ (lockFile # None /\ lockFile.creator # p /\ Owns(lockFile.creator)))

Start(p) ==
  /\ Goto(p, "idle", "open")
  /\ UNCHANGED <<lockFile, judged, misfire, agings>>

\* Mutant of Create: os.open without O_EXCL.
CreateOverExisting(p) ==
  /\ Goto(p, "open", "write")
  /\ lockFile' = [creator |-> p, written |-> FALSE, aged |-> FALSE]
  /\ UNCHANGED <<judged, misfire, agings>>

\* os.open(O_CREAT | O_EXCL) succeeds: the file exists, still empty.
Create(p) ==
  /\ lockFile = None
  /\ Goto(p, "open", "write")
  /\ lockFile' = [creator |-> p, written |-> FALSE, aged |-> FALSE]
  /\ UNCHANGED <<judged, misfire, agings>>

\* os.open raises FileExistsError.
CreateFails(p) ==
  /\ lockFile # None
  /\ Goto(p, "open", "exists")
  /\ UNCHANGED <<lockFile, judged, misfire, agings>>

\* The metadata goes to the inode p created, at the path or already unlinked.
WriteMetadata(p) ==
  /\ Goto(p, "write", "held")
  /\ lockFile' = IF lockFile # None /\ lockFile.creator = p
                 THEN [lockFile EXCEPT !.written = TRUE]
                 ELSE lockFile
  /\ UNCHANGED <<judged, misfire, agings>>

\* Mutants of Condemns: the pid is not looked up; only the age counts.
CondemnsUnchecked(p) ==
  /\ lockFile # None
  /\ lockFile.written \/ lockFile.aged

CondemnsOnlyAged(p) ==
  /\ lockFile # None
  /\ lockFile.aged

\* _should_takeover_lock on the file that is at the path now.  A file that
\* has just vanished reads as "no metadata, age 0".
Condemns(p) ==
  /\ lockFile # None
  /\ \/ ~lockFile.written /\ lockFile.aged
     \/ lockFile.written /\ HostOf[lockFile.creator] = HostOf[p] /\ ~Alive(lockFile.creator)
     \/ lockFile.written /\ HostOf[lockFile.creator] # HostOf[p] /\ lockFile.aged

\* Mutant of Condemn: the host of the lock is taken for its owner.
CondemnHost(p) ==
  /\ Condemns(p)
  /\ Goto(p, "exists", "condemn")
  /\ judged' = [judged EXCEPT ![p] = HostOf[lockFile.creator]]
  /\ UNCHANGED <<lockFile, misfire, agings>>

Condemn(p) ==
  /\ Condemns(p)
  /\ Goto(p, "exists", "condemn")
  /\ judged' = [judged EXCEPT ![p] = lockFile.creator]
  /\ UNCHANGED <<lockFile, misfire, agings>>

Respect(p) ==
  /\ ~Condemns(p)
  /\ Goto(p, "exists", "wait")
  /\ UNCHANGED <<lockFile, judged, misfire, agings>>

\* _takeover_lock: unlink and retry at once, without looking again.
TakeOver(p) ==
  /\ Goto(p, "condemn", "open")
  /\ Unlink(p)
  /\ judged' = [judged EXCEPT ![p] = None]
  /\ UNCHANGED agings

\* time.sleep(retry_interval) before the deadline, or STORE_LOCK_TIMEOUT.
Sleep(p) ==
  /\ Goto(p, "wait", "open")
  /\ UNCHANGED <<lockFile, judged, misfire, agings>>

\* Mutant of GiveUp: the deadline is never looked at.
GiveUpNever(p) ==
  /\ Goto(p, "wait", "wait")
  /\ UNCHANGED <<lockFile, judged, misfire, agings>>

GiveUp(p) ==
  /\ Goto(p, "wait", "idle")
  /\ UNCHANGED <<lockFile, judged, misfire, agings>>

\* _release_store_lock, in the finally of the append.
Release(p) ==
  /\ Goto(p, "held", "idle")
  /\ Unlink(p)
  /\ UNCHANGED <<judged, agings>>

Die(p) ==
  /\ pc[p] \notin {"idle", "dead"}
  /\ Cardinality({q \in Procs : ~Alive(q)}) < MaxDeaths
  /\ pc' = [pc EXCEPT ![p] = "dead"]
  /\ UNCHANGED <<lockFile, judged, misfire, agings>>

\* The lock file reaches lock_max_age.
Age ==
  /\ agings < MaxAgings
  /\ lockFile # None
  /\ ~lockFile.aged
  /\ lockFile' = [lockFile EXCEPT !.aged = TRUE]
  /\ agings' = agings + 1
  /\ UNCHANGED <<pc, judged, misfire>>

\* What the code of a live process does next; it takes no input.
Proceed(p) ==
  \/ Create(p) \/ CreateFails(p) \/ WriteMetadata(p)
  \/ Condemn(p) \/ Respect(p) \/ TakeOver(p)
  \/ Sleep(p) \/ GiveUp(p) \/ Release(p)

Next ==
  \/ \E p \in Procs : Start(p) \/ Proceed(p) \/ Die(p)
  \/ Age

Spec == Init /\ [][Next]_vars

\* A live process keeps executing; a process that keeps finding the lock
\* taken reaches its deadline.
Fairness == \A p \in Procs : WF_vars(Proceed(p)) /\ SF_vars(GiveUp(p))

FairSpec == Spec /\ Fairness

-----------------------------------------------------------------------------
\* As long as no unlink has hit the lock of a live owner, at most one live
\* process is past _acquire_store_lock: every way to two writers of
\* activity.jsonl goes through a misdirected unlink.
MutexUnlessMisfire ==
  ~misfire => \A p, q \in Procs : Owns(p) /\ Owns(q) => p = q

\* As long as no lock file has reached lock_max_age, the decision of
\* _should_takeover_lock is never wrong about the process it names, however late
\* it is carried out: whoever is about to unlink has judged a process that is
\* dead.  What can be wrong is only whose file is at the path by then.
VerdictNamesDead ==
  \A p \in Procs : pc[p] = "condemn" /\ agings = 0 => judged[p] # None /\ ~Alive(judged[p])

\* "Lock de processo vivo nunca e tomado, mesmo apos lock_max_age" (docs/spec/
\* G04-concurrency-robustness.md): no process removes the lock of a live owner.
LiveLockNeverTaken == ~misfire

\* "Lock orfao de processo morto (mesmo host) e tomado" (criterion 1 of the
\* same document): a lock whose owner died after writing its metadata is
\* removed as soon as one live process of that host wants it, and that process
\* does not give up first.
DeadLockReclaimed ==
  \A p, q \in Procs :
    /\ pc[q] = "dead"
    /\ pc[p] = "open"
    /\ HostOf[p] = HostOf[q]
    /\ lockFile # None
    /\ lockFile.creator = q
    /\ lockFile.written
    ~> lockFile = None \/ lockFile.creator # q \/ pc[p] = "dead"

\* _acquire_store_lock returns or raises: no process spins for ever between
\* takeovers and sleeps.  (Without MaxAgings the untimed model would let a
\* waiter, which does not look at its deadline after a takeover, take over one
\* aged lock after another; each of those has waited lock_max_age.)
AcquireTerminates ==
  \A p \in Procs : pc[p] = "open" ~> pc[p] \in {"write", "idle", "dead"}

-----------------------------------------------------------------------------
\* The lock file as the lock of StoreMutex: creating the file is acquiring,
\* removing it is releasing, or reclaiming when its creator is dead.
Creator == IF lockFile = None THEN None ELSE lockFile.creator
TheDead == {p \in Procs : ~Alive(p)}

Mutex == INSTANCE StoreMutex WITH NoHolder <- None, holder <- Creator, dead <- TheDead

\* Up to the first misdirected unlink, _acquire_store_lock and
\* _release_store_lock implement the lock that append_transactional counts on:
\* it is taken when free, given back by its holder, and taken away from no one
\* but the dead.
ImplementsMutexUntilMisfire ==
  /\ Mutex!MutexInit
  /\ [][misfire' \/ Mutex!MutexNext]_<<Creator, TheDead>>

=============================================================================
