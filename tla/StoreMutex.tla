----------------------------- MODULE StoreMutex -----------------------------
(***************************************************************************)
(* What the lock beside .roadmap/activity.jsonl promises to the writers of *)
(* the event store, whatever the lock is made of: one writer at a time,    *)
(* nobody loses the lock while alive, and the lock of a writer that died   *)
(* can be taken back.  StoreLock is shown to implement this module, and    *)
(* GovernedStore takes its lock from here.                                 *)
(***************************************************************************)
EXTENDS FiniteSets

CONSTANTS
  Procs,     \* processes that may write the event store
  NoHolder   \* the lock is free

ASSUME NoHolderAssumption == NoHolder \notin Procs

VARIABLES
  holder,    \* the process that holds the lock, or NoHolder
  dead       \* processes that died; a dead process never acts again

mutexVars == <<holder, dead>>

MutexTypeOK ==
  /\ holder \in Procs \cup {NoHolder}
  /\ dead \subseteq Procs

MutexInit ==
  /\ holder = NoHolder
  /\ dead = {}

Acquire(p) ==
  /\ p \notin dead
  /\ holder = NoHolder
  /\ holder' = p
  /\ UNCHANGED dead

Release(p) ==
  /\ p \notin dead
  /\ holder = p
  /\ holder' = NoHolder
  /\ UNCHANGED dead

\* A process dies, possibly while it holds the lock.
Die(p) ==
  /\ p \notin dead
  /\ dead' = dead \cup {p}
  /\ UNCHANGED holder

\* Some waiter removes the lock a dead process left behind.
Reclaim ==
  /\ holder \in dead
  /\ holder' = NoHolder
  /\ UNCHANGED dead

MutexNext ==
  \/ \E p \in Procs : Acquire(p) \/ Release(p) \/ Die(p)
  \/ Reclaim

MutexSpec == MutexInit /\ [][MutexNext]_mutexVars

=============================================================================
