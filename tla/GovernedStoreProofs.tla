------------------------- MODULE GovernedStoreProofs -------------------------
(***************************************************************************)
(* What is proved of GovernedStore for any processes, commands, setup,     *)
(* retries, deaths, files and views.                                       *)
(*                                                                         *)
(* First, types, mutual exclusion of the writers, and that the log only    *)
(* ever moves tasks along the lifecycle. The last needs an invariant (Inv) *)
(* that follows a batch through its append: a writer that validated its    *)
(* batch has in plan the boards the batch goes through, and after k lines  *)
(* the board of the store is the k-th of them, because nobody else         *)
(* appends.                                                                *)
(*                                                                         *)
(* Then what becomes of a command in the middle of a commit: an invariant  *)
(* of ten parts (EnRoute) follows it from the moment it reads the log,     *)
(* without the lock, to its last effect. The log replays (Replayable). A   *)
(* command carries the batch it built (Errands), whose shape is known      *)
(* whatever it was built from (BatchShape). What it decided on stays true  *)
(* although the log moves on: done targets stay done (HotfixTargets);      *)
(* limits are compared under the lock (LimitsSeen); and on the first       *)
(* attempt the log has not moved on at all (FirstTry). What it has not     *)
(* written yet is accounted for: staged files have a live owner            *)
(* (StagedWork), a file or view that is behind the log has a writer under  *)
(* the lock (FilesKept, ViewsKept), the approval of a hotfix carries the   *)
(* resolution of its issue unless it has read one (Resolving), and a       *)
(* repair that nobody has disturbed is complete up to where it is          *)
(* (Mending).                                                              *)
(***************************************************************************)
EXTENDS GovernedStore, ProjectionProofs

-----------------------------------------------------------------------------
\* What the event did to the board, seen as a step of TaskLifecycle.
LEMMA ProgressStep ==
  ASSUME WellFormed(board), WellFormed(board'),
         \/ Grows(board.tasks, board'.tasks)
         \/ MovesOne(board.tasks, board'.tasks)
         \/ StaysAll(board.tasks, board'.tasks)
  PROVE  [Lifecycle!LifecycleNext]_Progress
<1> DEFINE ts == board.tasks
           us == board'.tasks
           n  == Len(ts)
           now(i)  == [status |-> ts[i].status, owner |-> ts[i].owner]
           next(i) == [status |-> us[i].status, owner |-> us[i].owner]
<1>1. n \in Nat /\ DOMAIN ts = 1..n /\ Len(us) \in Nat /\ DOMAIN us = 1..Len(us)
  BY DEF WellFormed, IsSequence
<1>2. /\ Progress = [i \in 1..n |-> now(i)]
      /\ Progress' = [i \in 1..Len(us) |-> next(i)]
  BY <1>1 DEF Progress
<1>3. ASSUME NEW i, Stays(ts[i], us[i]) PROVE next(i) = now(i)
  BY <1>3 DEF Stays
<1> HIDE DEF ts, us, n
<1>4. CASE Grows(ts, us)
  <2>1. Len(us) = n + 1 /\ next(n + 1) = Lifecycle!Fresh /\ \A i \in 1..n : next(i) = now(i)
    BY <1>3, <1>4 DEF Grows, Lifecycle!Fresh, n
  <2> DEFINE S == {now(i) : i \in 1..n} \cup {Lifecycle!Fresh}
  <2>2. Progress \in Seq(S) /\ Len(Progress) = n
    BY <1>1, <1>2
  <2>3. Lifecycle!Fresh \in S
    OBVIOUS
  <2> HIDE DEF S, now, next
  <2>4. /\ Append(Progress, Lifecycle!Fresh) \in Seq(S)
        /\ Len(Append(Progress, Lifecycle!Fresh)) = n + 1
        /\ \A i \in 1..n : Append(Progress, Lifecycle!Fresh)[i] = Progress[i]
        /\ Append(Progress, Lifecycle!Fresh)[n + 1] = Lifecycle!Fresh
    BY <2>2, <2>3, AppendProperties
  <2>5. Append(Progress, Lifecycle!Fresh) = [i \in 1..(n + 1) |-> Append(Progress, Lifecycle!Fresh)[i]]
    BY <2>4, LenProperties
  <2>6. \A i \in 1..(n + 1) : Append(Progress, Lifecycle!Fresh)[i] = next(i)
    BY <1>1, <1>2, <2>1, <2>4
  <2>7. Progress' = Append(Progress, Lifecycle!Fresh)
    BY <1>2, <2>1, <2>5, <2>6
  <2> QED BY <2>7 DEF Lifecycle!LifecycleNext, Lifecycle!Admit
<1>5. CASE MovesOne(ts, us)
  <2>1. Len(us) = n
    BY <1>5 DEF MovesOne, n
  <2>2. PICK i \in 1..n : Moves(ts[i], us[i]) /\ \A j \in 1..n \ {i} : Stays(ts[j], us[j])
    BY <1>5 DEF MovesOne, n
  <2>3. DOMAIN Progress = 1..n /\ DOMAIN Progress' = 1..n
    BY <1>2, <2>1
  <2>4. \A j \in DOMAIN Progress \ {i} : Progress'[j] = Progress[j]
    BY <1>2, <1>3, <2>1, <2>2, <2>3
  <2>5. /\ Progress[i].status = ts[i].status  /\ Progress[i].owner = ts[i].owner
        /\ Progress'[i].status = us[i].status /\ Progress'[i].owner = us[i].owner
    BY <1>2, <2>1, <2>2
  <2>6. CASE ts[i].status = "todo" /\ ts[i].owner = None /\ us[i].status = "in_progress"
    <3>1. Lifecycle!Claim(i)
      BY <2>3, <2>4, <2>5, <2>6 DEF Lifecycle!Claim, Lifecycle!Move
    <3> QED BY <2>3, <3>1 DEF Lifecycle!LifecycleNext
  <2>7. CASE ts[i].status = "in_progress" /\ us[i].status = "review" /\ us[i].owner = ts[i].owner
    <3>1. Lifecycle!Complete(i)
      BY <2>3, <2>4, <2>5, <2>7 DEF Lifecycle!Complete, Lifecycle!Move, Lifecycle!Keep
    <3> QED BY <2>3, <3>1 DEF Lifecycle!LifecycleNext
  <2>8. CASE ts[i].status = "review" /\ us[i].status = "done" /\ us[i].owner = ts[i].owner
    <3>1. Lifecycle!Approve(i)
      BY <2>3, <2>4, <2>5, <2>8 DEF Lifecycle!Approve, Lifecycle!Move, Lifecycle!Keep
    <3> QED BY <2>3, <3>1 DEF Lifecycle!LifecycleNext
  <2>9. CASE ts[i].status = "review" /\ us[i].status = "in_progress" /\ us[i].owner = ts[i].owner
    <3>1. Lifecycle!RequestChanges(i)
      BY <2>3, <2>4, <2>5, <2>9 DEF Lifecycle!RequestChanges, Lifecycle!Move, Lifecycle!Keep
    <3> QED BY <2>3, <3>1 DEF Lifecycle!LifecycleNext
  <2> QED BY <2>2, <2>6, <2>7, <2>8, <2>9 DEF Moves
<1>6. CASE StaysAll(ts, us)
  <2>1. Len(us) = n /\ \A i \in 1..n : next(i) = now(i)
    BY <1>3, <1>6 DEF StaysAll, n
  <2>2. Progress' = Progress
    BY <1>2, <2>1
  <2> QED BY <2>2
<1> QED BY <1>4, <1>5, <1>6 DEF ts, us

-----------------------------------------------------------------------------
JobOK(j) ==
  /\ {"batch", "until"} \subseteq DOMAIN j
  /\ IsSequence(j.batch)
  /\ j.until \in Nat

\* TypeOK without the board, whose shape depends on what is appended to it.
Shapes ==
  /\ MutexTypeOK
  /\ IsSequence(log)
  /\ views \in [Views -> Nat \cup {None}]
  /\ DOMAIN files = Paths
  /\ staged \subseteq Procs
  /\ pc \in [Procs -> Phases]
  /\ DOMAIN job = Procs
  /\ \A w \in Procs : JobOK(job[w])
  /\ DOMAIN plan = Procs
  /\ step \in [Procs -> Nat]
  /\ torn \in BOOLEAN
  /\ meddled \subseteq Procs
  /\ issued \in 0..MaxCommands

\* Phases that take several steps; the others start with step at 0.
Stepping == {"append", "views", "effects", "project", "recover"}
StepsStart == \A w \in Procs : pc[w] \notin Stepping => step[w] = 0

\* The job of an idle process is a job.
LEMMA NoJobOK == JobOK(NoJob)
  BY EmptySequence DEF JobOK, NoJob

\* Advance keeps pc and step within their types.
LEMMA AdvanceShapes ==
  ASSUME NEW w \in Procs, NEW n, NEW phase \in Phases,
         pc \in [Procs -> Phases], step \in [Procs -> Nat], Advance(w, n, phase)
  PROVE  pc' \in [Procs -> Phases] /\ step' \in [Procs -> Nat]
  BY DEF Advance, Goto

\* Finish keeps the shapes of the variables it changes.
LEMMA FinishShapes ==
  ASSUME NEW w \in Procs, Shapes, Finish(w)
  PROVE  /\ pc' \in [Procs -> Phases]
         /\ DOMAIN job' = Procs
         /\ \A q \in Procs : JobOK(job'[q])
         /\ DOMAIN plan' = Procs
         /\ step' \in [Procs -> Nat]
<1>1. "idle" \in Phases
  BY DEF Phases
<1> QED BY <1>1, NoJobOK DEF Shapes, Finish, Goto

\* Giving a command keeps the shapes.
LEMMA GiveShapes ==
  ASSUME NEW w \in Procs, NEW c, NEW phase \in Phases, NEW base, JobOK(base),
         Shapes, Give(w, c, phase, base)
  PROVE  Shapes'
<1>1. JobOK([base EXCEPT !.cmd = c])
  BY DEF JobOK
<1>2. /\ pc' \in [Procs -> Phases]
      /\ DOMAIN job' = Procs
      /\ \A q \in Procs : JobOK(job'[q])
  BY <1>1 DEF Give, Goto, Shapes
<1>3. issued' \in 0..MaxCommands
  BY StoreBoundAssumption DEF Give, Shapes
<1> QED BY <1>2, <1>3 DEF Give, Shapes, storeVars, mutexVars, MutexTypeOK

\* So does saving a view.
LEMMA SaveShapes ==
  ASSUME NEW w \in Procs, NEW phase, NEW next \in Phases, Shapes, Save(w, phase, next)
  PROVE  Shapes'
<1>1. pc' \in [Procs -> Phases] /\ step' \in [Procs -> Nat]
  BY AdvanceShapes DEF Save, Shapes
<1>2. views' \in [Views -> Nat \cup {None}]
  BY DEF Save, Shapes, JobOK
<1>3. meddled' \subseteq Procs
  BY DEF Save, Shapes, Meddle
<1> QED BY <1>1, <1>2, <1>3 DEF Save, Shapes, mutexVars, MutexTypeOK

\* Every step keeps the shapes, the board aside.
LEMMA ShapesStep ==
  ASSUME Shapes, [Next]_vars
  PROVE  Shapes'
<1> USE DEF storeVars, procVars, mutexVars, MutexTypeOK
<1>1. ASSUME NEW w \in Procs, NEW c \in Commands, Read(w, c)
      PROVE  Shapes'
  <2> DEFINE base == [NoJob EXCEPT !.base = Len(log), !.batch = Batch(board, log, c, files),
                        !.captured = IF Writes(c) THEN TaskOf(board.tasks, c.task).limits ELSE None]
             phase == IF Writes(c) THEN "staging" ELSE "ready"
  <2>1. JobOK(base) /\ phase \in Phases /\ Give(w, c, phase, base)
    BY <1>1, BatchNonempty DEF Read, JobOK, NoJob, Phases
  <2> HIDE DEF base, phase
  <2> QED BY <2>1, GiveShapes
<1>2. ASSUME NEW w \in Procs, NEW c \in Commands, ReadToProject(w, c) \/ ReadToRecover(w, c)
      PROVE  Shapes'
  <2> DEFINE base == [NoJob EXCEPT !.until = Len(log)]
  <2>1. JobOK(base) /\ {"project", "recover"} \subseteq Phases
    BY EmptySequence DEF JobOK, NoJob, Phases, Shapes, IsSequence
  <2>2. Give(w, c, "project", base) \/ Give(w, c, "recover", base)
    BY <1>2 DEF ReadToProject, ReadToRecover
  <2> HIDE DEF base
  <2> QED BY <2>1, <2>2, GiveShapes
<1>3. ASSUME NEW w \in Procs, Stage(w)
      PROVE  Shapes'
  BY <1>3 DEF Stage, Goto, Phases, Shapes
<1>4. ASSUME NEW w \in Procs, Lock(w) \/ Unlock(w) \/ TimeOut(w) \/ Refuse(w) \/ EffectFails(w)
      PROVE  Shapes'
  <2>1. CASE Lock(w)
    BY <2>1 DEF Lock, Acquire, Goto, Phases, UnderLock, Shapes
  <2>2. CASE Unlock(w)
    BY <2>2, FinishShapes DEF Unlock, Release, Shapes
  <2>3. CASE TimeOut(w)
    BY <2>3, FinishShapes DEF TimeOut, Unstage, Shapes
  <2>4. CASE Refuse(w)
    BY <2>4, FinishShapes DEF Refuse, Unstage, Release, Shapes
  <2>5. CASE EffectFails(w)
    BY <2>5, FinishShapes DEF EffectFails, Unstage, Release, Shapes
  <2> QED BY <1>4, <2>1, <2>2, <2>3, <2>4, <2>5
<1>5. ASSUME NEW w \in Procs, Retry(w)
      PROVE  Shapes'
  <2>1. \A q \in Procs : JobOK(job'[q])
    BY <1>5 DEF Retry, Shapes, JobOK
  <2> QED BY <1>5, <2>1 DEF Retry, Release, Goto, Phases, Shapes
<1>6. ASSUME NEW w \in Procs, Validate(w)
      PROVE  Shapes'
  <2>1. Len(log) + Len(job[w].batch) \in Nat
    BY DEF Shapes, JobOK, IsSequence
  <2>2. \A q \in Procs : JobOK(job'[q])
    BY <1>6, <2>1 DEF Validate, Shapes, JobOK
  <2>3. DOMAIN plan' = Procs
    BY <1>6 DEF Validate, Shapes
  <2> QED BY <1>6, <2>2, <2>3 DEF Validate, Goto, Phases, UnderLock, Committing, Shapes
<1>7. ASSUME NEW w \in Procs, AppendLine(w)
      PROVE  Shapes'
  <2>1. pc' \in [Procs -> Phases] /\ step' \in [Procs -> Nat]
    BY <1>7, AdvanceShapes DEF AppendLine, Shapes, Phases, UnderLock, Committing
  <2>2. IsSequence(log')
    BY <1>7, AppendSequence DEF AppendLine, Shapes
  <2> QED BY <1>7, <2>1, <2>2 DEF AppendLine, Shapes
<1>8. ASSUME NEW w \in Procs, SaveView(w) \/ ProjectView(w)
      PROVE  Shapes'
  <2>1. {"effects", "unlock", "return"} \subseteq Phases
    BY DEF Phases, UnderLock, Committing
  <2> QED BY <1>8, <2>1, SaveShapes DEF SaveView, ProjectView
<1>9. ASSUME NEW w \in Procs, ApplyEffect(w)
      PROVE  Shapes'
  <2>1. pc' \in [Procs -> Phases] /\ step' \in [Procs -> Nat]
    BY <1>9, AdvanceShapes DEF ApplyEffect, Shapes, Phases, UnderLock
  <2> QED BY <1>9, <2>1 DEF ApplyEffect, Meddle, Unstage, Shapes
<1>10. ASSUME NEW w \in Procs, RecoverFile(w)
       PROVE  Shapes'
  <2>1. pc' \in [Procs -> Phases] /\ step' \in [Procs -> Nat]
    BY <1>10, AdvanceShapes DEF RecoverFile, Shapes, Phases
  <2> QED BY <1>10, <2>1 DEF RecoverFile, Meddle, Shapes
<1>11. ASSUME NEW w \in Procs, Return(w)
       PROVE  Shapes'
  BY <1>11, FinishShapes DEF Return, Shapes
<1>12. ASSUME NEW w \in Procs, Crash(w)
       PROVE  Shapes'
  <2>1. views' \in [Views -> Nat \cup {None}]
    BY <1>12 DEF Crash, Shapes
  <2>2. meddled' \subseteq Procs
    BY <1>12 DEF Crash, Meddle, Shapes
  <2> QED BY <1>12, <2>1, <2>2 DEF Crash, Die, Shapes
<1>13. CASE LockReclaimed
  BY <1>13 DEF LockReclaimed, Reclaim, Shapes
<1>14. CASE UNCHANGED vars
  BY <1>14 DEF vars, Shapes
<1> QED
  BY <1>1, <1>2, <1>3, <1>4, <1>5, <1>6, <1>7, <1>8, <1>9, <1>10, <1>11, <1>12, <1>13, <1>14
  DEF Next, Proceed

\* The actions that keep step at 0 or set it to 0, and the others.
LEMMA StepsStartStep ==
  ASSUME Shapes, StepsStart, [Next]_vars
  PROVE  StepsStart'
<1> USE DEF Shapes, StepsStart, Stepping
<1>1. ASSUME NEW w \in Procs, NEW c \in Commands, Read(w, c) \/ ReadToProject(w, c) \/ ReadToRecover(w, c)
      PROVE  StepsStart'
  BY <1>1 DEF Read, ReadToProject, ReadToRecover, Give, At, Goto
<1>2. ASSUME NEW w \in Procs, Stage(w) \/ Lock(w) \/ Retry(w) \/ Validate(w)
      PROVE  StepsStart'
  BY <1>2 DEF Stage, Lock, Retry, Validate, At, Goto
<1>3. ASSUME NEW w \in Procs, Finish(w)
      PROVE  StepsStart'
  BY <1>3 DEF Finish, Goto
<1>4. ASSUME NEW w \in Procs, NEW n, NEW phase, pc[w] \in Stepping, Advance(w, n, phase)
      PROVE  StepsStart'
  BY <1>4 DEF Advance, Goto
<1>5. ASSUME NEW w \in Procs, AppendLine(w) \/ SaveView(w) \/ ProjectView(w) \/ ApplyEffect(w) \/ RecoverFile(w)
      PROVE  StepsStart'
  <2>1. CASE AppendLine(w)
    BY <2>1, <1>4 DEF AppendLine, At
  <2>2. CASE SaveView(w) \/ ProjectView(w)
    BY <2>2, <1>4 DEF SaveView, ProjectView, Save, At
  <2>3. CASE ApplyEffect(w)
    BY <2>3, <1>4 DEF ApplyEffect, At
  <2>4. CASE RecoverFile(w)
    BY <2>4, <1>4 DEF RecoverFile, At
  <2> QED BY <1>5, <2>1, <2>2, <2>3, <2>4
<1>6. ASSUME NEW w \in Procs, TimeOut(w) \/ Refuse(w) \/ EffectFails(w) \/ Unlock(w) \/ Return(w)
      PROVE  StepsStart'
  BY <1>6, <1>3 DEF TimeOut, Refuse, EffectFails, Unlock, Return
<1>7. CASE UNCHANGED <<pc, step>>
  BY <1>7
<1>8. ASSUME NEW w \in Procs, Crash(w)
      PROVE  UNCHANGED <<pc, step>>
  BY <1>8 DEF Crash, procVars
<1>9. LockReclaimed \/ UNCHANGED vars => UNCHANGED <<pc, step>>
  BY DEF LockReclaimed, vars, procVars
<1> HIDE DEF Shapes, StepsStart, Stepping
<1> QED
  BY <1>1, <1>2, <1>5, <1>6, <1>7, <1>8, <1>9 DEF Next, Proceed

-----------------------------------------------------------------------------
\* The lock changes hands only through Acquire, Release and Reclaim, and a
\* process enters UnderLock only by Lock.
LEMMA OneWriterStep ==
  ASSUME Shapes, OneWriter, [Next]_vars
  PROVE  OneWriter'
<1> USE DEF Shapes, OneWriter, UnderLock, Committing
<1>1. ASSUME NEW w \in Procs, UNCHANGED mutexVars,
             \A q \in Procs : pc'[q] \in UnderLock /\ q \notin dead => pc[q] \in UnderLock
      PROVE  OneWriter'
  BY <1>1 DEF mutexVars
<1>2. ASSUME NEW w \in Procs, NEW c \in Commands, Read(w, c) \/ ReadToProject(w, c) \/ ReadToRecover(w, c)
      PROVE  OneWriter'
  BY <1>2, <1>1 DEF Read, ReadToProject, ReadToRecover, Give, Goto
<1>3. ASSUME NEW w \in Procs, Stage(w) \/ TimeOut(w) \/ Validate(w) \/ Return(w)
      PROVE  OneWriter'
  BY <1>3, <1>1 DEF Stage, TimeOut, Validate, Return, Finish, Goto, At
<1>4. ASSUME NEW w \in Procs, NEW n, NEW phase, UNCHANGED mutexVars, Advance(w, n, phase),
             phase \in UnderLock => pc[w] \in UnderLock
      PROVE  OneWriter'
  BY <1>4, <1>1 DEF Advance, Goto
<1>5. ASSUME NEW w \in Procs, AppendLine(w) \/ SaveView(w) \/ ProjectView(w) \/ ApplyEffect(w) \/ RecoverFile(w)
      PROVE  OneWriter'
  <2>1. CASE AppendLine(w)
    BY <2>1, <1>4 DEF AppendLine, At
  <2>2. CASE SaveView(w)
    BY <2>2, <1>4 DEF SaveView, Save, At
  <2>3. CASE ProjectView(w)
    BY <2>3, <1>4 DEF ProjectView, Save, At
  <2>4. CASE ApplyEffect(w)
    BY <2>4, <1>4 DEF ApplyEffect, At
  <2>5. CASE RecoverFile(w)
    BY <2>5, <1>4 DEF RecoverFile, At
  <2> QED BY <1>5, <2>1, <2>2, <2>3, <2>4, <2>5
<1>6. ASSUME NEW w \in Procs, Lock(w)
      PROVE  OneWriter'
  BY <1>6, NoHolderAssumption DEF Lock, Acquire, Goto
<1>7. ASSUME NEW w \in Procs, Release(w), pc' = [pc EXCEPT ![w] = "ready"] \/ pc' = [pc EXCEPT ![w] = "idle"]
      PROVE  OneWriter'
  BY <1>7 DEF Release
<1>8. ASSUME NEW w \in Procs, Retry(w) \/ Refuse(w) \/ EffectFails(w) \/ Unlock(w)
      PROVE  OneWriter'
  BY <1>8, <1>7 DEF Retry, Refuse, EffectFails, Unlock, Finish, Goto
<1>9. ASSUME NEW w \in Procs, Crash(w)
      PROVE  OneWriter'
  BY <1>9 DEF Crash, Die, procVars
<1>10. CASE LockReclaimed
  BY <1>10 DEF LockReclaimed, Reclaim, procVars
<1>11. CASE UNCHANGED vars
  BY <1>11 DEF vars, procVars, mutexVars
<1> HIDE DEF Shapes, OneWriter, UnderLock, Committing
<1> QED
  BY <1>2, <1>3, <1>5, <1>6, <1>8, <1>9, <1>10, <1>11 DEF Next, Proceed

-----------------------------------------------------------------------------
Carrying == {"staging", "ready", "locked", "append"}

\* A command that has not appended its batch has one to append.
Batches == \A w \in Procs : pc[w] \in Carrying => Len(job[w].batch) > 0

Follows(boards, evs) ==
  \A i \in 1..Len(evs) : Legal(boards[i], evs[i]) /\ boards[i + 1] = Apply(boards[i], evs[i])

\* Line for line, an append takes the board through what Validate has seen.
OnCourse ==
  \A w \in Procs \ dead : pc[w] = "append" =>
    /\ Follows(plan[w], job[w].batch)
    /\ step[w] < Len(job[w].batch)
    /\ plan[w][step[w] + 1] = board

\* A command keeps its batch until it has appended it.
LEMMA BatchesStep ==
  ASSUME Shapes, Batches, [Next]_vars
  PROVE  Batches'
<1> USE DEF Shapes, Batches, Carrying
<1>1. ASSUME NEW w \in Procs, NEW c \in Commands, Read(w, c)
      PROVE  Batches'
  <2> DEFINE base == [NoJob EXCEPT !.base = Len(log), !.batch = Batch(board, log, c, files),
                        !.captured = IF Writes(c) THEN TaskOf(board.tasks, c.task).limits ELSE None]
  <2>1. Len(base.batch) > 0 /\ "batch" \in DOMAIN base
    BY BatchNonempty DEF NoJob
  <2>2. job' = [job EXCEPT ![w] = [base EXCEPT !.cmd = c]] /\ \A q \in Procs \ {w} : pc'[q] = pc[q]
    BY <1>1 DEF Read, Give, Goto
  <2> HIDE DEF base
  <2>3. [base EXCEPT !.cmd = c].batch = base.batch
    BY <2>1
  <2> QED BY <2>1, <2>2, <2>3
<1>2. ASSUME NEW w \in Procs, NEW c \in Commands, ReadToProject(w, c) \/ ReadToRecover(w, c)
      PROVE  Batches'
  BY <1>2 DEF ReadToProject, ReadToRecover, Give, Goto
<1>3. ASSUME NEW w \in Procs, Stage(w) \/ Lock(w) \/ Retry(w) \/ Validate(w)
      PROVE  Batches'
  BY <1>3 DEF Stage, Lock, Retry, Validate, At, Goto, JobOK
<1>4. ASSUME NEW w \in Procs, Finish(w)
      PROVE  Batches'
  BY <1>4 DEF Finish, Goto
<1>5. ASSUME NEW w \in Procs, NEW n, NEW phase, phase \notin Carrying, UNCHANGED job, Advance(w, n, phase)
      PROVE  Batches'
  BY <1>5 DEF Advance, Goto
<1>6. ASSUME NEW w \in Procs, AppendLine(w) \/ SaveView(w) \/ ProjectView(w) \/ ApplyEffect(w) \/ RecoverFile(w)
      PROVE  Batches'
  BY <1>6, <1>5 DEF AppendLine, SaveView, ProjectView, Save, ApplyEffect, RecoverFile
<1>7. ASSUME NEW w \in Procs, TimeOut(w) \/ Refuse(w) \/ EffectFails(w) \/ Unlock(w) \/ Return(w)
      PROVE  Batches'
  BY <1>7, <1>4 DEF TimeOut, Refuse, EffectFails, Unlock, Return
<1>8. (\E w \in Procs : Crash(w)) \/ LockReclaimed \/ UNCHANGED vars => UNCHANGED <<pc, job>>
  BY DEF Crash, LockReclaimed, vars, procVars
<1>9. UNCHANGED <<pc, job>> => Batches'
  OBVIOUS
<1> HIDE DEF Shapes, Batches, Carrying
<1> QED
  BY <1>1, <1>2, <1>3, <1>6, <1>7, <1>8, <1>9 DEF Next, Proceed

\* Only the process that appends changes the board, and while it is alive no
\* other process appends.
LEMMA OnCourseStep ==
  ASSUME Shapes, StepsStart, OneWriter, Batches, OnCourse, WellFormed(board), [Next]_vars
  PROVE  OnCourse' /\ WellFormed(board)' /\ [Lifecycle!LifecycleNext]_Progress
<1>1. ASSUME NEW w \in Procs, AppendLine(w)
      PROVE  OnCourse' /\ WellFormed(board)' /\ [Lifecycle!LifecycleNext]_Progress
  <2> DEFINE e == job[w].batch[step[w] + 1]
             n == Len(job[w].batch)
  <2>1. /\ Follows(plan[w], job[w].batch)
        /\ step[w] \in Nat /\ n \in Nat /\ step[w] < n
        /\ plan[w][step[w] + 1] = board
        /\ w \notin dead /\ pc[w] = "append"
    BY <1>1 DEF AppendLine, At, OnCourse, Shapes, JobOK, IsSequence
  <2>2. Legal(board, e) /\ plan[w][step[w] + 2] = Apply(board, e)
    <3>1. step[w] + 1 \in 1..n
      BY <2>1
    <3>2. Legal(plan[w][step[w] + 1], e) /\ plan[w][(step[w] + 1) + 1] = Apply(plan[w][step[w] + 1], e)
      BY <2>1, <3>1 DEF Follows
    <3>3. (step[w] + 1) + 1 = step[w] + 2
      BY <2>1
    <3> QED BY <2>1, <3>2, <3>3
  <2>3. board' = Apply(board, e)
    BY <1>1 DEF AppendLine
  <2>4. WellFormed(board)' /\ [Lifecycle!LifecycleNext]_Progress
    BY <2>2, <2>3, ApplyStep, ProgressStep
  <2>5. \A q \in Procs \ dead : q # w => pc'[q] # "append"
    BY <1>1, <2>1 DEF OneWriter, UnderLock, Committing, AppendLine, Advance, Goto, Shapes
  <2>6. pc'[w] = "append" => step'[w] = step[w] + 1 /\ step[w] + 1 < n
    BY <1>1, <2>1 DEF AppendLine, Advance, Goto, Shapes
  <2>7. OnCourse'
    <3>1. UNCHANGED <<job, plan, dead>>
      BY <1>1 DEF AppendLine, mutexVars
    <3>2. pc'[w] = "append" => plan[w][step'[w] + 1] = board'
      BY <2>1, <2>2, <2>3, <2>6
    <3> QED BY <2>1, <2>5, <2>6, <3>1, <3>2 DEF OnCourse
  <2> QED BY <2>4, <2>7
<1>2. ASSUME UNCHANGED board
      PROVE  WellFormed(board)' /\ [Lifecycle!LifecycleNext]_Progress
  BY <1>2 DEF Progress
<1>3. ASSUME NEW w \in Procs, Validate(w)
      PROVE  OnCourse' /\ UNCHANGED board
  <2>1. PICK boards \in Runs(board, job[w].batch) : plan' = [plan EXCEPT ![w] = boards]
    BY <1>3 DEF Validate
  <2>2. boards[1] = board /\ Follows(boards, job[w].batch)
    <3>1. Len(job[w].batch) \in Nat
      BY DEF Shapes, JobOK, IsSequence
    <3> QED BY <2>1, <3>1, RunsAre DEF IsReplay, Follows
  <2>3. step[w] = 0 /\ Len(job[w].batch) \in Nat /\ Len(job[w].batch) > 0
    BY <1>3 DEF Validate, At, StepsStart, Stepping, Batches, Carrying, Shapes, JobOK, IsSequence
  <2>4. job'[w].batch = job[w].batch /\ plan'[w] = boards
    BY <1>3, <2>1 DEF Validate, Shapes, JobOK
  <2>5. \A q \in Procs \ {w} : pc'[q] = pc[q] /\ job'[q] = job[q] /\ plan'[q] = plan[q]
    BY <1>3, <2>1 DEF Validate, Goto, Shapes
  <2>6. UNCHANGED <<board, step, dead>>
    BY <1>3 DEF Validate, storeVars, mutexVars
  <2> QED BY <2>2, <2>3, <2>4, <2>5, <2>6 DEF OnCourse
<1>4. ASSUME NEW w \in Procs, UNCHANGED board, dead \subseteq dead', pc'[w] # "append" \/ w \in dead',
             \A q \in Procs \ {w} : /\ pc'[q] = pc[q] /\ job'[q] = job[q]
                                    /\ plan'[q] = plan[q] /\ step'[q] = step[q]
      PROVE  OnCourse'
  BY <1>4 DEF OnCourse
<1>5. ASSUME NEW w \in Procs, NEW c \in Commands, Read(w, c) \/ ReadToProject(w, c) \/ ReadToRecover(w, c)
      PROVE  OnCourse' /\ UNCHANGED board
  BY <1>5, <1>4 DEF Read, ReadToProject, ReadToRecover, Give, Goto, Shapes, storeVars, mutexVars
<1>6. ASSUME NEW w \in Procs, Stage(w) \/ Lock(w) \/ Retry(w)
      PROVE  OnCourse' /\ UNCHANGED board
  BY <1>6, <1>4 DEF Stage, Lock, Retry, Acquire, Release, Goto, Shapes, storeVars, mutexVars
<1>7. ASSUME NEW w \in Procs, TimeOut(w) \/ Refuse(w) \/ EffectFails(w) \/ Unlock(w) \/ Return(w)
      PROVE  OnCourse' /\ UNCHANGED board
  BY <1>7, <1>4 DEF TimeOut, Refuse, EffectFails, Unlock, Return, Finish, Release, Goto, Shapes, storeVars, mutexVars
<1>8. ASSUME NEW w \in Procs, NEW n, NEW phase, phase # "append", pc[w] # "append",
             UNCHANGED <<board, job, plan, mutexVars>>, Advance(w, n, phase)
      PROVE  OnCourse'
  BY <1>8, <1>4 DEF Advance, Goto, Shapes, mutexVars
<1>9. ASSUME NEW w \in Procs, SaveView(w) \/ ProjectView(w) \/ ApplyEffect(w) \/ RecoverFile(w)
      PROVE  OnCourse' /\ UNCHANGED board
  BY <1>9, <1>8 DEF SaveView, ProjectView, Save, ApplyEffect, RecoverFile, At
<1>10. ASSUME NEW w \in Procs, Crash(w)
       PROVE  OnCourse' /\ UNCHANGED board
  BY <1>10, <1>4 DEF Crash, Die, storeVars, procVars
<1>11. CASE LockReclaimed \/ UNCHANGED vars
  <2>1. UNCHANGED <<board, pc, job, plan, step, dead>>
    BY <1>11 DEF LockReclaimed, Reclaim, vars, storeVars, procVars, mutexVars
  <2> QED BY <1>2, <2>1 DEF OnCourse
<1> QED
  BY <1>1, <1>2, <1>3, <1>5, <1>6, <1>7, <1>9, <1>10, <1>11 DEF Next, Proceed

-----------------------------------------------------------------------------
Inv ==
  /\ Shapes
  /\ StepsStart
  /\ OneWriter
  /\ Batches
  /\ OnCourse
  /\ WellFormed(board)

\* The invariant holds of a store that earlier commands have left.
LEMMA InvInit == Init => Inv
<1> SUFFICES ASSUME Init PROVE Inv
  OBVIOUS
<1>1. Shapes
  <2>1. Len(log) \in Nat /\ IsSequence(log)
    BY SetupAssumption DEF Init, IsSequence
  <2>2. \A w \in Procs : JobOK(job[w])
    BY NoJobOK DEF Init
  <2>3. 0 \in 0..MaxCommands
    BY StoreBoundAssumption
  <2> QED BY <2>1, <2>2, <2>3 DEF Init, MutexInit, MutexTypeOK, Shapes, Phases
<1>2. StepsStart /\ Batches /\ OnCourse /\ OneWriter
  BY DEF Init, StepsStart, Batches, Carrying, OnCourse, OneWriter, UnderLock, Committing
<1>3. WellFormed(board)
  BY SetupAssumption DEF Init
<1> QED BY <1>1, <1>2, <1>3 DEF Inv

\* And every step keeps it.
LEMMA InvStep ==
  ASSUME Inv, [Next]_vars
  PROVE  Inv' /\ [Lifecycle!LifecycleNext]_Progress
  BY ShapesStep, StepsStartStep, OneWriterStep, BatchesStep, OnCourseStep DEF Inv

\* The inductive invariant: besides the shape of the state and the lock, that a
\* process in the middle of its append finds the board where its validation saw
\* it after as many lines.
THEOREM StoreInvariant == Spec => []Inv
<1>1. Init => Inv
  BY InvInit
<1>2. Inv /\ [Next]_vars => Inv'
  BY InvStep
<1> QED BY <1>1, <1>2, PTL DEF Spec

\* Type correctness.  That the board stays well formed is not about types only:
\* it needs that every line appended is one the projector accepts.
THEOREM StoreTypeCorrect == Spec => []TypeOK
<1>1. Inv => TypeOK
  BY DEF Inv, Shapes, TypeOK
<1> QED BY <1>1, StoreInvariant, PTL

\* No two live processes are between the lock and the unlock of
\* append_transactional at the same time.
THEOREM StoreHasOneWriter == Spec => []OneWriter
<1>1. Inv => OneWriter
  BY DEF Inv
<1> QED BY <1>1, StoreInvariant, PTL

\* Whatever commands are given, retried and cut short, and however many
\* processes there are: every line that reaches activity.jsonl moves at most one
\* task, along the diagram of state_machine.py, and a claimed task keeps its
\* owner.
THEOREM StoreImplementsLifecycle == Spec => ImplementsLifecycle
<1>1. Inv /\ [Next]_vars => [Lifecycle!LifecycleNext]_Progress
  BY InvStep
<1> QED BY <1>1, StoreInvariant, PTL DEF Spec, ImplementsLifecycle

-----------------------------------------------------------------------------
\* What is appended to a board the events have been validated on.

\* Nobody but w has appended since w validated its batch: the line it appends is
\* one the projector accepts.
LEMMA AppendIsLegal ==
  ASSUME Inv, NEW w \in Procs, AppendLine(w)
  PROVE  LET k == step[w] + 1
             e == job[w].batch[k] IN
         /\ k \in 1..Len(job[w].batch)
         /\ plan[w][k] = board
         /\ Legal(board, e)
         /\ board' = Apply(board, e)
         /\ log' = Append(log, e)
<1>1. /\ Follows(plan[w], job[w].batch)
      /\ step[w] \in Nat /\ Len(job[w].batch) \in Nat /\ step[w] < Len(job[w].batch)
      /\ plan[w][step[w] + 1] = board
  BY DEF Inv, AppendLine, At, OnCourse, Shapes, JobOK, IsSequence
<1>2. step[w] + 1 \in 1..Len(job[w].batch)
  BY <1>1
<1> QED BY <1>1, <1>2 DEF Follows, AppendLine

\* No other step touches the log or the board.
LEMMA OthersKeepLog ==
  ASSUME [Next]_vars, ~\E w \in Procs : AppendLine(w)
  PROVE  UNCHANGED <<log, board>>
  BY DEF Next, Proceed, vars, storeVars, Read, ReadToProject, ReadToRecover, Give, Stage, Lock, TimeOut, Retry,
         Refuse, Validate, SaveView, ProjectView, Save, ApplyEffect, Unlock, RecoverFile, Return, EffectFails,
         Crash, LockReclaimed

\* The projector gets through the whole log, and board is where it arrives.
Replayable ==
  \E bs : IsSequence(bs) /\ IsReplay(bs, EmptyBoard, log) /\ bs[Len(bs)] = board

\* Appending a line keeps the log replayable: the line was validated on the
\* board the log leads to.
LEMMA ReplayableStep ==
  ASSUME Inv, Replayable, [Next]_vars
  PROVE  Replayable'
<1>1. CASE \E w \in Procs : AppendLine(w)
  <2>1. PICK w \in Procs : AppendLine(w)
    BY <1>1
  <2> DEFINE e == job[w].batch[step[w] + 1]
  <2>2. Legal(board, e) /\ board' = Apply(board, e) /\ log' = Append(log, e)
    BY <2>1, AppendIsLegal
  <2> HIDE DEF e
  <2>3. PICK bs : IsSequence(bs) /\ IsReplay(bs, EmptyBoard, log) /\ bs[Len(bs)] = board
    BY DEF Replayable
  <2>4. IsSequence(log) /\ Len(log) \in Nat
    BY DEF Inv, Shapes, IsSequence
  <2>5. /\ Len(log') = Len(log) + 1
        /\ \A i \in 1..Len(log) : log'[i] = log[i]
        /\ log'[Len(log) + 1] = e
    BY <2>2, <2>4, AppendSequence
  <2> DEFINE cs == Append(bs, board')
  <2>6. /\ IsSequence(cs)
        /\ Len(cs) = Len(bs) + 1
        /\ \A i \in 1..Len(bs) : cs[i] = bs[i]
        /\ cs[Len(bs) + 1] = board'
    BY <2>3, AppendSequence
  <2> HIDE DEF cs
  <2>7. Len(bs) = Len(log) + 1 /\ bs[1] = EmptyBoard
    BY <2>3 DEF IsReplay
  <2>8. ASSUME NEW i \in 1..Len(log')
        PROVE  Legal(cs[i], log'[i]) /\ cs[i + 1] = Apply(cs[i], log'[i])
    <3>1. CASE i \in 1..Len(log)
      <4>1. i \in 1..Len(bs) /\ i + 1 \in 1..Len(bs)
        BY <3>1, <2>4, <2>7
      <4> QED BY <3>1, <4>1, <2>3, <2>5, <2>6 DEF IsReplay
    <3>2. CASE i = Len(log) + 1
      <4>1. cs[i] = board /\ cs[i + 1] = board' /\ log'[i] = e
        BY <3>2, <2>3, <2>4, <2>5, <2>6, <2>7
      <4> QED BY <4>1, <2>2
    <3> QED BY <3>1, <3>2, <2>4, <2>5
  <2>9. IsReplay(cs, EmptyBoard, log')
    <3>1. cs[1] = EmptyBoard
      BY <2>4, <2>6, <2>7
    <3>2. Len(cs) = Len(log') + 1
      BY <2>5, <2>6, <2>7
    <3> QED BY <3>1, <3>2, <2>8 DEF IsReplay
  <2>10. cs[Len(cs)] = board'
    BY <2>6
  <2> QED BY <2>6, <2>9, <2>10 DEF Replayable
<1>2. CASE ~\E w \in Procs : AppendLine(w)
  BY <1>2, OthersKeepLog DEF Replayable
<1> QED BY <1>1, <1>2

\* The logs of earlier commands replay.
LEMMA ReplayableInit == Init => Replayable
<1> SUFFICES ASSUME Init PROVE Replayable
  OBVIOUS
<1>1. Runs(EmptyBoard, log) # {} /\ board = Last(CHOOSE bs \in Runs(EmptyBoard, log) : TRUE)
  BY SetupAssumption DEF Init, Replays, After
<1>2. PICK bs \in Runs(EmptyBoard, log) : board = Last(bs)
  BY <1>1
<1>3. Len(log) \in Nat
  BY SetupAssumption DEF Init, IsSequence
<1> QED BY <1>2, <1>3, RunsAre DEF Replayable, Last

\* Which is what LogReplays says: the boards are the run of materialize.
LEMMA ReplayableRuns ==
  ASSUME Inv, Replayable
  PROVE  LogReplays
<1>1. Len(log) \in Nat
  BY DEF Inv, Shapes, IsSequence
<1>2. PICK bs : IsSequence(bs) /\ IsReplay(bs, EmptyBoard, log) /\ bs[Len(bs)] = board
  BY DEF Replayable
<1>3. bs \in Runs(EmptyBoard, log)
  BY <1>1, <1>2, RunsAre
<1> QED BY <1>2, <1>3 DEF LogReplays, Last

-----------------------------------------------------------------------------
\* What a process carries through a commit, and how far it has come.

Appending == Carrying \cup {"views", "effects", "unlock"}

\* The first event of a batch creates a task for task create and for hotfix
\* create only.
LEMMA MainEventKind ==
  ASSUME NEW b, NEW c, c.op \in Ops \ {"project", "recover"}
  PROVE  LET e == MainEvent(b, c) IN
         /\ e.kind \notin {WriteKind, "run.end", "verify.ok"}
         /\ e.kind = "task.create" => c.op = "create" /\ e.task = c.task
         /\ e.kind = "hotfix.create" => c.op = "hotfix"
         /\ c.op = "complete" => e.kind = "complete" /\ e.task = c.task
<1>1. c.op \in AppendingOps
  BY DEF Ops, AppendingOps
<1> QED BY <1>1, MainEventIs

\* A job of a command that appends: its batch was built by the command.
Carries(j) ==
  /\ j.cmd \in Commands
  /\ j.cmd.op \notin {"project", "recover"}
  /\ \E b, evs, fs : j.batch = Batch(b, evs, j.cmd, fs)

Errands ==
  \A w \in Procs :
    /\ DOMAIN job[w] = DOMAIN NoJob
    /\ pc[w] \in Appending => Carries(job[w])
    /\ pc[w] \in {"staging", "effects"} => Writes(job[w].cmd)
    /\ pc[w] = "effects" => step[w] < Len(job[w].batch[2].effects)
    /\ pc[w] = "project" => job[w].cmd.op = "project"
    /\ pc[w] = "recover" => job[w].cmd.op = "recover"

\* A retry and a validation leave command and batch as they are.
LEMMA CarriesOn ==
  ASSUME NEW j, NEW k, Carries(j), k.cmd = j.cmd, k.batch = j.batch
  PROVE  Carries(k)
  BY DEF Carries

\* A command that writes files has a write event with an effect.
LEMMA WritesSomething ==
  ASSUME NEW j, Carries(j), Writes(j.cmd)
  PROVE  /\ 2 \in 1..Len(j.batch)
         /\ j.batch[2].kind = WriteKind
         /\ j.batch[2].task = j.cmd.task
         /\ j.batch[1].kind = "complete"
         /\ j.batch[1].task = j.cmd.task
         /\ Len(j.batch[2].effects) \in Nat \ {0}
         /\ DOMAIN j.batch[2].effects = 1..Len(j.batch[2].effects)
<1> DEFINE c == j.cmd
<1>1. PICK b, evs, fs : j.batch = Batch(b, evs, c, fs)
  BY DEF Carries
<1>2. c \in Commands /\ c.op = "complete" /\ c.writes # <<>> /\ c.op \in Ops \ {"project", "recover"}
  BY CommandAssumption DEF Carries, Writes
<1> DEFINE cand == Candidates(b, evs, c, fs)
           write == [kind |-> WriteKind, task |-> c.task, effects |-> Effects(c, fs)]
<1>3. Len(cand) = 2 /\ cand[2] = write /\ cand[1] = MainEvent(b, c)
  <2>1. CommandEvents(cand, b, c, fs)
    BY CandidatesShape
  <2> HIDE DEF cand
  <2> QED BY <2>1 DEF CommandEvents
<1> HIDE DEF cand
<1>4. Len(j.batch) \in {3, 4} /\ \A i \in 1..2 : j.batch[i] = cand[i]
  <2> DEFINE a == After(b, cand)
  <2>1. Closes(j.batch, cand, a)
    BY <1>1, BatchShape DEF cand
  <2> HIDE DEF a
  <2> QED BY <1>3, <2>1 DEF Closes
<1>5. cand[1].kind = "complete" /\ cand[1].task = c.task
  BY <1>2, <1>3, MainEventKind
<1>6. Len(Effects(c, fs)) \in Nat \ {0} /\ DOMAIN Effects(c, fs) = 1..Len(Effects(c, fs))
  <2>1. IsSequence(c.writes) /\ Len(c.writes) \in Nat /\ DOMAIN c.writes = 1..Len(c.writes)
    BY <1>2, CommandAssumption, DomainOfSequence DEF IsSequence
  <2>2. Len(c.writes) # 0
    <3>1. Len(c.writes) = 0 => c.writes = <<>>
      BY <2>1, EmptySequence, SameSequence
    <3> QED BY <3>1, <1>2
  <2>3. Effects(c, fs) = [k \in 1..Len(c.writes) |-> Effects(c, fs)[k]]
    BY <2>1 DEF Effects
  <2>4. Len(Effects(c, fs)) = Len(c.writes)
    BY <2>1, <2>3, FunctionSequence
  <2>5. DOMAIN Effects(c, fs) = DOMAIN c.writes
    BY DEF Effects
  <2> QED BY <2>1, <2>2, <2>4, <2>5
<1>7. j.batch[2] = write /\ j.batch[1] = cand[1]
  BY <1>3, <1>4
<1> QED BY <1>4, <1>5, <1>6, <1>7

\* A command keeps its batch from reading to unlocking, and never changes its
\* mind about what it is.
LEMMA ErrandsStep ==
  ASSUME Inv, Errands, [Next]_vars
  PROVE  Errands'
<1> DEFINE OK(j, p, s) ==
             /\ DOMAIN j = DOMAIN NoJob
             /\ p \in Appending => Carries(j)
             /\ p \in {"staging", "effects"} => Writes(j.cmd)
             /\ p = "effects" => s < Len(j.batch[2].effects)
             /\ p = "project" => j.cmd.op = "project"
             /\ p = "recover" => j.cmd.op = "recover"
<1>1. \A w \in Procs : OK(job[w], pc[w], step[w])
  BY DEF Errands
<1>2. ASSUME \A w \in Procs : OK(job'[w], pc'[w], step'[w])
      PROVE  Errands'
  BY <1>2 DEF Errands
<1> DEFINE Others(w) == \A q \in Procs \ {w} : job'[q] = job[q] /\ pc'[q] = pc[q] /\ step'[q] = step[q]
<1> HIDE DEF OK
<1>3. ASSUME NEW w \in Procs, Others(w), OK(job'[w], pc'[w], step'[w])
      PROVE  Errands'
  BY <1>1, <1>2, <1>3
<1> USE DEF Inv, Shapes
<1>4. ASSUME NEW w \in Procs, NEW c \in Commands, NEW phase, NEW base, Give(w, c, phase, base), step[w] = 0,
             DOMAIN base = DOMAIN NoJob,
             phase \in Appending => Carries([base EXCEPT !.cmd = c]),
             phase \in {"staging", "effects"} => phase = "staging" /\ Writes(c),
             phase = "project" => c.op = "project",
             phase = "recover" => c.op = "recover"
      PROVE  Errands'
  <2>1. Others(w) /\ job'[w] = [base EXCEPT !.cmd = c] /\ pc'[w] = phase
    BY <1>4 DEF Give, Goto
  <2>2. "cmd" \in DOMAIN base
    BY <1>4 DEF NoJob
  <2>3. job'[w].cmd = c /\ DOMAIN job'[w] = DOMAIN NoJob
    BY <1>4, <2>1, <2>2
  <2>4. OK(job'[w], pc'[w], step'[w])
    BY <1>4, <2>1, <2>3 DEF OK
  <2> QED BY <1>3, <2>1, <2>4
<1>5. ASSUME NEW w \in Procs, pc[w] = "idle" PROVE step[w] = 0
  BY <1>5 DEF StepsStart, Stepping
<1>6. ASSUME NEW w \in Procs, NEW c \in Commands, Read(w, c)
      PROVE  Errands'
  <2> DEFINE base == [NoJob EXCEPT !.base = Len(log), !.batch = Batch(board, log, c, files),
                        !.captured = IF Writes(c) THEN TaskOf(board.tasks, c.task).limits ELSE None]
             phase == IF Writes(c) THEN "staging" ELSE "ready"
             j == [base EXCEPT !.cmd = c]
  <2>1. Give(w, c, phase, base) /\ c.op \notin {"project", "recover"} /\ pc[w] = "idle"
    BY <1>6 DEF Read, Give, At
  <2>2. DOMAIN base = DOMAIN NoJob /\ j.cmd = c /\ j.batch = Batch(board, log, c, files)
    BY DEF NoJob
  <2> HIDE DEF base
  <2>3. Carries(j)
    BY <2>1, <2>2 DEF Carries
  <2> HIDE DEF j
  <2>4. phase \in {"staging", "ready"} /\ (phase = "staging" => Writes(c))
    BY Zenon
  <2> HIDE DEF phase
  <2> QED BY <1>4, <1>5, <2>1, <2>2, <2>3, <2>4 DEF j
<1>7. ASSUME NEW w \in Procs, NEW c \in Commands, ReadToProject(w, c) \/ ReadToRecover(w, c)
      PROVE  Errands'
  <2> DEFINE base == [NoJob EXCEPT !.until = Len(log)]
  <2>1. DOMAIN base = DOMAIN NoJob
    BY DEF NoJob
  <2>2. /\ pc[w] = "idle"
        /\ \/ Give(w, c, "project", base) /\ c.op = "project"
           \/ Give(w, c, "recover", base) /\ c.op = "recover"
    BY <1>7 DEF ReadToProject, ReadToRecover, Give, At
  <2> HIDE DEF base
  <2> QED BY <1>4, <1>5, <2>1, <2>2 DEF Appending, Carrying
<1>8. ASSUME NEW w \in Procs, Stage(w) \/ Lock(w)
      PROVE  Errands'
  <2>1. Others(w) /\ job'[w] = job[w] /\ step'[w] = step[w] /\ pc'[w] \in {"ready", "locked"} /\ pc[w] \in Appending
    BY <1>8 DEF Stage, Lock, At, Goto, Appending, Carrying
  <2>2. OK(job'[w], pc'[w], step'[w])
    BY <1>1, <2>1 DEF OK
  <2> QED BY <1>3, <2>1, <2>2
<1>9. ASSUME NEW w \in Procs, Retry(w) \/ Validate(w)
      PROVE  Errands'
  <2>1. /\ Others(w) /\ step'[w] = step[w] /\ pc'[w] \in {"ready", "append"} /\ pc[w] \in Appending
        /\ \/ job'[w] = [job[w] EXCEPT !.attempt = 1]
           \/ job'[w] = [job[w] EXCEPT !.until = Len(log) + Len(job[w].batch)]
    BY <1>9 DEF Retry, Validate, At, Goto, Appending, Carrying
  <2>2. DOMAIN job[w] = DOMAIN NoJob /\ Carries(job[w])
    BY <1>1, <2>1 DEF OK
  <2>3. DOMAIN job'[w] = DOMAIN NoJob /\ job'[w].cmd = job[w].cmd /\ job'[w].batch = job[w].batch
    BY <2>1, <2>2 DEF NoJob
  <2>4. Carries(job'[w])
    BY <2>2, <2>3, CarriesOn
  <2>5. OK(job'[w], pc'[w], step'[w])
    BY <2>1, <2>3, <2>4 DEF OK
  <2> QED BY <1>3, <2>1, <2>5
<1>10. ASSUME NEW w \in Procs, Finish(w)
       PROVE  Errands'
  <2>1. Others(w) /\ job'[w] = NoJob /\ pc'[w] = "idle"
    BY <1>10 DEF Finish, Goto
  <2>2. OK(job'[w], pc'[w], step'[w])
    BY <2>1 DEF OK, Appending, Carrying
  <2> QED BY <1>3, <2>1, <2>2
<1>11. ASSUME NEW w \in Procs, TimeOut(w) \/ Refuse(w) \/ EffectFails(w) \/ Unlock(w) \/ Return(w)
       PROVE  Errands'
  BY <1>10, <1>11 DEF TimeOut, Refuse, EffectFails, Unlock, Return
<1>12. ASSUME NEW w \in Procs, NEW n, NEW phase, Advance(w, n, phase), UNCHANGED job,
              \/ phase \in {"views", "unlock"} /\ pc[w] \in Appending /\ (pc[w] = "effects" => n = Len(job[w].batch[2].effects))
              \/ phase = "effects" /\ pc[w] \in Appending \ {"effects"} /\ Writes(job[w].cmd)
              \/ phase = "return" /\ pc[w] \in {"project", "recover"}
       PROVE  Errands'
  <2>1. Others(w) /\ job'[w] = job[w]
    BY <1>12 DEF Advance, Goto
  <2>2. OK(job[w], pc[w], step[w])
    BY <1>1
  <2>3. CASE step[w] + 1 < n
    <3>1. pc'[w] = pc[w] /\ step'[w] = step[w] + 1
      BY <1>12, <2>3 DEF Advance
    <3>2. pc[w] = "effects" => n = Len(job[w].batch[2].effects) 
      BY <1>12
    <3> QED BY <1>3, <2>1, <2>2, <2>3, <3>1, <3>2 DEF OK
  <2>4. CASE ~(step[w] + 1 < n)
    <3>1. pc'[w] = phase /\ step'[w] = 0
      BY <1>12, <2>4 DEF Advance, Goto
    <3>2. phase = "effects" => 0 < Len(job[w].batch[2].effects)
      BY <1>12, <2>2, WritesSomething DEF OK
    <3>3. OK(job'[w], pc'[w], step'[w])
      BY <1>12, <2>1, <2>2, <3>1, <3>2 DEF OK, Appending, Carrying
    <3> QED BY <1>3, <2>1, <3>3
  <2> QED BY <2>3, <2>4
<1>13. ASSUME NEW w \in Procs, AppendLine(w) \/ SaveView(w) \/ ProjectView(w) \/ ApplyEffect(w) \/ RecoverFile(w)
       PROVE  Errands'
  <2>1. CASE AppendLine(w)
    BY <2>1, <1>12 DEF AppendLine, At, Appending, Carrying
  <2>2. CASE SaveView(w)
    <3> DEFINE phase == IF Writes(job[w].cmd) THEN "effects" ELSE "unlock"
    <3>1. /\ Advance(w, Len(ViewOrder), phase) /\ UNCHANGED job /\ pc[w] = "views"
          /\ (phase = "effects" /\ Writes(job[w].cmd)) \/ phase = "unlock"
      BY <2>2 DEF SaveView, Save, At
    <3> HIDE DEF phase
    <3> QED BY <3>1, <1>12 DEF Appending, Carrying
  <2>3. CASE ProjectView(w)
    BY <2>3, <1>12 DEF ProjectView, Save, At
  <2>4. CASE ApplyEffect(w)
    BY <2>4, <1>12 DEF ApplyEffect, At, Appending, Carrying
  <2>5. CASE RecoverFile(w)
    BY <2>5, <1>12 DEF RecoverFile, At
  <2> QED BY <1>13, <2>1, <2>2, <2>3, <2>4, <2>5
<1>14. (\E w \in Procs : Crash(w)) \/ LockReclaimed \/ UNCHANGED vars => UNCHANGED <<pc, job, step>>
  BY DEF Crash, LockReclaimed, vars, procVars
<1>15. UNCHANGED <<pc, job, step>> => Errands'
  BY DEF Errands
<1> QED
  BY <1>6, <1>7, <1>8, <1>9, <1>11, <1>13, <1>14, <1>15 DEF Next, Proceed

-----------------------------------------------------------------------------
\* Staged files belong to a submission that writes files and has not finished.
StagedWork ==
  \A w \in staged \ dead :
    Writes(job[w].cmd) /\ pc[w] \in {"ready", "locked", "append", "views", "effects"}

\* Every way out of a submission sweeps what it has staged.
LEMMA StagedWorkStep ==
  ASSUME Inv, Errands, StagedWork, [Next]_vars
  PROVE  StagedWork'
<1> DEFINE Others(w) == \A q \in Procs \ {w} : job'[q] = job[q] /\ pc'[q] = pc[q]
           OK(j, p) == Writes(j.cmd) /\ p \in {"ready", "locked", "append", "views", "effects"}
<1> USE DEF Inv, Shapes
<1>1. ASSUME NEW w \in Procs, Others(w), dead' = dead, staged' \subseteq staged \cup {w},
             w \in staged' \ dead => OK(job'[w], pc'[w])
      PROVE  StagedWork'
  BY <1>1 DEF StagedWork
<1>2. ASSUME NEW w \in Procs, pc[w] \notin {"ready", "locked", "append", "views", "effects"}, w \notin dead
      PROVE  w \notin staged
  BY <1>2 DEF StagedWork
<1>3. ASSUME NEW w \in Procs, NEW c \in Commands, Read(w, c) \/ ReadToProject(w, c) \/ ReadToRecover(w, c)
      PROVE  StagedWork'
  BY <1>1, <1>2, <1>3 DEF Read, ReadToProject, ReadToRecover, Give, At, Goto, mutexVars
<1>4. ASSUME NEW w \in Procs, Stage(w)
      PROVE  StagedWork'
  BY <1>1, <1>4 DEF Stage, At, Goto, Errands, mutexVars
<1>5. ASSUME NEW w \in Procs, Lock(w) \/ Retry(w) \/ Validate(w)
      PROVE  StagedWork'
  <2>1. /\ Others(w) /\ pc'[w] \in {"ready", "locked", "append"} /\ staged' = staged /\ dead' = dead
        /\ \/ job'[w] = job[w]
           \/ job'[w] = [job[w] EXCEPT !.attempt = 1]
           \/ job'[w] = [job[w] EXCEPT !.until = Len(log) + Len(job[w].batch)]
    BY <1>5 DEF Lock, Retry, Validate, Acquire, Release, Goto, mutexVars
  <2>2. job'[w].cmd = job[w].cmd
    BY <2>1 DEF Errands, NoJob
  <2> QED BY <1>1, <2>1, <2>2 DEF StagedWork
<1>6. ASSUME NEW w \in Procs, TimeOut(w) \/ Refuse(w) \/ EffectFails(w) \/ Unlock(w) \/ Return(w)
      PROVE  StagedWork'
  <2>1. Others(w) /\ dead' = dead /\ staged' \subseteq staged
    BY <1>6 DEF TimeOut, Refuse, EffectFails, Unlock, Return, Unstage, Finish, Release, Goto, mutexVars
  <2>2. w \notin staged'
    BY <1>2, <1>6 DEF TimeOut, Refuse, EffectFails, Unlock, Return, Unstage, At
  <2> QED BY <1>1, <2>1, <2>2
<1>7. ASSUME NEW w \in Procs, NEW n, NEW phase, Advance(w, n, phase), UNCHANGED <<job, staged, mutexVars>>,
             w \in staged => phase \in {"views", "effects"}
      PROVE  StagedWork'
  <2>1. Others(w) /\ dead' = dead /\ staged' = staged /\ job'[w] = job[w] /\ pc'[w] \in {pc[w], phase}
    BY <1>7 DEF Advance, Goto, mutexVars
  <2> QED BY <1>1, <1>7, <2>1 DEF StagedWork
<1>8. ASSUME NEW w \in Procs, AppendLine(w) \/ SaveView(w) \/ ProjectView(w) \/ RecoverFile(w)
      PROVE  StagedWork'
  <2>1. CASE AppendLine(w)
    BY <2>1, <1>7 DEF AppendLine
  <2>2. CASE SaveView(w)
    <3> DEFINE phase == IF Writes(job[w].cmd) THEN "effects" ELSE "unlock"
    <3>1. /\ Advance(w, Len(ViewOrder), phase) /\ UNCHANGED <<job, staged, mutexVars>>
          /\ w \in staged => phase = "effects"
      BY <2>2 DEF SaveView, Save, At, StagedWork
    <3> HIDE DEF phase
    <3> QED BY <3>1, <1>7
  <2>3. CASE ProjectView(w)
    BY <2>3, <1>2, <1>7 DEF ProjectView, Save, At
  <2>4. CASE RecoverFile(w)
    BY <2>4, <1>2, <1>7 DEF RecoverFile, At
  <2> QED BY <1>8, <2>1, <2>2, <2>3, <2>4
<1>9. ASSUME NEW w \in Procs, ApplyEffect(w)
      PROVE  StagedWork'
  <2> DEFINE n == Len(job[w].batch[2].effects)
  <2>1. Others(w) /\ dead' = dead /\ job'[w] = job[w] /\ pc[w] = "effects" /\ w \notin dead
    BY <1>9 DEF ApplyEffect, Advance, Goto, At, mutexVars
  <2>2. Carries(job[w]) /\ Writes(job[w].cmd) /\ step[w] < n /\ step[w] \in Nat
    BY <2>1 DEF Errands, Appending
  <2>3. n \in Nat
    BY <2>2, WritesSomething
  <2>4. CASE step[w] + 1 = n
    <3>1. staged' = staged \ {w}
      BY <1>9, <2>4 DEF ApplyEffect, Unstage
    <3> QED BY <1>1, <2>1, <3>1
  <2>5. CASE step[w] + 1 # n
    <3>1. staged' = staged /\ pc'[w] = pc[w]
      BY <1>9, <2>2, <2>3, <2>5 DEF ApplyEffect, Advance
    <3> QED BY <1>1, <2>1, <2>2, <3>1
  <2> QED BY <2>4, <2>5
<1>10. ASSUME NEW w \in Procs, Crash(w)
       PROVE  StagedWork'
  BY <1>10 DEF Crash, Die, procVars, StagedWork
<1>11. CASE LockReclaimed \/ UNCHANGED vars
  BY <1>11 DEF LockReclaimed, Reclaim, vars, procVars, mutexVars, StagedWork
<1> QED
  BY <1>3, <1>4, <1>5, <1>6, <1>8, <1>9, <1>10, <1>11 DEF Next, Proceed

-----------------------------------------------------------------------------
\* What is left of an append, once the batch has been validated.

\* Until a batch is appended, what its hotfix is for is a task that is done.
MakesHotfix(batch) == \E i \in 1..Len(batch) : batch[i].kind = "hotfix.create"

HotfixTargets ==
  \A w \in Procs : pc[w] \in Carrying /\ MakesHotfix(job[w].batch) => DoneTask(board, job[w].cmd.fixes)


\* A hotfix is created by task hotfix create, and by a report that asks for it.
LEMMA HotfixAsked ==
  ASSUME NEW j, Carries(j), MakesHotfix(j.batch)
  PROVE  j.cmd.op = "hotfix" \/ (j.cmd.op = "report" /\ j.cmd.fixes # None)
<1> DEFINE c == j.cmd
<1>1. PICK b, evs, fs : j.batch = Batch(b, evs, c, fs)
  BY DEF Carries
<1> DEFINE cand == Candidates(b, evs, c, fs)
           a == After(b, cand)
<1>2. Closes(j.batch, cand, a)
  BY <1>1, BatchShape
<1>3. /\ Len(cand) \in Nat \ {0}
      /\ cand[1] = MainEvent(b, c)
      /\ \A i \in 2..Len(cand) : Consequence(c, cand[i])
  <2>1. CommandEvents(cand, b, c, fs)
    BY CandidatesShape
  <2> HIDE DEF cand
  <2> QED BY <2>1 DEF CommandEvents
<1>4. c.op \in Ops \ {"project", "recover"}
  BY CommandAssumption DEF Carries
<1> HIDE DEF cand, a
<1>5. PICK i \in 1..Len(j.batch) : j.batch[i].kind = "hotfix.create"
  BY DEF MakesHotfix
<1>6. i \in 1..Len(cand) /\ j.batch[i] = cand[i]
  <2>1. i # Len(j.batch) /\ ~(Len(j.batch) = Len(cand) + 2 /\ i = Len(cand) + 1)
    BY <1>2, <1>5 DEF Closes
  <2> QED BY <1>2, <1>3, <2>1 DEF Closes
<1>7. CASE i = 1
  BY <1>3, <1>4, <1>5, <1>6, <1>7, MainEventKind
<1>8. CASE i # 1
  BY <1>3, <1>5, <1>6, <1>8 DEF Consequence, HotfixEvent, WriteKind
<1> QED BY <1>7, <1>8

\* The board is a record, also where Apply has not been.
LEMMA BoardFields ==
  ASSUME Inv, Replayable
  PROVE  {"tasks", "open", "reported", "run"} = DOMAIN board
<1>1. PICK bs : IsSequence(bs) /\ IsReplay(bs, EmptyBoard, log) /\ bs[Len(bs)] = board
  BY DEF Replayable
<1>2. Len(log) \in Nat /\ Len(bs) = Len(log) + 1
  BY <1>1 DEF Inv, Shapes, IsSequence, IsReplay
<1>3. CASE Len(log) = 0
  BY <1>1, <1>2, <1>3 DEF IsReplay, EmptyBoard
<1>4. CASE Len(log) # 0
  <2>1. board = Apply(bs[Len(log)], log[Len(log)])
    BY <1>1, <1>2, <1>4 DEF IsReplay
  <2> QED BY <2>1 DEF Apply
<1> QED BY <1>3, <1>4

\* Between the check of the target and the append the board changes, but done
\* tasks stay done.
LEMMA HotfixTargetsStep ==
  ASSUME Inv, Replayable, Errands, HotfixTargets, [Next]_vars
  PROVE  HotfixTargets'
<1> DEFINE OK(b, j, p) == p \in Carrying /\ MakesHotfix(j.batch) => DoneTask(b, j.cmd.fixes)
           Others(w) == \A q \in Procs \ {w} : job'[q] = job[q] /\ pc'[q] = pc[q]
<1>1. \A q \in Procs : OK(board, job[q], pc[q])
  BY DEF HotfixTargets
<1>2. ASSUME \A q \in Procs : OK(board', job'[q], pc'[q])
      PROVE  HotfixTargets'
  BY <1>2 DEF HotfixTargets
<1> HIDE DEF OK
<1>3. ASSUME NEW w \in Procs, Others(w), UNCHANGED board, OK(board, job'[w], pc'[w])
      PROVE  HotfixTargets'
  BY <1>1, <1>2, <1>3
<1> USE DEF Inv, Shapes
<1>4. ASSUME NEW w \in Procs, NEW c \in Commands, Read(w, c)
      PROVE  HotfixTargets'
  <2> DEFINE base == [NoJob EXCEPT !.base = Len(log), !.batch = Batch(board, log, c, files),
                        !.captured = IF Writes(c) THEN TaskOf(board.tasks, c.task).limits ELSE None]
             j == [base EXCEPT !.cmd = c]
  <2>1. Others(w) /\ UNCHANGED board /\ job'[w] = j /\ Accepts(board, log, c, files, staged = {})
        /\ c.op \notin {"project", "recover"}
    BY <1>4 DEF Read, Give, At, Goto, storeVars
  <2>2. j.cmd = c /\ j.batch = Batch(board, log, c, files)
    BY DEF NoJob
  <2> HIDE DEF j, base
  <2>3. Carries(j)
    BY <2>1, <2>2 DEF Carries
  <2>4. ASSUME MakesHotfix(j.batch) PROVE DoneTask(board, c.fixes)
    <3>1. CASE c.op = "hotfix"
      <4>1. HotfixAllowed(board, c)
        BY <2>1, <3>1 DEF Accepts, AcceptsHotfix
      <4> QED BY <4>1, HotfixAllowedDone
    <3>2. CASE c.op = "report" /\ c.fixes # None
      <4> DEFINE b == [board EXCEPT !.open = @ \cup {c.issue}]
      <4>1. HotfixAllowed(b, c)
        BY <2>1, <3>2 DEF Accepts, AcceptsReport
      <4>2. b.tasks = board.tasks
        BY BoardFields
      <4> HIDE DEF b
      <4>3. WellFormed(b)
        BY <4>2, WellFormedTasks
      <4>4. DoneTask(b, c.fixes)
        BY <4>1, <4>3, HotfixAllowedDone
      <4> QED BY <4>2, <4>4 DEF DoneTask
    <3> QED BY <2>2, <2>3, <2>4, <3>1, <3>2, HotfixAsked
  <2>5. OK(board, job'[w], pc'[w])
    BY <2>1, <2>2, <2>4 DEF OK
  <2> QED BY <1>3, <2>1, <2>5
<1>5. ASSUME NEW w \in Procs, NEW c \in Commands, ReadToProject(w, c) \/ ReadToRecover(w, c)
      PROVE  HotfixTargets'
  <2>1. Others(w) /\ UNCHANGED board /\ pc'[w] \notin Carrying
    BY <1>5 DEF ReadToProject, ReadToRecover, Give, Goto, Carrying, storeVars
  <2> QED BY <1>3, <2>1 DEF OK
<1>6. ASSUME NEW w \in Procs, Stage(w) \/ Lock(w) \/ Retry(w) \/ Validate(w)
      PROVE  HotfixTargets'
  <2>1. /\ Others(w) /\ UNCHANGED board /\ pc[w] \in Carrying
        /\ \/ job'[w] = job[w]
           \/ job'[w] = [job[w] EXCEPT !.attempt = 1]
           \/ job'[w] = [job[w] EXCEPT !.until = Len(log) + Len(job[w].batch)]
    BY <1>6 DEF Stage, Lock, Retry, Validate, At, Goto, Carrying, storeVars
  <2>2. job'[w].cmd = job[w].cmd /\ job'[w].batch = job[w].batch
    BY <2>1 DEF Errands, NoJob
  <2> QED BY <1>1, <1>3, <2>1, <2>2 DEF OK
<1>7. ASSUME NEW w \in Procs, TimeOut(w) \/ Refuse(w) \/ EffectFails(w) \/ Unlock(w) \/ Return(w)
      PROVE  HotfixTargets'
  <2>1. Others(w) /\ UNCHANGED board /\ pc'[w] \notin Carrying
    BY <1>7 DEF TimeOut, Refuse, EffectFails, Unlock, Return, Finish, Goto, Carrying, storeVars
  <2> QED BY <1>3, <2>1 DEF OK
<1>8. ASSUME NEW w \in Procs, NEW n, NEW phase, Advance(w, n, phase), UNCHANGED <<job, board>>, phase \notin Carrying
      PROVE  HotfixTargets'
  <2>1. Others(w) /\ job'[w] = job[w] /\ (pc'[w] \in Carrying => pc'[w] = pc[w])
    BY <1>8 DEF Advance, Goto
  <2> QED BY <1>1, <1>3, <1>8, <2>1 DEF OK
<1>9. ASSUME NEW w \in Procs, SaveView(w) \/ ProjectView(w) \/ ApplyEffect(w) \/ RecoverFile(w)
      PROVE  HotfixTargets'
  <2>1. CASE SaveView(w)
    BY <2>1, <1>8 DEF SaveView, Save, Carrying
  <2>2. CASE ProjectView(w)
    BY <2>2, <1>8 DEF ProjectView, Save, Carrying
  <2>3. CASE ApplyEffect(w)
    BY <2>3, <1>8 DEF ApplyEffect, Carrying
  <2>4. CASE RecoverFile(w)
    BY <2>4, <1>8 DEF RecoverFile, Carrying
  <2> QED BY <1>9, <2>1, <2>2, <2>3, <2>4
<1>10. ASSUME NEW w \in Procs, AppendLine(w)
       PROVE  HotfixTargets'
  <2> DEFINE e == job[w].batch[step[w] + 1]
  <2>1. Legal(board, e) /\ board' = Apply(board, e)
    BY <1>10, AppendIsLegal
  <2> HIDE DEF e
  <2>2. job' = job /\ \A q \in Procs : pc'[q] \in Carrying => pc[q] \in Carrying
    BY <1>10 DEF AppendLine, Advance, Goto, Carrying
  <2>3. \A id : DoneTask(board, id) => DoneTask(board', id)
    BY <2>1, DoneStays
  <2>4. \A q \in Procs : OK(board', job'[q], pc'[q])
    BY <1>1, <2>2, <2>3 DEF OK
  <2> QED BY <1>2, <2>4
<1>11. (\E w \in Procs : Crash(w)) \/ LockReclaimed \/ UNCHANGED vars => UNCHANGED <<pc, job, board>>
  BY DEF Crash, LockReclaimed, vars, procVars, storeVars
<1>12. UNCHANGED <<pc, job, board>> => HotfixTargets'
  BY DEF HotfixTargets
<1> QED
  BY <1>4, <1>5, <1>6, <1>7, <1>9, <1>10, <1>11, <1>12 DEF Next, Proceed

\* So at the append of a hotfix its target is done.
LEMMA HotfixAction ==
  ASSUME Inv, HotfixTargets, NEW w \in Procs, AppendLine(w), Last(log').kind = "hotfix.create"
  PROVE  \E i \in DOMAIN board.tasks : board.tasks[i].id = job[w].cmd.fixes /\ board.tasks[i].status = "done"
<1>1. /\ step[w] + 1 \in 1..Len(job[w].batch)
      /\ log' = Append(log, job[w].batch[step[w] + 1])
  BY AppendIsLegal
<1>2. Last(log') = job[w].batch[step[w] + 1]
  <2>1. IsSequence(log)
    BY DEF Inv, Shapes
  <2> QED BY <1>1, <2>1, AppendSequence DEF Last
<1>3. MakesHotfix(job[w].batch) /\ pc[w] \in Carrying
  BY <1>1, <1>2 DEF MakesHotfix, AppendLine, At, Carrying
<1>4. DoneTask(board, job[w].cmd.fixes)
  BY <1>3 DEF HotfixTargets
<1>5. DOMAIN board.tasks = 1..Len(board.tasks)
  BY DomainOfSequence DEF Inv, WellFormed
<1> QED BY <1>4, <1>5 DEF DoneTask

-----------------------------------------------------------------------------
\* What Validate has seen on the board it began on is what holds at the start of
\* the append.

SameLimits(b, j) ==
  Writes(j.cmd) /\ j.cmd.task \in Ids(b.tasks) => LastTaskOf(b.tasks, j.cmd.task).limits = j.captured

LimitsSeen ==
  \A w \in Procs \ dead : pc[w] = "append" =>
    /\ WellFormed(plan[w][1])
    /\ SameLimits(plan[w][1], job[w])

\* An invariant about processes that append and what they have validated is
\* kept when nobody comes to append but by Validate.
LEMMA AppendersStay ==
  ASSUME Inv, Errands, [Next]_vars, NEW w \in Procs \ dead', pc'[w] = "append"
  PROVE  /\ w \notin dead
         /\ plan[w]' = plan[w] \/ Validate(w)
         /\ \/ pc[w] = "append" /\ job[w]' = job[w] /\ plan[w]' = plan[w]
            \/ Validate(w)
<1> USE DEF Inv, Shapes
<1> DEFINE Goal == /\ w \notin dead
                   /\ \/ pc[w] = "append" /\ job[w]' = job[w] /\ plan[w]' = plan[w]
                      \/ Validate(w)
<1> SUFFICES Goal
  OBVIOUS
<1>1. ASSUME NEW q \in Procs, NEW c \in Commands, Read(q, c)
      PROVE  Goal
  <2> DEFINE phase == IF Writes(c) THEN "staging" ELSE "ready"
             base == [NoJob EXCEPT !.base = Len(log), !.batch = Batch(board, log, c, files),
                        !.captured = IF Writes(c) THEN TaskOf(board.tasks, c.task).limits ELSE None]
  <2>1. Give(q, c, phase, base) /\ phase # "append"
    BY <1>1 DEF Read
  <2> HIDE DEF phase, base
  <2> QED BY <2>1 DEF Give, Goto, mutexVars
<1>2. ASSUME NEW q \in Procs, NEW c \in Commands, ReadToProject(q, c) \/ ReadToRecover(q, c)
      PROVE  Goal
  BY <1>2 DEF ReadToProject, ReadToRecover, Give, Goto, mutexVars
<1>3. ASSUME NEW q \in Procs, Stage(q) \/ Lock(q) \/ Retry(q)
      PROVE  Goal
  BY <1>3 DEF Stage, Lock, Retry, Goto, Acquire, Release, mutexVars
<1>4. ASSUME NEW q \in Procs, Validate(q)
      PROVE  Goal
  <2>1. /\ \A r \in Procs \ {q} : pc'[r] = pc[r] /\ job'[r] = job[r] /\ plan'[r] = plan[r]
        /\ dead' = dead
    BY <1>4 DEF Validate, Goto, mutexVars
  <2> QED BY <1>4, <2>1
<1>5. ASSUME NEW q \in Procs, TimeOut(q) \/ Refuse(q) \/ EffectFails(q) \/ Unlock(q) \/ Return(q)
      PROVE  Goal
  <2>1. Finish(q) /\ dead' = dead
    BY <1>5 DEF TimeOut, Refuse, EffectFails, Unlock, Return, Release, mutexVars
  <2> QED BY <2>1 DEF Finish, Goto
<1>6. ASSUME NEW q \in Procs, NEW n, NEW phase, Advance(q, n, phase), UNCHANGED <<job, plan, mutexVars>>, phase # "append"
      PROVE  Goal
  BY <1>6 DEF Advance, Goto, mutexVars
<1>7. ASSUME NEW q \in Procs, AppendLine(q) \/ SaveView(q) \/ ProjectView(q) \/ ApplyEffect(q) \/ RecoverFile(q)
      PROVE  Goal
  <2>1. CASE AppendLine(q)
    BY <2>1, <1>6 DEF AppendLine
  <2>2. CASE SaveView(q)
    BY <2>2, <1>6 DEF SaveView, Save
  <2>3. CASE ProjectView(q)
    BY <2>3, <1>6 DEF ProjectView, Save
  <2>4. CASE ApplyEffect(q)
    BY <2>4, <1>6 DEF ApplyEffect
  <2>5. CASE RecoverFile(q)
    BY <2>5, <1>6 DEF RecoverFile
  <2> QED BY <1>7, <2>1, <2>2, <2>3, <2>4, <2>5
<1>8. ASSUME NEW q \in Procs, Crash(q)
      PROVE  Goal
  BY <1>8 DEF Crash, Die, procVars
<1>9. CASE LockReclaimed \/ UNCHANGED vars
  BY <1>9 DEF LockReclaimed, Reclaim, vars, procVars, mutexVars
<1> HIDE DEF Goal
<1> QED
  BY <1>1, <1>2, <1>3, <1>4, <1>5, <1>7, <1>8, <1>9 DEF Next, Proceed

\* What Validate puts into plan and job.
LEMMA ValidatePlans ==
  ASSUME Inv, Errands, NEW w \in Procs, Validate(w)
  PROVE  /\ pc[w] = "locked"
         /\ IsReplay(plan'[w], board, job[w].batch)
         /\ LimitsHold(w)
         /\ ~Stale(w)
         /\ job'[w].cmd = job[w].cmd
         /\ job'[w].batch = job[w].batch
         /\ job'[w].captured = job[w].captured
         /\ job'[w].attempt = job[w].attempt
         /\ UNCHANGED <<board, log>>
<1>1. PICK boards \in Runs(board, job[w].batch) : plan' = [plan EXCEPT ![w] = boards]
  BY DEF Validate
<1>2. plan'[w] = boards /\ IsReplay(boards, board, job[w].batch)
  BY <1>1, RunsAre DEF Inv, Shapes, JobOK, IsSequence
<1>3. job' = [job EXCEPT ![w].until = Len(log) + Len(job[w].batch)]
  BY DEF Validate
<1>4. /\ job'[w].cmd = job[w].cmd /\ job'[w].batch = job[w].batch
      /\ job'[w].captured = job[w].captured /\ job'[w].attempt = job[w].attempt
  <2>1. DOMAIN job[w] = DOMAIN NoJob /\ w \in DOMAIN job
    BY DEF Errands, Inv, Shapes
  <2>2. job'[w] = [job[w] EXCEPT !.until = Len(log) + Len(job[w].batch)]
    BY <1>3, <2>1
  <2> QED BY <2>1, <2>2 DEF NoJob
<1> QED BY <1>2, <1>4 DEF Validate, At, storeVars

\* The limits are compared in the step that validates the batch.
LEMMA LimitsSeenStep ==
  ASSUME Inv, Errands, LimitsSeen, [Next]_vars
  PROVE  LimitsSeen'
<1> SUFFICES ASSUME NEW w \in Procs \ dead', pc'[w] = "append"
             PROVE  WellFormed(plan'[w][1]) /\ SameLimits(plan'[w][1], job'[w])
  BY DEF LimitsSeen
<1>1. CASE pc[w] = "append" /\ job[w]' = job[w] /\ plan[w]' = plan[w]
  BY <1>1, AppendersStay DEF LimitsSeen
<1>2. CASE Validate(w)
  <2>1. /\ plan'[w][1] = board /\ LimitsHold(w)
        /\ job'[w].cmd = job[w].cmd /\ job'[w].captured = job[w].captured
    BY <1>2, ValidatePlans DEF IsReplay
  <2>2. SameLimits(board, job[w])
    BY <2>1 DEF LimitsHold, SameLimits
  <2> QED BY <2>1, <2>2 DEF SameLimits, Inv
<1> QED BY <1>1, <1>2, AppendersStay

\* The write event is the second of its batch.
LEMMA WriteIsSecond ==
  ASSUME NEW j, Carries(j), NEW k \in 1..Len(j.batch), j.batch[k].kind = WriteKind
  PROVE  k = 2 /\ Writes(j.cmd)
<1> DEFINE c == j.cmd
<1>1. PICK b, evs, fs : j.batch = Batch(b, evs, c, fs)
  BY DEF Carries
<1> DEFINE cand == Candidates(b, evs, c, fs)
           a == After(b, cand)
<1>2. Closes(j.batch, cand, a)
  BY <1>1, BatchShape
<1>3. CommandEvents(cand, b, c, fs)
  BY CandidatesShape
<1>4. c.op \in Ops \ {"project", "recover"}
  BY CommandAssumption DEF Carries
<1> HIDE DEF cand, a
<1>5. k \in 1..Len(cand) /\ j.batch[k] = cand[k]
  <2>1. Len(cand) \in Nat \ {0}
    BY <1>3 DEF CommandEvents
  <2>2. k # Len(j.batch) /\ ~(Len(j.batch) = Len(cand) + 2 /\ k = Len(cand) + 1)
    BY <1>2 DEF Closes, WriteKind
  <2> QED BY <1>2, <2>1, <2>2 DEF Closes
<1>6. k # 1
  BY <1>3, <1>4, <1>5, MainEventKind DEF CommandEvents
<1>7. Consequence(c, cand[k])
  BY <1>3, <1>5, <1>6 DEF CommandEvents
<1>8. Writes(c)
  BY <1>5, <1>7 DEF Consequence, HotfixEvent, WriteKind
<1>9. Len(cand) = 2
  BY <1>3, <1>8 DEF CommandEvents
<1> QED BY <1>5, <1>6, <1>8, <1>9

\* While no id is taken twice, a complete leaves the limits of its task alone, and
\* the first task of an id is the last.
LEMMA LimitsCarryOver ==
  ASSUME NEW b, WellFormed(b), NEW e, Legal(b, e), e.kind = "complete", NEW a, a = Apply(b, e),
         \A i, j \in DOMAIN a.tasks : a.tasks[i].id = a.tasks[j].id => i = j
  PROVE  /\ e.task \in Ids(b.tasks)
         /\ TaskOf(a.tasks, e.task).limits = LastTaskOf(b.tasks, e.task).limits
<1> DEFINE ts == b.tasks
           us == a.tasks
           k == Index(ts, e.task)
<1>1. IsSequence(ts) /\ Len(ts) \in Nat /\ \A i \in 1..Len(ts) : IsTask(ts[i])
  BY WellFormedTasks DEF IsSequence
<1>2. DOMAIN ts = 1..Len(ts)
  BY <1>1, DomainOfSequence
<1>3. e.kind \in TaskChanges \ {"task.create", "hotfix.create"}
  BY DEF TaskChanges, RequiredStatus
<1>4. k \in 1..Len(ts) /\ FirstAt(ts, e.task, k)
  BY <1>2, <1>3 DEF Legal, Known, Index
<1>5. us = [ts EXCEPT ![k] = Changed(ts[k], e)]
  BY <1>3 DEF Apply, TasksAfter
<1> HIDE DEF ts, us, k
<1>6. us[k] = Changed(ts[k], e) /\ \A i \in 1..Len(ts) \ {k} : us[i] = ts[i]
  BY <1>2, <1>4, <1>5
<1>7. us[k].id = e.task /\ us[k].limits = ts[k].limits /\ ts[k].id = e.task
  <2>1. IsTask(ts[k]) /\ ts[k].id = e.task
    BY <1>1, <1>4 DEF FirstAt
  <2> QED BY <1>6, <2>1 DEF Changed, IsTask
<1>8. DOMAIN us = 1..Len(ts)
  BY <1>2, <1>5
<1>9. \A i \in 1..Len(ts) : us[i].id = e.task => i = k
  BY <1>4, <1>7, <1>8 DEF us
<1>10. Index(us, e.task) = k
  <2>1. FirstAt(us, e.task, k)
    BY <1>4, <1>7, <1>9 DEF FirstAt
  <2>2. \A i \in DOMAIN us : FirstAt(us, e.task, i) => i = k
    BY <1>8, <1>9 DEF FirstAt
  <2> QED BY <2>1, <2>2, <1>4, <1>8 DEF Index
<1>11. LastTaskOf(ts, e.task) = ts[k]
  <2>1. \E l \in 1..Len(ts) : ts[l].id = e.task /\ LastTaskOf(ts, e.task) = ts[l]
    <3>1. \E i \in 1..Len(ts) : ts[i].id = e.task
      BY <1>4, <1>7
    <3> QED BY <1>1, <3>1, LastPlace
  <2>2. \A l \in 1..Len(ts) : ts[l].id = e.task => l = k
    BY <1>6, <1>9
  <2> QED BY <2>1, <2>2
<1>12. e.task \in Ids(ts)
  BY <1>2, <1>4, <1>7 DEF Ids
<1> QED BY <1>7, <1>10, <1>11, <1>12 DEF TaskOf, ts, us

\* From validation to the write event only the complete before it has been
\* appended, which leaves limits alone.
LEMMA LimitsAction ==
  ASSUME Inv, Errands, LimitsSeen, CreatedOnce,
         NEW w \in Procs, AppendLine(w), Last(log').kind = "orchestrator.file.write"
  PROVE  TaskOf(board.tasks, Last(log').task).limits = job[w].captured
<1> DEFINE k == step[w] + 1
           e == job[w].batch[k]
           b == plan[w][1]
           first == job[w].batch[1]
<1>1. /\ k \in 1..Len(job[w].batch)
      /\ plan[w][k] = board
      /\ log' = Append(log, e)
  BY AppendIsLegal
<1>2. Last(log') = e
  <2>1. IsSequence(log)
    BY DEF Inv, Shapes
  <2> HIDE DEF e
  <2> QED BY <1>1, <2>1, AppendSequence DEF Last
<1>3. pc[w] = "append" /\ w \notin dead /\ Carries(job[w])
  BY DEF AppendLine, At, Errands, Appending, Carrying
<1>4. k = 2 /\ Writes(job[w].cmd)
  BY <1>1, <1>2, <1>3, WriteIsSecond DEF WriteKind
<1>5. first.kind = "complete" /\ first.task = job[w].cmd.task /\ e.task = job[w].cmd.task
  BY <1>3, <1>4, WritesSomething
<1>6. WellFormed(b) /\ SameLimits(b, job[w])
  BY <1>3 DEF LimitsSeen
<1>7. Legal(b, first) /\ board = Apply(b, first)
  <2>1. Follows(plan[w], job[w].batch) /\ 1 \in 1..Len(job[w].batch) /\ plan[w][1 + 1] = board
    BY <1>1, <1>3, <1>4 DEF Inv, OnCourse
  <2> QED BY <2>1 DEF Follows
<1> HIDE DEF b, first, e, k
<1>8. /\ first.task \in Ids(b.tasks)
      /\ TaskOf(board.tasks, first.task).limits = LastTaskOf(b.tasks, first.task).limits
  BY <1>5, <1>6, <1>7, LimitsCarryOver DEF CreatedOnce
<1> QED BY <1>2, <1>4, <1>5, <1>6, <1>8 DEF SameLimits

-----------------------------------------------------------------------------
\* project and recover.

\* A file is what the events of l say, if they say anything.
Restored(l, f, p) == Recorded(l, p) # None => f[p] = Recorded(l, p)

Mends == {"project", "recover", "return"}

\* What w has written since it read the log is still there, unless another has
\* written.
Mended(w) ==
  w \notin dead \cup meddled /\ pc[w] \in Mends =>
    LET seen == SubSeq(log, 1, job[w].until) IN
    /\ job[w].until <= Len(log)
    /\ pc[w] = "project" =>
         \A j \in 1..Len(ViewOrder) : j <= step[w] => views[ViewOrder[j]] = job[w].until
    /\ pc[w] = "recover" =>
         \A j \in 1..Len(PathOrder) : j <= step[w] => Restored(seen, files, PathOrder[j])
    /\ pc[w] = "return" /\ job[w].cmd.op = "project" => \A v \in Views : views[v] = job[w].until
    /\ pc[w] = "return" /\ job[w].cmd.op = "recover" => \A p \in Paths : Restored(seen, files, p)

Mending == \A w \in Procs : Mended(w)

\* Nobody undoes a repair without being noticed in meddled, and what was read
\* stays a prefix of the log.
LEMMA MendingStep ==
  ASSUME Inv, Errands, Mending, [Next]_vars
  PROVE  Mending'
<1> USE DEF Inv, Shapes
<1> DEFINE Others(w) == \A q \in Procs \ {w} : job'[q] = job[q] /\ pc'[q] = pc[q] /\ step'[q] = step[q]
<1>1. ASSUME NEW q \in Procs, dead \subseteq dead', q \notin dead' \cup meddled' => q \notin meddled,
             job'[q] = job[q], pc'[q] = pc[q], step'[q] = step[q],
             q \in meddled' \/ pc[q] \notin Mends \/ UNCHANGED <<log, views, files>>
      PROVE  Mended(q)'
  BY <1>1 DEF Mending, Mended
<1>2. ASSUME NEW w \in Procs, Others(w), dead \subseteq dead', meddled \ {w} \subseteq meddled', UNCHANGED log,
             Meddle(w) \/ UNCHANGED <<views, files>>, Mended(w)'
      PROVE  Mending'
  <2>1. ASSUME NEW q \in Procs \ {w} PROVE Mended(q)'
    BY <1>1, <1>2 DEF Meddle, Mends
  <2> QED BY <1>2, <2>1 DEF Mending
<1>3. ASSUME NEW w \in Procs, pc'[w] \notin Mends \/ w \in dead'
      PROVE  Mended(w)'
  BY <1>3 DEF Mended
<1>4. ASSUME NEW w \in Procs, NEW c \in Commands, Read(w, c)
      PROVE  Mending'
  <2> DEFINE phase == IF Writes(c) THEN "staging" ELSE "ready"
             base == [NoJob EXCEPT !.base = Len(log), !.batch = Batch(board, log, c, files),
                        !.captured = IF Writes(c) THEN TaskOf(board.tasks, c.task).limits ELSE None]
  <2>1. Give(w, c, phase, base) /\ phase \notin Mends
    BY <1>4 DEF Read, Mends
  <2> HIDE DEF phase, base
  <2>2. /\ Others(w) /\ pc'[w] = phase
        /\ UNCHANGED <<log, views, files, meddled, dead>>
    BY <2>1 DEF Give, Goto, storeVars, mutexVars
  <2> QED BY <1>2, <1>3, <2>1, <2>2
<1>5. ASSUME NEW w \in Procs, NEW c \in Commands, ReadToProject(w, c) \/ ReadToRecover(w, c)
      PROVE  Mending'
  <2> DEFINE base == [NoJob EXCEPT !.until = Len(log)]
             j == [base EXCEPT !.cmd = c]
  <2>1. Give(w, c, "project", base) \/ Give(w, c, "recover", base)
    BY <1>5 DEF ReadToProject, ReadToRecover
  <2>2. j.until = Len(log)
    BY DEF NoJob
  <2> HIDE DEF base
  <2>3. /\ Others(w) /\ pc'[w] \in {"project", "recover"} /\ job'[w] = j
        /\ UNCHANGED <<log, views, files, meddled, dead, step>> /\ pc[w] = "idle"
    BY <2>1 DEF Give, At, Goto, storeVars, mutexVars
  <2>4. step'[w] = 0 /\ Len(log) \in Nat
    BY <2>3 DEF StepsStart, Stepping, IsSequence
  <2>5. Mended(w)'
    BY <2>2, <2>3, <2>4 DEF Mended
  <2> QED BY <1>2, <2>3, <2>5
<1>6. ASSUME NEW w \in Procs, Stage(w) \/ Lock(w) \/ Retry(w) \/ Validate(w)
      PROVE  Mending'
  <2>1. /\ Others(w) /\ pc'[w] \notin Mends
        /\ UNCHANGED <<log, views, files, meddled, dead>>
    BY <1>6 DEF Stage, Lock, Retry, Validate, Acquire, Release, Goto, Mends, storeVars, mutexVars
  <2> QED BY <1>2, <1>3, <2>1
<1>7. ASSUME NEW w \in Procs, TimeOut(w) \/ Refuse(w) \/ EffectFails(w) \/ Unlock(w) \/ Return(w)
      PROVE  Mending'
  <2>1. /\ Others(w) /\ pc'[w] \notin Mends
        /\ UNCHANGED <<log, views, files, dead>> /\ meddled \ {w} \subseteq meddled'
    BY <1>7 DEF TimeOut, Refuse, EffectFails, Unlock, Return, Finish, Release, Goto, Mends, storeVars, mutexVars
  <2> QED BY <1>2, <1>3, <2>1
<1>8. ASSUME NEW w \in Procs, AppendLine(w)
      PROVE  Mending'
  <2> DEFINE e == job[w].batch[step[w] + 1]
  <2>1. /\ Others(w) /\ pc'[w] \in {"append", "views"} /\ pc[w] = "append"
        /\ UNCHANGED <<views, files, meddled, dead>> /\ log' = Append(log, e)
    BY <1>8 DEF AppendLine, Advance, At, Goto, mutexVars
  <2> HIDE DEF e
  <2>2. ASSUME NEW n \in Nat, n <= Len(log) PROVE n <= Len(log') /\ SubSeq(log', 1, n) = SubSeq(log, 1, n)
    <3>1. IsSequence(log) /\ Len(log) \in Nat
      BY DEF IsSequence
    <3> QED BY <2>1, <2>2, <3>1, PrefixOfAppend, AppendSequence
  <2>3. ASSUME NEW q \in Procs \ {w} PROVE Mended(q)'
    <3>1. job[q].until \in Nat /\ Mended(q)
      BY DEF JobOK, Mending
    <3> QED BY <2>1, <2>2, <3>1 DEF Mended
  <2>4. Mended(w)'
    BY <1>3, <2>1 DEF Mends
  <2> QED BY <2>3, <2>4 DEF Mending
<1>9. ASSUME NEW w \in Procs, NEW n, NEW phase, Advance(w, n, phase), phase \notin Mends, pc[w] \notin Mends, UNCHANGED job
      PROVE  Others(w) /\ pc'[w] \notin Mends
  BY <1>9 DEF Advance, Goto
<1>10. ASSUME NEW w \in Procs, SaveView(w) \/ ApplyEffect(w), UNCHANGED job
       PROVE  Mending'
  <2>1. Others(w) /\ pc'[w] \notin Mends
    <3>1. CASE SaveView(w)
      BY <3>1, <1>9, <1>10 DEF SaveView, Save, At, Mends
    <3>2. CASE ApplyEffect(w)
      <4>1. Advance(w, Len(job[w].batch[2].effects), "unlock") /\ pc[w] = "effects"
        BY <3>2 DEF ApplyEffect, At
      <4> QED BY <1>9, <1>10, <4>1 DEF Mends
    <3> QED BY <1>10, <3>1, <3>2
  <2>2. UNCHANGED <<log, dead>> /\ Meddle(w) /\ meddled \subseteq meddled'
    BY <1>10 DEF SaveView, Save, ApplyEffect, Meddle, mutexVars
  <2> QED BY <1>2, <1>3, <2>1, <2>2
<1>11. ASSUME NEW w \in Procs, ProjectView(w)
       PROVE  Mending'
  <2> DEFINE n == Len(ViewOrder)
             k == step[w] + 1
  <2>1. /\ pc[w] = "project" /\ w \notin dead
        /\ views' = [views EXCEPT ![ViewOrder[k]] = job[w].until]
        /\ UNCHANGED <<log, files, job, dead>> /\ Meddle(w) /\ Advance(w, n, "return")
    BY <1>11 DEF ProjectView, Save, At, mutexVars
  <2>2. n \in Nat /\ step[w] \in Nat
    BY OrderAssumption
  <2>3. Others(w) /\ meddled \subseteq meddled' /\ (w \in meddled' => w \in meddled)
    BY <2>1 DEF Advance, Goto, Meddle
  <2>4. w \notin meddled => job[w].until <= Len(log) /\ \A j \in 1..n : j <= step[w] => views[ViewOrder[j]] = job[w].until
    BY <2>1 DEF Mending, Mended, Mends
  <2>5. w \notin meddled => \A j \in 1..n : j <= k => views'[ViewOrder[j]] = job[w].until
    <3>1. \A j \in 1..n : ViewOrder[j] \in DOMAIN views
      BY OrderAssumption DEF Views
    <3> QED BY <2>1, <2>2, <2>4, <3>1
  <2>6. CASE k < n
    <3>1. pc'[w] = "project" /\ step'[w] = k
      BY <2>1, <2>6 DEF Advance
    <3>2. Mended(w)'
      BY <2>1, <2>3, <2>4, <2>5, <3>1 DEF Mended
    <3> QED BY <1>2, <2>1, <2>3, <3>2
  <2>7. CASE ~(k < n)
    <3>1. pc'[w] = "return"
      BY <2>1, <2>7 DEF Advance, Goto
    <3>2. w \notin meddled => \A v \in Views : views'[v] = job[w].until
      <4>1. DOMAIN ViewOrder = 1..n
        BY OrderAssumption
      <4>2. \A j \in 1..n : j <= k
        BY <2>2, <2>7
      <4> QED BY <2>5, <4>1, <4>2 DEF Views
    <3>3. job[w].cmd.op = "project"
      BY <2>1 DEF Errands
    <3>4. Mended(w)'
      BY <2>1, <2>3, <2>4, <3>1, <3>2, <3>3 DEF Mended
    <3> QED BY <1>2, <2>1, <2>3, <3>4
  <2> QED BY <2>6, <2>7
<1>12. ASSUME NEW w \in Procs, RecoverFile(w)
       PROVE  Mending'
  <2> DEFINE n == Len(PathOrder)
             k == step[w] + 1
             path == PathOrder[k]
             seen == SubSeq(log, 1, job[w].until)
             content == Recorded(seen, path)
  <2>1. /\ pc[w] = "recover" /\ w \notin dead
        /\ files' = IF content = None THEN files ELSE [files EXCEPT ![path] = content]
        /\ UNCHANGED <<log, views, job, dead>> /\ Meddle(w) /\ Advance(w, n, "return")
    BY <1>12 DEF RecoverFile, At, mutexVars
  <2> HIDE DEF seen
  <2>2. n \in Nat /\ step[w] \in Nat
    BY OrderAssumption
  <2>3. Others(w) /\ meddled \subseteq meddled' /\ (w \in meddled' => w \in meddled)
    BY <2>1 DEF Advance, Goto, Meddle
  <2>4. w \notin meddled => job[w].until <= Len(log) /\ \A j \in 1..n : j <= step[w] => Restored(seen, files, PathOrder[j])
    BY <2>1 DEF Mending, Mended, Mends, seen
  <2>5. w \notin meddled => \A j \in 1..n : j <= k => Restored(seen, files', PathOrder[j])
    <3>1. \A j \in 1..n : PathOrder[j] \in DOMAIN files
      BY OrderAssumption DEF Paths
    <3>2. ASSUME w \notin meddled, NEW j \in 1..n, j <= k PROVE Restored(seen, files', PathOrder[j])
      <4>1. CASE PathOrder[j] = path
        <5>1. path \in DOMAIN files
          BY <3>1, <4>1
        <5> QED BY <2>1, <4>1, <5>1 DEF Restored
      <4>2. CASE PathOrder[j] # path
        <5>1. j <= step[w]
          BY <2>2, <3>2, <4>2
        <5>2. Restored(seen, files, PathOrder[j])
          BY <2>4, <3>2, <5>1
        <5>3. files'[PathOrder[j]] = files[PathOrder[j]]
          BY <2>1, <3>1, <4>2
        <5> QED BY <5>2, <5>3 DEF Restored
      <4> QED BY <4>1, <4>2
    <3> QED BY <3>2
  <2>6. CASE k < n
    <3>1. pc'[w] = "recover" /\ step'[w] = k
      BY <2>1, <2>6 DEF Advance
    <3>2. Mended(w)'
      BY <2>1, <2>3, <2>4, <2>5, <3>1 DEF Mended, seen
    <3> QED BY <1>2, <2>1, <2>3, <3>2
  <2>7. CASE ~(k < n)
    <3>1. pc'[w] = "return"
      BY <2>1, <2>7 DEF Advance, Goto
    <3>2. w \notin meddled => \A p \in Paths : Restored(seen, files', p)
      <4>1. DOMAIN PathOrder = 1..n
        BY OrderAssumption
      <4>2. \A j \in 1..n : j <= k
        BY <2>2, <2>7
      <4> QED BY <2>5, <4>1, <4>2 DEF Paths
    <3>3. job[w].cmd.op = "recover"
      BY <2>1 DEF Errands
    <3>4. Mended(w)'
      BY <2>1, <2>3, <2>4, <3>1, <3>2, <3>3 DEF Mended, seen
    <3> QED BY <1>2, <2>1, <2>3, <3>4
  <2> QED BY <2>6, <2>7
<1>13. ASSUME NEW w \in Procs, Crash(w)
       PROVE  Mending'
  <2>1. /\ UNCHANGED <<log, files, pc, job, step>> /\ dead \subseteq dead' /\ w \in dead'
        /\ meddled \subseteq meddled' /\ (Meddle(w) \/ UNCHANGED views)
    BY <1>13 DEF Crash, Die, Meddle, procVars
  <2> QED BY <1>2, <1>3, <2>1
<1>14. CASE LockReclaimed \/ UNCHANGED vars
  <2>1. UNCHANGED <<log, views, files, pc, job, step, dead, meddled>>
    BY <1>14 DEF LockReclaimed, Reclaim, vars, storeVars, procVars, mutexVars
  <2> QED BY <2>1 DEF Mending, Mended
<1>15. ASSUME NEW w \in Procs, SaveView(w) \/ ApplyEffect(w) PROVE UNCHANGED job
  BY <1>15 DEF SaveView, Save, ApplyEffect
<1> QED
  BY <1>4, <1>5, <1>6, <1>7, <1>8, <1>10, <1>11, <1>12, <1>13, <1>14, <1>15 DEF Next, Proceed

\* What Mending says of a project or recover that nobody has disturbed.
LEMMA MendingRestores ==
  ASSUME Inv, Mending
  PROVE  RepairsRestore
<1> SUFFICES ASSUME NEW w \in Procs, At(w, "return"), Undisturbed(w)
             PROVE  /\ job[w].cmd.op = "recover" => \A p \in Paths : Recorded(log, p) # None => files[p] = Recorded(log, p)
                    /\ job[w].cmd.op = "project" => \A v \in Views : views[v] = Len(log)
  BY DEF RepairsRestore
<1>1. Mended(w) /\ w \notin dead \cup meddled /\ pc[w] = "return" /\ job[w].until = Len(log)
  BY DEF Mending, At, Undisturbed
<1>2. SubSeq(log, 1, job[w].until) = log
  BY <1>1, WholeSequence DEF Inv, Shapes
<1> QED BY <1>1, <1>2 DEF Mended, Mends, Restored

-----------------------------------------------------------------------------
\* What the log says of a file.

\* The last of the effects on a file gives its content.
LEMMA FinalIs ==
  ASSUME NEW effects, Len(effects) \in Nat, NEW k \in 1..Len(effects), NEW path, effects[k].path = path,
         \A l \in 1..Len(effects) : effects[l].path = path => l <= k
  PROVE  Final(effects, path) = effects[k].after
<1> DEFINE S == {i \in 1..Len(effects) : effects[i].path = path}
<1>1. Max(S) = k
  <2>1. S \in SUBSET Nat /\ k \in S /\ \A y \in S : y <= k
    OBVIOUS
  <2> HIDE DEF S
  <2> QED BY <2>1, MaxIs
<1>2. SelectLastInSeq(effects, LAMBDA x : x.path = path) = Max(S)
  BY DEF SelectLastInSeq
<1> QED BY <1>1, <1>2 DEF Final

\* One more event in the log.
LEMMA RecordedAppend ==
  ASSUME NEW evs, IsSequence(evs), NEW e, NEW path
  PROVE  Recorded(Append(evs, e), path) = IF Touches(e, path) THEN Final(e.effects, path) ELSE Recorded(evs, path)
<1> DEFINE fs == Append(evs, e)
           n == Len(evs)
           S == {i \in 1..Len(evs) : Touches(evs[i], path)}
           T == {i \in 1..Len(fs) : Touches(fs[i], path)}
<1>1. n \in Nat /\ Len(fs) = n + 1 /\ fs[n + 1] = e /\ \A i \in 1..n : fs[i] = evs[i]
  BY AppendSequence DEF IsSequence
<1>2. /\ SelectLastInSeq(evs, LAMBDA x : Touches(x, path)) = IF S # {} THEN Max(S) ELSE 0
      /\ SelectLastInSeq(fs, LAMBDA x : Touches(x, path)) = IF T # {} THEN Max(T) ELSE 0
  BY DEF SelectLastInSeq
<1> HIDE DEF fs
<1>3. CASE Touches(e, path)
  <2>1. Max(T) = n + 1 /\ T # {}
    <3>1. T \in SUBSET Nat /\ n + 1 \in T /\ \A y \in T : y <= n + 1
      BY <1>1, <1>3
    <3> HIDE DEF T
    <3> QED BY <3>1, MaxIs
  <2>2. n + 1 # 0
    BY <1>1
  <2> QED BY <1>1, <1>2, <1>3, <2>1, <2>2 DEF Recorded, fs
<1>4. CASE ~Touches(e, path)
  <2>1. T = S
    BY <1>1, <1>4
  <2>2. CASE S = {}
    <3> HIDE DEF S, T
    <3> QED BY <1>2, <1>4, <2>1, <2>2 DEF Recorded, fs
  <2>3. CASE S # {}
    <3>1. S \in SUBSET (1..n)
      OBVIOUS
    <3> HIDE DEF S, T
    <3>2. PICK m \in S : \A y \in S : y <= m
      BY <1>1, <2>3, <3>1, Greatest
    <3>3. Max(S) = m
      BY <1>1, <3>1, <3>2, MaxIs
    <3>4. m \in 1..n /\ m # 0
      BY <1>1, <3>1
    <3> QED BY <1>1, <1>2, <1>4, <2>1, <2>3, <3>3, <3>4 DEF Recorded, fs
  <2> QED BY <2>2, <2>3
<1> QED BY <1>3, <1>4

\* A log without write events says nothing of any file.
LEMMA NothingRecorded ==
  ASSUME NEW evs, \A i \in 1..Len(evs) : evs[i].kind # "orchestrator.file.write", NEW path
  PROVE  Recorded(evs, path) = None
<1>1. {i \in 1..Len(evs) : Touches(evs[i], path)} = {}
  BY DEF Touches
<1>2. SelectLastInSeq(evs, LAMBDA e : Touches(e, path)) = 0
  BY <1>1 DEF SelectLastInSeq
<1> QED BY <1>2 DEF Recorded

-----------------------------------------------------------------------------
\* Files and views between commits.

\* The write event of w is in the log, its effects are not all in the files.
Loading(w) ==
  /\ w \notin dead
  /\ Writes(job[w].cmd)
  /\ pc[w] \in {"views", "effects"} \/ (pc[w] = "append" /\ step[w] >= 2)

Loads(w) == job[w].batch[2].effects

\* w is still going to write path.
Pending(w, path) ==
  /\ Loading(w)
  /\ \E k \in 1..Len(Loads(w)) : Loads(w)[k].path = path /\ (pc[w] = "effects" => k > step[w])

FilesKept ==
  ~torn =>
    /\ \A p \in Paths : Restored(log, files, p) \/ \E w \in Procs : Pending(w, p)
    /\ \A w \in Procs : Loading(w) =>
         \A k \in 1..Len(Loads(w)) : Recorded(log, Loads(w)[k].path) = Final(Loads(w), Loads(w)[k].path)

\* Two live processes are not both under the lock.
LEMMA Alone ==
  ASSUME Inv, NEW w \in Procs \ dead, NEW q \in Procs \ dead, pc[w] \in UnderLock, pc[q] \in UnderLock
  PROVE  q = w
  BY DEF Inv, OneWriter

\* The write event makes its files pending; no other event speaks of files.
LEMMA FilesKeptAppend ==
  ASSUME Inv, Errands, FilesKept, NEW w \in Procs, AppendLine(w)
  PROVE  FilesKept'
<1> USE DEF Inv, Shapes
<1> DEFINE k == step[w] + 1
           e == job[w].batch[k]
           n == Len(job[w].batch)
<1>1. /\ k \in 1..n /\ n \in Nat /\ step[w] \in Nat
      /\ pc[w] = "append" /\ w \notin dead /\ Carries(job[w])
      /\ log' = Append(log, e)
      /\ UNCHANGED <<files, job, torn, dead>>
      /\ \A q \in Procs \ {w} : pc'[q] = pc[q] /\ step'[q] = step[q]
  <2>1. k \in 1..n /\ log' = Append(log, e)
    BY AppendIsLegal
  <2>2. pc[w] = "append" /\ w \notin dead /\ UNCHANGED <<files, job, torn, dead>> /\ Advance(w, n, "views")
    BY DEF AppendLine, At, mutexVars
  <2>3. Carries(job[w])
    BY <2>2 DEF Errands, Appending, Carrying
  <2>4. n \in Nat
    BY DEF JobOK, IsSequence
  <2> QED BY <2>1, <2>2, <2>3, <2>4 DEF Advance, Goto
<1>2. \/ k < n /\ pc'[w] = "append" /\ step'[w] = k
      \/ k >= n /\ pc'[w] = "views"
  <2>1. Advance(w, n, "views")
    BY DEF AppendLine
  <2> QED BY <1>1, <2>1 DEF Advance, Goto
<1>3. \A q \in Procs \ {w} : ~Loading(q) /\ ~Loading(q)'
  <2>1. ASSUME NEW q \in Procs \ {w} PROVE q \in dead \/ pc[q] \notin UnderLock
    BY <1>1, <2>1, Alone DEF UnderLock, Committing
  <2> QED BY <1>1, <2>1 DEF Loading, UnderLock, Committing
<1>4. \A p : Recorded(log', p) = IF Touches(e, p) THEN Final(e.effects, p) ELSE Recorded(log, p)
  BY <1>1, RecordedAppend
<1>5. Loads(w)' = Loads(w)
  BY <1>1 DEF Loads
<1>6. CASE e.kind # WriteKind
  <2>1. \A p : Recorded(log', p) = Recorded(log, p)
    BY <1>4, <1>6 DEF Touches, WriteKind
  <2>2. Writes(job[w].cmd) => 2 \in 1..n /\ k # 2
    BY <1>1, <1>6, WritesSomething
  <2>3. Loading(w)' <=> Loading(w)
    <3> HIDE DEF k, n
    <3>1. Loading(w) <=> Writes(job[w].cmd) /\ k >= 3
      BY <1>1 DEF Loading, k
    <3>2. Loading(w)' <=> Writes(job[w].cmd) /\ (pc'[w] = "views" \/ (pc'[w] = "append" /\ step'[w] >= 2))
      BY <1>1, <1>2 DEF Loading
    <3>3. Loading(w)' <=> Writes(job[w].cmd) /\ (k >= n \/ k >= 2)
      <4>1. k \in Nat /\ n \in Nat
        BY <1>1 DEF k
      <4> QED BY <1>2, <3>2, <4>1
    <3> QED BY <1>1, <2>2, <3>1, <3>3
  <2>4. \A p, q : q \in Procs => (Pending(q, p)' <=> Pending(q, p))
    BY <1>1, <1>2, <1>3, <1>5, <2>3 DEF Pending
  <2>5. \A p : Restored(log', files', p) <=> Restored(log, files, p)
    BY <1>1, <2>1 DEF Restored
  <2>6. \A q \in Procs : Loading(q)' => Loading(q) /\ Loads(q)' = Loads(q)
    BY <1>3, <1>5, <2>3
  <2> HIDE DEF e, k, n
  <2>7. ASSUME ~torn, NEW p \in Paths PROVE Restored(log', files', p) \/ \E q \in Procs : Pending(q, p)'
    <3>1. Restored(log, files, p) \/ \E q \in Procs : Pending(q, p)
      BY <2>7 DEF FilesKept
    <3> QED BY <2>4, <2>5, <3>1
  <2> QED BY <1>1, <2>1, <2>6, <2>7 DEF FilesKept
<1>7. CASE e.kind = WriteKind
  <2>1. k = 2 /\ Writes(job[w].cmd)
    BY <1>1, <1>7, WriteIsSecond
  <2>2. e.effects = Loads(w) /\ DOMAIN Loads(w) = 1..Len(Loads(w))
    BY <1>1, <2>1, WritesSomething DEF Loads
  <2>3. Loading(w)' /\ ~Loading(w)
    BY <1>1, <1>2, <2>1 DEF Loading
  <2>4. \A p : Touches(e, p) => Pending(w, p)'
    BY <1>2, <1>5, <2>2, <2>3 DEF Touches, Pending
  <2>5. \A p : ~Touches(e, p) => Recorded(log', p) = Recorded(log, p)
    BY <1>4
  <2>6. ASSUME ~torn, NEW p \in Paths PROVE Restored(log', files', p) \/ Pending(w, p)'
    <3>1. Restored(log, files, p)
      BY <1>3, <2>3, <2>6 DEF FilesKept, Pending
    <3> QED BY <1>1, <2>4, <2>5, <3>1 DEF Restored
  <2>7. ASSUME NEW i \in 1..Len(Loads(w))
        PROVE  Recorded(log', Loads(w)[i].path) = Final(Loads(w), Loads(w)[i].path)
    <3>1. Touches(e, Loads(w)[i].path)
      BY <1>7, <2>2 DEF Touches, WriteKind
    <3> QED BY <1>4, <2>2, <3>1
  <2> QED BY <1>1, <1>3, <1>5, <2>6, <2>7 DEF FilesKept
<1> QED BY <1>6, <1>7

\* The last effect on a file leaves the content the log records.
LEMMA FilesKeptEffect ==
  ASSUME Inv, Errands, FilesKept, NEW w \in Procs, ApplyEffect(w)
  PROVE  FilesKept'
<1> USE DEF Inv, Shapes
<1> DEFINE k == step[w] + 1
           fx == job[w].batch[2].effects
           n == Len(fx)
<1>1. /\ pc[w] = "effects" /\ w \notin dead
      /\ UNCHANGED <<log, job, torn, dead>>
      /\ files' = [files EXCEPT ![fx[k].path] = fx[k].after]
      /\ Advance(w, n, "unlock")
  BY DEF ApplyEffect, At, mutexVars
<1>2. Carries(job[w]) /\ Writes(job[w].cmd) /\ step[w] < n /\ step[w] \in Nat
  BY <1>1 DEF Errands, Appending
<1>3. n \in Nat \ {0} /\ k \in 1..n
  BY <1>2, WritesSomething
<1>4. \A q \in Procs \ {w} : pc'[q] = pc[q] /\ step'[q] = step[q]
  BY <1>1 DEF Advance, Goto
<1>5. \/ k < n /\ pc'[w] = "effects" /\ step'[w] = k
      \/ k >= n /\ pc'[w] = "unlock"
  BY <1>1, <1>3 DEF Advance, Goto
<1>6. Loading(w) /\ Loads(w) = fx /\ Loads(w)' = fx
  BY <1>1, <1>2 DEF Loading, Loads
<1>7. \A q \in Procs \ {w} : (Loading(q)' <=> Loading(q)) /\ Loads(q)' = Loads(q)
  BY <1>1, <1>4 DEF Loading, Loads
<1>8. \A p : \A q \in Procs \ {w} : Pending(q, p)' <=> Pending(q, p)
  BY <1>4, <1>7 DEF Pending
<1>9. \A p : (\E i \in 1..n : fx[i].path = p /\ i > k) => Pending(w, p)'
  <2>1. ASSUME NEW p, NEW i \in 1..n, fx[i].path = p, i > k PROVE Pending(w, p)'
    <3>1. k < n
      BY <1>3, <2>1
    <3>2. pc'[w] = "effects" /\ step'[w] = k
      BY <1>3, <1>5, <3>1
    <3>3. Loading(w)'
      BY <1>1, <1>2, <3>2 DEF Loading
    <3> QED BY <1>6, <2>1, <3>2, <3>3 DEF Pending
  <2> QED BY <2>1
<1>10. ASSUME ~torn, NEW p \in Paths PROVE Restored(log, files', p) \/ \E q \in Procs : Pending(q, p)'
  <2>1. CASE \E i \in 1..n : fx[i].path = p /\ i > k
    BY <1>9, <2>1
  <2>2. CASE fx[k].path = p /\ ~\E i \in 1..n : fx[i].path = p /\ i > k
    <3>1. \A i \in 1..n : fx[i].path = p => i <= k
      BY <1>3, <2>2
    <3>2. Final(fx, p) = fx[k].after
      <4> HIDE DEF fx, k
      <4> QED BY <1>3, <2>2, <3>1, FinalIs DEF n
    <3>3. Recorded(log, p) = Final(fx, p)
      BY <1>3, <1>6, <1>10, <2>2 DEF FilesKept
    <3>4. files'[p] = fx[k].after
      BY <1>1, <2>2
    <3> QED BY <3>2, <3>3, <3>4 DEF Restored
  <2>3. CASE fx[k].path # p /\ ~\E i \in 1..n : fx[i].path = p /\ i > k
    <3>1. files'[p] = files[p]
      BY <1>1, <2>3
    <3>2. ~Pending(w, p)
      <4>1. ASSUME NEW i \in 1..n, i > step[w], fx[i].path = p PROVE FALSE
        <5>1. i = k \/ i > k
          BY <1>2, <4>1
        <5> QED BY <2>3, <4>1, <5>1
      <4> QED BY <1>1, <1>6, <4>1 DEF Pending
    <3>3. Restored(log, files, p) \/ \E q \in Procs \ {w} : Pending(q, p)
      BY <1>10, <3>2 DEF FilesKept
    <3> QED BY <1>8, <3>1, <3>3 DEF Restored
  <2> QED BY <2>1, <2>2, <2>3
<1> HIDE DEF fx, n, k
<1>11. ~torn => \A q \in Procs : Loading(q)' => Loading(q) /\ Loads(q)' = Loads(q)
  BY <1>6, <1>7
<1> QED BY <1>1, <1>10, <1>11 DEF FilesKept

\* Nobody else touches files, except recover, which writes what the log says or
\* has been overtaken.
LEMMA FilesKeptStep ==
  ASSUME Inv, Errands, FilesKept, [Next]_vars
  PROVE  FilesKept'
<1> USE DEF Inv, Shapes
<1> DEFINE Same(q) == job'[q] = job[q] /\ pc'[q] = pc[q] /\ step'[q] = step[q] /\ (q \in dead' <=> q \in dead)
           Others(w) == \A q \in Procs \ {w} : Same(q)
           Rests(w) == w \in dead \/ pc[w] \notin {"append", "views", "effects"}
<1>1. ASSUME NEW q \in Procs, Same(q)
      PROVE  (Loading(q)' <=> Loading(q)) /\ Loads(q)' = Loads(q) /\ \A p : Pending(q, p)' <=> Pending(q, p)
  BY <1>1 DEF Loading, Loads, Pending
<1>2. ASSUME NEW w \in Procs, Others(w), ~Loading(w), ~Loading(w)', UNCHANGED log,
             torn => torn', ~torn' => \A p \in Paths : Restored(log, files, p) => Restored(log, files', p)
      PROVE  FilesKept'
  <2>1. \A q \in Procs : \A p : Pending(q, p) => Pending(q, p)'
    BY <1>1, <1>2 DEF Pending
  <2>2. \A q \in Procs : Loading(q)' => Loading(q) /\ Loads(q)' = Loads(q)
    BY <1>1, <1>2
  <2> QED BY <1>2, <2>1, <2>2 DEF FilesKept
<1>3. ASSUME NEW w \in Procs, Rests(w) PROVE ~Loading(w)
  BY <1>3 DEF Loading
<1>4. ASSUME NEW w \in Procs, w \in dead' \/ pc'[w] \notin {"append", "views", "effects"} PROVE ~Loading(w)'
  BY <1>4 DEF Loading
<1>5. ASSUME NEW w \in Procs, NEW c \in Commands, Read(w, c)
      PROVE  FilesKept'
  <2> DEFINE phase == IF Writes(c) THEN "staging" ELSE "ready"
             base == [NoJob EXCEPT !.base = Len(log), !.batch = Batch(board, log, c, files),
                        !.captured = IF Writes(c) THEN TaskOf(board.tasks, c.task).limits ELSE None]
  <2>1. Give(w, c, phase, base) /\ phase \in {"staging", "ready"}
    BY <1>5 DEF Read
  <2> HIDE DEF phase, base
  <2>2. Others(w) /\ pc'[w] = phase /\ pc[w] = "idle" /\ UNCHANGED <<log, files, torn>>
    BY <2>1 DEF Give, At, Goto, storeVars, mutexVars
  <2> QED BY <1>2, <1>3, <1>4, <2>1, <2>2
<1>6. ASSUME NEW w \in Procs, NEW c \in Commands, ReadToProject(w, c) \/ ReadToRecover(w, c)
      PROVE  FilesKept'
  <2>1. Others(w) /\ pc'[w] \in {"project", "recover"} /\ pc[w] = "idle" /\ UNCHANGED <<log, files, torn>>
    BY <1>6 DEF ReadToProject, ReadToRecover, Give, At, Goto, storeVars, mutexVars
  <2> QED BY <1>2, <1>3, <1>4, <2>1
<1>7. ASSUME NEW w \in Procs, Stage(w) \/ Lock(w) \/ Retry(w) \/ TimeOut(w) \/ Refuse(w) \/ Unlock(w) \/ Return(w)
      PROVE  FilesKept'
  <2>1. /\ Others(w) /\ UNCHANGED <<log, files, torn>>
        /\ pc[w] \notin {"append", "views", "effects"}
        /\ pc'[w] \notin {"append", "views", "effects"}
    BY <1>7 DEF Stage, Lock, Retry, TimeOut, Refuse, Unlock, Return, Finish, Acquire, Release, At, Goto, storeVars, mutexVars
  <2> QED BY <1>2, <1>3, <1>4, <2>1
<1>8. ASSUME NEW w \in Procs, Validate(w)
      PROVE  FilesKept'
  <2>1. /\ \A q \in Procs \ {w} : Same(q)
        /\ pc[w] = "locked" /\ pc'[w] = "append" /\ UNCHANGED <<log, files, torn, step>>
    BY <1>8 DEF Validate, At, Goto, storeVars, mutexVars
  <2>2. step'[w] = 0
    BY <2>1 DEF StepsStart, Stepping
  <2> QED BY <1>2, <1>3, <2>1, <2>2 DEF Loading
<1>9. ASSUME NEW w \in Procs, EffectFails(w) PROVE FilesKept'
  BY <1>9 DEF EffectFails, FilesKept
<1>10. ASSUME NEW w \in Procs, Crash(w) PROVE FilesKept'
  <2>1. /\ Others(w) /\ w \in dead' /\ UNCHANGED <<log, files>>
        /\ torn' = (torn \/ pc[w] \in Committing \cup {"project", "recover"})
    BY <1>10 DEF Crash, Die, procVars
  <2>2. CASE torn'
    BY <2>2 DEF FilesKept
  <2>3. CASE ~torn'
    <3>1. Rests(w) /\ torn' = torn
      BY <2>1, <2>3 DEF Committing
    <3> QED BY <1>2, <1>3, <1>4, <2>1, <3>1
  <2> QED BY <2>2, <2>3
<1>11. ASSUME NEW w \in Procs, SaveView(w) PROVE FilesKept'
  <2> DEFINE phase == IF Writes(job[w].cmd) THEN "effects" ELSE "unlock"
  <2>1. /\ Others(w) /\ UNCHANGED <<log, files, job, dead>> /\ (torn => torn')
        /\ w \notin dead /\ pc[w] = "views" /\ Advance(w, Len(ViewOrder), phase)
    BY <1>11 DEF SaveView, Save, At, Advance, Goto, mutexVars
  <2>2. CASE ~Writes(job[w].cmd)
    <3>1. ~Loading(w) /\ ~Loading(w)'
      BY <2>1, <2>2 DEF Loading
    <3> QED BY <1>2, <2>1, <3>1
  <2>3. CASE Writes(job[w].cmd)
    <3>1. pc'[w] = "views" \/ (pc'[w] = "effects" /\ step'[w] = 0)
      BY <2>1, <2>3 DEF Advance, Goto
    <3>2. Loading(w) /\ Loading(w)' /\ Loads(w)' = Loads(w)
      BY <2>1, <2>3, <3>1 DEF Loading, Loads
    <3>3. \A p : Pending(w, p) => Pending(w, p)'
      <4>1. Carries(job[w]) /\ Len(Loads(w)) \in Nat
        <5>1. Carries(job[w])
          BY <2>1 DEF Errands, Appending
        <5> QED BY <2>3, <5>1, WritesSomething DEF Loads
      <4> QED BY <2>1, <3>1, <3>2, <4>1 DEF Pending
    <3>4. \A q \in Procs : \A p : Pending(q, p) => Pending(q, p)'
      BY <1>1, <2>1, <3>3
    <3>5. \A q \in Procs : Loading(q)' => Loading(q) /\ Loads(q)' = Loads(q)
      BY <1>1, <2>1, <3>2
    <3> QED BY <2>1, <3>4, <3>5 DEF FilesKept
  <2> QED BY <2>2, <2>3
<1>12. ASSUME NEW w \in Procs, ProjectView(w) PROVE FilesKept'
  <2>1. /\ Others(w) /\ UNCHANGED <<log, files>> /\ (torn => torn')
        /\ pc[w] = "project" /\ pc'[w] \in {"project", "return"}
    BY <1>12 DEF ProjectView, Save, At, Advance, Goto, mutexVars
  <2> QED BY <1>2, <1>3, <1>4, <2>1
<1>13. ASSUME NEW w \in Procs, RecoverFile(w) PROVE FilesKept'
  <2> DEFINE path == PathOrder[step[w] + 1]
             content == Recorded(SubSeq(log, 1, job[w].until), path)
  <2>1. /\ UNCHANGED <<log, dead>> /\ torn' = (torn \/ Overtaken(w))
        /\ files' = IF content = None THEN files ELSE [files EXCEPT ![path] = content]
        /\ pc[w] = "recover" /\ Advance(w, Len(PathOrder), "return") /\ UNCHANGED job
    BY <1>13 DEF RecoverFile, At, mutexVars
  <2>2. Others(w) /\ pc'[w] \in {"recover", "return"}
    BY <2>1 DEF Advance, Goto
  <2>3. ASSUME ~torn', NEW p \in Paths, Restored(log, files, p) PROVE Restored(log, files', p)
    <3>1. SubSeq(log, 1, job[w].until) = log
      BY <2>1, <2>3, WholeSequence DEF Overtaken
    <3>2. content = Recorded(log, path)
      BY <3>1
    <3> HIDE DEF content
    <3> QED BY <2>1, <2>3, <3>2 DEF Restored
  <2> HIDE DEF content, path
  <2> QED BY <1>2, <1>3, <1>4, <2>1, <2>2, <2>3
<1>14. CASE LockReclaimed \/ UNCHANGED vars
  <2>1. UNCHANGED <<log, files, torn, pc, job, step, dead>>
    BY <1>14 DEF LockReclaimed, Reclaim, vars, storeVars, procVars, mutexVars
  <2> QED BY <2>1 DEF FilesKept, Pending, Loading, Loads
<1>15. ASSUME NEW w \in Procs, AppendLine(w) \/ ApplyEffect(w) PROVE FilesKept'
  BY <1>15, FilesKeptAppend, FilesKeptEffect
<1> QED
  BY <1>5, <1>6, <1>7, <1>8, <1>9, <1>10, <1>11, <1>12, <1>13, <1>14, <1>15 DEF Next, Proceed

-----------------------------------------------------------------------------
\* The views: all of them are of the whole log, or somebody is about to save them.
AllSaved(l, vs) == \A v \in Views : vs[v] = Len(l)

\* What a live process that appends or saves views has ahead of it.
Saving(w) ==
  w \notin dead =>
    /\ pc[w] = "append" => job[w].until + step[w] = Len(log) + Len(job[w].batch)
    /\ pc[w] = "views" =>
         /\ job[w].until = Len(log)
         /\ \A j \in 1..Len(ViewOrder) : j <= step[w] => views[ViewOrder[j]] = Len(log)

ViewsKept ==
  ~torn =>
    /\ AllSaved(log, views) \/ \E w \in Procs \ dead : pc[w] \in {"append", "views"}
    /\ \A w \in Procs : Saving(w)

\* While lines are appended the views are behind, and their writer is alive.
LEMMA ViewsKeptAppend ==
  ASSUME Inv, ViewsKept, NEW w \in Procs, AppendLine(w)
  PROVE  ViewsKept'
<1> USE DEF Inv, Shapes
<1> DEFINE k == step[w] + 1
           e == job[w].batch[k]
           n == Len(job[w].batch)
<1>1. /\ k \in 1..n /\ log' = Append(log, e)
      /\ pc[w] = "append" /\ w \notin dead
      /\ UNCHANGED <<views, job, torn, dead>> /\ Advance(w, n, "views")
  <2>1. k \in 1..n /\ log' = Append(log, e)
    BY AppendIsLegal
  <2> QED BY <2>1 DEF AppendLine, At, mutexVars
<1>2. \A q \in Procs \ {w} : pc'[q] = pc[q] /\ step'[q] = step[q]
  BY <1>1 DEF Advance, Goto
<1>3. Len(log') = Len(log) + 1 /\ Len(log) \in Nat /\ n \in Nat /\ step[w] \in Nat /\ job[w].until \in Nat
  <2>1. IsSequence(log) /\ Len(log) \in Nat /\ JobOK(job[w])
    BY DEF IsSequence
  <2> HIDE DEF e
  <2> QED BY <1>1, <2>1, AppendSequence DEF JobOK, IsSequence
<1>4. \/ k < n /\ pc'[w] = "append" /\ step'[w] = k
      \/ k = n /\ pc'[w] = "views" /\ step'[w] = 0
  BY <1>1, <1>3 DEF Advance, Goto
<1>5. ASSUME ~torn, NEW q \in Procs PROVE Saving(q)'
  <2>1. CASE q # w
    <3>1. q \in dead \/ pc[q] \notin UnderLock
      BY <1>1, <2>1, Alone DEF UnderLock, Committing
    <3> QED BY <1>1, <1>2, <2>1, <3>1 DEF Saving, UnderLock, Committing
  <2>2. CASE q = w
    <3>1. job[w].until + step[w] = Len(log) + n
      BY <1>1, <1>5 DEF ViewsKept, Saving
    <3>2. Len(ViewOrder) \in Nat
      BY OrderAssumption
    <3>3. CASE k < n /\ pc'[w] = "append" /\ step'[w] = k
      <4>1. job'[w].until + k = Len(log') + Len(job'[w].batch)
        <5>1. job'[w] = job[w]
          BY <1>1
        <5> HIDE DEF n, e
        <5>2. job[w].until + (step[w] + 1) = (Len(log) + 1) + n
          BY <1>3, <3>1
        <5> QED BY <1>3, <5>1, <5>2 DEF n
      <4> QED BY <2>2, <3>3, <4>1 DEF Saving
    <3>4. CASE k = n /\ pc'[w] = "views" /\ step'[w] = 0
      <4>1. job'[w].until = Len(log')
        BY <1>1, <1>3, <3>1, <3>4
      <4> QED BY <2>2, <3>2, <3>4, <4>1 DEF Saving
    <3> QED BY <1>4, <3>3, <3>4
  <2> QED BY <2>1, <2>2
<1>6. pc'[w] \in {"append", "views"} /\ w \notin dead'
  BY <1>1, <1>4
<1> HIDE DEF e, k, n
<1> QED BY <1>1, <1>5, <1>6 DEF ViewsKept

\* Views are saved one after the other, all from the log as it is.
LEMMA ViewsKeptSave ==
  ASSUME Inv, ViewsKept, NEW w \in Procs, SaveView(w)
  PROVE  ViewsKept'
<1> USE DEF Inv, Shapes
<1> DEFINE n == Len(ViewOrder)
           k == step[w] + 1
           phase == IF Writes(job[w].cmd) THEN "effects" ELSE "unlock"
<1>1. /\ pc[w] = "views" /\ w \notin dead
      /\ views' = [views EXCEPT ![ViewOrder[k]] = job[w].until]
      /\ UNCHANGED <<log, job, dead>> /\ Advance(w, n, phase) /\ (torn => torn')
  BY DEF SaveView, Save, At, mutexVars
<1>2. n \in Nat /\ step[w] \in Nat /\ \A j \in 1..n : ViewOrder[j] \in DOMAIN views
  BY OrderAssumption DEF Views
<1>3. phase \in {"effects", "unlock"}
  OBVIOUS
<1> HIDE DEF phase
<1>4. \A q \in Procs \ {w} : pc'[q] = pc[q] /\ step'[q] = step[q]
  BY <1>1 DEF Advance, Goto
<1>5. ASSUME ~torn PROVE job[w].until = Len(log) /\ \A j \in 1..n : j <= k => views'[ViewOrder[j]] = Len(log)
  <2>1. job[w].until = Len(log) /\ \A j \in 1..n : j <= step[w] => views[ViewOrder[j]] = Len(log)
    BY <1>1, <1>5 DEF ViewsKept, Saving
  <2> QED BY <1>1, <1>2, <2>1
<1>6. ASSUME ~torn, NEW q \in Procs \ {w} PROVE Saving(q)'
  <2>1. q \in dead \/ pc[q] \notin UnderLock
    BY <1>1, Alone DEF UnderLock, Committing
  <2> QED BY <1>1, <1>4, <2>1 DEF Saving, UnderLock, Committing
<1>7. CASE k < n
  <2>1. pc'[w] = "views" /\ step'[w] = k
    BY <1>1, <1>7 DEF Advance
  <2>2. ~torn => Saving(w)'
    BY <1>1, <1>5, <2>1 DEF Saving
  <2> QED BY <1>1, <1>6, <2>1, <2>2 DEF ViewsKept
<1>8. CASE ~(k < n)
  <2>1. pc'[w] = phase
    BY <1>1, <1>8 DEF Advance, Goto
  <2>2. ~torn => Saving(w)'
    BY <1>3, <2>1 DEF Saving
  <2>3. ~torn => AllSaved(log', views')
    <3>1. DOMAIN ViewOrder = 1..n
      BY OrderAssumption
    <3>2. \A j \in 1..n : j <= k
      BY <1>2, <1>8
    <3> QED BY <1>1, <1>5, <3>1, <3>2 DEF Views, AllSaved
  <2> QED BY <1>1, <1>6, <2>2, <2>3 DEF ViewsKept
<1> QED BY <1>7, <1>8

\* Nobody else saves views, except project, which saves the whole log or has
\* been overtaken.
LEMMA ViewsKeptStep ==
  ASSUME Inv, Errands, ViewsKept, [Next]_vars
  PROVE  ViewsKept'
<1> USE DEF Inv, Shapes
<1> DEFINE Same(q) == job'[q] = job[q] /\ pc'[q] = pc[q] /\ step'[q] = step[q] /\ (q \in dead' <=> q \in dead)
           Others(w) == \A q \in Procs \ {w} : Same(q)
           Saves(p) == p \in {"append", "views"}
\* A step that leaves log and views alone.
<1>1. ASSUME NEW w \in Procs, Others(w), UNCHANGED <<log, views>>, torn => torn',
             w \in dead \/ ~Saves(pc[w]), w \in dead' \/ ~Saves(pc'[w])
      PROVE  ViewsKept'
  <2>1. \A q \in Procs \ {w} : Saving(q)' <=> Saving(q)
    BY <1>1 DEF Saving
  <2>2. Saving(w)'
    BY <1>1 DEF Saving
  <2>3. (\E q \in Procs \ dead : Saves(pc[q])) => \E q \in Procs \ dead' : Saves(pc'[q])
    BY <1>1
  <2> QED BY <1>1, <2>1, <2>2, <2>3 DEF ViewsKept
<1>2. ASSUME NEW w \in Procs, NEW c \in Commands, Read(w, c)
      PROVE  ViewsKept'
  <2> DEFINE phase == IF Writes(c) THEN "staging" ELSE "ready"
             base == [NoJob EXCEPT !.base = Len(log), !.batch = Batch(board, log, c, files),
                        !.captured = IF Writes(c) THEN TaskOf(board.tasks, c.task).limits ELSE None]
  <2>1. Give(w, c, phase, base) /\ phase \in {"staging", "ready"}
    BY <1>2 DEF Read
  <2> HIDE DEF phase, base
  <2>2. Others(w) /\ pc'[w] = phase /\ pc[w] = "idle" /\ UNCHANGED <<log, views, torn>>
    BY <2>1 DEF Give, At, Goto, storeVars, mutexVars
  <2> QED BY <1>1, <2>1, <2>2
<1>3. ASSUME NEW w \in Procs, NEW c \in Commands, ReadToProject(w, c) \/ ReadToRecover(w, c)
      PROVE  ViewsKept'
  <2>1. Others(w) /\ pc'[w] \in {"project", "recover"} /\ pc[w] = "idle" /\ UNCHANGED <<log, views, torn>>
    BY <1>3 DEF ReadToProject, ReadToRecover, Give, At, Goto, storeVars, mutexVars
  <2> QED BY <1>1, <2>1
<1>4. ASSUME NEW w \in Procs, Stage(w) \/ Lock(w) \/ Retry(w) \/ TimeOut(w) \/ Refuse(w) \/ Unlock(w) \/ Return(w)
      PROVE  ViewsKept'
  <2>1. Others(w) /\ UNCHANGED <<log, views, torn>> /\ ~Saves(pc[w]) /\ ~Saves(pc'[w])
    BY <1>4 DEF Stage, Lock, Retry, TimeOut, Refuse, Unlock, Return, Finish, Acquire, Release, At, Goto, storeVars, mutexVars
  <2> QED BY <1>1, <2>1
<1>5. ASSUME NEW w \in Procs, Validate(w)
      PROVE  ViewsKept'
  <2>1. /\ Others(w) /\ pc[w] = "locked" /\ w \notin dead /\ pc'[w] = "append" /\ UNCHANGED <<log, views, torn, step, dead>>
        /\ job'[w] = [job[w] EXCEPT !.until = Len(log) + Len(job[w].batch)]
    BY <1>5 DEF Validate, At, Goto, storeVars, mutexVars
  <2>2. step'[w] = 0
    BY <2>1 DEF StepsStart, Stepping
  <2>3. job'[w].until = Len(log) + Len(job[w].batch) /\ job'[w].batch = job[w].batch
    BY <2>1 DEF JobOK
  <2>4. Saving(w)'
    <3>1. Len(log) \in Nat /\ Len(job[w].batch) \in Nat
      BY DEF JobOK, IsSequence
    <3> QED BY <2>1, <2>2, <2>3, <3>1 DEF Saving
  <2>5. \A q \in Procs \ {w} : Saving(q)' <=> Saving(q)
    BY <2>1 DEF Saving
  <2> QED BY <2>1, <2>4, <2>5 DEF ViewsKept
<1>6. ASSUME NEW w \in Procs, EffectFails(w) PROVE ViewsKept'
  BY <1>6 DEF EffectFails, ViewsKept
<1>7. ASSUME NEW w \in Procs, Crash(w) PROVE ViewsKept'
  <2>1. /\ Others(w) /\ w \in dead' /\ UNCHANGED log
        /\ views' = views \/ pc[w] \in {"views", "project"}
        /\ torn' = (torn \/ pc[w] \in Committing \cup {"project", "recover"})
    BY <1>7 DEF Crash, Die, procVars
  <2>2. CASE torn'
    BY <2>2 DEF ViewsKept
  <2>3. CASE ~torn'
    <3>1. ~Saves(pc[w]) /\ torn' = torn /\ views' = views
      BY <2>1, <2>3 DEF Committing
    <3> QED BY <1>1, <2>1, <3>1
  <2> QED BY <2>2, <2>3
<1>8. ASSUME NEW w \in Procs, ApplyEffect(w) PROVE ViewsKept'
  <2>1. /\ pc[w] = "effects" /\ UNCHANGED <<log, views, job, torn, dead>>
        /\ Advance(w, Len(job[w].batch[2].effects), "unlock")
    BY <1>8 DEF ApplyEffect, At, mutexVars
  <2>2. Others(w) /\ pc'[w] \in {"effects", "unlock"}
    BY <2>1 DEF Advance, Goto
  <2> QED BY <1>1, <2>1, <2>2
<1>9. ASSUME NEW w \in Procs, RecoverFile(w) PROVE ViewsKept'
  <2>1. /\ pc[w] = "recover" /\ UNCHANGED <<log, views, job, dead>> /\ (torn => torn')
        /\ Advance(w, Len(PathOrder), "return")
    BY <1>9 DEF RecoverFile, At, mutexVars
  <2>2. Others(w) /\ pc'[w] \in {"recover", "return"}
    BY <2>1 DEF Advance, Goto
  <2> QED BY <1>1, <2>1, <2>2
<1>10. ASSUME NEW w \in Procs, ProjectView(w) PROVE ViewsKept'
  <2> DEFINE view == ViewOrder[step[w] + 1]
  <2>1. /\ pc[w] = "project" /\ UNCHANGED <<log, job, dead>> /\ torn' = (torn \/ Overtaken(w))
        /\ views' = [views EXCEPT ![view] = job[w].until]
        /\ Advance(w, Len(ViewOrder), "return")
    BY <1>10 DEF ProjectView, Save, At, mutexVars
  <2>2. Others(w) /\ pc'[w] \in {"project", "return"}
    BY <2>1 DEF Advance, Goto
  <2> HIDE DEF view
  <2>3. CASE torn'
    BY <2>3 DEF ViewsKept
  <2>4. CASE ~torn'
    <3>1. ~torn /\ job[w].until = Len(log)
      BY <2>1, <2>4 DEF Overtaken
    <3>2. \A v \in Views : views[v] = Len(log) => views'[v] = Len(log)
      BY <2>1, <3>1
    <3>3. \A j \in 1..Len(ViewOrder) : ViewOrder[j] \in Views
      BY OrderAssumption DEF Views
    <3>4. \A q \in Procs : Saving(q)'
      <4>1. ASSUME NEW q \in Procs \ {w} PROVE Saving(q)'
        <5>1. Saving(q)
          BY <3>1 DEF ViewsKept
        <5> QED BY <2>1, <2>2, <3>2, <3>3, <5>1 DEF Saving
      <4>2. Saving(w)'
        BY <2>2 DEF Saving
      <4> QED BY <4>1, <4>2
    <3>5. AllSaved(log, views) => AllSaved(log', views')
      BY <2>1, <3>2 DEF AllSaved
    <3>6. (\E q \in Procs \ dead : Saves(pc[q])) => \E q \in Procs \ dead' : Saves(pc'[q])
      BY <2>1, <2>2
    <3> QED BY <3>1, <3>4, <3>5, <3>6 DEF ViewsKept
  <2> QED BY <2>3, <2>4
<1>11. CASE LockReclaimed \/ UNCHANGED vars
  <2>1. UNCHANGED <<log, views, torn, pc, job, step, dead>>
    BY <1>11 DEF LockReclaimed, Reclaim, vars, storeVars, procVars, mutexVars
  <2> QED BY <2>1 DEF ViewsKept, Saving, AllSaved
<1>12. ASSUME NEW w \in Procs, AppendLine(w) \/ SaveView(w) PROVE ViewsKept'
  BY <1>12, ViewsKeptAppend, ViewsKeptSave
<1> QED
  BY <1>2, <1>3, <1>4, <1>5, <1>6, <1>7, <1>8, <1>9, <1>10, <1>11, <1>12 DEF Next, Proceed

\* When nobody holds the lock nobody alive is in a commit.
LEMMA KeptSettles ==
  ASSUME Inv, FilesKept, ViewsKept
  PROVE  SettledMatchesLog
<1> SUFFICES ASSUME holder = NoHolder, ~torn
             PROVE  /\ \A p \in Paths : Recorded(log, p) # None => files[p] = Recorded(log, p)
                    /\ \A v \in Views : views[v] = Len(log)
  BY DEF SettledMatchesLog
<1>1. \A w \in Procs \ dead : pc[w] \notin UnderLock
  BY NoHolderAssumption DEF Inv, OneWriter
<1>2. \A w \in Procs : ~Loading(w)
  BY <1>1 DEF Loading, UnderLock, Committing
<1>3. \A p \in Paths : Restored(log, files, p)
  BY <1>2 DEF FilesKept, Pending
<1>4. AllSaved(log, views)
  BY <1>1 DEF ViewsKept, UnderLock, Committing
<1> QED BY <1>3, <1>4 DEF Restored, AllSaved

-----------------------------------------------------------------------------
\* The state a batch was computed on.

\* The batch of j is what the command makes of board b.
Fit(b, j) ==
  \E l, fs :
    /\ j.batch = Batch(b, l, j.cmd, fs)
    /\ Replays(b, Candidates(b, l, j.cmd, fs))
    /\ j.cmd.op = "create" => j.cmd.task \notin Ids(b.tasks)

Preparing == {"staging", "ready", "locked"}

\* Unless the log has grown since, a command that has not been refused yet has a
\* batch that fits the board; one that was validated on its first attempt has a
\* batch that fits the board it was validated on.
FirstTry ==
  \A w \in Procs \ dead : job[w].attempt = 0 =>
    /\ pc[w] \in Preparing =>
         /\ job[w].base \in Nat
         /\ job[w].base <= Len(log)
         /\ job[w].base = Len(log) => Fit(board, job[w])
    /\ pc[w] = "append" => Fit(plan[w][1], job[w])

\* Nobody comes to prepare a first attempt but by reading the log.
LEMMA PreparersStay ==
  ASSUME Inv, Errands, [Next]_vars, NEW w \in Procs \ dead', pc'[w] \in Preparing, job'[w].attempt = 0
  PROVE  /\ w \notin dead
         /\ \/ pc[w] \in Preparing /\ job'[w] = job[w]
            \/ \E c \in Commands : Read(w, c)
<1> USE DEF Inv, Shapes
<1> DEFINE Goal == /\ w \notin dead
                   /\ \/ pc[w] \in Preparing /\ job'[w] = job[w]
                      \/ \E c \in Commands : Read(w, c)
<1> SUFFICES Goal
  OBVIOUS
<1>1. ASSUME NEW q \in Procs, NEW c \in Commands, Read(q, c)
      PROVE  Goal
  <2> DEFINE phase == IF Writes(c) THEN "staging" ELSE "ready"
             base == [NoJob EXCEPT !.base = Len(log), !.batch = Batch(board, log, c, files),
                        !.captured = IF Writes(c) THEN TaskOf(board.tasks, c.task).limits ELSE None]
  <2>1. Give(q, c, phase, base)
    BY <1>1 DEF Read
  <2> HIDE DEF phase, base
  <2>2. dead' = dead /\ \A r \in Procs \ {q} : pc'[r] = pc[r] /\ job'[r] = job[r]
    BY <2>1 DEF Give, Goto, mutexVars
  <2> QED BY <1>1, <2>2
<1>2. ASSUME NEW q \in Procs, NEW c \in Commands, ReadToProject(q, c) \/ ReadToRecover(q, c)
      PROVE  Goal
  BY <1>2 DEF ReadToProject, ReadToRecover, Give, Goto, mutexVars, Preparing
<1>3. ASSUME NEW q \in Procs, Stage(q) \/ Lock(q)
      PROVE  Goal
  BY <1>3 DEF Stage, Lock, At, Goto, Acquire, mutexVars, Preparing
<1>4. ASSUME NEW q \in Procs, Retry(q)
      PROVE  Goal
  <2>1. /\ dead' = dead /\ \A r \in Procs \ {q} : pc'[r] = pc[r] /\ job'[r] = job[r]
        /\ job' = [job EXCEPT ![q] = [job[q] EXCEPT !.attempt = 1]]
    BY <1>4 DEF Retry, Release, Goto
  <2>2. job'[q].attempt = 1
    BY <2>1 DEF Errands, NoJob
  <2> QED BY <2>1, <2>2
<1>5. ASSUME NEW q \in Procs, Validate(q)
      PROVE  Goal
  BY <1>5 DEF Validate, Goto, mutexVars, Preparing
<1>6. ASSUME NEW q \in Procs, TimeOut(q) \/ Refuse(q) \/ EffectFails(q) \/ Unlock(q) \/ Return(q)
      PROVE  Goal
  <2>1. Finish(q) /\ dead' = dead
    BY <1>6 DEF TimeOut, Refuse, EffectFails, Unlock, Return, Release, mutexVars
  <2> QED BY <2>1 DEF Finish, Goto, Preparing
<1>7. ASSUME NEW q \in Procs, NEW n, NEW phase, Advance(q, n, phase), UNCHANGED <<job, mutexVars>>, phase \notin Preparing
      PROVE  Goal
  BY <1>7 DEF Advance, Goto, mutexVars
<1>8. ASSUME NEW q \in Procs, AppendLine(q) \/ SaveView(q) \/ ProjectView(q) \/ ApplyEffect(q) \/ RecoverFile(q)
      PROVE  Goal
  <2>1. CASE AppendLine(q)
    BY <2>1, <1>7 DEF AppendLine, Preparing
  <2>2. CASE SaveView(q)
    BY <2>2, <1>7 DEF SaveView, Save, Preparing
  <2>3. CASE ProjectView(q)
    BY <2>3, <1>7 DEF ProjectView, Save, Preparing
  <2>4. CASE ApplyEffect(q)
    BY <2>4, <1>7 DEF ApplyEffect, Preparing
  <2>5. CASE RecoverFile(q)
    BY <2>5, <1>7 DEF RecoverFile, Preparing
  <2> QED BY <1>8, <2>1, <2>2, <2>3, <2>4, <2>5
<1>9. ASSUME NEW q \in Procs, Crash(q)
      PROVE  Goal
  BY <1>9 DEF Crash, Die, procVars
<1>10. CASE LockReclaimed \/ UNCHANGED vars
  BY <1>10 DEF LockReclaimed, Reclaim, vars, procVars, mutexVars
<1> HIDE DEF Goal
<1> QED
  BY <1>1, <1>2, <1>3, <1>4, <1>5, <1>6, <1>8, <1>9, <1>10 DEF Next, Proceed

\* A log of the length that was read is the log that was read.
LEMMA FirstTryStep ==
  ASSUME Inv, Errands, FirstTry, [Next]_vars
  PROVE  FirstTry'
<1> USE DEF Inv, Shapes
<1> SUFFICES ASSUME NEW w \in Procs \ dead', job'[w].attempt = 0
             PROVE  /\ pc'[w] \in Preparing =>
                         /\ job'[w].base \in Nat
                         /\ job'[w].base <= Len(log')
                         /\ job'[w].base = Len(log') => Fit(board', job'[w])
                    /\ pc'[w] = "append" => Fit(plan'[w][1], job'[w])
  BY DEF FirstTry
<1>1. ASSUME pc'[w] = "append" PROVE Fit(plan'[w][1], job'[w])
  <2>1. CASE pc[w] = "append" /\ job[w]' = job[w] /\ plan[w]' = plan[w] /\ w \notin dead
    BY <2>1 DEF FirstTry
  <2>2. CASE Validate(w) /\ w \notin dead
    <3>1. /\ pc[w] = "locked" /\ plan'[w][1] = board /\ ~Stale(w)
          /\ job'[w].cmd = job[w].cmd /\ job'[w].batch = job[w].batch /\ job'[w].attempt = job[w].attempt
      BY <2>2, ValidatePlans DEF IsReplay
    <3>2. job[w].attempt = 0 /\ Len(log) = job[w].base
      BY <3>1 DEF Stale
    <3>3. Fit(board, job[w])
      BY <2>2, <3>1, <3>2 DEF FirstTry, Preparing
    <3> QED BY <3>1, <3>3 DEF Fit
  <2> QED BY <1>1, <2>1, <2>2, AppendersStay
<1>2. ASSUME pc'[w] \in Preparing
      PROVE  /\ job'[w].base \in Nat
             /\ job'[w].base <= Len(log')
             /\ job'[w].base = Len(log') => Fit(board', job'[w])
  <2>1. CASE w \notin dead /\ pc[w] \in Preparing /\ job'[w] = job[w]
    <3>1. /\ job[w].base \in Nat
          /\ job[w].base <= Len(log)
          /\ job[w].base = Len(log) => Fit(board, job[w])
      BY <2>1 DEF FirstTry
    <3>2. CASE UNCHANGED <<log, board>>
      BY <2>1, <3>1, <3>2
    <3>3. CASE \E q \in Procs : AppendLine(q)
      <4>1. Len(log') = Len(log) + 1 /\ Len(log) \in Nat
        BY <3>3, AppendIsLegal, AppendSequence DEF IsSequence
      <4> QED BY <2>1, <3>1, <4>1
    <3> QED BY <3>2, <3>3, OthersKeepLog
  <2>2. ASSUME NEW c \in Commands, Read(w, c)
        PROVE  /\ job'[w].base \in Nat
               /\ job'[w].base <= Len(log')
               /\ job'[w].base = Len(log') => Fit(board', job'[w])
    <3> DEFINE phase == IF Writes(c) THEN "staging" ELSE "ready"
               base == [NoJob EXCEPT !.base = Len(log), !.batch = Batch(board, log, c, files),
                          !.captured = IF Writes(c) THEN TaskOf(board.tasks, c.task).limits ELSE None]
               j == [base EXCEPT !.cmd = c]
    <3>1. Give(w, c, phase, base) /\ Accepts(board, log, c, files, staged = {})
      BY <2>2 DEF Read
    <3>2. j.cmd = c /\ j.batch = Batch(board, log, c, files) /\ j.base = Len(log)
      BY DEF NoJob
    <3> HIDE DEF phase, base
    <3>3. job'[w] = j /\ UNCHANGED <<log, board>>
      BY <3>1 DEF Give, storeVars
    <3>4. Replays(board, Candidates(board, log, c, files)) /\ (c.op = "create" => c.task \notin Ids(board.tasks))
      BY <3>1 DEF Accepts, AcceptsCreate
    <3> HIDE DEF j
    <3>5. Fit(board, j)
      BY <3>2, <3>4 DEF Fit
    <3>6. Len(log) \in Nat
      BY DEF IsSequence
    <3> QED BY <3>2, <3>3, <3>5, <3>6
  <2>3. /\ w \notin dead
        /\ (pc[w] \in Preparing /\ job'[w] = job[w]) \/ \E c \in Commands : Read(w, c)
    BY <1>2, PreparersStay
  <2> QED BY <2>1, <2>2, <2>3
<1> QED BY <1>1, <1>2

\* What a fitting batch says of the boards it goes through.
LEMMA FittingIsTrue ==
  ASSUME NEW b, NEW j, j.cmd.op \in Ops \ {"project", "recover"}, Fit(b, j), NEW boards,
         boards[1] = b, Follows(boards, j.batch), NEW k \in 1..Len(j.batch)
  PROVE  LET e == j.batch[k] IN
         /\ e.kind = "task.create" => e.task \notin Ids(boards[k].tasks)
         /\ e.kind = "run.end" => AllTasksDone(boards[k].tasks)
         /\ e.kind = "verify.ok" => e.certifies = boards[k].tasks
<1> DEFINE e == j.batch[k]
           c == j.cmd
<1>1. PICK l, fs : /\ j.batch = Batch(b, l, c, fs)
                   /\ Replays(b, Candidates(b, l, c, fs))
                   /\ c.op = "create" => c.task \notin Ids(b.tasks)
  BY DEF Fit
<1> DEFINE cand == Candidates(b, l, c, fs)
           a == After(b, cand)
           m == Len(cand)
<1>2. CommandEvents(cand, b, c, fs)
  BY CandidatesShape
<1>3. Closes(j.batch, cand, a)
  BY <1>1, BatchShape
<1>4. Replays(b, cand) /\ a = Last(CHOOSE bs \in Runs(b, cand) : TRUE)
  BY <1>1 DEF After
<1> HIDE DEF cand, a
<1>5. m \in Nat \ {0} /\ Len(j.batch) \in {m + 1, m + 2} /\ \A i \in 1..m : j.batch[i] = cand[i]
  BY <1>2, <1>3 DEF CommandEvents, Closes
<1>6. boards[m + 1] = a
  <2>1. PICK bs \in Runs(b, cand) : a = Last(bs)
    BY <1>4 DEF Replays
  <2>2. IsReplay(bs, b, cand)
    BY <1>5, <2>1, RunsAre
  <2>3. Last(bs) = bs[m + 1]
    BY <2>2 DEF IsReplay, Last
  <2> DEFINE cs == [i \in 1..m + 1 |-> boards[i]]
  <2>4. \A i \in 1..m : Legal(boards[i], cand[i]) /\ boards[i + 1] = Apply(boards[i], cand[i])
    BY <1>5 DEF Follows
  <2>5. /\ bs[1] = b
        /\ \A i \in 1..m : Legal(bs[i], cand[i]) /\ bs[i + 1] = Apply(bs[i], cand[i])
    BY <2>2 DEF IsReplay
  <2>6. IsReplay(cs, b, cand)
    <3>1. cs = [i \in 1..m + 1 |-> cs[i]] /\ m + 1 \in Nat
      BY <1>5
    <3>2. Len(cs) = m + 1
      <4> HIDE DEF cs
      <4> QED BY <3>1, FunctionSequence
    <3>3. 1 \in 1..m + 1 /\ \A i \in 1..m : i \in 1..m + 1 /\ i + 1 \in 1..m + 1
      BY <1>5
    <3>4. cs[1] = b /\ \A i \in 1..m : cs[i] = boards[i] /\ cs[i + 1] = boards[i + 1]
      BY <3>3
    <3> HIDE DEF cs
    <3> QED BY <2>4, <3>2, <3>4 DEF IsReplay
  <2>7. bs[m + 1] = cs[m + 1]
    <3> HIDE DEF cs
    <3>0. Len(cand) \in Nat
      BY <1>5
    <3>1. \A i \in 1..Len(cand) + 1 : bs[i] = cs[i]
      BY <3>0, <2>2, <2>6, OneReplay
    <3> QED BY <1>5, <3>1
  <2>8. cs[m + 1] = boards[m + 1]
    BY <1>5
  <2> QED BY <2>1, <2>3, <2>7, <2>8
<1>7. CASE k <= m
  <2>1. k \in 1..m /\ e = cand[k]
    BY <1>5, <1>7
  <2>2. CASE k = 1
    <3>1. e = MainEvent(b, c)
      BY <1>2, <2>1, <2>2 DEF CommandEvents
    <3>2. e.kind \notin {"run.end", "verify.ok"} /\ (e.kind = "task.create" => c.op = "create" /\ e.task = c.task)
      BY <3>1, MainEventKind
    <3> HIDE DEF e
    <3> QED BY <1>1, <2>2, <3>2 DEF e
  <2>3. CASE k # 1
    <3>1. Consequence(c, e)
      BY <1>2, <2>1, <2>3 DEF CommandEvents
    <3>2. e.kind \in {WriteKind, "hotfix.create", "issue.resolve"}
      BY <3>1 DEF Consequence, HotfixEvent
    <3> QED BY <3>2 DEF WriteKind
  <2> QED BY <2>2, <2>3
<1>8. CASE k = Len(j.batch) /\ k = m + 1
  <2>1. e = [kind |-> "verify.ok", certifies |-> a.tasks]
    BY <1>3, <1>8 DEF Closes
  <2> QED BY <1>6, <1>8, <2>1
<1>9. CASE Len(j.batch) = m + 2 /\ k = m + 1
  <2>1. e = [kind |-> "run.end"] /\ AllTasksDone(a.tasks)
    BY <1>3, <1>9 DEF Closes
  <2> QED BY <1>6, <1>9, <2>1
<1>10. CASE k = Len(j.batch) /\ k = m + 2
  <2>1. e = [kind |-> "verify.ok", certifies |-> a.tasks]
    BY <1>3, <1>10 DEF Closes
  <2>2. j.batch[m + 1] = [kind |-> "run.end"] /\ m + 1 \in 1..Len(j.batch) /\ (m + 1) + 1 = k
    BY <1>3, <1>5, <1>10 DEF Closes
  <2>3. boards[k] = Apply(boards[m + 1], [kind |-> "run.end"])
    BY <2>2 DEF Follows
  <2>4. Apply(a, [kind |-> "run.end"]).tasks = a.tasks
    BY DEF Apply, TasksAfter, TaskChanges, RequiredStatus
  <2> QED BY <1>6, <2>1, <2>3, <2>4
<1> QED BY <1>5, <1>7, <1>8, <1>9, <1>10

\* So the first try of a batch is true of the board it is appended to.
LEMMA FirstTryAction ==
  ASSUME Inv, Errands, FirstTry, NEW w \in Procs, AppendLine(w), job[w].attempt = 0
  PROVE  LET e == Last(log') IN
         /\ e.kind = "task.create" => e.task \notin Ids(board.tasks)
         /\ e.kind = "run.end" => AllTasksDone(board.tasks)
         /\ e.kind = "verify.ok" => e.certifies = board.tasks
<1> DEFINE k == step[w] + 1
           e == job[w].batch[k]
<1>1. k \in 1..Len(job[w].batch) /\ plan[w][k] = board /\ log' = Append(log, e)
  BY AppendIsLegal
<1>2. Last(log') = e
  <2>1. IsSequence(log)
    BY DEF Inv, Shapes
  <2> HIDE DEF e
  <2> QED BY <1>1, <2>1, AppendSequence DEF Last
<1>3. pc[w] = "append" /\ w \notin dead
  BY DEF AppendLine, At
<1>4. Fit(plan[w][1], job[w]) /\ Follows(plan[w], job[w].batch)
  BY <1>3 DEF FirstTry, Inv, OnCourse
<1>5. job[w].cmd.op \in Ops \ {"project", "recover"}
  BY <1>3, CommandAssumption DEF Errands, Appending, Carrying, Carries
<1> HIDE DEF k
<1>6. /\ e.kind = "task.create" => e.task \notin Ids(plan[w][k].tasks)
      /\ e.kind = "run.end" => AllTasksDone(plan[w][k].tasks)
      /\ e.kind = "verify.ok" => e.certifies = plan[w][k].tasks
  BY <1>1, <1>4, <1>5, FittingIsTrue
<1> QED BY <1>1, <1>2, <1>6

-----------------------------------------------------------------------------
\* What decides a review of a hotfix: its issue was resolved among the first n
\* events, or is by the batch from its n-th event on.

Resolved(l, n, issue) == \E i \in 1..n : Resolves(l[i], issue)
ResolvesFrom(batch, n, issue) == \E k \in n..Len(batch) : Resolves(batch[k], issue)

\* A complete names the issue its task has, and the approval of a hotfix brings
\* the resolution of its issue along, unless it found one in what it read.
Faithful(b, l, j) ==
  LET c == j.cmd
      t == TaskOf(b.tasks, c.task) IN
  /\ j.base \in 0..Len(l)
  /\ c.op \in {"complete", "review"} => Known(b.tasks, c.task)
  /\ c.op = "complete" => j.batch[1].issue = t.issue
  /\ c.op = "review" /\ c.decision = "approve" /\ t.hotfix =>
       Resolved(l, j.base, t.issue) \/ ResolvesFrom(j.batch, 2, t.issue)

\* Commands are faithful to what they read, and an issue that is open has been
\* reported since it was last resolved.
Resolving ==
  /\ \A i \in 1..Len(board.tasks) : board.tasks[i].hotfix => board.tasks[i].issue # None
  /\ \A w \in Procs : pc[w] \in Carrying => Faithful(board, log, job[w])
  /\ \A issue \in board.open : Outstanding(log, issue)

\* What the events of a batch say of tasks: only the first changes one, the one
\* the command names, as the command says; hotfixes are for an issue.
LEMMA BatchSays ==
  ASSUME NEW j, Carries(j), NEW k \in 1..Len(j.batch)
  PROVE  LET c == j.cmd
             e == j.batch[k] IN
         /\ e.kind \in TaskChanges => k = 1 /\ e.task = c.task
         /\ e.kind \in {"complete", "review"} => e.kind = c.op
         /\ e.kind = "hotfix.create" => e.issue # None
<1> DEFINE c == j.cmd
           e == j.batch[k]
<1>1. PICK b, evs, fs : j.batch = Batch(b, evs, c, fs)
  BY DEF Carries
<1> DEFINE cand == Candidates(b, evs, c, fs)
           a == After(b, cand)
<1>2. Closes(j.batch, cand, a)
  BY <1>1, BatchShape
<1>3. /\ Len(cand) \in Nat \ {0}
      /\ cand[1] = MainEvent(b, c)
      /\ \A i \in 2..Len(cand) : Consequence(c, cand[i])
  <2>1. CommandEvents(cand, b, c, fs)
    BY CandidatesShape
  <2> HIDE DEF cand
  <2> QED BY <2>1 DEF CommandEvents
<1>4. c \in Commands /\ c.op \in AppendingOps
  BY CommandAssumption DEF Carries, Ops, AppendingOps
<1>5. c.op \in {"report", "hotfix"} => c.issue # None
  BY <1>4, IssueAssumption
<1> HIDE DEF cand, a
<1>6. CASE k = 1
  <2>1. e = MainEvent(b, c)
    BY <1>2, <1>3, <1>6 DEF Closes
  <2> QED BY <1>4, <1>5, <1>6, <2>1, MainEventOfTask
<1>7. CASE k \in 2..Len(cand)
  <2>1. Consequence(c, e)
    BY <1>2, <1>3, <1>7 DEF Closes
  <2> QED BY <1>5, <2>1 DEF Consequence, HotfixEvent, WriteKind, TaskChanges, RequiredStatus
<1>8. CASE k \notin 1..Len(cand)
  <2>1. e.kind \in {"verify.ok", "run.end"}
    <3>1. k = Len(j.batch) \/ (Len(j.batch) = Len(cand) + 2 /\ k = Len(cand) + 1)
      BY <1>2, <1>3, <1>8 DEF Closes
    <3> QED BY <1>2, <3>1 DEF Closes
  <2> QED BY <2>1 DEF TaskChanges, RequiredStatus
<1>9. k = 1 \/ k \in 2..Len(cand) \/ k \notin 1..Len(cand)
  BY <1>3
<1> QED BY <1>6, <1>7, <1>8, <1>9

\* A command is faithful to the board and the log it has read.
LEMMA ReadIsFaithful ==
  ASSUME Inv, Resolving, NEW c \in Commands, c.op \in AppendingOps, NEW j,
         Replays(board, Candidates(board, log, c, files)),
         j.cmd = c, j.batch = Batch(board, log, c, files), j.base = Len(log)
  PROVE  Faithful(board, log, j)
<1> DEFINE cand == Candidates(board, log, c, files)
           a == After(board, cand)
           t == TaskOf(board.tasks, c.task)
<1>1. Closes(j.batch, cand, a)
  BY BatchShape
<1>2. IsSequence(cand) /\ Len(cand) \in Nat \ {0} /\ cand[1] = MainEvent(board, c)
  <2>1. CommandEvents(cand, board, c, files)
    BY CandidatesShape
  <2> HIDE DEF cand
  <2> QED BY <2>1 DEF CommandEvents
<1>3. Legal(board, MainEvent(board, c))
  <2>1. PICK bs \in Runs(board, cand) : TRUE
    BY DEF Replays
  <2>2. IsReplay(bs, board, cand)
    BY <1>2, <2>1, RunsAre
  <2> HIDE DEF cand
  <2> QED BY <1>2, <2>2 DEF IsReplay
<1> HIDE DEF a
<1>4. j.batch[1] = MainEvent(board, c)
  <2> HIDE DEF cand
  <2> QED BY <1>1, <1>2 DEF Closes
<1>5. ASSUME c.op \in {"complete", "review"} PROVE Known(board.tasks, c.task)
  <2>1. MainEvent(board, c).kind \in TaskChanges /\ MainEvent(board, c).task = c.task
    BY <1>5 DEF MainEvent, TaskChanges, RequiredStatus
  <2> QED BY <1>3, <2>1 DEF Legal
<1>6. c.op = "complete" => j.batch[1].issue = t.issue
  BY <1>4, MainEventOfTask
<1>7. ASSUME c.op = "review", c.decision = "approve", t.hotfix
      PROVE  Resolved(log, j.base, t.issue) \/ ResolvesFrom(j.batch, 2, t.issue)
  <2> DEFINE r == [kind |-> "issue.resolve", issue |-> t.issue]
  <2>1. t.issue # None
    <3>1. IsSequence(board.tasks)
      BY DEF Inv, WellFormed
    <3>2. Index(board.tasks, c.task) \in 1..Len(board.tasks)
      BY <1>5, <1>7, <3>1, DomainOfSequence DEF Known, Index
    <3> QED BY <1>7, <3>2 DEF TaskOf, Resolving
  <2>2. Happened(log, "issue.resolve", LAMBDA e : e.issue = t.issue) <=> Resolved(log, j.base, t.issue)
    <3>1. DOMAIN log = 1..Len(log)
      BY DomainOfSequence DEF Inv, Shapes
    <3> QED BY <3>1 DEF Happened, Resolved, Resolves
  <2>3. CASE Happened(log, "issue.resolve", LAMBDA e : e.issue = t.issue)
    BY <2>2, <2>3
  <2>4. CASE ~Happened(log, "issue.resolve", LAMBDA e : e.issue = t.issue)
    <3>1. ReviewEvents(board, log, c) = <<r>>
      BY <1>7, <2>1, <2>4 DEF ReviewEvents
    <3>2. Len(cand) >= 2 /\ cand[Len(cand)] = r
      BY <3>1, ResolutionFollows
    <3> HIDE DEF cand
    <3>3. r.kind = "issue.resolve" /\ r.issue = t.issue
      OBVIOUS
    <3> HIDE DEF r
    <3>4. Len(cand) \in 2..Len(j.batch)
      BY <1>1, <1>2, <3>2 DEF Closes
    <3>5. j.batch[Len(cand)] = r
      BY <1>1, <1>2, <3>2 DEF Closes
    <3> QED BY <3>3, <3>4, <3>5 DEF ResolvesFrom, Resolves
  <2> QED BY <2>3, <2>4
<1>8. j.base \in 0..Len(log)
  BY DEF Inv, Shapes, IsSequence
<1> HIDE DEF t
<1> QED BY <1>5, <1>6, <1>7, <1>8 DEF Faithful, t

\* And stays so: the board changes, but not which task an id names, nor its issue.
LEMMA FaithfulStays ==
  ASSUME NEW b, NEW l, NEW j, NEW e, Faithful(b, l, j), IsSequence(l), WellFormed(b), Legal(b, e),
         e.kind = "complete" => e.issue = TaskOf(b.tasks, e.task).issue
  PROVE  Faithful(Apply(b, e), Append(l, e), j)
<1> DEFINE c == j.cmd
           d == Apply(b, e)
           m == Append(l, e)
           t == TaskOf(b.tasks, c.task)
           u == TaskOf(d.tasks, c.task)
<1>1. ASSUME Known(b.tasks, c.task)
      PROVE  Known(d.tasks, c.task) /\ u.issue = t.issue /\ u.hotfix = t.hotfix
  <2>1. /\ Index(b.tasks, c.task) \in 1..Len(b.tasks)
        /\ Known(d.tasks, c.task) /\ Index(d.tasks, c.task) = Index(b.tasks, c.task)
    BY <1>1, FirstStays
  <2>2. \A i \in 1..Len(b.tasks) : d.tasks[i].issue = b.tasks[i].issue /\ d.tasks[i].hotfix = b.tasks[i].hotfix
    BY IssueStays
  <2> HIDE DEF d
  <2> QED BY <2>1, <2>2 DEF TaskOf
<1>2. j.base \in 0..Len(m) /\ \A issue : Resolved(l, j.base, issue) => Resolved(m, j.base, issue)
  <2>1. Len(m) = Len(l) + 1 /\ Len(l) \in Nat /\ \A i \in 1..Len(l) : m[i] = l[i]
    BY AppendSequence DEF IsSequence
  <2>2. j.base \in 0..Len(l)
    BY DEF Faithful
  <2> HIDE DEF m
  <2>3. \A i \in 1..j.base : m[i] = l[i]
    BY <2>1, <2>2
  <2> QED BY <2>1, <2>2, <2>3 DEF Resolved
<1>3. /\ c.op \in {"complete", "review"} => Known(b.tasks, c.task)
      /\ c.op = "complete" => j.batch[1].issue = t.issue
      /\ c.op = "review" /\ c.decision = "approve" /\ t.hotfix =>
           Resolved(l, j.base, t.issue) \/ ResolvesFrom(j.batch, 2, t.issue)
  BY DEF Faithful
<1> HIDE DEF d, m, t, u
<1>4. /\ j.base \in 0..Len(m)
      /\ c.op \in {"complete", "review"} => Known(d.tasks, c.task)
      /\ c.op = "complete" => j.batch[1].issue = u.issue
      /\ c.op = "review" /\ c.decision = "approve" /\ u.hotfix =>
           Resolved(m, j.base, u.issue) \/ ResolvesFrom(j.batch, 2, u.issue)
  BY <1>1, <1>2, <1>3
<1> QED BY <1>4 DEF Faithful, d, m, u

\* Appending a line: commands stay faithful.
LEMMA FaithfulAppend ==
  ASSUME Inv, Errands, Resolving, NEW w \in Procs, AppendLine(w)
  PROVE  LET e == job[w].batch[step[w] + 1] IN
         /\ e.kind = "complete" => e.issue = TaskOf(board.tasks, e.task).issue
         /\ e.kind = "hotfix.create" => e.issue # None
         /\ \A q \in Procs : pc[q] \in Carrying => Faithful(board', log', job[q])
<1> DEFINE j == job[w]
           k == step[w] + 1
           e == j.batch[k]
<1>1. /\ k \in 1..Len(j.batch) /\ Legal(board, e)
      /\ board' = Apply(board, e) /\ log' = Append(log, e)
  BY AppendIsLegal
<1>2. pc[w] \in Carrying /\ Carries(j)
  BY DEF AppendLine, At, Carrying, Errands, Appending
<1>3. IsSequence(log) /\ WellFormed(board)
  BY DEF Inv, Shapes
<1>4. /\ e.kind \in TaskChanges => k = 1 /\ e.task = j.cmd.task
      /\ e.kind \in {"complete", "review"} => e.kind = j.cmd.op
      /\ e.kind = "hotfix.create" => e.issue # None
  BY <1>1, <1>2, BatchSays
<1>5. e.kind = "complete" => e.issue = TaskOf(board.tasks, e.task).issue
  <2>1. Faithful(board, log, j)
    BY <1>2 DEF Resolving
  <2> QED BY <1>4, <2>1 DEF Faithful, TaskChanges, RequiredStatus
<1>6. \A q \in Procs : pc[q] \in Carrying => Faithful(board', log', job[q])
  BY <1>1, <1>3, <1>5, FaithfulStays DEF Resolving
<1> QED BY <1>4, <1>5, <1>6

\* And the line that opens an issue is its last report.
LEMMA ResolvingAppend ==
  ASSUME Inv, Errands, Resolving, NEW w \in Procs, AppendLine(w)
  PROVE  Resolving'
<1> DEFINE e == job[w].batch[step[w] + 1]
           ts == board.tasks
           us == Apply(board, e).tasks
<1>1. Legal(board, e) /\ board' = Apply(board, e) /\ log' = Append(log, e)
  BY AppendIsLegal
<1>2. job' = job /\ \A q \in Procs : pc'[q] \in Carrying => pc[q] \in Carrying
  BY DEF AppendLine, At, Advance, Goto, Carrying, Inv, Shapes
<1>3. IsSequence(log) /\ Len(log) \in Nat /\ WellFormed(board)
  BY DEF Inv, Shapes, IsSequence
<1>4. /\ Len(log') = Len(log) + 1
      /\ \A i \in 1..Len(log) : log'[i] = log[i]
      /\ log'[Len(log) + 1] = e
  BY <1>1, <1>3, AppendSequence
<1>5. /\ e.kind = "complete" => e.issue = TaskOf(ts, e.task).issue
      /\ e.kind = "hotfix.create" => e.issue # None
      /\ \A q \in Procs : pc[q] \in Carrying => Faithful(board', log', job[q])
  BY FaithfulAppend
<1>6. \A i \in 1..Len(us) : us[i].hotfix => us[i].issue # None
  <2>1. /\ IsSequence(us) /\ Len(ts) \in Nat
        /\ e.kind \in TaskCreations => Len(us) = Len(ts) + 1 /\ us[Len(ts) + 1] = NewTask(e)
        /\ e.kind \notin TaskCreations => Len(us) = Len(ts)
    <3>1. Len(ts) \in Nat
      BY <1>3 DEF WellFormed, IsSequence
    <3> HIDE DEF e
    <3> QED BY <1>1, <1>3, <3>1, TasksAfterAre
  <2>2. \A i \in 1..Len(ts) : us[i].issue = ts[i].issue /\ us[i].hotfix = ts[i].hotfix
    BY <1>1, <1>3, <1>5, IssueStays
  <2>3. \A i \in 1..Len(ts) : ts[i].hotfix => ts[i].issue # None
    BY DEF Resolving
  <2>4. e.kind \in TaskCreations => (NewTask(e).hotfix => NewTask(e).issue # None)
    <3> HIDE DEF e
    <3>1. CASE e.kind = "hotfix.create"
      BY <1>5, <3>1 DEF NewTask
    <3>2. CASE e.kind # "hotfix.create"
      <4>1. NewTask(e).hotfix = (e.kind = "hotfix.create")
        BY DEF NewTask
      <4>2. ~NewTask(e).hotfix
        BY <3>2, <4>1, Zenon
      <4> QED BY <4>2
    <3> QED BY <3>1, <3>2
  <2> HIDE DEF ts, us, e
  <2> QED BY <2>1, <2>2, <2>3, <2>4
<1>7. ASSUME NEW issue \in board'.open
      PROVE  Outstanding(log', issue)
  <2>1. issue \in board.open \/ Reports(e, issue)
    BY <1>1 DEF Apply, Reports
  <2>2. ~Resolves(e, issue)
    BY <1>1, <1>7 DEF Apply, Resolves
  <2> HIDE DEF e
  <2>3. SUFFICES ASSUME NEW i \in 1..Len(log'), Resolves(log'[i], issue)
                 PROVE  \E n \in (i + 1)..Len(log') : Reports(log'[n], issue)
    BY DEF Outstanding
  <2>4. i \in 1..Len(log) /\ Resolves(log[i], issue)
    BY <1>3, <1>4, <2>2, <2>3
  <2>5. CASE Reports(e, issue)
    BY <1>3, <1>4, <2>4, <2>5
  <2>6. CASE issue \in board.open
    <3>1. PICK n \in (i + 1)..Len(log) : Reports(log[n], issue)
      BY <2>4, <2>6 DEF Resolving, Outstanding
    <3> QED BY <1>3, <1>4, <2>4, <3>1
  <2> QED BY <2>1, <2>5, <2>6
<1> QED BY <1>1, <1>2, <1>5, <1>6, <1>7 DEF Resolving

\* An invariant about processes is kept by the steps that do not append, when
\* the process that moves comes to carry only what is faithful.
LEMMA ResolvingStep ==
  ASSUME Inv, Errands, Resolving, [Next]_vars
  PROVE  Resolving'
<1> DEFINE Others(w) == \A q \in Procs \ {w} : job'[q] = job[q] /\ pc'[q] = pc[q] 
<1>1. ASSUME NEW w \in Procs, Others(w), UNCHANGED <<board, log>>,
             pc'[w] \in Carrying => Faithful(board, log, job'[w])
      PROVE  Resolving'
  <2>1. \A q \in Procs : pc'[q] \in Carrying => Faithful(board', log', job'[q])
    BY <1>1 DEF Resolving
  <2>2. \A i \in 1..Len(board'.tasks) : board'.tasks[i].hotfix => board'.tasks[i].issue # None
    BY <1>1 DEF Resolving
  <2>3. \A issue \in board'.open : Outstanding(log', issue)
    BY <1>1 DEF Resolving
  <2> QED BY <2>1, <2>2, <2>3 DEF Resolving
<1> USE DEF Inv, Shapes
<1>2. ASSUME NEW w \in Procs, NEW c \in Commands, Read(w, c)
      PROVE  Resolving'
  <2> DEFINE base == [NoJob EXCEPT !.base = Len(log), !.batch = Batch(board, log, c, files),
                        !.captured = IF Writes(c) THEN TaskOf(board.tasks, c.task).limits ELSE None]
             j == [base EXCEPT !.cmd = c]
  <2>1. Others(w) /\ UNCHANGED <<board, log>> /\ job'[w] = j /\ Accepts(board, log, c, files, staged = {})
        /\ c.op \notin {"project", "recover"}
    BY <1>2 DEF Read, Give, At, Goto, storeVars
  <2>2. j.cmd = c /\ j.batch = Batch(board, log, c, files) /\ j.base = Len(log)
    BY DEF NoJob
  <2> HIDE DEF j, base
  <2>3. c.op \in AppendingOps
    BY <2>1, CommandAssumption DEF Ops, AppendingOps
  <2>4. Faithful(board, log, j)
    BY <2>1, <2>2, <2>3, ReadIsFaithful DEF Accepts
  <2> QED BY <1>1, <2>1, <2>4
<1>3. ASSUME NEW w \in Procs, NEW c \in Commands, ReadToProject(w, c) \/ ReadToRecover(w, c)
      PROVE  Resolving'
  <2>1. Others(w) /\ UNCHANGED <<board, log>> /\ pc'[w] \notin Carrying
    BY <1>3 DEF ReadToProject, ReadToRecover, Give, At, Goto, Carrying, storeVars
  <2> QED BY <1>1, <2>1
<1>4. ASSUME NEW w \in Procs, Stage(w) \/ Lock(w) \/ Retry(w) \/ Validate(w)
      PROVE  Resolving'
  <2>1. /\ Others(w) /\ UNCHANGED <<board, log>> /\ pc[w] \in Carrying
        /\ \/ job'[w] = job[w]
           \/ job'[w] = [job[w] EXCEPT !.attempt = 1]
           \/ job'[w] = [job[w] EXCEPT !.until = Len(log) + Len(job[w].batch)]
    BY <1>4 DEF Stage, Lock, Retry, Validate, At, Goto, Carrying, storeVars
  <2>2. job'[w].cmd = job[w].cmd /\ job'[w].batch = job[w].batch /\ job'[w].base = job[w].base
    BY <2>1 DEF Errands, NoJob
  <2>3. Faithful(board, log, job[w])
    BY <2>1 DEF Resolving
  <2>4. Faithful(board, log, job'[w])
    BY <2>2, <2>3 DEF Faithful
  <2> QED BY <1>1, <2>1, <2>4
<1>5. ASSUME NEW w \in Procs, TimeOut(w) \/ Refuse(w) \/ EffectFails(w) \/ Unlock(w) \/ Return(w)
      PROVE  Resolving'
  <2>1. Others(w) /\ UNCHANGED <<board, log>> /\ pc'[w] \notin Carrying
    BY <1>5 DEF TimeOut, Refuse, EffectFails, Unlock, Return, Finish, At, Goto, Carrying, storeVars
  <2> QED BY <1>1, <2>1
<1>6. ASSUME NEW w \in Procs, NEW n, NEW phase, Advance(w, n, phase), UNCHANGED <<job, board, log>>,
             pc[w] \notin Carrying, phase \notin Carrying
      PROVE  Resolving'
  <2>1. Others(w) /\ pc'[w] \notin Carrying
    BY <1>6 DEF Advance, Goto, Carrying
  <2> QED BY <1>1, <1>6, <2>1
<1>7. ASSUME NEW w \in Procs, SaveView(w) \/ ProjectView(w) \/ ApplyEffect(w) \/ RecoverFile(w)
      PROVE  Resolving'
  <2>1. UNCHANGED <<job, board, log>> /\ pc[w] \notin Carrying
    BY <1>7 DEF SaveView, ProjectView, Save, ApplyEffect, RecoverFile, At, Carrying
  <2>2. {"effects", "unlock", "return"} \cap Carrying = {}
    BY DEF Carrying
  <2>3. CASE SaveView(w) \/ ProjectView(w)
    <3>1. \E phase \in {"effects", "unlock", "return"} : Advance(w, Len(ViewOrder), phase)
      BY <2>3 DEF SaveView, ProjectView, Save
    <3> QED BY <1>6, <2>1, <2>2, <3>1
  <2>4. CASE ApplyEffect(w)
    <3>1. Advance(w, Len(job[w].batch[2].effects), "unlock")
      BY <2>4 DEF ApplyEffect
    <3> QED BY <1>6, <2>1, <2>2, <3>1
  <2>5. CASE RecoverFile(w)
    <3>1. Advance(w, Len(PathOrder), "return")
      BY <2>5 DEF RecoverFile
    <3> QED BY <1>6, <2>1, <2>2, <3>1
  <2> QED BY <1>7, <2>3, <2>4, <2>5
<1>8. (\E w \in Procs : Crash(w)) \/ LockReclaimed \/ UNCHANGED vars => UNCHANGED <<pc, job, board, log>>
  BY DEF Crash, LockReclaimed, vars, procVars, storeVars
<1>9. UNCHANGED <<pc, job, board, log>> => Resolving'
  BY DEF Resolving
<1> QED
  BY <1>2, <1>3, <1>4, <1>5, <1>7, <1>8, <1>9, ResolvingAppend DEF Next, Proceed

\* At the start nobody carries anything, and open issues are outstanding.
LEMMA ResolvingInit == Init => Resolving
<1> SUFFICES ASSUME Init PROVE Resolving
  OBVIOUS
<1>1. /\ log \in Setups /\ board = After(EmptyBoard, log) /\ WellFormed(board)
      /\ \A w \in Procs : pc[w] = "idle"
  BY SetupAssumption DEF Init
<1>2. DOMAIN board.tasks = 1..Len(board.tasks)
  BY <1>1, DomainOfSequence DEF WellFormed
<1> DEFINE b == After(EmptyBoard, log)
<1>3. /\ \A i \in DOMAIN b.tasks : b.tasks[i].hotfix => b.tasks[i].issue # None
      /\ \A issue \in b.open : Outstanding(log, issue)
  BY <1>1, IssueAssumption
<1>4. b = board
  BY <1>1
<1> HIDE DEF b
<1> QED BY <1>1, <1>2, <1>3, <1>4 DEF Resolving, Carrying

\* A batch that resolves an issue for a review does it in its second event, and
\* only run.end and verify.ok follow.
LEMMA ReviewResolvesSecond ==
  ASSUME NEW j, Carries(j), j.cmd.op = "review", NEW m \in 2..Len(j.batch), j.batch[m].kind = "issue.resolve"
  PROVE  /\ m = 2 /\ Len(j.batch) \in {3, 4}
         /\ \A n \in 3..Len(j.batch) : j.batch[n].kind \in {"run.end", "verify.ok"}
<1> DEFINE c == j.cmd
<1>1. PICK b, evs, fs : j.batch = Batch(b, evs, c, fs)
  BY DEF Carries
<1> DEFINE cand == Candidates(b, evs, c, fs)
           a == After(b, cand)
<1>2. Closes(j.batch, cand, a)
  BY <1>1, BatchShape
<1>3. Len(cand) \in {1, 2}
  BY ReviewIsShort
<1> HIDE DEF cand, a
<1>4. /\ Len(j.batch) \in {Len(cand) + 1, Len(cand) + 2}
      /\ j.batch[Len(j.batch)].kind = "verify.ok"
      /\ Len(j.batch) = Len(cand) + 2 => j.batch[Len(cand) + 1].kind = "run.end"
  BY <1>2 DEF Closes
<1>5. \A n \in (Len(cand) + 1)..Len(j.batch) : j.batch[n].kind \in {"run.end", "verify.ok"}
  BY <1>3, <1>4
<1>6. m \notin (Len(cand) + 1)..Len(j.batch)
  BY <1>5
<1> DEFINE n == Len(j.batch)
           l == Len(cand)
<1>7. m \in 2..n /\ n \in {l + 1, l + 2} /\ m \notin (l + 1)..n /\ l \in {1, 2}
  BY <1>3, <1>4, <1>6
<1> HIDE DEF n, l
<1>8. l = 2 /\ m = 2 /\ n \in {3, 4}
  <2>1. l \in Nat /\ n \in Nat /\ m \in Nat
    BY <1>7
  <2> QED BY <1>7, <2>1
<1> QED BY <1>5, <1>8 DEF n, l

\* So when the last line of an approved review has been appended, its issue is
\* closed, or had been resolved when the review was read.
LEMMA ApprovalAction ==
  ASSUME Inv, Errands, Resolving, NEW w \in Procs, AppendLine(w), pc'[w] = "views",
         job[w].cmd.op = "review", job[w].cmd.decision = "approve",
         TaskOf(board'.tasks, job[w].cmd.task).hotfix,
         TaskOf(board'.tasks, job[w].cmd.task).issue \in board'.open
  PROVE  ReportedAgain(log', job[w].base, TaskOf(board'.tasks, job[w].cmd.task).issue)
<1> DEFINE j == job[w]
           n == Len(j.batch)
           issue == TaskOf(board'.tasks, j.cmd.task).issue
<1>1. /\ pc[w] = "append" /\ pc[w] \in Carrying /\ Carries(j) /\ w \notin dead
  BY DEF AppendLine, At, Carrying, Errands, Appending
<1>2. step[w] + 1 = n /\ n \in Nat
  <2>1. step[w] + 1 <= n /\ step[w] \in Nat /\ n \in Nat
    BY AppendIsLegal DEF Inv, Shapes, JobOK, IsSequence
  <2>2. ~(step[w] + 1 < n)
    BY <1>1 DEF AppendLine, Advance
  <2> QED BY <2>1, <2>2
<1>3. /\ Follows(plan[w], j.batch) /\ plan[w][n] = board /\ board' = Apply(board, j.batch[n])
      /\ log' = Append(log, j.batch[n])
  BY <1>1, <1>2, AppendIsLegal DEF Inv, OnCourse
<1>4. Resolving'
  BY ResolvingAppend
<1>5. IsSequence(log) /\ Len(log) \in Nat /\ Len(log') = Len(log) + 1 /\ \A i \in 1..Len(log) : log'[i] = log[i]
  BY <1>3, AppendSequence DEF Inv, Shapes, IsSequence
<1>6. DOMAIN log' = 1..Len(log')
  <2>1. IsSequence(log')
    BY <1>3, <1>5, AppendSequence
  <2> QED BY <2>1, DomainOfSequence
<1>7. j.base \in 0..Len(log) /\ (Resolved(log, j.base, issue) \/ ResolvesFrom(j.batch, 2, issue))
  <2>1. Faithful(board', log', j) /\ Faithful(board, log, j)
    BY <1>1, FaithfulAppend DEF Resolving
  <2>2. \A i \in 1..j.base : log'[i] = log[i]
    BY <1>5, <2>1 DEF Faithful
  <2>3. Resolved(log', j.base, issue) \/ ResolvesFrom(j.batch, 2, issue)
    BY <2>1 DEF Faithful
  <2>4. Resolved(log', j.base, issue) => Resolved(log, j.base, issue)
    BY <2>2 DEF Resolved
  <2> QED BY <2>1, <2>3, <2>4 DEF Faithful
<1> HIDE DEF issue, j
<1>8. CASE Resolved(log, j.base, issue)
  <2>1. PICK i \in 1..j.base : Resolves(log[i], issue)
    BY <1>8 DEF Resolved
  <2>2. i \in 1..Len(log') /\ log'[i] = log[i]
    BY <1>5, <1>7, <2>1
  <2>3. Outstanding(log', issue)
    BY <1>4 DEF Resolving, issue, j
  <2>4. PICK m \in (i + 1)..Len(log') : Reports(log'[m], issue)
    BY <2>1, <2>2, <2>3 DEF Outstanding
  <2>5. m \in DOMAIN log' /\ i < m
    BY <1>5, <1>6, <2>2, <2>4
  <2> QED BY <2>1, <2>2, <2>4, <2>5 DEF ReportedAgain, issue, j
<1>9. CASE ResolvesFrom(j.batch, 2, issue)
  <2>1. PICK m \in 2..Len(j.batch) : Resolves(j.batch[m], issue)
    BY <1>9 DEF ResolvesFrom
  <2>2. /\ m = 2 /\ n \in {3, 4}
        /\ \A k \in 3..n : j.batch[k].kind \in {"run.end", "verify.ok"}
    BY <1>1, <2>1, ReviewResolvesSecond DEF Resolves, j
  <2>3. \A k \in 1..n : plan[w][k + 1] = Apply(plan[w][k], j.batch[k])
    BY <1>3 DEF Follows
  <2>4. issue \notin plan[w][3].open
    <3>1. plan[w][3] = Apply(plan[w][2], j.batch[2])
      BY <2>2, <2>3
    <3> QED BY <2>1, <2>2, <3>1 DEF Resolves, Apply
  <2>5. \A k \in 3..n : Apply(plan[w][k], j.batch[k]).open = plan[w][k].open
    BY <2>2 DEF Apply
  <2>6. issue \notin board'.open
    <3>1. CASE n = 3
      BY <1>3, <2>4, <2>5, <3>1
    <3>2. CASE n = 4
      <4>1. plan[w][4] = Apply(plan[w][3], j.batch[3])
        BY <2>3, <3>2
      <4>2. plan[w][4].open = plan[w][3].open /\ board'.open = plan[w][4].open
        BY <1>3, <2>5, <3>2, <4>1
      <4> QED BY <2>4, <4>2
    <3> QED BY <2>2, <3>1, <3>2
  <2> QED BY <2>6 DEF issue, j
<1> QED BY <1>7, <1>8, <1>9

-----------------------------------------------------------------------------
\* The theorems about commands in the middle of a commit.

\* Everything that is known of processes on their way, together.
EnRoute ==
  /\ Replayable
  /\ Errands
  /\ StagedWork
  /\ HotfixTargets
  /\ LimitsSeen
  /\ Mending
  /\ FilesKept
  /\ ViewsKept
  /\ FirstTry
  /\ Resolving

\* Before the first command nobody is on the way, and the files are empty.
LEMMA EnRouteInit == Init => EnRoute
<1> SUFFICES ASSUME Init PROVE EnRoute
  OBVIOUS
<1> USE DEF Init
<1>1. Replayable
  BY ReplayableInit
<1>2. \A w \in Procs : pc[w] = "idle" /\ job[w] = NoJob /\ w \notin dead
  BY DEF MutexInit
<1>3. Errands
  <2>1. \A w \in Procs : DOMAIN job[w] = DOMAIN NoJob
    BY <1>2
  <2> QED BY <1>2, <2>1 DEF Errands, Appending, Carrying
<1>4. StagedWork /\ HotfixTargets /\ LimitsSeen /\ Mending /\ FirstTry
  BY <1>2 DEF StagedWork, HotfixTargets, Carrying, LimitsSeen, Mending, Mended, Mends, FirstTry, Preparing
<1>5. FilesKept
  <2>1. \A p \in Paths : Recorded(log, p) = None
    BY SetupAssumption, NothingRecorded
  <2>2. \A w \in Procs : ~Loading(w)
    BY <1>2 DEF Loading
  <2> QED BY <2>1, <2>2 DEF FilesKept, Restored
<1>6. ViewsKept
  BY <1>2 DEF ViewsKept, AllSaved, Saving
<1>7. Resolving
  BY ResolvingInit
<1> QED BY <1>1, <1>3, <1>4, <1>5, <1>6, <1>7 DEF EnRoute

\* And every step keeps all of it.
LEMMA EnRouteStep ==
  ASSUME Inv, EnRoute, [Next]_vars
  PROVE  EnRoute'
  BY ReplayableStep, ErrandsStep, StagedWorkStep, HotfixTargetsStep, LimitsSeenStep, MendingStep, FilesKeptStep,
     ViewsKeptStep, FirstTryStep, ResolvingStep DEF EnRoute

\* The inductive invariant of the commit protocol.
THEOREM StoreEnRoute == Spec => [](Inv /\ EnRoute)
<1>1. Init => Inv /\ EnRoute
  BY InvInit, EnRouteInit
<1>2. (Inv /\ EnRoute) /\ [Next]_vars => (Inv /\ EnRoute)'
  BY InvStep, EnRouteStep
<1> QED BY <1>1, <1>2, PTL DEF Spec

\* materialize accepts every line of activity.jsonl, whatever was read when,
\* retried as it was built, or cut short, and the board is what it makes of it.
THEOREM StoreReplays == Spec => []LogReplays
<1>1. Inv /\ EnRoute => LogReplays
  BY ReplayableRuns DEF EnRoute
<1> QED BY <1>1, StoreEnRoute, PTL

\* The approval of a hotfix, once its batch is in the log, leaves the issue closed,
\* however the review was decided, retried and interleaved with others; the one
\* exception is an issue that was resolved before the review read the log and
\* reported again.
THEOREM ApprovalsResolve == Spec => ApprovalResolvesIssue
<1> DEFINE Settles == \A w \in Procs :
       LET c == job[w].cmd
           t == TaskOf(board'.tasks, c.task)
       IN  AppendLine(w) /\ pc'[w] = "views" /\ c.op = "review" /\ c.decision = "approve" /\ t.hotfix =>
             t.issue \notin board'.open \/ ReportedAgain(log', job[w].base, t.issue)
<1>1. Inv /\ EnRoute => [Settles]_vars
  BY ApprovalAction DEF EnRoute
<1>2. ApprovalResolvesIssue <=> [][Settles]_vars
  BY DEF ApprovalResolvesIssue
<1> HIDE DEF Settles
<1> QED BY <1>1, <1>2, StoreEnRoute, PTL

\* .roadmap/staging holds the files of submissions that are running, or were
\* killed: every way out of submission.submit removes them.
THEOREM StagingIsSwept == Spec => []StagingSwept
<1>1. Inv /\ EnRoute => StagingSwept
  BY DEF EnRoute, StagedWork, StagingSwept
<1> QED BY <1>1, StoreEnRoute, PTL

\* When nobody is in a commit and none was cut short, the governed files have
\* the content the last write event gives them and every view is a projection
\* of the whole log.
THEOREM SettledStoreMatches == Spec => []SettledMatchesLog
<1>1. Inv /\ EnRoute => SettledMatchesLog
  BY KeptSettles DEF EnRoute
<1> QED BY <1>1, StoreEnRoute, PTL

\* recover brings the files and project the views back to the log, whatever was
\* cut short before, unless another process has written in the meantime.
THEOREM RepairsDoRestore == Spec => []RepairsRestore
<1>1. Inv /\ EnRoute => RepairsRestore
  BY MendingRestores DEF EnRoute
<1> QED BY <1>1, StoreEnRoute, PTL

\* A hotfix event reaches the log only for a task that is done by then.
THEOREM HotfixesAreForDone == Spec => HotfixForDoneTask
<1> DEFINE Done == \A w \in Procs : AppendLine(w) /\ Last(log').kind = "hotfix.create" =>
       \E i \in DOMAIN board.tasks : board.tasks[i].id = job[w].cmd.fixes /\ board.tasks[i].status = "done"
<1>1. Inv /\ EnRoute => [Done]_vars
  BY HotfixAction DEF EnRoute
<1>2. HotfixForDoneTask <=> [][Done]_vars
  BY DEF HotfixForDoneTask
<1> HIDE DEF Done
<1> QED BY <1>1, <1>2, StoreEnRoute, PTL

\* While ids are unique, a write event reaches the log only if the limits of its
\* task are the ones the command read.
THEOREM LimitsAreHonoured == Spec => LimitsHonoured
<1> DEFINE Honoured == \A w \in Procs :
       AppendLine(w) /\ Last(log').kind = "orchestrator.file.write" /\ CreatedOnce =>
         TaskOf(board.tasks, Last(log').task).limits = job[w].captured
<1>1. Inv /\ EnRoute => [Honoured]_vars
  BY LimitsAction DEF EnRoute
<1>2. LimitsHonoured <=> [][Honoured]_vars
  BY DEF LimitsHonoured
<1> HIDE DEF Honoured
<1> QED BY <1>1, <1>2, StoreEnRoute, PTL

\* A batch that is appended on its first attempt says the truth about the state
\* it is appended to.
THEOREM FirstTriesAreTrue == Spec => FirstTryTrue
<1> DEFINE Says == \A w \in Procs : AppendLine(w) /\ job[w].attempt = 0 =>
       LET e == Last(log') IN
       /\ e.kind = "task.create" => e.task \notin Ids(board.tasks)
       /\ e.kind = "run.end" => AllTasksDone(board.tasks)
       /\ e.kind = "verify.ok" => e.certifies = board.tasks
<1>1. Inv /\ EnRoute => [Says]_vars
  BY FirstTryAction DEF EnRoute
<1>2. FirstTryTrue <=> [][Says]_vars
  BY DEF FirstTryTrue
<1> HIDE DEF Says
<1> QED BY <1>1, <1>2, StoreEnRoute, PTL

=============================================================================
