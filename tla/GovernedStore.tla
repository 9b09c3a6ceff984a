---------------------------- MODULE GovernedStore ----------------------------
(***************************************************************************)
(* Processes that run commands of the ESAA command line against one        *)
(* repository.  A command reads the event store without the lock, decides, *)
(* stages the files it will write, takes the lock, validates its batch     *)
(* against what the store holds by then, appends it line by line, saves    *)
(* the views, applies its file effects, and gives the lock back            *)
(* (service_core._append_events_transactionally,                           *)
(* store.append_transactional, submission.submit).  project and recover    *)
(* read the store and write without ever taking the lock.                  *)
(***************************************************************************)
EXTENDS Envelope, StoreMutex

CONSTANTS
  Commands,     \* the commands that may be given
  Setups,       \* logs the store may hold at the start
  PathOrder,    \* the governed files, sorted by path
  ViewOrder,    \* the view files, in the order append_transactional saves them
  Retries,      \* concurrency.submit_retries
  MaxCommands,  \* bound: commands given
  MaxDeaths     \* bound: processes that die

Paths == {PathOrder[i] : i \in DOMAIN PathOrder}
Views == {ViewOrder[i] : i \in DOMAIN ViewOrder}

Resolves(e, issue) == e.kind = "issue.resolve" /\ e.issue = issue
Reports(e, issue) == e.kind = "issue.report" /\ e.issue = issue

\* Every resolution of the issue has been followed by another report.
Outstanding(evs, issue) ==
  \A i \in 1..Len(evs) : Resolves(evs[i], issue) => \E k \in (i + 1)..Len(evs) : Reports(evs[k], issue)

Ops == AgentOps \cup {"create", "amend", "limits", "hotfix", "resolve", "reject", "project", "recover"}

ASSUME CommandAssumption ==
  \A c \in Commands : c.op \in Ops /\ (c.op = "complete" => IsSequence(c.writes))
ASSUME SetupAssumption ==
  \A setup \in Setups :
    /\ IsSequence(setup)
    /\ \A i \in 1..Len(setup) : setup[i].kind # "orchestrator.file.write"
    /\ Replays(EmptyBoard, setup)
    /\ WellFormed(After(EmptyBoard, setup))
\* Issue ids are not empty (report and hotfix name one).  The last conjunct is
\* what the projector does, by induction over the setup: an issue that is open
\* has been reported since it was last resolved.
ASSUME IssueAssumption ==
  /\ \A c \in Commands : c.op \in {"report", "hotfix"} => c.issue # None
  /\ \A setup \in Setups :
       LET b == After(EmptyBoard, setup)
       IN  /\ \A i \in DOMAIN b.tasks : b.tasks[i].hotfix => b.tasks[i].issue # None
           /\ \A issue \in b.open : Outstanding(setup, issue)
ASSUME OrderAssumption == PathOrder \in Seq(Paths) \ {<<>>} /\ ViewOrder \in Seq(Views) \ {<<>>}
ASSUME StoreBoundAssumption == {Retries, MaxCommands, MaxDeaths} \subseteq Nat

VARIABLES
  log,     \* .roadmap/activity.jsonl, one event a line
  board,   \* what materialize makes of the log
  views,   \* for each view file, how many events it was projected from, or
           \* None when it is not whole
  files,   \* the content of each governed file
  staged,  \* processes with files in .roadmap/staging
  pc, job, plan, step,  \* what each process is doing
  torn,    \* history: a process died or failed between its append and its
           \* effects, or project or recover wrote from a log that had grown
  meddled, \* history: processes in project or recover since whose read
           \* another process has written a view or a file
  issued   \* how many commands have been given

storeVars == <<log, board, views, files>>
procVars == <<pc, job, plan, step>>
vars == <<storeVars, staged, procVars, torn, meddled, issued, mutexVars>>

NoJob == [cmd |-> None, base |-> 0, batch |-> <<>>, captured |-> None, attempt |-> 0, until |-> 0]

\* The phases in which a command writes under the lock.
Committing == {"append", "views", "effects"}
UnderLock == Committing \cup {"locked", "unlock"}
Phases == UnderLock \cup {"idle", "staging", "ready", "project", "recover", "return"}

Init ==
  /\ log \in Setups
  /\ board = After(EmptyBoard, log)
  /\ views = [v \in Views |-> Len(log)]
  /\ files = [p \in Paths |-> {}]
  /\ staged = {}
  /\ pc = [w \in Procs |-> "idle"]
  /\ job = [w \in Procs |-> NoJob]
  /\ plan = [w \in Procs |-> <<>>]
  /\ step = [w \in Procs |-> 0]
  /\ torn = FALSE
  /\ meddled = {}
  /\ issued = 0
  /\ MutexInit

At(w, phase) == w \notin dead /\ pc[w] = phase
Goto(w, phase) == pc' = [pc EXCEPT ![w] = phase]

\* The n steps of a phase, one at a time, and then the next phase.
Advance(w, n, phase) ==
  IF step[w] + 1 < n
  THEN step' = [step EXCEPT ![w] = @ + 1] /\ UNCHANGED pc
  ELSE step' = [step EXCEPT ![w] = 0] /\ Goto(w, phase)

\* w writes a view or a file.
Meddle(w) == meddled' = meddled \cup {q \in Procs \ {w} : pc[q] \in {"project", "recover", "return"}}

Unstage(w) == staged' = staged \ {w}

\* The command returns or raises.
Finish(w) ==
  /\ Goto(w, "idle")
  /\ job' = [job EXCEPT ![w] = NoJob]
  /\ plan' = [plan EXCEPT ![w] = <<>>]
  /\ step' = [step EXCEPT ![w] = 0]

-----------------------------------------------------------------------------
\* Reading, without the lock.

Give(w, c, phase, base) ==
  /\ At(w, "idle")
  /\ issued < MaxCommands
  /\ issued' = issued + 1
  /\ Goto(w, phase)
  /\ job' = [job EXCEPT ![w] = [base EXCEPT !.cmd = c]]
  /\ UNCHANGED <<storeVars, staged, plan, step, torn, meddled, mutexVars>>

\* A command that appends: it accepts what it has read and builds its batch.
Read(w, c) ==
  /\ c.op \notin {"project", "recover"}
  /\ Accepts(board, log, c, files, staged = {})
  /\ Give(w, c, IF Writes(c) THEN "staging" ELSE "ready",
          [NoJob EXCEPT !.base = Len(log),
                        !.batch = Batch(board, log, c, files),
                        !.captured = IF Writes(c) THEN TaskOf(board.tasks, c.task).limits ELSE None])

ReadToProject(w, c) ==
  /\ c.op = "project"
  /\ Give(w, c, "project", [NoJob EXCEPT !.until = Len(log)])

ReadToRecover(w, c) ==
  /\ c.op = "recover"
  /\ Give(w, c, "recover", [NoJob EXCEPT !.until = Len(log)])

\* stage_and_compute writes the contents to .roadmap/staging.
Stage(w) ==
  /\ At(w, "staging")
  /\ Goto(w, "ready")
  /\ staged' = staged \cup {w}
  /\ UNCHANGED <<storeVars, job, plan, step, torn, meddled, issued, mutexVars>>

-----------------------------------------------------------------------------
\* append_transactional.

Lock(w) ==
  /\ At(w, "ready")
  /\ Acquire(w)
  /\ Goto(w, "locked")
  /\ UNCHANGED <<storeVars, staged, job, plan, step, torn, meddled, issued>>

\* Mutants of TimeOut: the staged files stay; the deadline is never looked at.
TimeOutKeepingStaged(w) ==
  /\ At(w, "ready")
  /\ holder # NoHolder
  /\ Finish(w)
  /\ UNCHANGED <<storeVars, staged, torn, meddled, issued, mutexVars>>

TimeOutNever(w) ==
  /\ At(w, "ready")
  /\ holder # NoHolder
  /\ UNCHANGED vars

\* STORE_LOCK_TIMEOUT.
TimeOut(w) ==
  /\ At(w, "ready")
  /\ holder # NoHolder
  /\ Unstage(w)
  /\ Finish(w)
  /\ UNCHANGED <<storeVars, torn, meddled, issued, mutexVars>>

\* Mutant of Stale: the comparison is the wrong way round.
StaleReversed(w) == job[w].attempt = 0 /\ Len(log) < job[w].base

\* STALE_STATE_SEQ.  The expectations are passed on the first attempt only.
Stale(w) == job[w].attempt = 0 /\ Len(log) # job[w].base

\* Mutant of LimitsHold: no precommit check.
LimitsUnchecked(w) == job[w].cmd # None

\* precommit: _revalidate_limits_under_lock.
LimitsHold(w) ==
  LET c == job[w].cmd IN
  Writes(c) /\ c.task \in Ids(board.tasks) => LastTaskOf(board.tasks, c.task).limits = job[w].captured

Admissible(w) == ~Stale(w) /\ LimitsHold(w) /\ Replays(board, job[w].batch)

\* Stale on the first attempt: let go of the lock and come again, with the
\* batch as it was built.
Retry(w) ==
  /\ At(w, "locked")
  /\ Stale(w)
  /\ Retries > 0
  /\ Release(w)
  /\ Goto(w, "ready")
  /\ job' = [job EXCEPT ![w].attempt = 1]
  /\ UNCHANGED <<storeVars, staged, plan, step, torn, meddled, issued>>

Refuse(w) ==
  /\ At(w, "locked")
  /\ ~Admissible(w)
  /\ ~(Stale(w) /\ Retries > 0)
  /\ Release(w)
  /\ Unstage(w)
  /\ Finish(w)
  /\ UNCHANGED <<storeVars, torn, meddled, issued>>

\* Mutant of Validate: the batch is persisted without materializing it.
ValidateNothing(w) ==
  /\ At(w, "locked")
  /\ ~Stale(w)
  /\ Goto(w, "append")
  /\ job' = [job EXCEPT ![w].until = Len(log) + Len(job[w].batch)]
  /\ UNCHANGED <<storeVars, staged, plan, step, torn, meddled, issued, mutexVars>>

Validate(w) ==
  /\ At(w, "locked")
  /\ ~Stale(w)
  /\ LimitsHold(w)
  /\ \E boards \in Runs(board, job[w].batch) : plan' = [plan EXCEPT ![w] = boards]
  /\ Goto(w, "append")
  /\ job' = [job EXCEPT ![w].until = Len(log) + Len(job[w].batch)]
  /\ UNCHANGED <<storeVars, staged, step, torn, meddled, issued, mutexVars>>

\* One line of the batch reaches the file, where readers see it.
AppendLine(w) ==
  LET e == job[w].batch[step[w] + 1] IN
  /\ At(w, "append")
  /\ log' = Append(log, e)
  /\ board' = Apply(board, e)
  /\ Advance(w, Len(job[w].batch), "views")
  /\ UNCHANGED <<views, files, staged, job, plan, torn, meddled, issued, mutexVars>>

\* The log has grown since w, in project or recover, read it.
Overtaken(w) == pc[w] \in {"project", "recover"} /\ job[w].until # Len(log)

\* save_roadmap, save_issues, ...: by a commit under the lock, by project
\* without it.
Save(w, phase, next) ==
  /\ At(w, phase)
  /\ views' = [views EXCEPT ![ViewOrder[step[w] + 1]] = job[w].until]
  /\ Advance(w, Len(ViewOrder), next)
  /\ Meddle(w)
  /\ torn' = (torn \/ Overtaken(w))
  /\ UNCHANGED <<log, board, files, staged, job, plan, issued, mutexVars>>

\* Mutant of SaveView: append_transactional without the postcommit call.
SaveViewThenUnlock(w) == Save(w, "views", "unlock")

SaveView(w) == Save(w, "views", IF Writes(job[w].cmd) THEN "effects" ELSE "unlock")

\* postcommit: commit_staged replaces one file after the other.
ApplyEffect(w) ==
  LET effects == job[w].batch[2].effects
      effect == effects[step[w] + 1] IN
  /\ At(w, "effects")
  /\ files' = [files EXCEPT ![effect.path] = effect.after]
  /\ Advance(w, Len(effects), "unlock")
  /\ Meddle(w)
  /\ IF step[w] + 1 = Len(effects) THEN Unstage(w) ELSE UNCHANGED staged
  /\ UNCHANGED <<log, board, views, job, plan, torn, issued, mutexVars>>

\* commit_staged raises: the caller sees a failure, the events stay.
EffectFails(w) ==
  /\ At(w, "effects")
  /\ torn' = TRUE
  /\ Release(w)
  /\ Unstage(w)
  /\ Finish(w)
  /\ UNCHANGED <<storeVars, meddled, issued>>

Unlock(w) ==
  /\ At(w, "unlock")
  /\ Release(w)
  /\ Finish(w)
  /\ UNCHANGED <<storeVars, staged, torn, meddled, issued>>

-----------------------------------------------------------------------------
\* project and recover.

\* Mutant of ProjectView: saves the roadmap only.
ProjectRoadmapOnly(w) ==
  /\ At(w, "project")
  /\ views' = [views EXCEPT !["roadmap"] = job[w].until]
  /\ Goto(w, "return")
  /\ Meddle(w)
  /\ UNCHANGED <<log, board, files, staged, job, plan, step, torn, issued, mutexVars>>

ProjectView(w) == Save(w, "project", "return")

Touches(e, path) == e.kind = "orchestrator.file.write" /\ \E k \in DOMAIN e.effects : e.effects[k].path = path
Final(effects, path) == effects[SelectLastInSeq(effects, LAMBDA x : x.path = path)].after

\* The last content the write events of evs give a file, or None.
Recorded(evs, path) ==
  LET last == SelectLastInSeq(evs, LAMBDA e : Touches(e, path))
  IN  IF last = 0 THEN None ELSE Final(evs[last].effects, path)

RecoverFile(w) ==
  LET path == PathOrder[step[w] + 1]
      content == Recorded(SubSeq(log, 1, job[w].until), path) IN
  /\ At(w, "recover")
  /\ files' = IF content = None THEN files ELSE [files EXCEPT ![path] = content]
  /\ Advance(w, Len(PathOrder), "return")
  /\ Meddle(w)
  /\ torn' = (torn \/ Overtaken(w))
  /\ UNCHANGED <<log, board, views, staged, job, plan, issued, mutexVars>>

Return(w) ==
  /\ At(w, "return")
  /\ Finish(w)
  /\ meddled' = meddled \ {w}
  /\ UNCHANGED <<storeVars, staged, torn, issued, mutexVars>>

-----------------------------------------------------------------------------
\* The process is killed: its lock, its staged files and whatever it has
\* written so far stay.  A view is truncated and written in place (_write_json):
\* the one that was being written may not be whole.
Crash(w) ==
  /\ pc[w] # "idle"
  /\ Cardinality(dead) < MaxDeaths
  /\ Die(w)
  /\ \/ UNCHANGED <<views, meddled>>
     \/ /\ pc[w] \in {"views", "project"}
        /\ views' = [views EXCEPT ![ViewOrder[step[w] + 1]] = None]
        /\ Meddle(w)
  /\ torn' = (torn \/ pc[w] \in Committing \cup {"project", "recover"})
  /\ UNCHANGED <<log, board, files, staged, procVars, issued>>

LockReclaimed ==
  /\ Reclaim
  /\ UNCHANGED <<storeVars, staged, procVars, torn, meddled, issued>>

\* What the code of a process does next; it takes no input and does not fail.
Proceed(w) ==
  \/ Stage(w)
  \/ Lock(w) \/ TimeOut(w)
  \/ Retry(w) \/ Refuse(w) \/ Validate(w)
  \/ AppendLine(w) \/ SaveView(w) \/ ApplyEffect(w) \/ Unlock(w)
  \/ ProjectView(w) \/ RecoverFile(w) \/ Return(w)

Next ==
  \/ \E w \in Procs, c \in Commands : Read(w, c) \/ ReadToProject(w, c) \/ ReadToRecover(w, c)
  \/ \E w \in Procs : Proceed(w) \/ EffectFails(w) \/ Crash(w)
  \/ LockReclaimed

Spec == Init /\ [][Next]_vars

\* A process that is alive keeps executing.
FairSpec == Spec /\ \A w \in Procs : WF_vars(Proceed(w))

-----------------------------------------------------------------------------
TypeOK ==
  /\ MutexTypeOK
  /\ WellFormed(board)
  /\ views \in [Views -> Nat \cup {None}]
  /\ DOMAIN files = Paths
  /\ staged \subseteq Procs
  /\ pc \in [Procs -> Phases]
  /\ DOMAIN job = Procs
  /\ DOMAIN plan = Procs
  /\ step \in [Procs -> Nat]
  /\ torn \in BOOLEAN
  /\ meddled \subseteq Procs
  /\ issued \in 0..MaxCommands

\* append_transactional never bricks the store ("Validacao via materialize antes
\* de persistir"): whatever was read when, retried or cut short, the projector
\* accepts every event in the log, so every later command can read it.
LogReplays ==
  \E boards \in Runs(EmptyBoard, log) : board = Last(boards)

\* A live process between lock and unlock holds the lock, so no two of them
\* write at a time.
OneWriter ==
  \A w \in Procs \ dead : pc[w] \in UnderLock => holder = w

\* Readers of the log see tasks go through the diagram of state_machine.py, one
\* move at a time: approved work was claimed and completed, done is final, and
\* a claimed task never changes hands, although commands are decided on a log
\* that has moved on, retried as they were built, and cut short by crashes.
Progress ==
  [i \in DOMAIN board.tasks |-> [status |-> board.tasks[i].status, owner |-> board.tasks[i].owner]]

Lifecycle == INSTANCE TaskLifecycle WITH NoOwner <- None, progress <- Progress

ImplementsLifecycle == [][Lifecycle!LifecycleNext]_Progress

\* A task id names one task: create_task refuses an id that exists
\* (DUPLICATE_TASK), and the projector trusts it.
CreatedOnce ==
  \A i, j \in DOMAIN board.tasks : board.tasks[i].id = board.tasks[j].id => i = j

\* The precommit check of submission.submit does its work: no file effect is
\* recorded for a task whose resource limits changed after the command read it.
\* (It looks the task up by its last entry, the command by its first.)
LimitsHonoured ==
  [][\A w \in Procs :
       AppendLine(w) /\ Last(log').kind = "orchestrator.file.write" /\ CreatedOnce =>
         TaskOf(board.tasks, Last(log').task).limits = job[w].captured]_vars

\* Between commits the files are what the log says was last written to them and
\* the views are projections of the whole log: only a commit cut short after its
\* append, or a recover or project that has been overtaken, can leave anything
\* else.
SettledMatchesLog ==
  holder = NoHolder /\ ~torn =>
    /\ \A p \in Paths : Recorded(log, p) # None => files[p] = Recorded(log, p)
    /\ \A v \in Views : views[v] = Len(log)

\* A submission that is not running any more has left nothing in
\* .roadmap/staging, unless it was killed; staged files block limit changes.
StagingSwept ==
  \A w \in staged : w \in dead \/ pc[w] \notin {"idle", "staging", "unlock", "project", "recover"}

\* Since w read the log nobody has appended to it or written a file or a view,
\* and nobody alive is about to.
Undisturbed(w) ==
  job[w].until = Len(log) /\ w \notin meddled /\ holder \in dead \cup {NoHolder}

\* Post-crash recovery does its work: when recover has gone through every file
\* undisturbed, files and log agree, whatever was cut short before; and so do
\* the views and the log after project.
RepairsRestore ==
  \A w \in Procs : At(w, "return") /\ Undisturbed(w) =>
    /\ job[w].cmd.op = "recover" => \A p \in Paths : Recorded(log, p) # None => files[p] = Recorded(log, p)
    /\ job[w].cmd.op = "project" => \A v \in Views : views[v] = Len(log)

\* Every command returns or raises, whoever holds the lock or died with it.
CommandsEnd ==
  \A w \in Procs : pc[w] # "idle" ~> pc[w] = "idle" \/ w \in dead

-----------------------------------------------------------------------------
\* What a batch says about the state it was computed on.

\* A batch that is committed on its first attempt is true of the state it is
\* added to: the id of a new task is new, run.end ends a run whose tasks are all
\* done, and the hash in verify.ok is the hash of the projection at that event.
\* (A retry appends the batch as it was built on an older state.)
FirstTryTrue ==
  [][\A w \in Procs : AppendLine(w) /\ job[w].attempt = 0 =>
       LET e == Last(log') IN
       /\ e.kind = "task.create" => e.task \notin Ids(board.tasks)
       /\ e.kind = "run.end" => AllTasksDone(board.tasks)
       /\ e.kind = "verify.ok" => e.certifies = board.tasks]_vars

\* A hotfix is created for a task that is done: its target was checked when the
\* command read the log, and done work never changes.
HotfixForDoneTask ==
  [][\A w \in Procs : AppendLine(w) /\ Last(log').kind = "hotfix.create" =>
       \E i \in DOMAIN board.tasks : board.tasks[i].id = job[w].cmd.fixes /\ board.tasks[i].status = "done"]_vars

\* The issue was resolved among the first n events, and reported again later.
ReportedAgain(evs, n, issue) ==
  \E i \in 1..n, k \in DOMAIN evs : i < k /\ Resolves(evs[i], issue) /\ Reports(evs[k], issue)

\* The approval of a hotfix leaves its issue closed when its batch has reached the
\* log, whatever happened to the issue since the review was decided.  There is one
\* case in which it stays open, and this says there is no other: the issue had
\* already been resolved when the review read the log, and has been reported
\* again.  build_issue_resolve_event then resolves nothing.
ApprovalResolvesIssue ==
  [][\A w \in Procs :
       LET c == job[w].cmd
           t == TaskOf(board'.tasks, c.task)
       IN  AppendLine(w) /\ pc'[w] = "views" /\ c.op = "review" /\ c.decision = "approve" /\ t.hotfix =>
             t.issue \notin board'.open \/ ReportedAgain(log', job[w].base, t.issue)]_vars

=============================================================================
