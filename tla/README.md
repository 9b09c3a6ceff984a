# ESAA-Core: a TLA+ verification project

ESAA-Core (`src/src/esaa`, Python) is an event-sourced governance layer for
coding agents.  Every decision about a task (create, claim, complete, review,
issues, hotfixes) is an event, one JSON line of `.roadmap/activity.jsonl`; the
roadmap, issue and lesson files are projections of that log; the files an agent
delivers are written only after the event that records them.  Any number of
processes (agents, operators, CI) run `esaa` commands against one repository at
the same time, with no server: a lock file and optimistic checks are all there
is between them, and any of them can be killed at any point.

This directory models that: the lock, the log as a file and what vouches for it
from outside the repository, the projector, the commands, the commit protocol that
joins them, who may do what and on which evidence, the scheduler that runs agents
over many tasks, and the plugins that bring tasks in.

## 1. Inventory

| Component (source) | State | Operations | Talks to | What makes it correct |
|---|---|---|---|---|
| Store lock (`store.py` 281-418) | `activity.jsonl.lock`: pid, host, time | acquire, takeover, release, time out | every appending command | one writer; a dead owner never blocks the store; a live owner is never robbed |
| Event store (`store.py` 494-590, `service_core.py` 273-318) | `activity.jsonl` | append under lock with optimistic checks, retry, postcommit | lock, projector, views, file effects, trust root | the log always replays; what is appended was decided on what is there |
| Hash chain, parser (`store.py` 100-277) | hashes inside the log | anchor, verify, parse | event store | order and integrity of lines, torn lines refused |
| Projection (`projector.py`, `state_machine.py`, `seeds.all_tasks_done`) | tasks, issues, run status, computed | apply one event or raise | all readers | the task lifecycle, done is final, owner is kept |
| Commands (`submission.py`, `task_admin.py`, `task_amend.py`, `task_limits_admin.py`, `events.py`) | none of their own | read, check, build a batch, commit it | event store, file effects, policy | a batch is true of the state it is appended to |
| File effects (`file_effects.py`, `edits.py`) | `.roadmap/staging`, artifacts, governed files | stage, commit, discard, recover, edit | commands, event store | files are what the log says; nothing staged is left behind |
| Views, project, verify (`service_core.py` 196-271) | roadmap, issues, lessons, profile | save, project, replay, verify | event store | views are projections of the log; `ok` means they are |
| Scheduler (`execution.py`, `seeds.py`, `conflicts.py`, `runtime_policy.py`) | attempts, rejections, cooldown (from the log) | run, eligible, dispatch | adapters, event store | dependencies first, bounded attempts, disjoint write sets |
| Trust root, enrollment (`trust_root.py`, `trust_enrollment.py`, `actor_admin.py`) | pin outside the repository: checkpoint, pending activation | enroll, prepare, advance, catch up | event store, verify | no rollback accepted, no activation lost |
| Identity (`identity.py`, `identity_history.py`) | actors, grants (from the log) | bootstrap, register, authorize | submissions | a grant is used once, reviews are independent |
| Executable verification (`verification_*.py`) | configuration and results (from the log) | enable, run, gate | submissions, event store | a complete rests on evidence for its very inputs |
| Maintenance (`activity_admin.py`, `service_core.init`, `snapshot.py`) | the whole store | clear, init, snapshot | event store | nothing committed is lost |
| Plugins, admission (`plugins.py`, `seeds.py`, `task_creation.py`) | plugin files and events | install, activate, admit | scheduler, commands | a planned task is admitted once |

Without state of their own, or pure I/O: input validation, bootstrap and
contract migration, external and binary payloads, project profile, metrics and
queries, adapters and CLI.  `PROJECT.json` lists each with its reason.

Hard behaviours: commands decide on a log they read without the lock; a retry
appends a batch that was built for an older log; readers see a batch line by
line; takeover and release unlink a path, not a file; a commit writes a log,
four views, any number of files and a checkpoint outside the repository, and can
die between any two of them; `project`, `recover`, `verify`, `activity clear` and
every plugin command write without the lock; checks run for minutes on inputs that
go on changing.

## 2. Modules

```
StoreMutex  <--refines--  StoreLock  <-- MCStoreLock, StoreLockProofs
    |
    |  EXTENDS                TaskLifecycle
    v                              ^ refines
GovernedStore -- EXTENDS --> Envelope -- EXTENDS --> Projection
    ^
    +-- MCGovernedStore, GovernedStoreProofs -- EXTENDS --> ProjectionProofs (about Envelope, Projection)

Scheduler  -- EXTENDS --> Envelope                       <-- MCScheduler, SchedulerProofs (with ProjectionProofs)
EventFile  -- EXTENDS --> StoreMutex; refines Checkpoint <-- MCEventFile, EventFileProofs (with SequenceLemmas)
SignedWork -- EXTENDS --> StoreMutex, VerificationGate -- EXTENDS --> Identity -- EXTENDS --> Lists
    ^
    +-- MCSignedWork, SignedWorkProofs (with SequenceLemmas)
Plugins    -- refines --> PluginRegistry                 <-- MCPlugins, PluginsProofs
```

**StoreMutex** is the lock as the writers rely on it: acquired when free,
released by its holder, reclaimed from the dead.

**StoreLock** is the lock file.  `lockFile` is the file at the path: who
created it, whether its metadata has been written (`Create` and
`WriteMetadata` are two system calls), whether it has reached `lock_max_age`.
`pc` is the place in `_acquire_store_lock`.  Deciding (`Condemn`) and unlinking
(`TakeOver`) are two steps; both `TakeOver` and `Release` unlink whatever is at
the path.  Two history variables: `judged`, whose lock a process decided to
take, and `misfire`, whether some unlink removed a live owner's file.
Clocks are abstract: a file may become old (`Age`), a waiter may reach its
deadline (`GiveUp`).  Pids are not reused.

**Projection** is the projector.  `Legal(b, e)` says that it applies event `e`
to board `b` instead of raising, `Apply` what it makes of it, `Runs` is
`materialize`: the set of the sequences of boards it goes through, empty when
it raises.  `Runs` and the loops of the scheduler are recursive functions, not folds, and
lists are filtered with `Filter` (Lists), because the provers can unfold those.  A task keeps id, status, owner, limits, issue, hotfix, superseded.
The list of tasks may hold an id twice, as in the code, where lookups stop at
the first match (`Index`) or, through a dict, at the last (`LastTaskOf`).

**Envelope** is what a command does before it takes the lock: `Accepts` (its
refusals) and `Batch` (its events: the main one, the file write, a hotfix or an
issue resolution that follows from it, `run.end`, `verify.ok`).  Commands that
read the log twice refuse when it has grown in between, so one read stands for
both.  Checks that depend on the command alone (schema, boundaries, identity)
are left out: the commands of the model pass them.  `verify.start`, which no
state depends on, is left out of the batch.

**TaskLifecycle** is the diagram of `state_machine.py` for a list of tasks.

**GovernedStore** composes them.  A command is `Read` (at an arbitrary moment,
without the lock), `Stage`, `Lock` or `TimeOut`, then `Retry`, `Refuse` or
`Validate`, then `AppendLine` per event, `SaveView` per view, `ApplyEffect` per
file, `Unlock`.  The optimistic check holds on the first attempt only
(`Stale`), as in `_append_events_transactionally`; the batch is built once.
`board` is what `materialize` makes of `log`; it is a variable so that an
append is one application of `Apply`, and `LogReplays` checks it against the
definition.  A view is represented by the length of the log it was projected
from, or by `None` when its writer was killed in the middle of it; a file's content by the set of patches in it (an edit adds one, a full
update replaces all).  `Crash` may happen at any phase; `EffectFails` is a
postcommit that raises.  `project` and `recover` save without the lock.
History: `torn` (some commit was cut short, or a `project` or `recover` wrote
from a log that had grown), `meddled` (someone wrote while a
`project` or `recover` was under way), `issued` (commands given, for the bound).
The lock is StoreMutex: that the lock file behaves so until an unlink misfires
is what StoreLock shows, and what happens after one is outside GovernedStore.

**Scheduler** is `esaa run`.  `Start` reads the store; an iteration
(`Dispatch`, or `AllLate`, `Stall`, `LoopEnds` for the ways out of it) selects
a wave with the functions of `seeds.py` and the lookups of
`runtime_policy.py`; `Deliver` takes one answer of the wave
(`_accept_agent_output`, rejection and escalation included); `Commit` appends
the batch, in one step, as GovernedStore shows in detail, or `Refuse` drops it.
The log is replaced by what the run computes from it: the board and, per task,
its attempts (penalties, last rejection, claim and completion).  A run works
on its own copy of both, plus the batch it collects.  `Submit` is another
agent's accepted command, `Tick` the clock.  Answers are those an agent may
give for the status it is shown, an issue report, and one failure of each kind
the code tells apart (penalized, not penalized, unparsable, and for itself the
timeout).  `Submit` is also `esaa reject`, with which an administrator charges an
attempt that nobody checks or escalates.  Resource limits, file contents, the
identity of reviewers other than the adapter, and amendments of `depends_on` and
outputs, which are constants, are not part of it.

**EventFile** is `.roadmap/activity.jsonl` as a file.  A line has an id (which
command wrote it, as which of its events), its `event_seq`, a kind, the hash of
the one before as that one's id, what an anchor covers, and whether it is
`intact`; `Readable` is `parse_event_store`, `ChainHolds` its chain.  `Trusted` is
`evaluate_trust` with the enrollment.  The owner's record outside the repository
is `pin`: the history its checkpoint vouches for (`hist`, for a seq and a hash of
the history), the bootstrap it names, and the planned history of an activation.
A commit is `Lock`, `Validate` or `Refuse`, for a bootstrap `Intend`, `AppendLine` per
event, `Confirm` (read-after-write), `CheckpointLog` and `Unlock`;
`activity clear` is `Plan`, `Truncate` and a commit, `init` `StartOver` and a commit,
a command in a repository without a log `Create` first; `verify` is `ReadLog` and
`CatchUp`; importing a pin is `Enroll` and `WritePin` under the record's lock: it may hold what the log
holds, or the planned history of an activation that was interrupted, and as in the code
only its length is compared with that of the old one (`Importable`).  Pins that somebody made up
for another history are left out.
`Crash` may leave any part of the line being written, also the whole of it
without its newline.  `Restore` and `Alter` are what happens to a file outside
the program.  History: `acked`, `raced` (the file was emptied, or the
checkpoint moved, on a reading that was out of date), `damage`.
`init --force`, `init_hash_chain(force)`, the signature on a pin and the renewal
of the owner's key are left out.

**Checkpoint** is the promise of the pin: it only ever extends, or is replaced, by one
not shorter, when an owner recovers from an outdated reading.

**Identity**, **VerificationGate** and **SignedWork** are work under identity and
executable checks.  Identity is `identity.py` and `identity_history.py` as operators on
the log: a grant is what was signed (operation, scope, nonce) and the key it was signed with;
`Authentic(evs, e)` is one step of `validate_identity_history`.
VerificationGate is the binding of a run, the cycle of a task, and `Evident`, the
check of a complete.  SignedWork gives commands on a log read without
the lock (`Submit`, `Administer`, `Check`, `ReadToRecover`) and lets them `Retry`,
`Refuse` or `Commit` under it, where the whole history is authenticated again,
deliveries are checked again and a run that no longer fits is recorded as stale (`Guarded`);
`ApplyEffect`, `EffectFails` and `Crash` are what may become of the file.  A file's content is
one of `Contents`.  A commit is one step here: GovernedStore has its steps.  `recover` goes file by file
(`RecoverFile`), with the contents it has read from the log (`LatestByPath`).

**Plugins** has one action per file operation of the plugin commands.  A file
is a set of records, or `Torn` while it is truncated or when two writers have
overlapped; a command that finds it so fails and is left out.  History:
`disturbed`, a command was killed or two overlapped; `job.alone`, nobody else was
at work since the command was given.  Of a package there are its id, its
directory and the form of input its schema asks for.

**PluginRegistry** is what the commands promise, each at once.

## 3. Properties and runs

| Run | Instance | Shows |
|---|---|---|
| `lock_crowd` | 3 processes, 2 hosts, 2 lock files age, 1 death, fair | `VerdictNamesDead`: verdicts are right, only the unlink can go wrong; `ImplementsMutexUntilMisfire`: every way to two owners goes through a misdirected unlink; `DeadLockReclaimed`; `AcquireTerminates` |
| `store_race` | tasks in review and todo, two agents and a reviewer, retries, 1 death, fair | `LogReplays`, `ImplementsLifecycle`, `CommandsEnd` |
| `store_batches` | four stores: the last task of a run in review while others are added; deliveries to common files while limits change; an issue; its hotfix in review; an edit against a base; 3 commands, retries, 1 death, failing postcommit, `project` and `recover` | `SettledMatchesLog`: with the lock free, views and files are what the log says unless a commit was cut short or a `project` or `recover` was overtaken by one; `RepairsRestore`: undisturbed, those two repair that; `StagingSwept`; `LimitsHonoured`, while no id is taken twice; `FirstTryTrue`: what a batch says of the state it is appended to is true on the first attempt; `HotfixForDoneTask`: the unrepeated check is safe because done is final; `ApprovalResolvesIssue`: approving a hotfix closes its issue, but for the one case below |
| `sched_waves` | three stores: A in review and B, which waits for it, only planned; A rejected twice by hand; A done, C in the store and B planned.  `--parallel` 1 and 2, one step and until done, a review, a claim or a rejection by others, 2 ticks, 2 detours, fair | `DependenciesFirst` (for `--parallel` above 1), `DeliveriesDisjoint`, `AdmittedOnce`; `AttemptsBounded`, `ExhaustionReported`: what a run charges is there to be charged, and using it up is reported; `RunsEnd` |
| `file_trust` | an empty store, an anchored one, one enrolled but not bootstrapped, one bootstrapped with and without a process that lacks `ESAA_TRUST_ROOT`; 3 commands of any kind, 1 death, one restoration or edit by hand | `StaysReadable`: no kill and no overlap, but for resets, makes the log unreadable; `AckedKept`: what was acknowledged is in the log or in a backup; `CheckpointOnlyExtends`; `AppendsHonourPin`: nothing is built over what the pin vouches for or an activation has planned; `AlteredNotBuiltOn` |
| `work_evidence` | without identity, two claimed tasks with checks configured; a team, an alias and a delivered task; a team and a checked task; 15 commands, 4 given, retries, 1 death | `NonceOnce`, `IndependentReview`, `NamesKeepTheirKeys`, `RunUsedOnce`, `PassedRunsFresh`, `DeliversWhatPassed` |
| `plugin_lifecycle` | 2 plugins, one in two editions, 5 commands, 1 death | `PlanLoads` and `ImplementsRegistry` until a command is killed or two overlap; `RemoveRepairs` whatever happened before |

Each also checks the `TypeOK` of its module (`store_batches` shares that of
`store_race`).  Five runs end in a violation; each is something the documents say and the code
does not do (`findings` in `PROJECT.json` has the quotations):

| Run | Claim | What happens |
|---|---|---|
| `lock_live_taken` | a live process's lock is never taken (G04 spec) | two waiters judge one dead owner; the second unlinks the first one's new lock |
| `store_duplicate` | full revalidation on retry (G04 spec), never an append over stale state (scenarios guide) | the retry passes no expectations: two `task create` of one id both succeed |
| `sched_dependency` | eligible only when its dependency is done (scenarios guide) | with `--parallel 1` a rejected dependency rests, is not among the candidates, and is ignored |
| `file_corrupted` | `corrupted` means invalid history (CLI reference) | `verify` reads, a commit advances the checkpoint, and the catch-up of `verify` finds its reading behind the checkpoint |
| `work_signed_checked` | evidence and authorization complete a checked task (upgrade guide) | the gate under the lock takes the event, with its identity metadata, for an agent's output, which the schema refuses |

Other disagreements that were met, without a run of their own: an edit may replace
what another command has written since its base was read (`edits.py:91`; read
between the other's append and its files, it is not stale; scenarios guide 259-260);
`verify` answers ok with a stale `issues.json` (`service_core.py:250`; CLI
reference 489); `cleanup_orphan_staging` has no caller (`file_effects.py:189`; CLI reference
574-575); `activity clear` backs up what it read at first and so loses what is
committed until it truncates (`activity_admin.py:78`), and in an enrolled repository it
empties the log and is then refused; installing another edition of an active
plugin makes its new tasks eligible with no activation
(docs/plugins/installing.md 23-24); a review needs a principal for the claim and the complete, which
work begun before the bootstrap does not have, so it can never be approved; the approval
of a hotfix resolves nothing when its issue has been resolved before and was then reported
again, so that the issue stays open (`events.py:196`; CLI reference 582 has
"review(approve) -> issue.resolve"); `on_limit_exceeded` of `RUNTIME_POLICY.yaml` (17-19)
has an `issue.report` with no exceptions, but `esaa reject` (`task_admin.py:385`), which also
charges beyond `max_attempts_per_task`, timeouts and parse failures report none; and
`run --parallel 1 --until-done` goes on for ever between two tasks whose adapter keeps naming
another status and takes longer than the cooldown over each: no attempt is charged, and
the wave is never the one before (`execution.py:165`).

What the code is seen to do wrong is left out of the properties it would break, which then
say that there is no other way:
`AttemptsBounded`, `ExhaustionReported` and `AdmittedOnce` are stated until a
batch is appended to a log it was not built for (`retried`): after that the
counts of two histories add up.  The first two are about what the runs charge: a
run charges no attempt that is not left, however many an administrator has taken
by hand, and one that uses them up says so in the same batch.  `ExhaustionReported`
leaves out timeouts and answers that cannot be parsed, which the code does not escalate.
`RunsEnd` is about adapters that give finitely many answers which neither bring a task
forward nor cost an attempt.  `ApprovalResolvesIssue` admits that the issue had been
resolved when the review read the log, and was reported again.  `SettledMatchesLog` and
`RepairsRestore` leave out commits that were cut short, `project` and `recover` that were
overtaken by a commit, and `PlanLoads` and `ImplementsRegistry` plugin commands that were
killed or overlapped (`torn`, `meddled`, `disturbed`); `FirstTryTrue` retries, which do append a `verify.ok` or `run.end` that
does not hold; `StagingSwept` killed submissions, whose files do stay.
`CheckpointOnlyExtends` lets an owner who recovers an activation, after some `verify` or reset acted on
an outdated reading, replace the history the pin vouches for by one that is not shorter
(`trust_root.py:91` compares lengths).
`DependenciesFirst` is about stores in which the other agents claim only tasks that
depend on nothing (`OthersConsiderate`), as nothing makes them look at dependencies;
in `sched_waves` that is so.  It holds after retries, too.  It asks for some entry of the dependency that is done: when a retry
has admitted a planned task twice, only the first entry is ever worked on.
`StaysReadable`, `AckedKept` and `AppendsHonourPin` leave out `raced`: the resets
that overlap with commands do lose events, as said above.

**Bounds.**  Two processes for the store, three for the lock: the lock's
hazard needs a dead owner and two waiters, the store's need a reader and a
writer between its read and its append.  `MaxCommands` (2 to 5) lets each
process lose a race and act on the result; `MaxDeaths = 1` lets one commit be cut
short at every step and the other process live with it; `MaxAttempts = 1` makes one
rejection block a task.  Batches have two to four events, so that an append can
be seen half done; two views and two files in `store_batches`, so that a commit can be torn
between them.  `Retries` is 1: a retry is never stale again, so one stands
for any number.  Processes run the same code, and three runs without liveness
use that symmetry.  The scheduler has one runner and one other agent: what
a second runner does to the first is append a batch, as the other agent does
(the safety properties are proved for any number of runners).
One tick of the clock is as long as the cooldown and longer than the ttl, so every attempt
and every rest can be over or not, and with two ticks a task can rest twice; one attempt per task blocks it at once;
two detours (changes requested, a failure that costs no attempt, a report) make a
wave come up often enough to stall, and two tasks alternate.  They are bounded because without
that bound `RunsEnd` is false, as said above.  Adapters report no issues in this
run: a report is a detour like the other two.  When the last run is over nobody submits and the
clock stops (`RunsRemain`).  A bootstrap and a reset have two events, so that their append
can be killed in the middle; three commands are one that is killed, one that meets what it
left, and one that overlaps with it.  Four commands of SignedWork are a run, a delivery,
a request for changes and the second delivery; five of Plugins are install, activate,
a removal that is killed, the installation again and the removal that repairs.  `CHECK_DEADLOCK FALSE`, where it is given, because nobody has
to give another command.

**Fairness.**  `FairSpec` of the store: a process that is not dead keeps executing
(`WF(Proceed(w))`); nothing is assumed of commands being given, of deaths, or of
`LockReclaimed`.  A waiter may always give up while the lock is taken, which stands for the
deadline of the acquisition loop.  For the lock: the same, `SF(GiveUp(p))`, because a
waiter that keeps coming back to a taken lock is past its deadline one day.
Nothing is assumed of `Age`: how many lock files get old is bounded by
`MaxAgings`, without which the untimed model would let a waiter, whose loop does
not look at the deadline after a takeover, take over aged locks for ever.  For the
scheduler: a process that runs keeps running, its adapter answers (or fails, which
is an answer).  This is `WF(Proceed(r))`, written without `ENABLED`, which TLC
is too slow to evaluate here: every phase but idle has an enabled step, and `GoesOn` is
what only those steps do.

## 4. Proofs

All for any number of processes, hosts, runners, commands, tasks, dependencies, views and
files, and for any bounds.  The assumptions are the named ASSUMEs of the modules, which TLC
evaluates on every run.  They describe the commands there are and the stores that are found at the start:

- a setup of GovernedStore (`Setups`) replays and has no write events (the governed files are empty at the start); issue
  ids are not empty, hotfixes name an issue, and an issue that is open was reported after it was
  last resolved (`IssueAssumption`; the last two are what the projector does, by an
  induction the provers cannot make);
- `Starts` have logs that can be read and hold no edited line, and an activation that is
  pending was planned on what the pin vouches for (`StartAssumption`);
- an opening of the scheduler replays, has well-formed tasks and one entry per task
  (`OpeningAssumption`); nothing is assumed of attempts and reports.  `TaskOrder` lists an id once
  (`TaskAssumption`); what others submit is an agent's command or `esaa reject`, for a task of the
  project; commands that add or amend tasks next to a run are left out (`SubmissionAssumption`).

The proofs about a component are in a module of its own; SequenceLemmas and ProjectionProofs
are what they share.

**SequenceLemmas** and **ProjectionProofs.**  Sequences as the provers need them (concatenation,
prefixes, the last position of a set; `PickedAre`: what `Filter` picks, in which order), what an
event does to a list of tasks (`ApplyStep`: it adds one, changes one or only marks
supersessions), what a batch is made of (`CandidatesShape`, `BatchShape`), that done stays done (`DoneStays`),
and that `Runs` computes the boards of a replay, when there is one (`RunsAre`), and there is one
at most (`OneReplay`).  That the recursive functions of the model
exist, and what they compute, is shown by induction in the one form the provers can use, over a set
of numbers instead of a predicate (`Counting`; `RunsExist`, `RecordingExist`, `GroupExist`).

**StoreLockProofs.**  `TypeOK`; `MutexUnlessMisfire` (two owners only after an unlink
misfired) from `IInv`: until then, the file at the path was created by whoever owns the lock, and
if its creator is alive, that process owns it (mutual exclusion alone is not
inductive: it must be known whose file is there); `VerdictNamesDead`, with the
fact that a file is not aged while none has been; and that the lock file implements
StoreMutex until an unlink misfires.

**GovernedStoreProofs.**  The inductive invariant `Inv` has
six parts: the shapes of the variables; the step counter is 0 at the start of
every phase; `OneWriter`; every command that has not appended has a non-empty
batch; `OnCourse`: while a live process appends, its `plan` is the run of
boards that `Validate` found, and the store's board is the k-th of them after k lines;
and the board is well formed.  `OnCourse` is the heart: that `Apply` is
performed on a board on which the event is `Legal` follows from it, and it
holds because only the holder of the lock appends.  From `Inv`: `TypeOK`,
`OneWriter`, and `ImplementsLifecycle`: each appended line creates one task in
`todo` or moves one task along one arrow of the diagram, keeping the owner of
every other.  This is proved for any interleaving of reads, retries and
crashes, including crashes in the middle of a batch.

Its second half follows a command from its reading of the
log to its last effect, with `EnRoute`, in ten parts.  `Replayable`: the projector gets through the whole
log and `board` is where it arrives.  `Errands`: a command carries the batch that `Batch`
made of some board and log; `CandidatesShape` and `BatchShape` say what that is (one event
of the command, a write event in second place or none, consequences, `run.end` and
`verify.ok`), by comparing concatenations place by place.  `HotfixTargets`: the target of
a hotfix that is still to be appended is done, because `DoneStays`.  `LimitsSeen`: the limits were compared on the board the batch was
validated on, and only a complete stands between that board and the write event
(`LimitsCarryOver`).  `FirstTry`: a log that is as long as it was when it was read is the
one that was read, so the batch of a first attempt is computed from the board it is appended
to; that its last event certifies the board it meets needs that a replay is unique
(`OneReplay`).  `Resolving`: a hotfix names an issue, and an open issue was reported after it was last
resolved; a command that approves a hotfix carries the
resolution of its issue unless the log had one when it was read (`Faithful`, which the growing log cannot
falsify: those events stay where they are, and a hotfix keeps its issue); so the last event of its batch
closes the issue, or the issue is closed already, or it was reported again after a
resolution that the review has seen.  `StagedWork`: staged files have a live submission on its way.  `FilesKept`:
unless a commit was torn, a file that is not what the log says has a live process
under the lock that is still going to write it; `ViewsKept` the same for views.  `Mending`: what an undisturbed
`project` or `recover` has written is the projection of the log it read, and that
is a prefix of the log.  From them: `LogReplays`, `ApprovalResolvesIssue`, `StagingSwept`, `SettledMatchesLog`,
`RepairsRestore`, `HotfixForDoneTask`, `LimitsHonoured`, `FirstTryTrue`.  What
the last says of first attempts is false of retries (`store_duplicate` finds a task created
twice); the proof shows that there is no other way to it.

**SchedulerProofs.**  All safety properties of `run` from one invariant, `IInv`, of five parts:

- `Typed`: the shape of the store, of the copies that runs work on and of their waves.  It
  includes that of several entries of one id only the first is ever worked on (`FirstWorked`);
- `Copies`: a run that has read all there is works on exactly the store its batch will lead to.
  It connects what a run decides in memory to what its commit does, and is what a
  commit without `retried` rests on;
- `Apart`: what a run has delivered is in its write set, and its deliveries are apart;
- `Orders`: until a retry, the store and every copy have one entry per task, and the tasks of a wave
  are different ones that have attempts left, those charged in the batch included.  The last is what makes the bound hold: a wave is selected once, and each of its tasks is
  charged at most once before the next selection, whether by a timeout or by its answer.  A batch that
  is appended to the log it was built on charges what it charged the copy, whatever was in the
  store before, and its last charge is followed by the report unless it is not escalated;
- `InTurns`: when every run has `--parallel` above 1, what a batch claims has its dependencies
  done in the store, or approved earlier in that batch.  That is stable although the
  store grows under the run, as done tasks stay done, and so holds of a batch that is
  retried on a log it was not built for.

The lemmas follow the code: what a batch does to a store event by event (`HistoryStep`, `HistoryDone`,
`UniqueHistory`, `UnchargedHistory`, `TimeoutHistory`); which tasks each selection of `seeds.py` takes (`EligibleTakes`, `FirstGroupTakes`,
`SelectWaveTakes`, `WaveIs`: every selection is a sublist of the one before);
what a run collects in an iteration, a rejection and an accepted answer
(`IterationIs`, `RejectIs`, `AcceptIs`); then one step per action.

**SignedWorkProofs.**  `IInv` says that the log is a sequence, that every event of
it is authentic given those before, that principals are those of the signatures, and that jobs have
their types.  It is inductive because `Commit` asks `Authentic` again under the
lock; what commands decided earlier is not needed, which is why retries do no
harm.  From it, by comparing prefixes: `NonceOnce`; `NamesKeepTheirKeys` (a
registration and an alias exclude one another from either side);
`IndependentReview`, where `LastPrincipal` must be turned into the last claim and
the last complete (`Greatest` in SequenceLemmas: a nonempty set of positions has a last one).

Its second half is about the executable checks.  `EInv` adds that every complete of a checked task rests on a
passed run of the very cycle (`HistInv`), that no two runs, recorded or under
way, share a number (`NumberInv`), and that between append and file a delivery holds the lock and is
backed by a run made on the files as they are (`EffectInv`; it holds because only
`ApplyEffect` and `RecoverFile` write files, the one needs the lock and the other
is recorded in `torn`).  From it: `DeliversWhatPassed`, `PassedRunsFresh`,
`RunUsedOnce`.

**PluginsProofs.**  Three invariants, each on top of the one before: `TInv`, what files
and jobs hold; `AInv`, that a process that is alone is the only one at work, and how
far its removal is; `RInv`, until the first disturbance, how far the only command
is, with every execution's plugin installed.  From them: `TypeOK`, `RemoveRepairs`,
`PlanLoads`, and that the two files implement PluginRegistry, where a file that is
being written counts as what its writer read (`Steady`).

**EventFileProofs.**  `IInv`: the file and what processes have read and built are
sequences; who has a batch has an operation that appends; whoever is about to write a
pin holds the record's lock, the workspace is enrolled and the pin may still be
imported; a pin that is not set has no history.  It gives `TypeOK`.  `AckedKept` needs `Kept`: what a process that has appended
is going to acknowledge is in the file already.  `StaysReadable` needs `Writing` (whoever is between
lock and end of a commit holds the lock, and has a line left while it appends) and
`Course`: until a reset races or a line is edited, the file without its torn line is
`Sound`, and the file of a process that appends is as much of its plan as it has
written, the plan being sound.  The lemmas about `Sound` are the content: what
`Build` adds to a sound log makes one (`BuildSound`: numbers, one anchor, the chain), and
every beginning of a sound log is one (`PrefixSound`), which is why neither a kill nor an
older copy breaks it.  `AppendsHonourPin` needs `Honouring`: until a reset or a verify acts on
an outdated reading, what the pin vouches for and has bound itself to are beginnings of the
plan of whoever appends, `Harmless` being what others may make of the pin meanwhile.  `CheckpointOnlyExtends` needs it,
too, for `Bound`: until then, what is pending was planned on what the pin vouches for, so that the pin which
recovers it extends the old one.
`AlteredNotBuiltOn` needs `Trustworthy`: pin, plans and what verify has read are free of
edits, and a log that is not has a `Caught` line, with which it is not read
(`MarkedNotRead`) and, as it was edited while nobody ran a command, not appended to; that needs
no restriction to runs without races.

Every safety property that a run checks is thus proved.  Only model-checked: the four liveness properties
(`AcquireTerminates`, `DeadLockReclaimed`, `CommandsEnd`, `RunsEnd`), which the provers cannot reach, as they need
`ENABLED` or an argument about every fair behaviour; and the five claims above, which fail.

## 5. Not modelled

Timestamps, titles, boundaries and other data no modelled decision depends on.
Readers of a view that is being written (only `verify` reads views), saves that raise.
Missing or corrupt artifacts.
Signatures, hashes and files as bytes: a signature is its key, a hash the identity of what
it is of, so forgery and collisions are not considered.  What a check does in its
container is its outcome.  Commands that add no event kind of their
own (replay, metrics, dispatch).  The inbox of `process`, dry runs, the project
profile.  The components marked `not_modelled` in `PROJECT.json`: one-off file
copies, encodings, argument parsing and reports, which keep no state others depend on.

## 6. Plan

1. Proofs: which runs of `esaa run` are safe with `--parallel 1` (under which conditions a dependency
   cannot be missing among the candidates); what of `Orders` survives a retry.
2. **Scheduler**, the rest: hotfixes and resolutions inside a run.
3. `replay`, the inbox of `process`.
