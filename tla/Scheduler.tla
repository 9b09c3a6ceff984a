------------------------------ MODULE Scheduler ------------------------------
(***************************************************************************)
(* esaa run (execution.py): processes that read the event store once, pick *)
(* wave after wave of tasks, have an adapter work on them, and collect the *)
(* events in memory; only when the loop ends is the whole batch appended.  *)
(* Meanwhile other agents submit to the same store, and time passes:       *)
(* rejected tasks rest for a cooldown, and claims expire.                  *)
(*                                                                         *)
(* The append is one step here; GovernedStore shows it in detail.  So is   *)
(* a submission of another agent.  In place of the log we keep what run    *)
(* computes from it: the board, and of each task what the functions of     *)
(* runtime_policy.py look up in the log.  The outputs of an adapter are    *)
(* commands in the form of Envelope that lead to no hotfix and no          *)
(* resolution (those events are built as Envelope says), or failures.      *)
(***************************************************************************)
EXTENDS Envelope, FiniteSets

CONSTANTS
  Runners,      \* processes that execute run
  AgentOf,      \* the agent_id of each one's adapter
  TaskOrder,    \* all task ids, sorted
  DependsOn,    \* for each task id, the ids it depends on
  Declared,     \* for each task id, outputs.files
  Planned,      \* the ids that are in roadmap plugins
  Dirs,         \* the paths that end with a slash
  Inside,       \* pairs of a path and a directory it is in
  Deliveries,   \* the sets of paths an agent may deliver
  Submissions,  \* what other agents may submit
  Openings,     \* the events that may be in the store at the start
  Limits,       \* values of --parallel
  Steps,        \* values of --steps; Unlimited for --until-done
  Unlimited,
  Issues,       \* what agents may report
  Cooldown,     \* attempt_limits.cooldown_between_attempts
  Ttl,          \* attempt_lifecycle.ttl
  Retries,      \* concurrency.submit_retries
  MaxClock, MaxRuns, MaxSubmits, MaxDetours  \* bounds: time, runs started,
                \* submissions, and the answers of adapters that are a Detour

TaskIds == {TaskOrder[i] : i \in DOMAIN TaskOrder}

ASSUME TaskAssumption ==
  /\ IsSequence(TaskOrder)
  /\ \A i, j \in DOMAIN TaskOrder : TaskOrder[i] = TaskOrder[j] => i = j
  /\ DependsOn \in [TaskIds -> SUBSET TaskIds]
  /\ Planned \subseteq TaskIds
  /\ Inside \subseteq {p[1] : p \in Inside} \X Dirs
  /\ DOMAIN AgentOf = Runners
\* Agents submit, and administrators reject outputs (esaa reject). What else an
\* administrator can append is left out: task.create and hotfix.create add tasks
\* that TaskOrder would have to hold, and task.amend may change depends_on and
\* outputs, which are constants here.
ASSUME SubmissionAssumption ==
  \A c \in Submissions : c.op \in AgentOps \cup {"reject"} /\ c.task \in TaskIds
ASSUME ScheduleBoundAssumption ==
  /\ {MaxAttempts, Cooldown, Ttl, Retries, MaxClock, MaxRuns, MaxSubmits, MaxDetours} \subseteq Nat
  /\ Limits \subseteq Nat \ {0}
  /\ Steps \subseteq (Nat \ {0}) \cup {Unlimited}

VARIABLES
  clock,
  store,    \* the event store: [board, attempts]
  run,      \* what each runner is doing
  limits,   \* history: the --parallel of each run started so far
  retried,  \* history: some batch was appended to a log it was not built for
  submits, detours  \* counters, for the bounds

vars == <<clock, store, run, limits, retried, submits, detours>>

-----------------------------------------------------------------------------
\* What runtime_policy.py finds in the log about a task.

NoAttempts ==
  [penalties |-> 0, charged |-> None, rejectedAt |-> None, claimedAt |-> None, completedAt |-> None]

Penalizing(code) == code # "PRIOR_STATUS_MISMATCH"

\* count_penalizing_rejections.
Penalties(attempts, id) == attempts[id].penalties

\* Mutant of Blocked: one attempt too many.
BlockedLate(attempts, id) == Penalties(attempts, id) > MaxAttempts

Blocked(attempts, id) == Penalties(attempts, id) >= MaxAttempts

InCooldown(attempts, id, now) ==
  attempts[id].rejectedAt # None /\ now - attempts[id].rejectedAt < Cooldown

\* attempt_expired: claimed longer than the ttl ago and not completed since.
Expired(attempts, id, now) ==
  LET a == attempts[id] IN
  /\ a.claimedAt # None
  /\ a.completedAt = None \/ a.completedAt < a.claimedAt
  /\ now - a.claimedAt > Ttl

\* An event at a time, as these functions see it; charged is the last code that
\* cost an attempt.
Noted(attempts, e, now) ==
  CASE e.kind = "output.rejected" /\ Penalizing(e.code) ->
         [attempts EXCEPT ![e.task].penalties = @ + 1, ![e.task].charged = e.code, ![e.task].rejectedAt = now]
    [] e.kind = "output.rejected" /\ ~Penalizing(e.code) ->
         [attempts EXCEPT ![e.task].rejectedAt = now]
    [] e.kind = "claim"    -> [attempts EXCEPT ![e.task].claimedAt = now]
    [] e.kind = "complete" -> [attempts EXCEPT ![e.task].completedAt = now]
    [] OTHER               -> attempts

\* A store, or a run's idea of one, after an event, and after those of a batch.
Entered(s, entry) ==
  [board |-> Apply(s.board, entry.event), attempts |-> Noted(s.attempts, entry.event, entry.at)]

Recording(s, batch) ==
  LET after[n \in 0..Len(batch)] == IF n = 0 THEN s ELSE Entered(after[n - 1], batch[n])
  IN  after[Len(batch)]

Stamped(events, now) == [i \in DOMAIN events |-> [event |-> events[i], at |-> now]]
Events(batch) == [i \in DOMAIN batch |-> batch[i].event]

Opened(opening) ==
  Recording([board |-> EmptyBoard, attempts |-> [id \in TaskIds |-> NoAttempts]], Stamped(opening, 0))

\* A task has one entry.
EntriesUnique(s) ==
  \A i, j \in DOMAIN s.board.tasks : s.board.tasks[i].id = s.board.tasks[j].id => i = j

\* A store that earlier commands have left, none of them a batch of a run on a
\* log it was not built for.
ASSUME OpeningAssumption ==
  \A opening \in Openings :
    /\ IsSequence(opening)
    /\ Replays(EmptyBoard, opening)
    /\ WellFormed(After(EmptyBoard, opening))
    /\ EntriesUnique(Opened(opening))

-----------------------------------------------------------------------------
\* Choosing a wave (seeds.py).

\* tasks_with_planned_plugins: planned tasks the store does not know are todo.
EffectiveTasks(b) ==
  LET planned == Filter(TaskOrder, LAMBDA id : id \in Planned \ Ids(b.tasks))
  IN  b.tasks \o [i \in DOMAIN planned |-> NewTask([kind |-> "task.create", task |-> planned[i]])]

InOrder(tasks) ==
  FlattenSeq([i \in DOMAIN TaskOrder |-> Filter(tasks, LAMBDA t : t.id = TaskOrder[i])])

\* The tasks of a status that are not superseded, sorted.
Having(tasks, status) == Filter(InOrder(tasks), LAMBDA t : t.status = status /\ ~t.superseded)

DoneIn(tasks, id) == id \in Ids(tasks) /\ LastTaskOf(tasks, id).status = "done"

\* select_next_task: a dependency that is not among the tasks counts for nothing.
Ready(tasks) ==
  Filter(Having(tasks, "todo"), LAMBDA t : \A d \in DependsOn[t.id] \cap Ids(tasks) : DoneIn(tasks, d))

\* Mutant of Eligible: as in select_next_task.
EligibleIgnoringMissing(tasks) == Ready(tasks)

\* list_eligible_tasks.
Eligible(tasks) ==
  Filter(Having(tasks, "todo"), LAMBDA t : \A d \in DependsOn[t.id] : DoneIn(tasks, d))

\* conflict_between_sets: the same path, or one in the directory of the other;
\* of two directories only the left one is looked into.
Conflict(left, right) ==
  \E a \in left, b \in right :
    \/ a = b
    \/ a \in Dirs /\ <<b, a>> \in Inside
    \/ a \notin Dirs /\ b \in Dirs /\ <<a, b>> \in Inside

\* The first of parallel_groups: every task that does not conflict with those
\* before it.
FirstGroup(tasks) ==
  LET group[n \in 0..Len(tasks)] ==
        IF n = 0 THEN <<>>
        ELSE LET before == group[n - 1] IN
             IF Conflict(UNION {Declared[before[i].id] : i \in DOMAIN before}, Declared[tasks[n].id])
             THEN before
             ELSE Append(before, tasks[n])
  IN  group[Len(tasks)]

FirstOf(tasks, n) == SubSeq(tasks, 1, IF n < Len(tasks) THEN n ELSE Len(tasks))

\* New work for --parallel above 1; a group is a list of ids.
NewWave(tasks) ==
  LET group == FirstGroup(Eligible(tasks))
  IN  [i \in DOMAIN group |-> LastTaskOf(tasks, group[i].id)]

\* select_task_wave: reviews first, then work in progress, then new work.
SelectWave(tasks, limit) ==
  LET begun == IF Having(tasks, "review") # <<>> THEN Having(tasks, "review") ELSE Having(tasks, "in_progress")
      new   == IF limit = 1 THEN Ready(tasks) ELSE NewWave(tasks)
  IN  FirstOf(IF begun # <<>> THEN begun ELSE new, limit)

-----------------------------------------------------------------------------
\* The loop of run.  A runner works on a copy of the store, which it advances
\* by the events it collects in its batch.

Idle == [pc |-> "idle"]

Init ==
  /\ clock = 0
  /\ \E opening \in Openings : store = Opened(opening)
  /\ run = [r \in Runners |-> Idle]
  /\ limits = <<>>
  /\ retried = FALSE
  /\ submits = 0
  /\ detours = 0

Start(r, limit, steps) ==
  /\ run[r].pc = "idle"
  /\ Len(limits) < MaxRuns
  /\ run' = [run EXCEPT ![r] =
       [pc |-> "select", limit |-> limit, left |-> steps, odd |-> FALSE, store |-> store, batch |-> <<>>,
        wave |-> <<>>, signature |-> <<>>, stalls |-> 0, written |-> {}, fresh |-> TRUE]]
  /\ limits' = Append(limits, limit)
  /\ UNCHANGED <<clock, store, retried, submits, detours>>

\* The batch and the copy of the store after events that happen now.
Collect(r, events) ==
  [r EXCEPT !.batch = @ \o Stamped(events, clock), !.store = Recording(@, Stamped(events, clock))]

Rejected(id, code) == [kind |-> "output.rejected", task |-> id, code |-> code]

\* What an iteration finds: the tasks that are neither blocked nor cooling down,
\* a wave of them, those of the wave whose attempt has expired, and the others.
Candidate(r, t) == ~Blocked(r.store.attempts, t.id) /\ ~InCooldown(r.store.attempts, t.id, clock)
Wave(r) == SelectWave(Filter(EffectiveTasks(r.store.board), LAMBDA t : Candidate(r, t)), r.limit)
Late(r, t) == t.status = "in_progress" /\ Expired(r.store.attempts, t.id, clock)

\* Mutant of Timeouts: nothing is recorded for an attempt that has expired.
TimeoutsForgotten(r) == Filter(<<>>, LAMBDA t : Late(r, t))

Timeouts(r) ==
  LET late == Filter(Wave(r), LAMBDA t : Late(r, t))
  IN  [i \in DOMAIN late |-> Rejected(late[i].id, "ATTEMPT_TIMEOUT")]
Runnable(r) == Filter(Wave(r), LAMBDA t : ~Late(r, t))

Signature(wave) == [i \in DOMAIN wave |-> <<wave[i].id, wave[i].status>>]

\* How often in a row the same tasks have come up in the same status.
Stalls(r) == IF Signature(Runnable(r)) = r.signature THEN r.stalls + 1 ELSE 0

\* iteration, as what is left of it, and its parity: an iteration that leaves
\* everything else as it is takes a step, too.
StepTaken(r) == [r EXCEPT !.left = IF @ = Unlimited THEN @ ELSE @ - 1, !.odd = ~@]

At(r, phase) == run[r].pc = phase
Update(r, value) == run' = [run EXCEPT ![r] = value]

\* The loop is over: run.end and verify.ok complete the batch.
Over(r) == [Collect(r, Closing(r.store.board)) EXCEPT !.pc = "commit", !.wave = <<>>]

LoopEnds(r) ==
  /\ At(r, "select")
  /\ run[r].left = 0 \/ Wave(run[r]) = <<>>
  /\ Update(r, Over(run[r]))
  /\ UNCHANGED <<clock, store, limits, retried, submits, detours>>

\* Another iteration; it takes a step and rejects what is late.
Iterates(r) == At(r, "select") /\ run[r].left # 0 /\ Wave(run[r]) # <<>>
Iterated(r) == Collect(StepTaken(run[r]), Timeouts(run[r]))

AllLate(r) ==
  /\ Iterates(r)
  /\ Runnable(run[r]) = <<>>
  /\ Update(r, Iterated(r))
  /\ UNCHANGED <<clock, store, limits, retried, submits, detours>>

Stall(r) ==
  /\ Iterates(r)
  /\ Runnable(run[r]) # <<>>
  /\ Stalls(run[r]) >= 2
  /\ Update(r, Over(Iterated(r)))
  /\ UNCHANGED <<clock, store, limits, retried, submits, detours>>

\* Mutant of Dispatch: one more dispatch of the wave that has stalled.
DispatchOnceMore(r) ==
  /\ Iterates(r)
  /\ Runnable(run[r]) # <<>>
  /\ Stalls(run[r]) < 3
  /\ Update(r, [Iterated(r) EXCEPT !.pc = "running", !.wave = Runnable(run[r]),
                                   !.signature = Signature(Runnable(run[r])), !.stalls = Stalls(run[r])])
  /\ UNCHANGED <<clock, store, limits, retried, submits, detours>>

\* Mutant of Dispatch: every wave starts with an empty write set.
DispatchForgetting(r) ==
  /\ Iterates(r)
  /\ Runnable(run[r]) # <<>>
  /\ Stalls(run[r]) < 2
  /\ Update(r, [Iterated(r) EXCEPT !.pc = "running", !.wave = Runnable(run[r]), !.written = {},
                                   !.signature = Signature(Runnable(run[r])), !.stalls = Stalls(run[r])])
  /\ UNCHANGED <<clock, store, limits, retried, submits, detours>>

Dispatch(r) ==
  /\ Iterates(r)
  /\ Runnable(run[r]) # <<>>
  /\ Stalls(run[r]) < 2
  /\ Update(r, [Iterated(r) EXCEPT !.pc = "running", !.wave = Runnable(run[r]),
                                   !.signature = Signature(Runnable(run[r])), !.stalls = Stalls(run[r])])
  /\ UNCHANGED <<clock, store, limits, retried, submits, detours>>

-----------------------------------------------------------------------------
\* What comes back from the adapter.

\* The agent acts on the status it is shown, reports an issue, or fails: an
\* output that is refused, one that names another status, one that is no output.
Answers(t, agent) ==
  LET act == CASE t.status = "todo"        -> [op : {"claim"}, task : {t.id}, actor : {agent}]
               [] t.status = "in_progress" -> [op : {"complete"}, task : {t.id}, actor : {agent}, writes : Deliveries]
               [] t.status = "review"      -> [op : {"review"}, task : {t.id}, actor : {agent}, qa : {FALSE},
                                               decision : {"approve", "request_changes"}]
  IN  act \cup [op : {"report"}, task : {t.id}, issue : Issues]
          \cup [op : {"fail"}, task : {t.id},
                code : {"SCHEMA_INVALID", "PRIOR_STATUS_MISMATCH", "LLM_PARSE_FAILED"}]

Delivered(c) == IF c.op = "complete" THEN c.writes ELSE {}

\* An answer that neither brings a task forward nor costs it an attempt.
Detour(c) ==
  \/ c.op = "report"
  \/ c.op = "review" /\ c.decision = "request_changes"
  \/ c.op = "fail" /\ ~Penalizing(c.code)

\* Mutant of Admission: creates planned tasks without looking for them.
AdmissionAgain(r, t) ==
  IF t.id \in Planned THEN <<[kind |-> "task.create", task |-> t.id, supersedes |-> {}]>> ELSE <<>>

\* A planned task is created by the first output that is accepted for it.
Admission(r, t) ==
  IF t.id \in Ids(r.store.board.tasks)
  THEN <<>>
  ELSE <<[kind |-> "task.create", task |-> t.id, supersedes |-> {}]>>

\* Mutant of Reject: escalates when the task was blocked before.
RejectThenEscalateLate(r, t, code) ==
  LET after == Collect(r, <<Rejected(t.id, code)>>)
  IN  IF code # "LLM_PARSE_FAILED" /\ Blocked(r.store.attempts, t.id)
      THEN Collect(after, <<[kind |-> "issue.report", issue |-> <<"MAXATT", t.id>>]>>)
      ELSE after

\* output.rejected; the rejection that uses up the attempts is escalated, but
\* not when the output could not be parsed.
Reject(r, t, code) ==
  LET after == Collect(r, <<Rejected(t.id, code)>>)
  IN  IF code # "LLM_PARSE_FAILED" /\ Blocked(after.store.attempts, t.id)
      THEN Collect(after, <<[kind |-> "issue.report", issue |-> <<"MAXATT", t.id>>]>>)
      ELSE after

\* _accept_agent_output, or the rejection of the output.
Take(r, t, c) ==
  LET main  == Admission(r, t) \o (IF c.op = "fail" THEN <<>> ELSE <<MainEvent(r.store.board, c)>>)
      write == IF Delivered(c) = {} THEN <<>>
               ELSE <<[kind |-> "orchestrator.file.write", task |-> t.id, paths |-> Delivered(c)]>>
  IN  CASE c.op = "fail" -> Reject(r, t, c.code)
        [] c.op # "fail" /\ ~Replays(r.store.board, main) -> Reject(r, t, "LOCK_VIOLATION")
        [] c.op # "fail" /\ Replays(r.store.board, main) /\ Conflict(r.written, Delivered(c)) ->
             Reject(r, t, "WRITE_CONFLICT")
        [] OTHER -> [Collect(r, main \o write) EXCEPT !.written = @ \cup Delivered(c)]

\* The outputs of a wave are taken one after the other.
Deliver(r) ==
  LET t == Head(run[r].wave) IN
  /\ At(r, "running")
  /\ \E c \in Answers(t, AgentOf[r]) :
       /\ detours' = IF Detour(c) THEN detours + 1 ELSE detours
       /\ detours' <= MaxDetours
       /\ Update(r, [Take(run[r], t, c) EXCEPT !.wave = Tail(@),
                                               !.pc = IF Len(run[r].wave) = 1 THEN "select" ELSE "running"])
  /\ UNCHANGED <<clock, store, limits, retried, submits>>

-----------------------------------------------------------------------------
\* The store.

\* Whoever else has read the store is out of date.
Appended(batch) == store' = Recording(store, batch)
Outdate(others) ==
  [r \in Runners |-> IF r \in others /\ run[r].pc # "idle" THEN [run[r] EXCEPT !.fresh = FALSE] ELSE run[r]]

\* _append_events_transactionally: as it was built, also on a log that has
\* grown, when there is a retry.
Commit(r) ==
  /\ At(r, "commit")
  /\ run[r].fresh \/ Retries > 0
  /\ Replays(store.board, Events(run[r].batch))
  /\ Appended(run[r].batch)
  /\ run' = [Outdate(Runners \ {r}) EXCEPT ![r] = Idle]
  /\ retried' = (retried \/ ~run[r].fresh)
  /\ UNCHANGED <<clock, limits, submits, detours>>

\* STALE_STATE_SEQ, or the projector refuses: nothing of the run remains.
Refuse(r) ==
  /\ At(r, "commit")
  /\ (Retries = 0 /\ ~run[r].fresh) \/ ~Replays(store.board, Events(run[r].batch))
  /\ Update(r, Idle)
  /\ UNCHANGED <<clock, store, limits, retried, submits, detours>>

\* A bound: nothing more is looked at when the last run is over.
RunsRemain == Len(limits) < MaxRuns \/ \E r \in Runners : ~At(r, "idle")

\* reject_output, or an event of Envelope.
SubmittedEvent(b, c) == IF c.op = "reject" THEN Rejected(c.task, c.code) ELSE MainEvent(b, c)

\* Another agent submits, if its task has attempts left; or an administrator
\* rejects an output, which nobody checks and nothing escalates.
Submit(c) ==
  LET b == store.board IN
  /\ submits < MaxSubmits /\ RunsRemain
  /\ submits' = submits + 1
  /\ c.op \in AgentOps => Known(b.tasks, c.task) /\ ~Blocked(store.attempts, c.task)
  /\ Replays(b, <<SubmittedEvent(b, c)>>)
  /\ LET main == <<SubmittedEvent(b, c)>>
     IN  Appended(Stamped(main \o Closing(After(b, main)), clock))
  /\ run' = Outdate(Runners)
  /\ UNCHANGED <<clock, limits, retried, detours>>

Tick ==
  /\ clock < MaxClock /\ RunsRemain
  /\ clock' = clock + 1
  /\ UNCHANGED <<store, run, limits, retried, submits, detours>>

\* What a runner does next; its adapter answers sooner or later.
Proceed(r) ==
  \/ LoopEnds(r) \/ AllLate(r) \/ Stall(r) \/ Dispatch(r) \/ Deliver(r)
  \/ Commit(r) \/ Refuse(r)

Next ==
  \/ \E r \in Runners, limit \in Limits, steps \in Steps : Start(r, limit, steps)
  \/ \E r \in Runners : Proceed(r)
  \/ \E c \in Submissions : Submit(c)
  \/ Tick

Spec == Init /\ [][Next]_vars

\* What only Proceed(r) does, and in each of its disjuncts: an operation of its
\* run changes more than whether it has read all there is.
GoesOn(r) == ~At(r, "idle") /\ run'[r] \notin {run[r], [run[r] EXCEPT !.fresh = FALSE]}

\* A process that runs keeps running.  This is WF_vars(Proceed(r)): in every
\* phase but "idle" one of the disjuncts of Proceed(r) is enabled.  ENABLED and
\* Proceed are not used because TLC evaluates them so much slower.
KeepsRunning(r) == []<>At(r, "idle") \/ []<><<GoesOn(r)>>_vars

FairSpec == Spec /\ \A r \in Runners : KeepsRunning(r)

-----------------------------------------------------------------------------
RunShape == {"pc", "limit", "left", "odd", "store", "batch", "wave", "signature", "stalls", "written", "fresh"}

TypeOK ==
  /\ clock \in 0..MaxClock
  /\ WellFormed(store.board)
  /\ DOMAIN store.attempts = TaskIds
  /\ \A id \in TaskIds :
       {store.attempts[id].rejectedAt, store.attempts[id].claimedAt, store.attempts[id].completedAt}
         \subseteq (0..clock) \cup {None}
  /\ \A r \in Runners :
       \/ run[r] = Idle
       \/ DOMAIN run[r] = RunShape /\ WellFormed(run[r].store.board) /\ run[r].stalls \in 0..1

\* run works on tasks in the order of their dependencies: when --parallel is
\* above 1, nothing is claimed before what it depends on is done, although
\* batches are built on old stores and tasks rest or are blocked meanwhile.
\* Nothing holds other agents back: this is about stores in which they claim
\* only tasks that depend on nothing.  Nor is anything checked when task.amend
\* changes depends_on, which does not happen here.
DependenciesDone(s) ==
  \A i \in DOMAIN s.board.tasks :
    LET t == s.board.tasks[i] IN
    t.status # "todo" =>
      \A dep \in DependsOn[t.id] : \E j \in DOMAIN s.board.tasks :
        s.board.tasks[j].id = dep /\ s.board.tasks[j].status = "done"

OthersConsiderate ==
  /\ \A opening \in Openings : DependenciesDone(Opened(opening))
  /\ \A c \in Submissions : c.op = "claim" => DependsOn[c.task] = {}

DependenciesFirst ==
  OthersConsiderate /\ (\A i \in DOMAIN limits : limits[i] > 1) => DependenciesDone(store)

\* One run never delivers to a path twice: its files are replaced only when it
\* ends, and the second delivery would silently undo the first (docs/spec/
\* G02-run-write-conflict.md).
DeliveriesDisjoint ==
  \A r \in Runners : run[r].pc # "idle" =>
    LET events == Events(run[r].batch) IN
    \A i, j \in DOMAIN events :
      i < j /\ {events[i].kind, events[j].kind} = {"orchestrator.file.write"} =>
        ~Conflict(events[i].paths, events[j].paths)

\* A run charges no attempt that a task does not have, through all of its
\* timeouts, conflicts and refused outputs, as long as no batch is appended to a
\* log it was not built for.  Administrators may: esaa reject looks at no limit.
Charges(r, id) ==
  Penalties(store'.attempts, id) > Penalties(store.attempts, id) /\ ~retried' /\ Commit(r)

AttemptsBounded ==
  [][\A r \in Runners, id \in TaskIds : Charges(r, id) => Penalties(store'.attempts, id) <= MaxAttempts]_vars

\* And a run that uses up the attempts of a task reports it in the same batch,
\* unless it was by a timeout or an answer that could not be parsed, which
\* nobody escalates (nor does esaa reject).
Escalated(batch, id) ==
  \E i \in DOMAIN batch : batch[i].event.kind = "issue.report" /\ batch[i].event.issue = <<"MAXATT", id>>

Unescalated == {"ATTEMPT_TIMEOUT", "LLM_PARSE_FAILED"}

ExhaustionReported ==
  [][\A r \in Runners, id \in TaskIds :
       /\ Charges(r, id)
       /\ Blocked(store'.attempts, id)
       /\ store'.attempts[id].charged \notin Unescalated
       => Escalated(run[r].batch, id)]_vars

\* A planned task is admitted once, however often it is dispatched.
AdmittedOnce == ~retried => EntriesUnique(store)

\* A run comes to its end: attempts are used up, and waves stall.  Its adapter
\* may answer what it likes, but only finitely often something that neither
\* brings a task forward nor costs an attempt (MaxDetours).  One that always
\* names another status, and takes longer than the cooldown over it, keeps
\* --parallel 1 alternating between two tasks for ever: no attempt is charged,
\* and each time the wave is not the one before (execution.py:165).
RunsEnd == \A r \in Runners : run[r].pc # "idle" ~> run[r].pc = "idle"

-----------------------------------------------------------------------------
\* "IMPL becomes eligible when SPEC reaches done" (docs/guides/
\* esaa-cenarios.en.md), "run dispatches eligible tasks" (docs/guides/
\* esaa-getting-started.en.md), whatever --parallel is.
DependenciesAlwaysFirst == DependenciesDone(store)

=============================================================================
