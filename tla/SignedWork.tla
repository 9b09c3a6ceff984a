----------------------------- MODULE SignedWork -----------------------------
(***************************************************************************)
(* Agents and operators at work under identity and executable checks       *)
(* (submission.submit, actor_admin.py, verification_service.py).  Every    *)
(* command is decided on a log that was read without the lock, and checked *)
(* again under it, for a retry too: the whole history by                   *)
(* validate_identity_history, deliveries by validate_pending, the freshness*)
(* of a verification run by its guard.  GovernedStore has the commit in    *)
(* detail; here it is one step, and the file effects are another, before   *)
(* the lock is given back.  recover writes files without the lock, one     *)
(* after the other.                                                        *)
(***************************************************************************)
EXTENDS VerificationGate, StoreMutex

CONSTANTS
  Commands,     \* the commands that may be given
  Histories,    \* logs a run may start from
  Contents,     \* what files hold and deliveries bring
  Retries,      \* concurrency.submit_retries
  MaxCommands,  \* bound: commands given
  MaxDeaths     \* bound: processes that die

Tasks == DOMAIN Target
Paths == {Target[t] : t \in Tasks}

ASSUME WorkAssumption == Checked \subseteq Tasks
Decisions == {"approve", "request_changes"}

\* A complete delivers to the file of a task there is, a review decides.
Deliverable(e) == e.act = "complete" => e.task \in Tasks /\ e.content \in Contents
Decided(e) == e.act = "review" => e.decision \in Decisions

\* Checks have not been run yet.
Unchecked(e) == e.act # "verification.run" /\ (e.act = "complete" => e.run = 0)

ASSUME HistoryAssumption ==
  \A h \in Histories :
    /\ IsSequence(h)
    /\ AuthenticHistory(h)
    /\ \A i \in DOMAIN h :
         /\ Legal(SubSeq(h, 1, i - 1), h[i])
         /\ Stamped(h[i]) /\ Deliverable(h[i]) /\ Decided(h[i]) /\ Unchecked(h[i])
ASSUME CommandAssumption ==
  \A c \in Commands :
    /\ c.op = "complete" => c.task \in Tasks /\ c.content \in Contents
    /\ c.op = "review" => c.decision \in Decisions
    /\ c.op = "administer" =>
         c.event.act \in {"actor.bootstrap", "actor.register", "actor.bind_alias", "verification.configure"}
ASSUME WorkBoundAssumption == {Retries, MaxCommands, MaxDeaths} \subseteq Nat

VARIABLES
  log,      \* .roadmap/activity.jsonl
  files,    \* the content of each file
  pc, job,  \* what each process is doing
  torn,     \* history: a delivery was cut short between its append and its
            \* file, or recover has written a file
  issued    \* how many commands have been given

vars == <<log, files, pc, job, torn, issued, mutexVars>>

\* Contents by path: none.
Nothing == [path \in {} |-> 0]

NoJob == [event |-> Configuration(0), base |-> 0, attempt |-> 0, latest |-> Nothing]
Phases == {"idle", "ready", "effects", "recover"}

Init ==
  /\ log \in Histories
  /\ files \in {[path \in Paths |-> content] : content \in Contents}
  /\ pc = [p \in Procs |-> "idle"]
  /\ job = [p \in Procs |-> NoJob]
  /\ torn = FALSE
  /\ issued = 0
  /\ MutexInit

At(p, phase) == p \notin dead /\ pc[p] = phase
Goto(p, phase) == pc' = [pc EXCEPT ![p] = phase]

Finish(p) ==
  /\ Goto(p, "idle")
  /\ job' = [job EXCEPT ![p] = NoJob]

-----------------------------------------------------------------------------
\* Reading, without the lock.

Give(p, phase, event, latest) ==
  /\ At(p, "idle")
  /\ issued < MaxCommands
  /\ issued' = issued + 1
  /\ job' = [job EXCEPT ![p] = [event |-> event, base |-> Len(log), attempt |-> 0, latest |-> latest]]
  /\ Goto(p, phase)
  /\ UNCHANGED <<log, files, torn, mutexVars>>

RunIds == {log[i].run : i \in Doing(log, "verification.run")}

\* The principal that is stamped on the event of a signed command.
Stamp(c) ==
  IF Bootstrapped(log) /\ c.op \in {"claim", "complete", "review"}
  THEN {p.key : p \in Principals(log, c.actor)}
  ELSE {NoKey}

\* submit: authorize_agent_event and validate_evidence on what was read.
Submit(p, c) ==
  /\ c.op \in {"claim", "complete", "review"}
  /\ \E key \in Stamp(c), run \in IF c.op = "complete" /\ c.task \in Checked THEN RunIds ELSE {0} :
       LET e == Step(c.op, c.actor, c.task, c.decision, c.content, run, c.grant, key) IN
       /\ Legal(log, e)
       /\ Evident(log, e, files)
       /\ Authentic(log, e)
       /\ Give(p, "ready", e, Nothing)

\* bootstrap_actor_authority, register_actor, bind_actor_alias,
\* verification_enable: c.event is what the command appends.
Administer(p, c) ==
  /\ c.op = "administer"
  /\ Authentic(log, c.event)
  /\ Give(p, "ready", c.event, Nothing)

\* execute_check, in a container without a network: what is not a success (a
\* timeout, an interruption, no container) counts as a failure.
Outcomes == {"passed", "failed"}

\* verification_run: the checks see a copy of the files as they are now.
Check(p, c) ==
  /\ c.op = "verify"
  /\ Preparable(log, c.actor, c.task)
  /\ \E status \in Outcomes :
       Give(p, "ready", Run(issued + 1, status, Bound(log, c.actor, c.task, c.content, files)), Nothing)

Deliveries(path) == {i \in Doing(log, "complete") : Target[log[i].task] = path}

\* What is recorded last for each file.
LatestByPath ==
  [path \in {path \in Paths : Deliveries(path) # {}} |->
     log[CHOOSE i \in Deliveries(path) : \A j \in Deliveries(path) : j <= i].content]

ReadToRecover(p, c) ==
  /\ c.op = "recover"
  /\ Give(p, "recover", NoJob.event, LatestByPath)

-----------------------------------------------------------------------------
\* append_transactional.

Stale(p) == job[p].attempt = 0 /\ Len(log) # job[p].base

\* Mutant of Guarded: the guard is not asked again under the lock.
GuardedOnce(e) == e

\* The guard of verification_run: a result that no longer fits is recorded as
\* stale.
Guarded(e) ==
  IF /\ e.act = "verification.run"
     /\ LET b == e.binding IN
        ~(Preparable(log, b.actor, b.task) /\ SameBinding(b, Bound(log, b.actor, b.task, b.content, files)))
  THEN [e EXCEPT !.status = "stale"]
  ELSE e

Admissible(p) ==
  LET e == Guarded(job[p].event) IN
  /\ ~Stale(p)
  /\ PendingHolds(log, e, files)
  /\ Legal(log, e)
  /\ Authentic(log, e)

\* Mutant of Retry: as often as the log has moved on.
RetryAgain(p) ==
  /\ At(p, "ready")
  /\ holder = NoHolder
  /\ Len(log) # job[p].base
  /\ job' = [job EXCEPT ![p].attempt = @ + 1]
  /\ UNCHANGED <<log, files, pc, torn, issued, mutexVars>>

Retry(p) ==
  /\ At(p, "ready")
  /\ holder = NoHolder
  /\ Stale(p)
  /\ Retries > 0
  /\ job' = [job EXCEPT ![p].attempt = 1]
  /\ UNCHANGED <<log, files, pc, torn, issued, mutexVars>>

Refuse(p) ==
  /\ At(p, "ready")
  /\ holder = NoHolder
  /\ ~Admissible(p)
  /\ ~(Stale(p) /\ Retries > 0)
  /\ Finish(p)
  /\ UNCHANGED <<log, files, torn, issued, mutexVars>>

\* The events are appended; a delivery keeps the lock for its file.
Commit(p) ==
  /\ At(p, "ready")
  /\ holder = NoHolder
  /\ Admissible(p)
  /\ log' = Append(log, Guarded(job[p].event))
  /\ IF job[p].event.act = "complete"
     THEN Acquire(p) /\ Goto(p, "effects") /\ UNCHANGED job
     ELSE Finish(p) /\ UNCHANGED mutexVars
  /\ UNCHANGED <<files, torn, issued>>

\* commit_staged.
ApplyEffect(p) ==
  /\ At(p, "effects")
  /\ files' = [files EXCEPT ![Target[job[p].event.task]] = job[p].event.content]
  /\ Release(p)
  /\ Finish(p)
  /\ UNCHANGED <<log, torn, issued>>

EffectFails(p) ==
  /\ At(p, "effects")
  /\ torn' = TRUE
  /\ Release(p)
  /\ Finish(p)
  /\ UNCHANGED <<log, files, issued>>

\* recover_file_effects writes to each file what the log it read recorded last
\* for it.  A file that cannot be written is left as it is.
RecoverFile(p) ==
  /\ At(p, "recover")
  /\ \E path \in DOMAIN job[p].latest :
       /\ files' \in {files, [files EXCEPT ![path] = job[p].latest[path]]}
       /\ job' = [job EXCEPT ![p].latest = [other \in DOMAIN @ \ {path} |-> @[other]]]
  /\ torn' = (torn \/ files' # files)
  /\ UNCHANGED <<log, pc, issued, mutexVars>>

RecoverEnds(p) ==
  /\ At(p, "recover")
  /\ DOMAIN job[p].latest = {}
  /\ Finish(p)
  /\ UNCHANGED <<log, files, torn, issued, mutexVars>>

Crash(p) ==
  /\ pc[p] # "idle"
  /\ Cardinality(dead) < MaxDeaths
  /\ Die(p)
  /\ torn' = (torn \/ pc[p] = "effects")
  /\ UNCHANGED <<log, files, pc, job, issued>>

LockReclaimed ==
  /\ Reclaim
  /\ UNCHANGED <<log, files, pc, job, torn, issued>>

Next ==
  \/ \E p \in Procs, c \in Commands : Submit(p, c) \/ Administer(p, c) \/ Check(p, c) \/ ReadToRecover(p, c)
  \/ \E p \in Procs :
       \/ Retry(p) \/ Refuse(p) \/ Commit(p)
       \/ ApplyEffect(p) \/ EffectFails(p) \/ RecoverFile(p) \/ RecoverEnds(p) \/ Crash(p)
  \/ LockReclaimed

Spec == Init /\ [][Next]_vars

-----------------------------------------------------------------------------
TypeOK ==
  /\ MutexTypeOK
  /\ files \in [Paths -> Contents]
  /\ pc \in [Procs -> Phases]
  /\ \A p \in Procs : job[p].base \in Nat /\ job[p].attempt \in 0..1
  /\ torn \in BOOLEAN
  /\ issued \in 0..MaxCommands

\* A signed statement counts once: no two events of the log carry one nonce,
\* although commands check it against a log that may have moved on.
NonceOnce ==
  \A i, j \in DOMAIN log : log[i].grant # NoGrant /\ log[i].grant.nonce = log[j].grant.nonce => i = j

SignedSteps == {i \in DOMAIN log : log[i].act \in {"claim", "complete", "review"} /\ log[i].grant # NoGrant}

\* Nobody approves his own work: whoever signed a review signed neither the
\* last claim nor the last complete of the task before it, under whatever name.
IndependentReview ==
  \A i \in SignedSteps : log[i].act = "review" =>
    \A act \in {"claim", "complete"} :
      \E k \in SignedSteps :
        /\ k < i
        /\ log[k].act = act /\ log[k].task = log[i].task
        /\ \A j \in k + 1..i - 1 : ~(log[j].act = act /\ log[j].task = log[i].task)
        /\ log[k].grant.key # log[i].grant.key

\* Work after the bootstrap is signed, and the name it was done under stands
\* for the key that signed it for ever after.
NamesKeepTheirKeys ==
  \A b \in Doing(log, "actor.bootstrap"), i \in DOMAIN log :
    i > b /\ log[i].act \in {"claim", "complete", "review"} =>
      {p.key : p \in Principals(log, log[i].actor)} = {log[i].grant.key}

\* A run that is recorded as passed was made on the files, configuration and
\* cycle that are current when it is recorded.
PassedRunsFresh ==
  [][\A p \in Procs : Commit(p) /\ Doing(log', "verification.run") # Doing(log, "verification.run") =>
       LET r == log'[Len(log')] IN
       r.status = "passed" => r.binding.inputs = files /\ r.binding.config = ConfigAt(log)
                              /\ r.binding.cycle = Cycle(log, r.binding.task)]_vars

\* What a checked delivery leaves on disk is what its checks have passed on,
\* whoever delivers, configures or reviews in between; only a delivery cut
\* short and a recover can spoil that.
DeliversWhatPassed ==
  [][\A p \in Procs : ApplyEffect(p) /\ ~torn /\ job[p].event.task \in Checked =>
       \E i \in Doing(log, "verification.run") :
         log[i].run = job[p].event.run /\ log[i].status = "passed" /\ log[i].binding.tested = files']_vars

\* Changes that were requested need new evidence: no run is used twice.
RunUsedOnce ==
  \A i, j \in Doing(log, "complete") : log[i].run # 0 /\ log[i].run = log[j].run => i = j

-----------------------------------------------------------------------------
\* What the documents say and the code does not do.

\* "completing such tasks requires verification.execution_id from a passed
\* result bound to" the current candidate, inputs, configuration and cycle
\* (docs/guides/esaa-upgrade-0.5.0b20.en.md); with all of that, and a valid
\* authorization, a complete is not refused.
EvidenceSuffices ==
  [][\A p \in Procs : Refuse(p) /\ job[p].event.act = "complete" =>
       LET e == job[p].event IN
       Stale(p) \/ ~Evident(log, e, files) \/ ~Legal(log, e) \/ ~Authentic(log, e)]_vars

=============================================================================
