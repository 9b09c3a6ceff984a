-------------------------- MODULE SignedWorkProofs --------------------------
(***************************************************************************)
(* What is proved of SignedWork for any processes, teams, tasks, commands  *)
(* and bounds. Whatever interleaves, each event is appended on top of a    *)
(* log it is authentic for, so the log stays an authentic history; that    *)
(* nonces are used once, that reviews are independent and that names keep  *)
(* their keys then follows from authentic histories alone.                 *)
(*                                                                         *)
(* The second half is about the executable checks: what a checked delivery *)
(* leaves on disk is what its checks passed on, and no run of the checks   *)
(* serves two deliveries. Its invariant (EInv) adds to authentic histories *)
(* that runs have numbers of their own, that deliveries rest on the run    *)
(* they name, and that while one is on its way to its file nobody else     *)
(* writes files.                                                           *)
(***************************************************************************)
EXTENDS SignedWork, SequenceLemmas

-----------------------------------------------------------------------------
\* Histories.

Before(evs, i) == SubSeq(evs, 1, i - 1)

\* The events before the i-th are a history of their own.
LEMMA BeforeSequence ==
  ASSUME NEW evs, IsSequence(evs), NEW i \in DOMAIN evs
  PROVE  /\ i \in 1..Len(evs) /\ i \in Nat
         /\ IsSequence(Before(evs, i))
         /\ DOMAIN Before(evs, i) = 1..(i - 1)
         /\ \A j \in 1..(i - 1) : Before(evs, i)[j] = evs[j]
<1>1. i \in 1..Len(evs) /\ Len(evs) \in Nat
  BY DomainOfSequence DEF IsSequence
<1>2. i - 1 \in Nat /\ i - 1 <= Len(evs)
  BY <1>1
<1>3. /\ IsSequence(Before(evs, i))
      /\ Len(Before(evs, i)) = i - 1
      /\ \A j \in 1..(i - 1) : Before(evs, i)[j] = evs[j]
  BY <1>2, PrefixSequence DEF Before
<1> QED BY <1>1, <1>3, DomainOfSequence

\* An authentic history stays one when an event that is authentic for it is appended.
LEMMA AuthenticAppend ==
  ASSUME NEW evs, IsSequence(evs), AuthenticHistory(evs), NEW e, Authentic(evs, e)
  PROVE  AuthenticHistory(Append(evs, e))
<1>1. /\ IsSequence(Append(evs, e))
      /\ Len(Append(evs, e)) = Len(evs) + 1
      /\ \A i \in 1..Len(evs) : Append(evs, e)[i] = evs[i]
      /\ Append(evs, e)[Len(evs) + 1] = e
  BY AppendSequence
<1>2. Len(evs) \in Nat /\ DOMAIN evs = 1..Len(evs) /\ DOMAIN Append(evs, e) = 1..(Len(evs) + 1)
  BY <1>1, DomainOfSequence DEF IsSequence
<1> SUFFICES ASSUME NEW i \in 1..(Len(evs) + 1)
             PROVE  Authentic(SubSeq(Append(evs, e), 1, i - 1), Append(evs, e)[i])
  BY <1>2 DEF AuthenticHistory
<1>3. SubSeq(Append(evs, e), 1, i - 1) = SubSeq(evs, 1, i - 1)
  <2>1. i - 1 \in Nat /\ i - 1 <= Len(evs)
    BY <1>2
  <2> QED BY <2>1, PrefixOfAppend
<1>4. CASE i <= Len(evs)
  <2>1. i \in DOMAIN evs /\ Append(evs, e)[i] = evs[i]
    BY <1>1, <1>2, <1>4
  <2> QED BY <1>3, <2>1 DEF AuthenticHistory
<1>5. CASE i = Len(evs) + 1
  <2>1. SubSeq(evs, 1, i - 1) = evs
    <3>1. i - 1 = Len(evs)
      BY <1>2, <1>5
    <3> QED BY <3>1, WholeSequence
  <2> QED BY <1>1, <1>3, <1>5, <2>1
<1> QED BY <1>2, <1>4, <1>5

\* What is on a signed event has not been used before.
LEMMA SignedIsFresh ==
  ASSUME NEW evs, NEW e, Authentic(evs, e), e.grant # NoGrant
  PROVE  e.grant.nonce # NoGrant.nonce /\ e.grant.nonce \notin Nonces(evs)
<1>1. CASE e.act = "actor.bootstrap"
  BY <1>1 DEF Authentic, Signed
<1>2. CASE e.act = "actor.register"
  BY <1>2 DEF Authentic, Signed
<1>3. CASE e.act = "actor.bind_alias"
  BY <1>3 DEF Authentic, Signed
<1>4. CASE e.act \in {"claim", "complete"}
  <2>1. TransitionAuthorized(evs, e)
    BY <1>4 DEF Authentic
  <2> QED BY <2>1 DEF TransitionAuthorized, Signed
<1>5. CASE e.act = "review"
  <2>1. ReviewAuthorized(evs, e)
    BY <1>5 DEF Authentic
  <2> QED BY <2>1 DEF ReviewAuthorized, Signed
<1>6. CASE e.act \notin {"actor.bootstrap", "actor.register", "actor.bind_alias", "claim", "complete", "review"}
  BY <1>6 DEF Authentic
<1> QED BY <1>1, <1>2, <1>3, <1>4, <1>5, <1>6

\* In an authentic history no nonce is used twice.
LEMMA NoncesDiffer ==
  ASSUME NEW evs, IsSequence(evs), AuthenticHistory(evs),
         NEW i \in DOMAIN evs, NEW j \in DOMAIN evs, j < i,
         evs[j].grant # NoGrant \/ evs[i].grant # NoGrant
  PROVE  evs[i].grant.nonce # evs[j].grant.nonce
<1>1. Authentic(Before(evs, i), evs[i]) /\ Authentic(Before(evs, j), evs[j])
  BY DEF AuthenticHistory, Before
<1>2. j \in 1..(i - 1) /\ j \in DOMAIN Before(evs, i) /\ Before(evs, i)[j] = evs[j]
  BY BeforeSequence
<1>3. evs[j].grant.nonce # NoGrant.nonce => evs[j].grant.nonce \in Nonces(Before(evs, i))
  BY <1>2 DEF Nonces
<1>4. CASE evs[i].grant # NoGrant
  BY <1>1, <1>3, <1>4, SignedIsFresh
<1>5. CASE evs[i].grant = NoGrant
  BY <1>1, <1>5, SignedIsFresh
<1> QED BY <1>4, <1>5

-----------------------------------------------------------------------------
\* The invariant.  A history stays authentic because each command is checked
\* again, under the lock, on top of the log it extends; the rest says that jobs
\* are what the commands made them, so that Commit appends what was checked.

\* Contents of files.
Latest(contents) == \A path \in DOMAIN contents : path \in Paths /\ contents[path] \in Contents

LEMMA NothingIsLatest == Latest(Nothing)
  BY DEF Latest, Nothing

JobOK(j) ==
  /\ j = [event |-> j.event, base |-> j.base, attempt |-> j.attempt, latest |-> j.latest]
  /\ Latest(j.latest)
  /\ j.base \in Nat
  /\ j.attempt \in 0..1
  /\ Stamped(j.event)
  /\ Deliverable(j.event)
  /\ j.event.act = "verification.run" => "act" \in DOMAIN j.event

LogInv ==
  /\ IsSequence(log)
  /\ AuthenticHistory(log)
  /\ \A i \in DOMAIN log : Stamped(log[i]) /\ Deliverable(log[i])

JobInv ==
  /\ job = [p \in Procs |-> job[p]]
  /\ \A p \in Procs :
       /\ JobOK(job[p])
       /\ job[p].base <= Len(log)
       /\ pc[p] = "effects" => job[p].event.act = "complete"

IInv == TypeOK /\ LogInv /\ JobInv

\* Nobody has a job to begin with.
LEMMA NoJobOK == JobOK(NoJob) /\ NoJob.base = 0
<1>1. /\ NoJob.event = Configuration(0) /\ NoJob.base = 0 /\ NoJob.attempt = 0 /\ NoJob.latest = Nothing
      /\ NoJob = [event |-> NoJob.event, base |-> NoJob.base, attempt |-> NoJob.attempt, latest |-> NoJob.latest]
  BY DEF NoJob
<1>2. Configuration(0).act = "verification.configure"
  BY DEF Configuration
<1> QED BY <1>1, <1>2, NothingIsLatest DEF JobOK, Stamped, Deliverable

LEMMA InitInv == Init => IInv
<1> SUFFICES ASSUME Init PROVE IInv
  OBVIOUS
<1>1. MutexTypeOK
  BY DEF Init, MutexInit, MutexTypeOK
<1>2. JobInv
  <2>1. job = [p \in Procs |-> NoJob] /\ \A p \in Procs : job[p] = NoJob /\ pc[p] = "idle"
    BY DEF Init
  <2>2. Len(log) \in Nat
    BY HistoryAssumption DEF Init, IsSequence
  <2> QED BY <2>1, <2>2, NoJobOK DEF JobInv
<1>3. LogInv
  BY HistoryAssumption DEF Init, LogInv
<1>4. TypeOK
  <2>1. files \in [Paths -> Contents] /\ pc \in [Procs -> Phases] /\ torn \in BOOLEAN /\ issued = 0
    BY DEF Init, Phases
  <2>2. MaxCommands \in Nat
    BY WorkBoundAssumption
  <2>3. \A p \in Procs : job[p].base \in Nat /\ job[p].attempt \in 0..1
    BY <1>2 DEF JobInv, JobOK
  <2> QED BY <1>1, <2>1, <2>2, <2>3 DEF TypeOK
<1> QED BY <1>2, <1>3, <1>4 DEF IInv

-----------------------------------------------------------------------------
\* A command that is given, or finished, disturbs nobody else's job.

LEMMA GiveKeeps ==
  ASSUME IInv, NEW p \in Procs, NEW phase \in Phases \ {"effects"}, NEW e, NEW latest,
         Give(p, phase, e, latest), Latest(latest),
         Stamped(e), Deliverable(e), e.act = "verification.run" => "act" \in DOMAIN e
  PROVE  IInv'
<1>1. /\ log' = log /\ files' = files /\ torn' = torn /\ mutexVars' = mutexVars
      /\ issued < MaxCommands /\ issued' = issued + 1
      /\ pc' = [pc EXCEPT ![p] = phase]
      /\ job' = [job EXCEPT ![p] = [event |-> e, base |-> Len(log), attempt |-> 0, latest |-> latest]]
  BY DEF Give, Goto
<1>2. LogInv'
  BY <1>1 DEF IInv, LogInv
<1>3. JobInv'
  <2>1. job' = [q \in Procs |-> IF q = p THEN [event |-> e, base |-> Len(log), attempt |-> 0, latest |-> latest] ELSE job[q]]
    BY <1>1 DEF IInv, JobInv
  <2>2. Len(log) \in Nat
    BY DEF IInv, LogInv, IsSequence
  <2>3. JobOK([event |-> e, base |-> Len(log), attempt |-> 0, latest |-> latest])
    BY <2>2 DEF JobOK
  <2>4. pc'[p] = phase /\ \A q \in Procs \ {p} : pc'[q] = pc[q]
    BY <1>1 DEF IInv, TypeOK
  <2>5. ASSUME NEW q \in Procs
        PROVE  /\ JobOK(job'[q])
               /\ job'[q].base <= Len(log)
               /\ pc'[q] = "effects" => job'[q].event.act = "complete"
    <3>1. CASE q = p
      BY <2>1, <2>2, <2>3, <2>4, <3>1
    <3>2. CASE q # p
      BY <2>1, <2>4, <3>2 DEF IInv, JobInv
    <3> QED BY <3>1, <3>2
  <2>6. job' = [q \in Procs |-> job'[q]]
    BY <2>1
  <2> QED BY <1>1, <2>5, <2>6 DEF JobInv
<1>4. TypeOK'
  <2>1. pc' \in [Procs -> Phases]
    BY <1>1 DEF IInv, TypeOK
  <2>2. issued' \in 0..MaxCommands
    BY <1>1, WorkBoundAssumption DEF IInv, TypeOK
  <2>3. \A q \in Procs : job'[q].base \in Nat /\ job'[q].attempt \in 0..1
    BY <1>3 DEF JobInv, JobOK
  <2> QED BY <1>1, <2>1, <2>2, <2>3 DEF IInv, TypeOK, MutexTypeOK, mutexVars
<1> QED BY <1>2, <1>3, <1>4 DEF IInv

\* A process that is done; the log may have grown.
LEMMA FinishKeeps ==
  ASSUME IInv, NEW p \in Procs, Finish(p), IsSequence(log'), Len(log') >= Len(log)
  PROVE  JobInv' /\ pc' \in [Procs -> Phases]
<1>1. pc' = [pc EXCEPT ![p] = "idle"] /\ job' = [q \in Procs |-> IF q = p THEN NoJob ELSE job[q]]
  BY DEF Finish, Goto, IInv, JobInv
<1>2. pc' \in [Procs -> Phases] /\ pc'[p] = "idle" /\ \A q \in Procs \ {p} : pc'[q] = pc[q]
  BY <1>1 DEF IInv, TypeOK, Phases
<1>3. ASSUME NEW q \in Procs
      PROVE  /\ JobOK(job'[q])
             /\ job'[q].base <= Len(log')
             /\ pc'[q] = "effects" => job'[q].event.act = "complete"
  <2>1. Len(log) \in Nat /\ Len(log') \in Nat
    BY DEF IInv, LogInv, IsSequence
  <2>2. CASE q = p
    BY <1>1, <1>2, <2>1, <2>2, NoJobOK
  <2>3. CASE q # p
    <3>1. job'[q] = job[q] /\ pc'[q] = pc[q]
      BY <1>1, <1>2, <2>3
    <3>2. JobOK(job[q]) /\ job[q].base <= Len(log) /\ (pc[q] = "effects" => job[q].event.act = "complete")
      BY DEF IInv, JobInv
    <3>3. job[q].base \in Nat
      BY <3>2 DEF JobOK
    <3> QED BY <2>1, <3>1, <3>2, <3>3
  <2> QED BY <2>2, <2>3
<1>4. job' = [q \in Procs |-> job'[q]]
  BY <1>1
<1> QED BY <1>2, <1>3, <1>4 DEF JobInv

-----------------------------------------------------------------------------
\* What a submit puts in its job carries the principal that signed it.
LEMMA SubmittedStamped ==
  ASSUME NEW c \in Commands, c.op \in {"claim", "complete", "review"}, NEW key \in Stamp(c), NEW run,
         Authentic(log, Step(c.op, c.actor, c.task, c.decision, c.content, run, c.grant, key))
  PROVE  LET e == Step(c.op, c.actor, c.task, c.decision, c.content, run, c.grant, key) IN
         e.act = c.op /\ Stamped(e) /\ Deliverable(e)
<1> DEFINE e == Step(c.op, c.actor, c.task, c.decision, c.content, run, c.grant, key)
<1>1. /\ e.act = c.op /\ e.actor = c.actor /\ e.task = c.task /\ e.content = c.content
      /\ e.grant = c.grant /\ e.principal = key
  BY DEF Step
<1>2. Authentic(log, e)
  OBVIOUS
<1> HIDE DEF e
<1>3. Deliverable(e)
  BY <1>1, CommandAssumption DEF Deliverable
<1>4. Stamped(e)
  <2> SUFFICES ASSUME e.act \in {"claim", "complete"}, e.principal # NoKey
               PROVE  e.grant # NoGrant /\ e.principal = e.grant.key
    BY DEF Stamped
  <2>1. Bootstrapped(log)
    BY <1>1 DEF Stamp
  <2>2. TransitionAuthorized(log, e)
    BY <1>2, <2>1 DEF Authentic
  <2> QED BY <2>2 DEF TransitionAuthorized, Signed
<1> QED BY <1>1, <1>3, <1>4 DEF e

\* What Commit appends is what it checked, and as well stamped.
LEMMA GuardedOK ==
  ASSUME NEW j, JobOK(j)
  PROVE  /\ Guarded(j.event).act = j.event.act
         /\ Stamped(Guarded(j.event))
         /\ Deliverable(Guarded(j.event))
<1>1. CASE Guarded(j.event) = j.event
  BY <1>1 DEF JobOK
<1>2. CASE Guarded(j.event) # j.event
  <2>1. j.event.act = "verification.run" /\ Guarded(j.event) = [j.event EXCEPT !.status = "stale"]
    BY <1>2 DEF Guarded
  <2>2. "act" \in DOMAIN j.event
    BY <2>1 DEF JobOK
  <2>3. Guarded(j.event).act = "verification.run"
    BY <2>1, <2>2
  <2> QED BY <2>1, <2>3 DEF Stamped, Deliverable
<1> QED BY <1>1, <1>2

\* A log that grows by an event that is checked on top of it.
LEMMA LogGrows ==
  ASSUME LogInv, NEW e, Authentic(log, e), Stamped(e), Deliverable(e), log' = Append(log, e)
  PROVE  LogInv' /\ Len(log') = Len(log) + 1
<1>1. /\ IsSequence(log')
      /\ Len(log') = Len(log) + 1
      /\ \A i \in 1..Len(log) : log'[i] = log[i]
      /\ log'[Len(log) + 1] = e
  BY AppendSequence DEF LogInv
<1>2. AuthenticHistory(log')
  BY AuthenticAppend DEF LogInv
<1>3. Len(log) \in Nat /\ DOMAIN log = 1..Len(log) /\ DOMAIN log' = 1..(Len(log) + 1)
  BY <1>1, DomainOfSequence DEF LogInv, IsSequence
<1>4. ASSUME NEW i \in DOMAIN log'
      PROVE  Stamped(log'[i]) /\ Deliverable(log'[i])
  <2>1. CASE i \in DOMAIN log
    <3>1. log'[i] = log[i]
      BY <1>1, <1>3, <2>1
    <3> QED BY <2>1, <3>1 DEF LogInv
  <2>2. CASE i \notin DOMAIN log
    <3>1. log'[i] = e
      BY <1>1, <1>3, <2>2
    <3> QED BY <3>1
  <2> QED BY <2>1, <2>2
<1> QED BY <1>1, <1>2, <1>4 DEF LogInv

\* The contents recover writes to files are ones that were delivered to them.
LEMMA RecoveredContent == IInv => Latest(LatestByPath)
<1> SUFFICES ASSUME IInv, NEW path \in Paths, Deliveries(path) # {}
             PROVE  log[CHOOSE i \in Deliveries(path) : \A j \in Deliveries(path) : j <= i].content \in Contents
  BY DEF Latest, LatestByPath
<1>1. IsSequence(log) /\ DOMAIN log = 1..Len(log) /\ Len(log) \in Nat
  BY DomainOfSequence DEF IInv, LogInv, IsSequence
<1>2. Deliveries(path) \in SUBSET (1..Len(log))
  BY <1>1 DEF Doing, Deliveries
<1>3. \E i \in Deliveries(path) : \A j \in Deliveries(path) : j <= i
  BY <1>1, <1>2, Greatest
<1> DEFINE last == CHOOSE i \in Deliveries(path) : \A j \in Deliveries(path) : j <= i
<1>4. last \in Deliveries(path)
  BY <1>3
<1> HIDE DEF last
<1>5. last \in DOMAIN log /\ log[last].act = "complete"
  BY <1>4 DEF Deliveries, Doing
<1>6. log[last].content \in Contents
  BY <1>5 DEF IInv, LogInv, Deliverable
<1> QED BY <1>6 DEF last

-----------------------------------------------------------------------------
\* Every step keeps the invariant.
LEMMA StepInv == IInv /\ [Next]_vars => IInv'
<1> SUFFICES ASSUME IInv, [Next]_vars PROVE IInv'
  OBVIOUS
<1>1. ASSUME NEW p \in Procs, NEW c \in Commands, Submit(p, c) PROVE IInv'
  <2>1. PICK key \in Stamp(c), run \in IF c.op = "complete" /\ c.task \in Checked THEN RunIds ELSE {0} :
          /\ Authentic(log, Step(c.op, c.actor, c.task, c.decision, c.content, run, c.grant, key))
          /\ Give(p, "ready", Step(c.op, c.actor, c.task, c.decision, c.content, run, c.grant, key), Nothing)
    BY <1>1 DEF Submit
  <2> DEFINE e == Step(c.op, c.actor, c.task, c.decision, c.content, run, c.grant, key)
  <2>2. c.op \in {"claim", "complete", "review"}
    BY <1>1 DEF Submit
  <2>3. e.act = c.op /\ Stamped(e) /\ Deliverable(e)
    BY <2>1, <2>2, SubmittedStamped
  <2>4. "ready" \in Phases \ {"effects"}
    BY DEF Phases
  <2> HIDE DEF e
  <2>5. Give(p, "ready", e, Nothing)
    BY <2>1 DEF e
  <2> QED BY <2>2, <2>3, <2>4, <2>5, NothingIsLatest, GiveKeeps
<1>2. ASSUME NEW p \in Procs, NEW c \in Commands, Administer(p, c) PROVE IInv'
  <2>1. c.op = "administer" /\ Give(p, "ready", c.event, Nothing)
    BY <1>2 DEF Administer
  <2>2. c.event.act \in {"actor.bootstrap", "actor.register", "actor.bind_alias", "verification.configure"}
    BY <2>1, CommandAssumption
  <2>3. Stamped(c.event) /\ Deliverable(c.event) /\ c.event.act # "verification.run"
    BY <2>2 DEF Stamped, Deliverable
  <2>4. "ready" \in Phases \ {"effects"}
    BY DEF Phases
  <2> QED BY <2>1, <2>3, <2>4, NothingIsLatest, GiveKeeps
<1>3. ASSUME NEW p \in Procs, NEW c \in Commands, Check(p, c) PROVE IInv'
  <2>1. PICK status \in Outcomes :
          Give(p, "ready", Run(issued + 1, status, Bound(log, c.actor, c.task, c.content, files)), Nothing)
    BY <1>3 DEF Check
  <2> DEFINE e == Run(issued + 1, status, Bound(log, c.actor, c.task, c.content, files))
  <2>2. e.act = "verification.run" /\ "act" \in DOMAIN e
    BY DEF Run
  <2> HIDE DEF e
  <2>3. Stamped(e) /\ Deliverable(e)
    BY <2>2 DEF Stamped, Deliverable
  <2>4. "ready" \in Phases \ {"effects"}
    BY DEF Phases
  <2>5. Give(p, "ready", e, Nothing)
    BY <2>1 DEF e
  <2> QED BY <2>2, <2>3, <2>4, <2>5, NothingIsLatest, GiveKeeps
<1>4. ASSUME NEW p \in Procs, NEW c \in Commands, ReadToRecover(p, c) PROVE IInv'
  <2>1. Give(p, "recover", NoJob.event, LatestByPath)
    BY <1>4 DEF ReadToRecover
  <2>2. "recover" \in Phases \ {"effects"}
    BY DEF Phases
  <2> QED BY <2>1, <2>2, NoJobOK, RecoveredContent, GiveKeeps DEF JobOK
<1>5. ASSUME NEW p \in Procs, Retry(p) PROVE IInv'
  <2>1. /\ job' = [job EXCEPT ![p].attempt = 1]
        /\ log' = log /\ files' = files /\ pc' = pc /\ torn' = torn /\ issued' = issued /\ mutexVars' = mutexVars
    BY <1>5 DEF Retry
  <2>2. job' = [q \in Procs |-> IF q = p THEN [job[p] EXCEPT !.attempt = 1] ELSE job[q]]
    BY <2>1 DEF IInv, JobInv
  <2>3. JobOK(job[p])
    BY DEF IInv, JobInv
  <2>4. [job[p] EXCEPT !.attempt = 1] = [event |-> job[p].event, base |-> job[p].base, attempt |-> 1, latest |-> job[p].latest]
    BY <2>3 DEF JobOK
  <2>5. job'[p] = [event |-> job[p].event, base |-> job[p].base, attempt |-> 1, latest |-> job[p].latest]
    BY <2>2, <2>4
  <2>6. JobOK(job'[p]) /\ job'[p].event = job[p].event /\ job'[p].base = job[p].base
    BY <2>3, <2>5 DEF JobOK
  <2>7. ASSUME NEW q \in Procs
        PROVE  JobOK(job'[q]) /\ job'[q].event = job[q].event /\ job'[q].base = job[q].base
    <3>1. CASE q = p
      BY <2>6, <3>1
    <3>2. CASE q # p
      BY <2>2, <3>2 DEF IInv, JobInv
    <3> QED BY <3>1, <3>2
  <2>8. JobInv'
    <3>1. job' = [q \in Procs |-> job'[q]]
      BY <2>2
    <3> QED BY <2>1, <2>7, <3>1 DEF IInv, JobInv
  <2>9. LogInv'
    BY <2>1 DEF IInv, LogInv
  <2>10. TypeOK'
    BY <2>1, <2>7 DEF IInv, TypeOK, JobOK, MutexTypeOK, mutexVars
  <2> QED BY <2>8, <2>9, <2>10 DEF IInv
<1>6. ASSUME NEW p \in Procs, Refuse(p) PROVE IInv'
  <2>1. Finish(p) /\ UNCHANGED <<log, files, torn, issued, mutexVars>>
    BY <1>6 DEF Refuse
  <2>2. LogInv' /\ IsSequence(log') /\ Len(log') >= Len(log)
    BY <2>1 DEF IInv, LogInv, IsSequence
  <2>3. JobInv' /\ pc' \in [Procs -> Phases]
    BY <2>1, <2>2, FinishKeeps
  <2> QED BY <2>1, <2>2, <2>3 DEF IInv, TypeOK, JobInv, JobOK, MutexTypeOK, mutexVars
<1>7. ASSUME NEW p \in Procs, Commit(p) PROVE IInv'
  <2>1. /\ log' = Append(log, Guarded(job[p].event))
        /\ Authentic(log, Guarded(job[p].event))
        /\ UNCHANGED <<files, torn, issued>>
    BY <1>7 DEF Commit, Admissible
  <2>2. JobOK(job[p])
    BY DEF IInv, JobInv
  <2>3. LogInv' /\ Len(log') = Len(log) + 1
    BY <2>1, <2>2, GuardedOK, LogGrows DEF IInv
  <2>4. IsSequence(log') /\ Len(log') >= Len(log) /\ Len(log) \in Nat
    BY <2>3 DEF IInv, LogInv, IsSequence
  <2>5. CASE job[p].event.act = "complete"
    <3>1. Acquire(p) /\ pc' = [pc EXCEPT ![p] = "effects"] /\ job' = job
      BY <1>7, <2>5 DEF Commit, Goto
    <3>2. pc' \in [Procs -> Phases] /\ \A q \in Procs \ {p} : pc'[q] = pc[q]
      BY <3>1 DEF IInv, TypeOK, Phases
    <3>3. ASSUME NEW q \in Procs
          PROVE  /\ JobOK(job'[q])
                 /\ job'[q].base <= Len(log')
                 /\ pc'[q] = "effects" => job'[q].event.act = "complete"
      <4>1. JobOK(job[q]) /\ job[q].base <= Len(log) /\ (pc[q] = "effects" => job[q].event.act = "complete")
        BY DEF IInv, JobInv
      <4>2. job[q].base \in Nat
        BY <4>1 DEF JobOK
      <4>3. job[q].base <= Len(log')
        BY <2>3, <2>4, <4>1, <4>2
      <4> QED BY <2>5, <3>1, <3>2, <4>1, <4>3
    <3>4. JobInv'
      BY <3>1, <3>3 DEF IInv, JobInv
    <3>5. MutexTypeOK'
      BY <3>1 DEF Acquire, IInv, TypeOK, MutexTypeOK
    <3> QED BY <2>1, <2>3, <3>2, <3>4, <3>5 DEF IInv, TypeOK, JobInv, JobOK
  <2>6. CASE job[p].event.act # "complete"
    <3>1. Finish(p) /\ UNCHANGED mutexVars
      BY <1>7, <2>6 DEF Commit
    <3>2. JobInv' /\ pc' \in [Procs -> Phases]
      BY <2>4, <3>1, FinishKeeps
    <3> QED BY <2>1, <2>3, <3>1, <3>2 DEF IInv, TypeOK, JobInv, JobOK, MutexTypeOK, mutexVars
  <2> QED BY <2>5, <2>6
<1>8. ASSUME NEW p \in Procs, ApplyEffect(p) PROVE IInv'
  <2>1. /\ pc[p] = "effects"
        /\ files' = [files EXCEPT ![Target[job[p].event.task]] = job[p].event.content]
        /\ Release(p) /\ Finish(p) /\ UNCHANGED <<log, torn, issued>>
    BY <1>8 DEF ApplyEffect, At
  <2>2. LogInv' /\ IsSequence(log') /\ Len(log') >= Len(log)
    BY <2>1 DEF IInv, LogInv, IsSequence
  <2>3. JobInv' /\ pc' \in [Procs -> Phases]
    BY <2>1, <2>2, FinishKeeps
  <2>4. job[p].event.content \in Contents
    BY <2>1 DEF IInv, JobInv, JobOK, Deliverable
  <2>5. files' \in [Paths -> Contents]
    BY <2>1, <2>4 DEF IInv, TypeOK
  <2>6. MutexTypeOK'
    BY <2>1 DEF Release, IInv, TypeOK, MutexTypeOK
  <2> QED BY <2>1, <2>2, <2>3, <2>5, <2>6 DEF IInv, TypeOK, JobInv, JobOK
<1>9. ASSUME NEW p \in Procs, EffectFails(p) PROVE IInv'
  <2>1. /\ torn' = TRUE /\ Release(p) /\ Finish(p) /\ UNCHANGED <<log, files, issued>>
    BY <1>9 DEF EffectFails
  <2>2. LogInv' /\ IsSequence(log') /\ Len(log') >= Len(log)
    BY <2>1 DEF IInv, LogInv, IsSequence
  <2>3. JobInv' /\ pc' \in [Procs -> Phases]
    BY <2>1, <2>2, FinishKeeps
  <2>4. MutexTypeOK'
    BY <2>1 DEF Release, IInv, TypeOK, MutexTypeOK
  <2> QED BY <2>1, <2>2, <2>3, <2>4 DEF IInv, TypeOK, JobInv, JobOK
<1>10. ASSUME NEW p \in Procs, RecoverFile(p) PROVE IInv'
  <2>1. PICK path \in DOMAIN job[p].latest :
          /\ files' \in {files, [files EXCEPT ![path] = job[p].latest[path]]}
          /\ job' = [job EXCEPT ![p].latest = [other \in DOMAIN job[p].latest \ {path} |-> job[p].latest[other]]]
          /\ torn' = (torn \/ files' # files)
          /\ UNCHANGED <<log, pc, issued, mutexVars>>
    BY <1>10 DEF RecoverFile
  <2>2. JobOK(job[p]) /\ job[p].base <= Len(log) /\ (pc[p] = "effects" => job[p].event.act = "complete")
    BY DEF IInv, JobInv
  <2>3. files' \in [Paths -> Contents]
    <3>1. path \in Paths /\ job[p].latest[path] \in Contents /\ files \in [Paths -> Contents]
      BY <2>2 DEF JobOK, Latest, IInv, TypeOK
    <3> QED BY <2>1, <3>1
  <2>4. PICK rest : rest = [other \in DOMAIN job[p].latest \ {path} |-> job[p].latest[other]]
    OBVIOUS
  <2>5. Latest(rest)
    BY <2>2, <2>4 DEF JobOK, Latest
  <2>6. job' = [q \in Procs |-> IF q = p THEN [job[p] EXCEPT !.latest = rest] ELSE job[q]]
    BY <2>1, <2>4 DEF IInv, JobInv
  <2>7. [job[p] EXCEPT !.latest = rest] =
          [event |-> job[p].event, base |-> job[p].base, attempt |-> job[p].attempt, latest |-> rest]
    BY <2>2 DEF JobOK
  <2>8. JobOK(job'[p]) /\ job'[p].event = job[p].event /\ job'[p].base = job[p].base
    BY <2>2, <2>5, <2>6, <2>7 DEF JobOK
  <2>9. ASSUME NEW q \in Procs
        PROVE  /\ JobOK(job'[q])
               /\ job'[q].base <= Len(log)
               /\ pc[q] = "effects" => job'[q].event.act = "complete"
    <3>1. CASE q = p
      BY <2>2, <2>8, <3>1
    <3>2. CASE q # p
      BY <2>6, <3>2 DEF IInv, JobInv
    <3> QED BY <3>1, <3>2
  <2>10. JobInv'
    <3>1. job' = [q \in Procs |-> job'[q]]
      BY <2>6
    <3> QED BY <2>1, <2>9, <3>1 DEF JobInv
  <2>11. TypeOK'
    <3>1. \A q \in Procs : job'[q].base \in Nat /\ job'[q].attempt \in 0..1
      BY <2>9 DEF JobOK
    <3> QED BY <2>1, <2>3, <3>1 DEF IInv, TypeOK, MutexTypeOK, mutexVars
  <2> QED BY <2>1, <2>10, <2>11 DEF IInv, LogInv
<1>14. ASSUME NEW p \in Procs, RecoverEnds(p) PROVE IInv'
  <2>1. Finish(p) /\ UNCHANGED <<log, files, torn, issued, mutexVars>>
    BY <1>14 DEF RecoverEnds
  <2>2. LogInv' /\ IsSequence(log') /\ Len(log') >= Len(log)
    BY <2>1 DEF IInv, LogInv, IsSequence
  <2>3. JobInv' /\ pc' \in [Procs -> Phases]
    BY <2>1, <2>2, FinishKeeps
  <2> QED BY <2>1, <2>2, <2>3 DEF IInv, TypeOK, JobInv, JobOK, MutexTypeOK, mutexVars
<1>11. ASSUME NEW p \in Procs, Crash(p) PROVE IInv'
  <2>1. Die(p) /\ torn' = (torn \/ pc[p] = "effects") /\ UNCHANGED <<log, files, pc, job, issued>>
    BY <1>11 DEF Crash
  <2>2. MutexTypeOK' /\ torn' \in BOOLEAN
    BY <2>1 DEF Die, IInv, TypeOK, MutexTypeOK
  <2> QED BY <2>1, <2>2 DEF IInv, TypeOK, LogInv, JobInv
<1>12. CASE LockReclaimed
  <2>1. Reclaim /\ UNCHANGED <<log, files, pc, job, torn, issued>>
    BY <1>12 DEF LockReclaimed
  <2>2. MutexTypeOK'
    BY <2>1 DEF Reclaim, IInv, TypeOK, MutexTypeOK
  <2> QED BY <2>1, <2>2 DEF IInv, TypeOK, LogInv, JobInv
<1>13. CASE UNCHANGED vars
  BY <1>13 DEF vars, mutexVars, IInv, TypeOK, MutexTypeOK, LogInv, JobInv
<1> QED BY <1>1, <1>2, <1>3, <1>4, <1>5, <1>6, <1>7, <1>8, <1>9, <1>10, <1>11, <1>12, <1>13, <1>14 DEF Next

LEMMA Invariance == Spec => []IInv
<1>1. Init => IInv
  BY InitInv
<1>2. IInv /\ [Next]_vars => IInv'
  BY StepInv
<1> QED BY <1>1, <1>2, PTL DEF Spec

\* Files hold what commands deliver, and every process is in a known phase.
THEOREM WorkTypeCorrect == Spec => []TypeOK
<1>1. IInv => TypeOK
  BY DEF IInv
<1> QED BY <1>1, Invariance, PTL

-----------------------------------------------------------------------------
\* What follows of authentic histories.

\* A signed statement counts once: no nonce is on two events of the log
\* (validate_identity_history).
THEOREM NoncesCountOnce == Spec => []NonceOnce
<1>1. IInv => NonceOnce
  <2> SUFFICES ASSUME IInv, NEW i \in DOMAIN log, NEW j \in DOMAIN log,
                      log[i].grant # NoGrant, log[i].grant.nonce = log[j].grant.nonce
               PROVE  i = j
    BY DEF NonceOnce
  <2>1. IsSequence(log) /\ AuthenticHistory(log)
    BY DEF IInv, LogInv
  <2>2. i \in Nat /\ j \in Nat
    BY <2>1, BeforeSequence
  <2>3. ~(j < i)
    BY <2>1, NoncesDiffer
  <2>4. ~(i < j)
    BY <2>1, NoncesDiffer
  <2> QED BY <2>2, <2>3, <2>4
<1> QED BY <1>1, Invariance, PTL

\* Who did something last, before a place in the log: if that has a principal,
\* it is on the last event of that act.
LEMMA LastPrincipalPlace ==
  ASSUME NEW evs, IsSequence(evs), NEW act, NEW task, LastPrincipal(evs, act, task) # NoKey
  PROVE  \E k \in DOMAIN evs :
           /\ evs[k].act = act /\ evs[k].task = task
           /\ evs[k].principal = LastPrincipal(evs, act, task)
           /\ \A j \in k + 1..Len(evs) : ~(evs[j].act = act /\ evs[j].task = task)
<1> DEFINE those == {i \in Doing(evs, act) : evs[i].task = task}
           last == CHOOSE i \in those : \A j \in those : j <= i
<1>1. those # {} /\ LastPrincipal(evs, act, task) = evs[last].principal
  BY DEF LastPrincipal
<1>2. DOMAIN evs = 1..Len(evs) /\ Len(evs) \in Nat
  BY DomainOfSequence DEF IsSequence
<1>3. those \in SUBSET (1..Len(evs)) /\ \A i \in 1..Len(evs) : i \in those <=> evs[i].act = act /\ evs[i].task = task
  BY <1>2 DEF Doing
<1> HIDE DEF those
<1>4. last \in those /\ \A j \in those : j <= last
  BY <1>1, <1>2, <1>3, Greatest
<1> HIDE DEF last
<1>5. ASSUME NEW j \in last + 1..Len(evs)
      PROVE  ~(evs[j].act = act /\ evs[j].task = task)
  <2>1. last \in 1..Len(evs) /\ j \in 1..Len(evs) /\ ~(j <= last)
    BY <1>2, <1>3, <1>4
  <2> QED BY <1>3, <1>4, <2>1
<1> QED BY <1>1, <1>2, <1>3, <1>4, <1>5

\* Nobody approves his own work, under whatever name (assert_review_identity).
THEOREM ReviewsAreIndependent == Spec => []IndependentReview
<1>1. IInv => IndependentReview
  <2> SUFFICES ASSUME IInv, NEW i \in SignedSteps, log[i].act = "review", NEW act \in {"claim", "complete"}
               PROVE  \E k \in SignedSteps :
                        /\ k < i
                        /\ log[k].act = act /\ log[k].task = log[i].task
                        /\ \A j \in k + 1..i - 1 : ~(log[j].act = act /\ log[j].task = log[i].task)
                        /\ log[k].grant.key # log[i].grant.key
    BY DEF IndependentReview
  <2>1. /\ IsSequence(log) /\ AuthenticHistory(log)
        /\ \A k \in DOMAIN log : Stamped(log[k])
        /\ i \in DOMAIN log /\ log[i].grant # NoGrant
    BY DEF IInv, LogInv, SignedSteps
  <2> DEFINE evs == Before(log, i)
  <2>2. /\ i \in 1..Len(log) /\ i \in Nat /\ IsSequence(evs)
        /\ DOMAIN evs = 1..(i - 1) /\ \A j \in 1..(i - 1) : evs[j] = log[j]
    BY <2>1, BeforeSequence
  <2>3. Len(evs) = i - 1
    BY <2>1, <2>2, PrefixSequence DEF Before, IsSequence
  <2>4. DOMAIN log = 1..Len(log) /\ Len(log) \in Nat
    BY <2>1, DomainOfSequence DEF IsSequence
  <2>5. ReviewAuthorized(evs, log[i])
    BY <2>1 DEF AuthenticHistory, Authentic, Before
  <2> HIDE DEF evs
  <2>6. /\ LastPrincipal(evs, act, log[i].task) # NoKey
        /\ LastPrincipal(evs, act, log[i].task) # log[i].grant.key
    BY <2>5 DEF ReviewAuthorized, Signed
  <2>7. PICK k \in DOMAIN evs :
          /\ evs[k].act = act /\ evs[k].task = log[i].task
          /\ evs[k].principal = LastPrincipal(evs, act, log[i].task)
          /\ \A j \in k + 1..Len(evs) : ~(evs[j].act = act /\ evs[j].task = log[i].task)
    BY <2>2, <2>6, LastPrincipalPlace
  <2>8. k \in 1..(i - 1) /\ k \in DOMAIN log /\ k < i /\ evs[k] = log[k]
    BY <2>2, <2>4, <2>7
  <2>9. log[k].grant # NoGrant /\ log[k].principal = log[k].grant.key
    BY <2>1, <2>6, <2>7, <2>8 DEF Stamped
  <2>10. \A j \in k + 1..i - 1 : ~(log[j].act = act /\ log[j].task = log[i].task)
    BY <2>2, <2>3, <2>7, <2>8
  <2>11. k \in SignedSteps
    BY <2>7, <2>8, <2>9 DEF SignedSteps
  <2> QED BY <2>6, <2>7, <2>8, <2>9, <2>10, <2>11
<1> QED BY <1>1, Invariance, PTL

-----------------------------------------------------------------------------
\* Names.  In an authentic history a name is registered once or bound once as
\* an alias, never both, so what it stands for does not change.

LEMMA NamesDiffer ==
  ASSUME NEW evs, IsSequence(evs), AuthenticHistory(evs), NEW i \in DOMAIN evs, NEW j \in DOMAIN evs
  PROVE  /\ evs[i].act = "actor.register" /\ evs[j].act = "actor.register" /\ evs[i].name = evs[j].name => i = j
         /\ evs[i].act = "actor.bind_alias" /\ evs[j].act = "actor.bind_alias" /\ evs[i].alias = evs[j].alias => i = j
         /\ evs[i].act = "actor.register" /\ evs[j].act = "actor.bind_alias" => evs[i].name # evs[j].alias
<1>1. ASSUME NEW k \in DOMAIN evs, NEW l \in DOMAIN evs, l < k,
             evs[k].act = "actor.register", evs[l].act = "actor.register"
      PROVE  evs[k].name # evs[l].name
  <2>1. Registerable(Before(evs, k), evs[k])
    BY <1>1 DEF AuthenticHistory, Authentic, Before
  <2>2. l \in DOMAIN Before(evs, k) /\ Before(evs, k)[l] = evs[l]
    BY <1>1, BeforeSequence
  <2> QED BY <1>1, <2>1, <2>2 DEF Registerable, ActorsNamed, Doing
<1>2. ASSUME NEW k \in DOMAIN evs, NEW l \in DOMAIN evs, l < k,
             evs[k].act = "actor.bind_alias", evs[l].act = "actor.bind_alias"
      PROVE  evs[k].alias # evs[l].alias
  <2>1. Bindable(Before(evs, k), evs[k])
    BY <1>2 DEF AuthenticHistory, Authentic, Before
  <2>2. l \in DOMAIN Before(evs, k) /\ Before(evs, k)[l] = evs[l]
    BY <1>2, BeforeSequence
  <2> QED BY <1>2, <2>1, <2>2 DEF Bindable, AliasesNamed, Doing
<1>3. ASSUME NEW k \in DOMAIN evs, NEW l \in DOMAIN evs, l < k,
             evs[k].act = "actor.register", evs[l].act = "actor.bind_alias"
      PROVE  evs[k].name # evs[l].alias
  <2>1. Registerable(Before(evs, k), evs[k])
    BY <1>3 DEF AuthenticHistory, Authentic, Before
  <2>2. l \in DOMAIN Before(evs, k) /\ Before(evs, k)[l] = evs[l]
    BY <1>3, BeforeSequence
  <2> QED BY <1>3, <2>1, <2>2 DEF Registerable, AliasesNamed, Doing
<1>4. ASSUME NEW k \in DOMAIN evs, NEW l \in DOMAIN evs, l < k,
             evs[k].act = "actor.bind_alias", evs[l].act = "actor.register"
      PROVE  evs[l].name # evs[k].alias
  <2>1. Bindable(Before(evs, k), evs[k])
    BY <1>4 DEF AuthenticHistory, Authentic, Before
  <2>2. l \in DOMAIN Before(evs, k) /\ Before(evs, k)[l] = evs[l]
    BY <1>4, BeforeSequence
  <2> QED BY <1>4, <2>1, <2>2 DEF Bindable, ActorsNamed, Doing
<1>5. i \in Nat /\ j \in Nat
  BY BeforeSequence
<1>6. i < j \/ i = j \/ j < i
  BY <1>5
<1> QED BY <1>1, <1>2, <1>3, <1>4, <1>6

\* At most one registration, and one alias, has a name.
LEMMA NamesUnique ==
  ASSUME NEW evs, IsSequence(evs), AuthenticHistory(evs), NEW name
  PROVE  /\ \A a, b \in ActorsNamed(evs, name) : a = b
         /\ \A a, b \in AliasesNamed(evs, name) : a = b
         /\ ActorsNamed(evs, name) = {} \/ AliasesNamed(evs, name) = {}
  BY NamesDiffer DEF ActorsNamed, AliasesNamed, Doing

\* What a name stands for, it stands for in every longer history.
LEMMA PrincipalsKept ==
  ASSUME NEW evs, IsSequence(evs), AuthenticHistory(evs), NEW i \in DOMAIN evs, NEW name,
         NEW p \in Principals(Before(evs, i), name)
  PROVE  Principals(evs, name) = {p}
<1>1. \A n : /\ ActorsNamed(Before(evs, i), n) \subseteq ActorsNamed(evs, n)
             /\ AliasesNamed(Before(evs, i), n) \subseteq AliasesNamed(evs, n)
  <2>1. \A j \in DOMAIN Before(evs, i) : j \in DOMAIN evs /\ Before(evs, i)[j] = evs[j]
    <3>1. i \in 1..Len(evs) /\ Len(evs) \in Nat /\ DOMAIN evs = 1..Len(evs)
      BY BeforeSequence, DomainOfSequence DEF IsSequence
    <3> QED BY <3>1, BeforeSequence
  <2> QED BY <2>1 DEF ActorsNamed, AliasesNamed, Doing
<1>2. CASE ActorsNamed(Before(evs, i), name) # {}
  <2>1. p \in ActorsNamed(evs, name)
    BY <1>1, <1>2 DEF Principals
  <2>2. Principals(evs, name) = ActorsNamed(evs, name)
    BY <2>1 DEF Principals
  <2> QED BY <2>1, <2>2, NamesUnique
<1>3. CASE ActorsNamed(Before(evs, i), name) = {}
  <2>1. PICK b \in AliasesNamed(Before(evs, i), name) : p \in ActorsNamed(Before(evs, i), b.name)
    BY <1>3 DEF Principals
  <2>2. b \in AliasesNamed(evs, name) /\ p \in ActorsNamed(evs, b.name)
    BY <1>1, <2>1
  <2>3. ActorsNamed(evs, name) = {} /\ AliasesNamed(evs, name) = {b} /\ ActorsNamed(evs, b.name) = {p}
    BY <2>2, NamesUnique
  <2>4. Principals(evs, name) = UNION {ActorsNamed(evs, a.name) : a \in {b}}
    BY <2>3 DEF Principals
  <2> QED BY <2>3, <2>4
<1> QED BY <1>2, <1>3

\* The name that work was done under stands for the key that signed it for ever
\* after (assert_registerable, assert_bindable, resolve_principal).
THEOREM NamesAreKept == Spec => []NamesKeepTheirKeys
<1>1. IInv => NamesKeepTheirKeys
  <2> SUFFICES ASSUME IInv, NEW b \in Doing(log, "actor.bootstrap"), NEW i \in DOMAIN log, i > b,
                      log[i].act \in {"claim", "complete", "review"}
               PROVE  {p.key : p \in Principals(log, log[i].actor)} = {log[i].grant.key}
    BY DEF NamesKeepTheirKeys
  <2>1. IsSequence(log) /\ AuthenticHistory(log)
    BY DEF IInv, LogInv
  <2>2. Bootstrapped(Before(log, i))
    <3>1. b \in DOMAIN log /\ log[b].act = "actor.bootstrap" /\ b < i
      BY <2>1, BeforeSequence DEF Doing
    <3>2. b \in DOMAIN Before(log, i) /\ Before(log, i)[b] = log[b]
      BY <2>1, <3>1, BeforeSequence
    <3> QED BY <3>1, <3>2 DEF Bootstrapped, Doing
  <2>3. Authentic(Before(log, i), log[i])
    BY <2>1 DEF AuthenticHistory, Before
  <2>4. TransitionAuthorized(Before(log, i), log[i]) \/ ReviewAuthorized(Before(log, i), log[i])
    BY <2>2, <2>3 DEF Authentic
  <2>5. PICK p \in Principals(Before(log, i), log[i].actor) : log[i].grant.key = p.key
    BY <2>4 DEF TransitionAuthorized, ReviewAuthorized, Signed
  <2>6. Principals(log, log[i].actor) = {p}
    BY <2>1, <2>5, PrincipalsKept
  <2> QED BY <2>5, <2>6
<1> QED BY <1>1, Invariance, PTL

-----------------------------------------------------------------------------
\* Executable checks.

Runs(evs) == Doing(evs, "verification.run")
Running(p) == job[p].event.act = "verification.run"

\* A run as check made it: what was tested follows from the rest of the binding.
Genuine(e) ==
  e.act = "verification.run" =>
    /\ e = Run(e.run, e.status, e.binding)
    /\ e.binding.tested = [e.binding.inputs EXCEPT ![Target[e.binding.task]] = e.binding.content]

\* Only a delivery of a checked task names a run.
NamesRun(e) == e.act = "complete" /\ e.run # 0 => e.task \in Checked

\* The delivery at j rests on a run of its own cycle.
Rests(evs, j) ==
  \E r \in Runs(evs) :
    /\ evs[r].run = evs[j].run
    /\ evs[r].binding.task = evs[j].task
    /\ evs[r].binding.cycle = Cycle(Before(evs, j), evs[j].task)

HistInv ==
  /\ \A i \in DOMAIN log : Genuine(log[i]) /\ Decided(log[i]) /\ Legal(Before(log, i), log[i])
  /\ \A j \in Doing(log, "complete") : log[j].run # 0 => Rests(log, j)

EventInv == \A p \in Procs : Genuine(job[p].event) /\ Decided(job[p].event) /\ NamesRun(job[p].event)

NumberInv ==
  /\ \A i \in Runs(log) : log[i].run \in 1..issued
  /\ \A p \in Procs : Running(p) => job[p].event.run \in 1..issued
  /\ \A i, j \in Runs(log) : log[i].run = log[j].run => i = j
  /\ \A i \in Runs(log), p \in Procs : Running(p) => log[i].run # job[p].event.run
  /\ \A p, q \in Procs : Running(p) /\ Running(q) /\ job[p].event.run = job[q].event.run => p = q

\* Between its append and its file a delivery is backed by a run that passed.
Backed(p) ==
  LET e == job[p].event IN
  \E r \in Runs(log) :
    /\ log[r].run = e.run /\ log[r].status = "passed"
    /\ log[r].binding.tested = [files EXCEPT ![Target[e.task]] = e.content]

EffectInv ==
  \A p \in Procs \ dead : pc[p] = "effects" =>
    /\ holder = p
    /\ ~torn /\ job[p].event.task \in Checked => Backed(p)

EInv == IInv /\ HistInv /\ EventInv /\ NumberInv /\ EffectInv

\* A process without a job makes no claims.
LEMMA NoJobClaims ==
  /\ NoJob.event.act = "verification.configure"
  /\ Genuine(NoJob.event) /\ Decided(NoJob.event) /\ NamesRun(NoJob.event)
<1>1. NoJob.event.act = "verification.configure"
  BY DEF NoJob, Configuration
<1> QED BY <1>1 DEF Genuine, Decided, NamesRun

LEMMA InitEvidence == Init => EInv
<1> SUFFICES ASSUME Init PROVE EInv
  OBVIOUS
<1>1. \A p \in Procs : job[p] = NoJob /\ pc[p] = "idle"
  BY DEF Init
<1>2. \A i \in DOMAIN log : Legal(Before(log, i), log[i]) /\ Decided(log[i]) /\ Unchecked(log[i])
  BY HistoryAssumption DEF Init, Before
<1>3. HistInv
  BY <1>2 DEF HistInv, Unchecked, Genuine, Doing
<1>4. EventInv
  BY <1>1, NoJobClaims DEF EventInv
<1>5. NumberInv
  BY <1>1, <1>2, NoJobClaims DEF NumberInv, Running, Runs, Doing, Unchecked
<1>6. EffectInv
  BY <1>1 DEF EffectInv
<1> QED BY <1>3, <1>4, <1>5, <1>6, InitInv DEF EInv

-----------------------------------------------------------------------------
\* Steps that append nothing: a job stays or ends.
LEMMA QuietKeeps ==
  ASSUME EInv, UNCHANGED <<log, issued>>,
         \A q \in Procs : job'[q].event = job[q].event \/ job'[q].event = NoJob.event
  PROVE  HistInv' /\ EventInv' /\ NumberInv'
<1>1. \A q \in Procs : Running(q)' => Running(q) /\ job'[q].event = job[q].event
  BY NoJobClaims DEF Running
<1>2. HistInv'
  BY DEF EInv, HistInv
<1>3. EventInv'
  BY NoJobClaims DEF EInv, EventInv
<1>4. NumberInv'
  BY <1>1 DEF EInv, NumberInv
<1> QED BY <1>2, <1>3, <1>4

\* Finishing is quiet.
LEMMA FinishIsQuiet ==
  ASSUME IInv, NEW p \in Procs, Finish(p)
  PROVE  /\ \A q \in Procs : job'[q].event = job[q].event \/ job'[q].event = NoJob.event
         /\ \A q \in Procs : pc'[q] = "effects" => q # p /\ pc[q] = "effects" /\ job'[q] = job[q]
<1>1. /\ pc' = [pc EXCEPT ![p] = "idle"] /\ pc \in [Procs -> Phases]
      /\ job' = [q \in Procs |-> IF q = p THEN NoJob ELSE job[q]]
  BY DEF Finish, Goto, IInv, JobInv, TypeOK
<1> QED BY <1>1

\* Giving a command: one job begins, with a number of its own.
LEMMA GiveEvidence ==
  ASSUME EInv, NEW p \in Procs, NEW phase \in Phases \ {"effects"}, NEW e, NEW latest,
         Give(p, phase, e, latest), Latest(latest),
         Genuine(e), Decided(e), NamesRun(e), e.act = "verification.run" => e.run = issued + 1
  PROVE  HistInv' /\ EventInv' /\ NumberInv' /\ EffectInv'
<1>1. /\ log' = log /\ files' = files /\ torn' = torn /\ holder' = holder /\ dead' = dead
      /\ issued' = issued + 1 /\ issued \in Nat
      /\ pc' = [pc EXCEPT ![p] = phase] /\ pc \in [Procs -> Phases]
      /\ job' = [q \in Procs |-> IF q = p THEN [event |-> e, base |-> Len(log), attempt |-> 0, latest |-> latest] ELSE job[q]]
  BY DEF Give, Goto, mutexVars, EInv, IInv, TypeOK, JobInv
<1>2. job'[p].event = e /\ \A q \in Procs \ {p} : job'[q] = job[q]
  BY <1>1
<1>3. \A i \in Runs(log) : log[i].run \in 1..issued
  BY DEF EInv, NumberInv
<1>4. HistInv'
  BY <1>1 DEF EInv, HistInv
<1>5. EventInv'
  BY <1>2 DEF EInv, EventInv
<1>6. NumberInv'
  <2>1. \A i \in Runs(log') : log'[i].run \in 1..issued'
    BY <1>1, <1>3
  <2>2. \A q \in Procs : Running(q)' => job'[q].event.run \in 1..issued'
    BY <1>1, <1>2 DEF EInv, NumberInv, Running
  <2>3. \A i \in Runs(log'), q \in Procs : Running(q)' => log'[i].run # job'[q].event.run
    <3> SUFFICES ASSUME NEW i \in Runs(log), NEW q \in Procs, Running(q)'
                 PROVE  log[i].run # job'[q].event.run
      BY <1>1
    <3>1. CASE q = p
      <4>1. job'[q].event.run = issued + 1
        BY <1>2, <3>1 DEF Running
      <4> QED BY <1>1, <1>3, <4>1
    <3>2. CASE q # p
      BY <1>2, <3>2 DEF EInv, NumberInv, Running
    <3> QED BY <3>1, <3>2
  <2>4. \A q, r \in Procs : Running(q)' /\ Running(r)' /\ job'[q].event.run = job'[r].event.run => q = r
    <3>1. ASSUME NEW q \in Procs \ {p}, Running(q)', Running(p)'
          PROVE  job'[q].event.run # job'[p].event.run
      <4>1. job'[p].event.run = issued + 1
        BY <1>2, <3>1 DEF Running
      <4>2. job'[q].event.run \in 1..issued
        BY <1>2, <3>1 DEF EInv, NumberInv, Running
      <4> QED BY <1>1, <4>1, <4>2
    <3>2. ASSUME NEW q \in Procs \ {p}, NEW r \in Procs \ {p}, Running(q)', Running(r)',
                 job'[q].event.run = job'[r].event.run
          PROVE  q = r
      BY <1>2, <3>2 DEF EInv, NumberInv, Running
    <3> QED BY <3>1, <3>2
  <2>5. \A i, j \in Runs(log') : log'[i].run = log'[j].run => i = j
    BY <1>1 DEF EInv, NumberInv
  <2> QED BY <2>1, <2>2, <2>3, <2>4, <2>5 DEF NumberInv
<1>7. EffectInv'
  <2> SUFFICES ASSUME NEW q \in Procs \ dead', pc'[q] = "effects"
               PROVE  /\ holder' = q
                      /\ ~torn' /\ job'[q].event.task \in Checked => Backed(q)'
    BY DEF EffectInv
  <2>1. q # p /\ pc[q] = "effects" /\ job'[q] = job[q]
    BY <1>1, <1>2
  <2> QED BY <1>1, <2>1 DEF EInv, EffectInv, Backed
<1> QED BY <1>4, <1>5, <1>6, <1>7

-----------------------------------------------------------------------------
\* The guard may call a run stale, and changes nothing else.
LEMMA GuardedGenuine ==
  ASSUME NEW e, Genuine(e), Decided(e)
  PROVE  /\ Guarded(e).act = e.act
         /\ Genuine(Guarded(e)) /\ Decided(Guarded(e))
         /\ e.act = "verification.run" => Guarded(e).run = e.run
         /\ e.act # "verification.run" => Guarded(e) = e
<1>1. CASE Guarded(e) = e
  BY <1>1
<1>2. CASE Guarded(e) # e
  <2>1. e.act = "verification.run" /\ Guarded(e) = [e EXCEPT !.status = "stale"]
    BY <1>2 DEF Guarded
  <2>2. /\ e = [act |-> "verification.run", run |-> e.run, status |-> e.status, binding |-> e.binding, grant |-> NoGrant]
        /\ e.binding.tested = [e.binding.inputs EXCEPT ![Target[e.binding.task]] = e.binding.content]
    BY <2>1 DEF Genuine, Run
  <2>3. Guarded(e) = [act |-> "verification.run", run |-> e.run, status |-> "stale", binding |-> e.binding, grant |-> NoGrant]
    BY <2>1, <2>2
  <2>4. /\ Guarded(e).act = e.act /\ Guarded(e).run = e.run /\ Guarded(e).binding = e.binding
        /\ Guarded(e) = Run(Guarded(e).run, Guarded(e).status, Guarded(e).binding)
    BY <2>1, <2>3 DEF Run
  <2> QED BY <2>1, <2>2, <2>4 DEF Genuine, Decided
<1> QED BY <1>1, <1>2

\* Which run a checked delivery rests on when it is appended.
LEMMA EvidenceBinds ==
  ASSUME HistInv, NEW e, e.act = "complete", e.task \in Checked, PendingHolds(log, e, files)
  PROVE  \E r \in Runs(log) :
           /\ log[r].run = e.run /\ log[r].status = "passed"
           /\ log[r].binding.task = e.task
           /\ log[r].binding.cycle = Cycle(log, e.task)
           /\ log[r].binding.tested = [files EXCEPT ![Target[e.task]] = e.content]
<1>1. PICK r \in Runs(log) :
        /\ log[r].run = e.run /\ log[r].status = "passed"
        /\ SameBinding(log[r].binding, Bound(log, e.actor, e.task, e.content, files))
  BY DEF PendingHolds, Evident, Runs
<1>2. /\ log[r].binding.task = e.task /\ log[r].binding.cycle = Cycle(log, e.task)
      /\ log[r].binding.inputs = files /\ log[r].binding.content = e.content
  BY <1>1 DEF SameBinding, Bound
<1>3. r \in DOMAIN log /\ log[r].act = "verification.run"
  BY DEF Runs, Doing
<1>4. log[r].binding.tested = [log[r].binding.inputs EXCEPT ![Target[log[r].binding.task]] = log[r].binding.content]
  BY <1>3 DEF HistInv, Genuine
<1> QED BY <1>1, <1>2, <1>4

\* What a commit leaves of the log.
LEMMA CommitLog ==
  ASSUME EInv, NEW p \in Procs, Commit(p)
  PROVE  LET e == Guarded(job[p].event) IN
         /\ Len(log) \in Nat /\ DOMAIN log = 1..Len(log) /\ DOMAIN log' = 1..(Len(log) + 1)
         /\ log'[Len(log) + 1] = e
         /\ \A i \in 1..Len(log) : log'[i] = log[i] /\ Before(log', i) = Before(log, i)
         /\ Before(log', Len(log) + 1) = log
         /\ e.act = job[p].event.act /\ Genuine(e) /\ Decided(e)
         /\ e.act = "verification.run" => e.run = job[p].event.run
         /\ e.act # "verification.run" => e = job[p].event
<1> DEFINE e == Guarded(job[p].event)
<1>1. log' = Append(log, e) /\ IsSequence(log)
  BY DEF Commit, EInv, IInv, LogInv
<1>2. /\ IsSequence(log') /\ Len(log') = Len(log) + 1
      /\ \A i \in 1..Len(log) : log'[i] = log[i]
      /\ log'[Len(log) + 1] = e
  BY <1>1, AppendSequence
<1>3. Len(log) \in Nat /\ DOMAIN log = 1..Len(log) /\ DOMAIN log' = 1..(Len(log) + 1)
  BY <1>1, <1>2, DomainOfSequence DEF IsSequence
<1>4. Genuine(job[p].event) /\ Decided(job[p].event)
  BY DEF EInv, EventInv
<1>5. ASSUME NEW i \in 1..(Len(log) + 1)
      PROVE  Before(log', i) = SubSeq(log, 1, i - 1)
  <2>1. i - 1 \in Nat /\ i - 1 <= Len(log)
    BY <1>3
  <2> QED BY <1>1, <2>1, PrefixOfAppend DEF Before
<1>6. Before(log', Len(log) + 1) = log
  <2>1. Len(log) + 1 \in 1..(Len(log) + 1) /\ (Len(log) + 1) - 1 = Len(log)
    BY <1>3
  <2> QED BY <1>1, <1>5, <2>1, WholeSequence
<1>7. \A i \in 1..Len(log) : Before(log', i) = Before(log, i)
  BY <1>3, <1>5 DEF Before
<1> HIDE DEF e
<1> QED BY <1>2, <1>3, <1>4, <1>6, <1>7, GuardedGenuine DEF e

LEMMA CommitEvidence ==
  ASSUME EInv, NEW p \in Procs, Commit(p)
  PROVE  HistInv' /\ EventInv' /\ NumberInv' /\ EffectInv'
<1> DEFINE e == Guarded(job[p].event)
           n == Len(log)
<1>1. /\ n \in Nat /\ DOMAIN log = 1..n /\ DOMAIN log' = 1..(n + 1)
      /\ log'[n + 1] = e
      /\ \A i \in 1..n : log'[i] = log[i] /\ Before(log', i) = Before(log, i)
      /\ Before(log', n + 1) = log
      /\ e.act = job[p].event.act /\ Genuine(e) /\ Decided(e)
      /\ e.act = "verification.run" => e.run = job[p].event.run
      /\ e.act # "verification.run" => e = job[p].event
  BY CommitLog
<1>2. /\ PendingHolds(log, e, files) /\ Legal(log, e)
      /\ UNCHANGED <<files, torn, issued>> /\ holder = NoHolder
  BY DEF Commit, Admissible
<1>3. /\ \A q \in Procs : job'[q].event = job[q].event \/ job'[q].event = NoJob.event
      /\ e.act = "verification.run" => job'[p].event = NoJob.event
      /\ e.act # "complete" => \A q \in Procs : pc'[q] = "effects" => q # p /\ pc[q] = "effects"
      /\ e.act # "complete" => UNCHANGED mutexVars
      /\ e.act = "complete" => Acquire(p) /\ Goto(p, "effects") /\ job' = job
  <2>1. CASE e.act = "complete"
    BY <1>1, <2>1 DEF Commit
  <2>2. CASE e.act # "complete"
    <3>1. Finish(p) /\ UNCHANGED mutexVars
      BY <1>1, <2>2 DEF Commit
    <3>2. job'[p].event = NoJob.event
      BY <3>1 DEF Finish, EInv, IInv, JobInv
    <3> QED BY <2>2, <3>1, <3>2, FinishIsQuiet DEF EInv
  <2> QED BY <2>1, <2>2
<1>4. /\ Runs(log) \subseteq Runs(log') /\ Runs(log) \subseteq 1..n
      /\ \A i \in Runs(log') : i \in Runs(log) \/ (i = n + 1 /\ e.act = "verification.run")
  BY <1>1 DEF Runs, Doing
<1> HIDE DEF e, n
<1>5. \A i \in Runs(log) : log'[i] = log[i]
  BY <1>1, <1>4
<1>6. HistInv /\ EventInv /\ NumberInv /\ EffectInv
  BY DEF EInv
<1>7. HistInv'
  <2>1. ASSUME NEW i \in DOMAIN log'
        PROVE  Genuine(log'[i]) /\ Decided(log'[i]) /\ Legal(Before(log', i), log'[i])
    <3>1. CASE i \in 1..n
      BY <1>1, <1>6, <3>1 DEF HistInv
    <3>2. CASE i = n + 1
      BY <1>1, <1>2, <3>2
    <3> QED BY <1>1, <3>1, <3>2
  <2>2. ASSUME NEW j \in Doing(log', "complete"), log'[j].run # 0
        PROVE  Rests(log', j)
    <3>1. CASE j \in 1..n
      <4>1. j \in Doing(log, "complete") /\ log'[j] = log[j] /\ Before(log', j) = Before(log, j)
        BY <1>1, <2>2, <3>1 DEF Doing
      <4>2. Rests(log, j)
        BY <1>6, <2>2, <4>1 DEF HistInv
      <4> QED BY <1>4, <1>5, <4>1, <4>2 DEF Rests
    <3>2. CASE j = n + 1
      <4>1. log'[j] = e /\ e.act = "complete" /\ e = job[p].event /\ Before(log', j) = log
        BY <1>1, <2>2, <3>2 DEF Doing
      <4>2. e.task \in Checked
        BY <1>6, <2>2, <4>1 DEF EventInv, NamesRun
      <4>3. PICK r \in Runs(log) :
              log[r].run = e.run /\ log[r].binding.task = e.task /\ log[r].binding.cycle = Cycle(log, e.task)
        BY <1>2, <1>6, <4>1, <4>2, EvidenceBinds
      <4>4. r \in Runs(log') /\ log'[r] = log[r]
        BY <1>4, <1>5
      <4> QED BY <4>1, <4>3, <4>4 DEF Rests
    <3> QED BY <1>1, <2>2, <3>1, <3>2 DEF Doing
  <2> QED BY <2>1, <2>2 DEF HistInv
<1>8. EventInv'
  BY <1>3, <1>6, NoJobClaims DEF EventInv
<1>9. \A q \in Procs : Running(q)' => Running(q) /\ job'[q].event = job[q].event /\ (e.act = "verification.run" => q # p)
  BY <1>3, NoJobClaims DEF Running
<1>10. NumberInv'
  <2>1. ASSUME e.act = "verification.run"
        PROVE  Running(p) /\ log'[n + 1].run = job[p].event.run
    BY <1>1, <2>1 DEF Running
  <2>2. \A i \in Runs(log') : log'[i].run \in 1..issued'
    BY <1>2, <1>4, <1>5, <1>6, <2>1 DEF NumberInv
  <2>3. \A q \in Procs : Running(q)' => job'[q].event.run \in 1..issued'
    BY <1>2, <1>6, <1>9 DEF NumberInv
  <2>4. \A i, j \in Runs(log') : log'[i].run = log'[j].run => i = j
    BY <1>4, <1>5, <1>6, <2>1 DEF NumberInv
  <2>5. ASSUME NEW i \in Runs(log'), NEW q \in Procs, Running(q)'
        PROVE  log'[i].run # job'[q].event.run
    <3>1. CASE i \in Runs(log)
      BY <1>5, <1>6, <1>9, <2>5, <3>1 DEF NumberInv
    <3>2. CASE i = n + 1 /\ e.act = "verification.run"
      BY <1>6, <1>9, <2>1, <2>5, <3>2 DEF NumberInv
    <3> QED BY <1>4, <3>1, <3>2
  <2>6. \A q, r \in Procs : Running(q)' /\ Running(r)' /\ job'[q].event.run = job'[r].event.run => q = r
    BY <1>6, <1>9 DEF NumberInv
  <2> QED BY <2>2, <2>3, <2>4, <2>5, <2>6 DEF NumberInv
<1>11. EffectInv'
  <2> SUFFICES ASSUME NEW q \in Procs \ dead', pc'[q] = "effects"
               PROVE  /\ holder' = q
                      /\ ~torn' /\ job'[q].event.task \in Checked => Backed(q)'
    BY DEF EffectInv
  <2>1. ~(q \notin dead /\ pc[q] = "effects")
    BY <1>2, <1>6, NoHolderAssumption DEF EffectInv
  <2>2. e.act = "complete" /\ q = p
    <3>1. CASE e.act # "complete"
      BY <1>3, <2>1, <3>1 DEF mutexVars
    <3>2. CASE e.act = "complete" /\ q # p
      BY <1>3, <2>1, <3>2 DEF Acquire, Goto, EInv, IInv, TypeOK
    <3> QED BY <3>1, <3>2
  <2>3. holder' = p /\ job' = job /\ e = job[p].event
    BY <1>1, <1>3, <2>2 DEF Acquire
  <2>4. ASSUME e.task \in Checked
        PROVE  Backed(p)'
    <3>1. PICK r \in Runs(log) :
            /\ log[r].run = e.run /\ log[r].status = "passed"
            /\ log[r].binding.tested = [files EXCEPT ![Target[e.task]] = e.content]
      BY <1>2, <1>6, <2>2, <2>4, EvidenceBinds
    <3>2. r \in Runs(log') /\ log'[r] = log[r]
      BY <1>4, <1>5
    <3> QED BY <1>2, <2>3, <3>1, <3>2 DEF Backed
  <2> QED BY <2>2, <2>3, <2>4
<1> QED BY <1>7, <1>8, <1>10, <1>11

-----------------------------------------------------------------------------
\* Whoever has the lock for its delivery is the only one alive that does.
LEMMA OtherEffects ==
  ASSUME EInv, NEW p \in Procs, p \notin dead, pc[p] = "effects", NEW q \in Procs, q # p, q \notin dead
  PROVE  pc[q] # "effects"
  BY DEF EInv, EffectInv

\* Steps that write no file of somebody else's delivery.
LEMMA StepEvidence == EInv /\ [Next]_vars => EInv'
<1> SUFFICES ASSUME EInv, [Next]_vars PROVE HistInv' /\ EventInv' /\ NumberInv' /\ EffectInv'
  BY StepInv DEF EInv
<1>1. ASSUME NEW p \in Procs, NEW c \in Commands, Submit(p, c)
      PROVE  HistInv' /\ EventInv' /\ NumberInv' /\ EffectInv'
  <2>1. PICK key \in Stamp(c), run \in IF c.op = "complete" /\ c.task \in Checked THEN RunIds ELSE {0} :
          Give(p, "ready", Step(c.op, c.actor, c.task, c.decision, c.content, run, c.grant, key), Nothing)
    BY <1>1 DEF Submit
  <2> DEFINE e == Step(c.op, c.actor, c.task, c.decision, c.content, run, c.grant, key)
  <2>2. c.op \in {"claim", "complete", "review"}
    BY <1>1 DEF Submit
  <2>3. e.act = c.op /\ e.task = c.task /\ e.decision = c.decision /\ e.run = run
    BY DEF Step
  <2>4. "ready" \in Phases \ {"effects"}
    BY DEF Phases
  <2> HIDE DEF e
  <2>5. Genuine(e) /\ Decided(e) /\ NamesRun(e) /\ e.act # "verification.run"
    BY <2>1, <2>2, <2>3, CommandAssumption DEF Genuine, Decided, NamesRun
  <2>6. Give(p, "ready", e, Nothing)
    BY <2>1 DEF e
  <2> QED BY <2>4, <2>5, <2>6, NothingIsLatest, GiveEvidence
<1>2. ASSUME NEW p \in Procs, NEW c \in Commands, Administer(p, c)
      PROVE  HistInv' /\ EventInv' /\ NumberInv' /\ EffectInv'
  <2>1. c.op = "administer" /\ Give(p, "ready", c.event, Nothing)
    BY <1>2 DEF Administer
  <2>2. c.event.act \in {"actor.bootstrap", "actor.register", "actor.bind_alias", "verification.configure"}
    BY <2>1, CommandAssumption
  <2>3. "ready" \in Phases \ {"effects"}
    BY DEF Phases
  <2>4. Genuine(c.event) /\ Decided(c.event) /\ NamesRun(c.event) /\ c.event.act # "verification.run"
    BY <2>2 DEF Genuine, Decided, NamesRun
  <2> QED BY <2>1, <2>3, <2>4, NothingIsLatest, GiveEvidence
<1>3. ASSUME NEW p \in Procs, NEW c \in Commands, Check(p, c)
      PROVE  HistInv' /\ EventInv' /\ NumberInv' /\ EffectInv'
  <2>1. PICK status \in Outcomes :
          Give(p, "ready", Run(issued + 1, status, Bound(log, c.actor, c.task, c.content, files)), Nothing)
    BY <1>3 DEF Check
  <2> DEFINE b == Bound(log, c.actor, c.task, c.content, files)
             e == Run(issued + 1, status, b)
  <2>2. b.tested = [b.inputs EXCEPT ![Target[b.task]] = b.content]
    BY DEF Bound
  <2> HIDE DEF b
  <2>3. e.act = "verification.run" /\ e.run = issued + 1 /\ e.status = status /\ e.binding = b
    BY DEF Run
  <2>4. e = Run(e.run, e.status, e.binding)
    BY <2>3
  <2> HIDE DEF e
  <2>5. Genuine(e) /\ Decided(e) /\ NamesRun(e)
    BY <2>2, <2>3, <2>4 DEF Genuine, Decided, NamesRun
  <2>6. "ready" \in Phases \ {"effects"}
    BY DEF Phases
  <2>7. Give(p, "ready", e, Nothing)
    BY <2>1 DEF e, b
  <2> QED BY <2>3, <2>5, <2>6, <2>7, NothingIsLatest, GiveEvidence
<1>4. ASSUME NEW p \in Procs, NEW c \in Commands, ReadToRecover(p, c)
      PROVE  HistInv' /\ EventInv' /\ NumberInv' /\ EffectInv'
  <2>1. Give(p, "recover", NoJob.event, LatestByPath)
    BY <1>4 DEF ReadToRecover
  <2>2. "recover" \in Phases \ {"effects"} /\ NoJob.event.act # "verification.run"
    BY NoJobClaims DEF Phases
  <2> QED BY <2>1, <2>2, NoJobClaims, RecoveredContent, GiveEvidence DEF EInv
<1>5. ASSUME NEW p \in Procs, Retry(p)
      PROVE  HistInv' /\ EventInv' /\ NumberInv' /\ EffectInv'
  <2>1. /\ job' = [job EXCEPT ![p].attempt = 1]
        /\ UNCHANGED <<log, files, pc, torn, issued, mutexVars>>
    BY <1>5 DEF Retry
  <2>2. \A q \in Procs : job'[q].event = job[q].event
    <3>1. job' = [q \in Procs |-> IF q = p THEN [job[p] EXCEPT !.attempt = 1] ELSE job[q]]
      BY <2>1 DEF EInv, IInv, JobInv
    <3>2. job[p] = [event |-> job[p].event, base |-> job[p].base, attempt |-> job[p].attempt, latest |-> job[p].latest]
      BY DEF EInv, IInv, JobInv, JobOK
    <3>3. [job[p] EXCEPT !.attempt = 1].event = job[p].event
      BY <3>2
    <3> QED BY <3>1, <3>3
  <2>3. HistInv' /\ EventInv' /\ NumberInv'
    BY <2>1, <2>2, QuietKeeps
  <2>4. EffectInv'
    BY <2>1, <2>2 DEF EInv, EffectInv, Backed, mutexVars
  <2> QED BY <2>3, <2>4
<1>6. ASSUME NEW p \in Procs, Refuse(p)
      PROVE  HistInv' /\ EventInv' /\ NumberInv' /\ EffectInv'
  <2>1. Finish(p) /\ UNCHANGED <<log, files, torn, issued, mutexVars>>
    BY <1>6 DEF Refuse
  <2>2. HistInv' /\ EventInv' /\ NumberInv'
    BY <2>1, FinishIsQuiet, QuietKeeps DEF EInv
  <2>3. \A q \in Procs : pc'[q] = "effects" => pc[q] = "effects" /\ job'[q] = job[q]
    BY <2>1, FinishIsQuiet DEF EInv
  <2>4. EffectInv'
    BY <2>1, <2>3 DEF EInv, EffectInv, Backed, mutexVars
  <2> QED BY <2>2, <2>4
<1>7. ASSUME NEW p \in Procs, ApplyEffect(p) \/ EffectFails(p)
      PROVE  HistInv' /\ EventInv' /\ NumberInv' /\ EffectInv'
  <2>1. /\ p \notin dead /\ pc[p] = "effects"
        /\ Finish(p) /\ Release(p) /\ UNCHANGED <<log, issued>>
    BY <1>7 DEF ApplyEffect, EffectFails, At
  <2>2. HistInv' /\ EventInv' /\ NumberInv'
    BY <2>1, FinishIsQuiet, QuietKeeps DEF EInv
  <2>3. \A q \in Procs : pc'[q] = "effects" => q # p /\ pc[q] = "effects"
    BY <2>1, FinishIsQuiet DEF EInv
  <2>4. dead' = dead
    BY <2>1 DEF Release
  <2>5. EffectInv'
    BY <2>1, <2>3, <2>4, OtherEffects DEF EffectInv
  <2> QED BY <2>2, <2>5
<1>8. ASSUME NEW p \in Procs, RecoverFile(p) \/ RecoverEnds(p)
      PROVE  HistInv' /\ EventInv' /\ NumberInv' /\ EffectInv'
  <2>1. /\ torn' = (torn \/ files' # files) \/ UNCHANGED <<torn, files>>
        /\ UNCHANGED <<log, issued, mutexVars>>
    BY <1>8 DEF RecoverFile, RecoverEnds
  <2>2. /\ \A q \in Procs : job'[q].event = job[q].event \/ job'[q].event = NoJob.event
        /\ \A q \in Procs : pc'[q] = "effects" => pc[q] = "effects" /\ job'[q] = job[q]
    <3>1. CASE RecoverEnds(p)
      BY <3>1, FinishIsQuiet DEF RecoverEnds, EInv
    <3>2. CASE RecoverFile(p)
      <4>1. pc' = pc /\ pc[p] = "recover" /\ \E rest : job' = [job EXCEPT ![p].latest = rest]
        BY <3>2 DEF RecoverFile, At
      <4>2. PICK rest : job' = [job EXCEPT ![p].latest = rest]
        BY <4>1
      <4>3. job' = [q \in Procs |-> IF q = p THEN [job[p] EXCEPT !.latest = rest] ELSE job[q]]
        BY <4>2 DEF EInv, IInv, JobInv
      <4>4. job[p] = [event |-> job[p].event, base |-> job[p].base, attempt |-> job[p].attempt, latest |-> job[p].latest]
        BY DEF EInv, IInv, JobInv, JobOK
      <4>5. [job[p] EXCEPT !.latest = rest].event = job[p].event
        BY <4>4
      <4> QED BY <4>1, <4>3, <4>5
    <3> QED BY <1>8, <3>1, <3>2
  <2>3. HistInv' /\ EventInv' /\ NumberInv'
    BY <2>1, <2>2, QuietKeeps
  <2>4. ~torn' => ~torn /\ files' = files
    BY <2>1
  <2>5. log' = log /\ holder' = holder /\ dead' = dead
    BY <2>1 DEF mutexVars
  <2>6. ASSUME NEW q \in Procs \ dead', pc'[q] = "effects"
        PROVE  /\ holder' = q
               /\ ~torn' /\ job'[q].event.task \in Checked => Backed(q)'
    <3>1. /\ q \notin dead /\ pc[q] = "effects" /\ job'[q] = job[q]
          /\ holder = q
          /\ ~torn /\ job[q].event.task \in Checked => Backed(q)
      BY <2>2, <2>5, <2>6 DEF EInv, EffectInv
    <3>2. files' = files /\ Backed(q) => Backed(q)'
      BY <2>5, <3>1 DEF Backed
    <3> QED BY <2>4, <2>5, <3>1, <3>2
  <2>7. EffectInv'
    BY <2>6 DEF EffectInv
  <2> QED BY <2>3, <2>7
<1>9. ASSUME NEW p \in Procs, Crash(p)
      PROVE  HistInv' /\ EventInv' /\ NumberInv' /\ EffectInv'
  <2>1. Die(p) /\ torn' = (torn \/ pc[p] = "effects") /\ UNCHANGED <<log, files, pc, job, issued>>
    BY <1>9 DEF Crash
  <2>2. HistInv' /\ EventInv' /\ NumberInv'
    BY <2>1, QuietKeeps
  <2>3. dead' = dead \cup {p} /\ holder' = holder
    BY <2>1 DEF Die
  <2>4. EffectInv'
    BY <2>1, <2>3 DEF EInv, EffectInv, Backed
  <2> QED BY <2>2, <2>4
<1>10. CASE LockReclaimed
  <2>1. Reclaim /\ UNCHANGED <<log, files, pc, job, torn, issued>>
    BY <1>10 DEF LockReclaimed
  <2>2. HistInv' /\ EventInv' /\ NumberInv'
    BY <2>1, QuietKeeps
  <2>3. holder \in dead /\ dead' = dead
    BY <2>1 DEF Reclaim
  <2>4. EffectInv'
    BY <2>1, <2>3 DEF EInv, EffectInv, Backed
  <2> QED BY <2>2, <2>4
<1>11. CASE UNCHANGED vars
  <2>1. UNCHANGED <<log, files, pc, job, torn, issued, holder, dead>>
    BY <1>11 DEF vars, mutexVars
  <2>2. HistInv' /\ EventInv' /\ NumberInv'
    BY <2>1, QuietKeeps
  <2>3. EffectInv'
    BY <2>1 DEF EInv, EffectInv, Backed
  <2> QED BY <2>2, <2>3
<1> QED BY <1>1, <1>2, <1>3, <1>4, <1>5, <1>6, <1>7, <1>8, <1>9, <1>10, <1>11, CommitEvidence DEF Next

LEMMA EvidenceInvariance == Spec => []EInv
<1>1. Init => EInv
  BY InitEvidence
<1>2. EInv /\ [Next]_vars => EInv'
  BY StepEvidence
<1> QED BY <1>1, <1>2, PTL DEF Spec

-----------------------------------------------------------------------------
\* What a checked delivery leaves on disk is what its checks have passed on,
\* whatever else happened since the run (validate_pending, commit_staged).
THEOREM ChecksBindDeliveries == Spec => DeliversWhatPassed
<1>1. ASSUME EInv, NEW p \in Procs, ApplyEffect(p), ~torn, job[p].event.task \in Checked
      PROVE  \E i \in Doing(log, "verification.run") :
               log[i].run = job[p].event.run /\ log[i].status = "passed" /\ log[i].binding.tested = files'
  <2>1. p \notin dead /\ pc[p] = "effects" /\ files' = [files EXCEPT ![Target[job[p].event.task]] = job[p].event.content]
    BY <1>1 DEF ApplyEffect, At
  <2>2. Backed(p)
    BY <1>1, <2>1 DEF EInv, EffectInv
  <2> QED BY <2>1, <2>2 DEF Backed, Runs
<1>2. EInv => [\A p \in Procs : ApplyEffect(p) /\ ~torn /\ job[p].event.task \in Checked =>
                 \E i \in Doing(log, "verification.run") :
                   log[i].run = job[p].event.run /\ log[i].status = "passed" /\ log[i].binding.tested = files']_vars
  BY <1>1
<1> QED BY <1>2, EvidenceInvariance, PTL DEF DeliversWhatPassed

\* A run that is recorded as passed still fits when it is recorded
\* (the guard of verification_run, under the lock).
THEOREM RunsRecordedFresh == Spec => PassedRunsFresh
<1>1. ASSUME EInv, NEW p \in Procs, Commit(p), Runs(log') # Runs(log), log'[Len(log')].status = "passed"
      PROVE  LET b == log'[Len(log')].binding IN
             b.inputs = files /\ b.config = ConfigAt(log) /\ b.cycle = Cycle(log, b.task)
  <2> DEFINE e == job[p].event
             n == Len(log)
  <2>1. /\ DOMAIN log = 1..n /\ DOMAIN log' = 1..(n + 1) /\ n \in Nat
        /\ log'[n + 1] = Guarded(e) /\ \A i \in 1..n : log'[i] = log[i]
        /\ Guarded(e).act = e.act
    BY <1>1, CommitLog
  <2>2. Len(log') = n + 1
    BY <1>1, AppendSequence DEF Commit, EInv, IInv, LogInv
  <2>3. e.act = "verification.run"
    BY <1>1, <2>1 DEF Runs, Doing
  <2>4. Genuine(e)
    BY <1>1 DEF EInv, EventInv
  <2> HIDE DEF e, n
  <2>5. CASE ~(Preparable(log, e.binding.actor, e.binding.task)
               /\ SameBinding(e.binding, Bound(log, e.binding.actor, e.binding.task, e.binding.content, files)))
    <3>1. Guarded(e) = [e EXCEPT !.status = "stale"]
      BY <2>3, <2>5 DEF Guarded
    <3>2. Guarded(e).status = "stale"
      BY <2>3, <2>4, <3>1 DEF Genuine, Run
    <3> QED BY <1>1, <2>1, <2>2, <3>2
  <2>6. CASE SameBinding(e.binding, Bound(log, e.binding.actor, e.binding.task, e.binding.content, files))
             /\ Preparable(log, e.binding.actor, e.binding.task)
    <3>1. Guarded(e) = e
      BY <2>6 DEF Guarded
    <3>2. e.binding.inputs = files /\ e.binding.config = ConfigAt(log) /\ e.binding.cycle = Cycle(log, e.binding.task)
      BY <2>6 DEF SameBinding, Bound
    <3> QED BY <2>1, <2>2, <3>1, <3>2
  <2> QED BY <2>5, <2>6
<1>2. EInv => [\A p \in Procs : Commit(p) /\ Doing(log', "verification.run") # Doing(log, "verification.run") =>
                 LET r == log'[Len(log')] IN
                 r.status = "passed" => r.binding.inputs = files /\ r.binding.config = ConfigAt(log)
                                        /\ r.binding.cycle = Cycle(log, r.binding.task)]_vars
  BY <1>1 DEF Runs
<1> QED BY <1>2, EvidenceInvariance, PTL DEF PassedRunsFresh

\* The current cycle is one of the log; a delivery that was followed by more
\* work belongs to an earlier one.
LEMMA CyclePlace ==
  ASSUME NEW evs, IsSequence(evs), NEW task
  PROVE  Cycle(evs, task) \in 0..Len(evs)
<1> DEFINE starts == {i \in Moves(evs, task) : evs[i].act = "claim" \/ (evs[i].act = "review" /\ evs[i].decision = "request_changes")}
<1>1. DOMAIN evs = 1..Len(evs) /\ Len(evs) \in Nat
  BY DomainOfSequence DEF IsSequence
<1>2. starts \in SUBSET (1..Len(evs))
  BY <1>1 DEF Moves
<1>3. Cycle(evs, task) = IF starts = {} THEN 0 ELSE CHOOSE i \in starts : \A j \in starts : j <= i
  BY DEF Cycle
<1> HIDE DEF starts
<1>4. CASE starts = {}
  BY <1>1, <1>3, <1>4
<1>5. CASE starts # {}
  <2> DEFINE last == CHOOSE i \in starts : \A j \in starts : j <= i
  <2>1. last \in starts
    BY <1>1, <1>2, <1>5, Greatest
  <2> HIDE DEF last
  <2>2. last \in 1..Len(evs)
    BY <1>2, <2>1
  <2>3. Cycle(evs, task) = last
    BY <1>3, <1>5 DEF last
  <2> QED BY <1>1, <2>2, <2>3
<1> QED BY <1>4, <1>5

LEMMA CycleMovesOn ==
  ASSUME NEW evs, IsSequence(evs), NEW task, Status(evs, task) = "in_progress",
         \A i \in DOMAIN evs : Decided(evs[i]),
         NEW j \in Moves(evs, task), evs[j].act = "complete"
  PROVE  Cycle(evs, task) > j
<1> DEFINE moves == Moves(evs, task)
           last == CHOOSE i \in moves : \A k \in moves : k <= i
           starts == {i \in moves : evs[i].act = "claim" \/ (evs[i].act = "review" /\ evs[i].decision = "request_changes")}
           first == CHOOSE i \in starts : \A k \in starts : k <= i
<1>1. DOMAIN evs = 1..Len(evs) /\ Len(evs) \in Nat
  BY DomainOfSequence DEF IsSequence
<1>2. /\ moves \in SUBSET (1..Len(evs)) /\ j \in moves
      /\ \A i \in moves : evs[i].act \in {"claim", "complete", "review"} /\ Decided(evs[i])
  BY <1>1 DEF Moves
<1>3. evs[last].act # "complete" /\ ~(evs[last].act = "review" /\ evs[last].decision = "approve")
  BY <1>2 DEF Status
<1>4. starts \in SUBSET (1..Len(evs)) /\ \A i \in moves : i \in starts <=>
        evs[i].act = "claim" \/ (evs[i].act = "review" /\ evs[i].decision = "request_changes")
  BY <1>2
<1>5. Cycle(evs, task) = IF starts = {} THEN 0 ELSE first
  BY DEF Cycle
<1> HIDE DEF moves, starts
<1>6. last \in moves /\ \A k \in moves : k <= last
  BY <1>1, <1>2, Greatest
<1> HIDE DEF last
<1>7. last \in starts
  BY <1>2, <1>3, <1>4, <1>6 DEF Decided, Decisions
<1>8. first \in starts /\ last <= first
  BY <1>1, <1>4, <1>7, Greatest
<1> HIDE DEF first
<1>9. j < last
  <2>1. j <= last /\ j # last
    BY <1>2, <1>3, <1>6
  <2>2. j \in Nat /\ last \in Nat
    BY <1>1, <1>2, <1>6
  <2> QED BY <2>1, <2>2
<1>10. j \in Nat /\ last \in Nat /\ first \in Nat
  BY <1>1, <1>2, <1>4, <1>6, <1>8
<1> QED BY <1>5, <1>7, <1>8, <1>9, <1>10

\* Changes that were requested need new evidence: no run serves two deliveries
\* (cycle_id, validate_evidence).
THEOREM RunsServeOnce == Spec => []RunUsedOnce
<1>1. ASSUME EInv, NEW i \in Doing(log, "complete"), NEW j \in Doing(log, "complete"), j < i,
             log[i].run # 0, log[i].run = log[j].run
      PROVE  FALSE
  <2>1. PICK r \in Runs(log) :
          /\ log[r].run = log[i].run /\ log[r].binding.task = log[i].task
          /\ log[r].binding.cycle = Cycle(Before(log, i), log[i].task)
    BY <1>1 DEF EInv, HistInv, Rests
  <2>2. PICK s \in Runs(log) :
          /\ log[s].run = log[j].run /\ log[s].binding.task = log[j].task
          /\ log[s].binding.cycle = Cycle(Before(log, j), log[j].task)
    BY <1>1 DEF EInv, HistInv, Rests
  <2>3. r = s
    BY <1>1, <2>1, <2>2 DEF EInv, NumberInv
  <2>4. log[j].task = log[i].task /\ Cycle(Before(log, i), log[i].task) = Cycle(Before(log, j), log[i].task)
    BY <2>1, <2>2, <2>3
  <2>5. IsSequence(log) /\ i \in DOMAIN log /\ j \in DOMAIN log /\ log[i].act = "complete" /\ log[j].act = "complete"
    BY <1>1 DEF EInv, IInv, LogInv, Doing
  <2>6. /\ i \in 1..Len(log) /\ i \in Nat /\ IsSequence(Before(log, i))
        /\ DOMAIN Before(log, i) = 1..(i - 1) /\ \A k \in 1..(i - 1) : Before(log, i)[k] = log[k]
    BY <2>5, BeforeSequence
  <2>7. j \in 1..Len(log) /\ j \in Nat /\ IsSequence(Before(log, j)) /\ Len(log) \in Nat
    BY <2>5, BeforeSequence DEF IsSequence
  <2>8. Len(Before(log, j)) = j - 1
    BY <2>5, <2>7, PrefixSequence DEF Before
  <2>9. Cycle(Before(log, j), log[i].task) \in 0..(j - 1)
    BY <2>7, <2>8, CyclePlace
  <2>10. j \in Moves(Before(log, i), log[i].task) /\ Before(log, i)[j].act = "complete"
    BY <1>1, <2>4, <2>5, <2>6, <2>7 DEF Moves
  <2>11. Status(Before(log, i), log[i].task) = "in_progress"
    <3>1. Legal(Before(log, i), log[i])
      BY <1>1, <2>5 DEF EInv, HistInv
    <3> QED BY <2>5, <3>1 DEF Legal
  <2>12. \A k \in DOMAIN Before(log, i) : Decided(Before(log, i)[k])
    <3>1. \A k \in 1..(i - 1) : k \in DOMAIN log
      BY <2>5, <2>6, <2>7, DomainOfSequence
    <3> QED BY <1>1, <2>6, <3>1 DEF EInv, HistInv
  <2>13. Cycle(Before(log, i), log[i].task) > j
    BY <2>6, <2>10, <2>11, <2>12, CycleMovesOn
  <2> QED BY <2>4, <2>7, <2>9, <2>13
<1>2. EInv => RunUsedOnce
  <2> SUFFICES ASSUME EInv, NEW i \in Doing(log, "complete"), NEW j \in Doing(log, "complete"),
                      log[i].run # 0, log[i].run = log[j].run
               PROVE  i = j
    BY DEF RunUsedOnce
  <2>1. i \in Nat /\ j \in Nat
    BY BeforeSequence DEF EInv, IInv, LogInv, Doing
  <2> QED BY <1>1, <2>1
<1> QED BY <1>2, EvidenceInvariance, PTL

=============================================================================
