--------------------------- MODULE SchedulerProofs ---------------------------
(***************************************************************************)
(* The safety of Scheduler, for every set of runners, tasks, dependencies, *)
(* files and bounds.                                                       *)
(*                                                                         *)
(* Everything rests on one invariant of five parts.  Typed says what the   *)
(* store and the copies that runs work on look like; Copies, that a run    *)
(* which has read all there is works on exactly what its batch will lead   *)
(* to; Apart, that what a run has delivered is in its write set; Orders,   *)
(* that a task has one entry in the store and in the copies, that the      *)
(* tasks of a wave have attempts left, and that a run has charged only     *)
(* attempts that the store had left, until a batch is appended to a log it *)
(* was not built for; InTurns, that what a run claims has its dependencies *)
(* done in the store, or approved earlier in the same batch, whatever the  *)
(* store has become meanwhile.                                             *)
(***************************************************************************)
EXTENDS Scheduler, ProjectionProofs

Busy(r) == run[r].pc # "idle"

\* What the functions of runtime_policy.py find, by the time now.
TypedAttempts(a, now) ==
  /\ a = [id \in TaskIds |-> a[id]]
  /\ \A id \in TaskIds :
       /\ DOMAIN a[id] = DOMAIN NoAttempts
       /\ a[id].penalties \in Nat
       /\ {a[id].rejectedAt, a[id].claimedAt, a[id].completedAt} \subseteq (0..now) \cup {None}

\* Only the first entry of an id is ever worked on.
FirstWorked(tasks) == \A i \in 1..Len(tasks) : tasks[i].status # "todo" => FirstAt(tasks, tasks[i].id, i)

TypedStore(s, now) ==
  /\ WellFormed(s.board)
  /\ FirstWorked(s.board.tasks)
  /\ TypedAttempts(s.attempts, now)

\* Of a run, what collecting events changes, and its wave.
RunCore(x, now) ==
  /\ DOMAIN x = RunShape
  /\ TypedStore(x.store, now)
  /\ IsSequence(x.batch)
  /\ \A i \in 1..Len(x.batch) : x.batch[i].at \in 0..now
  /\ x.limit \in Nat

Workable(w) == \A i \in 1..Len(w) : w[i].id \in TaskIds /\ w[i].status \in {"todo", "in_progress", "review"}

TypedRun(x, now) ==
  /\ RunCore(x, now)
  /\ x.pc \in {"select", "running", "commit"}
  /\ IsSequence(x.wave)
  /\ x.pc = "running" <=> Len(x.wave) > 0
  /\ Workable(x.wave)
  /\ x.stalls \in 0..1

Typed ==
  /\ clock \in 0..MaxClock
  /\ TypedStore(store, clock)
  /\ IsSequence(limits)
  /\ DOMAIN run = Runners
  /\ \A r \in Runners : run[r] = Idle \/ TypedRun(run[r], clock)

\* A run that has read all there is works on what its batch will lead to.
Copy(x, s) == x.fresh => x.store = Recording(s, x.batch)
Copies == \A r \in Runners : Busy(r) => Copy(run[r], store)

\* The paths a run has delivered are in its write set, and no later delivery
\* touches them.
WritesApart(x) ==
  \A i \in 1..Len(x.batch) : x.batch[i].event.kind = WriteKind =>
    /\ x.batch[i].event.paths \subseteq x.written
    /\ \A j \in 1..Len(x.batch) : i < j /\ x.batch[j].event.kind = WriteKind =>
         ~Conflict(x.batch[i].event.paths, x.batch[j].event.paths)

Apart == \A r \in Runners : Busy(r) => WritesApart(run[r])

\* The attempt at a task that is charged between s and u was one it had left, and
\* if it was the last, the batch reports it, unless nobody escalates its code.
NotCharged(a, c) == c.penalties = a.penalties /\ c.charged = a.charged
Spent(s, u, batch, id) ==
  /\ ~Blocked(s.attempts, id)
  /\ Penalties(u.attempts, id) <= MaxAttempts
  /\ Blocked(u.attempts, id) /\ u.attempts[id].charged \notin Unescalated => Escalated(batch, id)

Charging(s, u, batch) == \A id \in TaskIds : NotCharged(s.attempts[id], u.attempts[id]) \/ Spent(s, u, batch, id)

\* A run that has read all there is charges no attempts but these.
Within(x, s) == x.fresh => Charging(s, x.store, x.batch)

\* The tasks of a wave are different ones, and have attempts left.
WaveOpen(x) ==
  \A i \in 1..Len(x.wave) :
    /\ ~Blocked(x.store.attempts, x.wave[i].id)
    /\ \A j \in 1..Len(x.wave) : x.wave[i].id = x.wave[j].id => i = j

SoundRun(x) == EntriesUnique(x.store) /\ WaveOpen(x)
Orders ==
  ~retried => EntriesUnique(store) /\ \A r \in Runners : Busy(r) => SoundRun(run[r]) /\ Within(run[r], store)

\* Among the first k events of a batch one approves a task.
Approves(batch, k, id) ==
  \E m \in 1..k : batch[m].event.kind = "review" /\ batch[m].event.decision = "approve" /\ batch[m].event.task = id

\* A run claims what has its dependencies done in the store or approved earlier
\* in its own batch; and what is done in its copy is one of these.
Turn(x, b) ==
  /\ \A k \in 1..Len(x.batch) : x.batch[k].event.kind = "claim" =>
       /\ x.batch[k].event.task \in TaskIds
       /\ \A dep \in DependsOn[x.batch[k].event.task] : DoneTask(b, dep) \/ Approves(x.batch, k - 1, dep)
  /\ \A id \in TaskIds : DoneTask(x.store.board, id) => DoneTask(b, id) \/ Approves(x.batch, Len(x.batch), id)

\* What a wave has yet to claim has its dependencies done in the copy.
Ahead(x) ==
  \A i \in 1..Len(x.wave) : x.wave[i].status = "todo" =>
    \A dep \in DependsOn[x.wave[i].id] : DoneTask(x.store.board, dep)

InTurn(x, b) == x.limit # 1 /\ Turn(x, b) /\ Ahead(x)

Wide == OthersConsiderate /\ \A i \in 1..Len(limits) : limits[i] > 1
InTurns == Wide => DependenciesDone(store) /\ \A r \in Runners : Busy(r) => InTurn(run[r], store.board)

-----------------------------------------------------------------------------
\* What a batch does to a store, an event at a time.

\* f are the stores that the events of a batch lead through, from s on.
History(f, s, batch) ==
  f[0] = s /\ \A i \in 1..Len(batch) : f[i] = Entered(f[i - 1], batch[i])

\* What Recording goes through, as far as n.
RecordingRecursion(f, s, batch, n) ==
  f = [i \in 0..n |-> IF i = 0 THEN s ELSE Entered(f[i - 1], batch[i])]

\* There are such stores, for any number of events.
LEMMA RecordingExist ==
  ASSUME NEW s, NEW batch, NEW n \in Nat
  PROVE  \E f : RecordingRecursion(f, s, batch, n)
<1> DEFINE S == {m \in Nat : \E f : RecordingRecursion(f, s, batch, m)}
<1>1. 0 \in S
  <2> DEFINE f == [i \in 0..0 |-> s]
  <2>1. f = [i \in 0..0 |-> IF i = 0 THEN s ELSE Entered(f[i - 1], batch[i])]
    OBVIOUS
  <2> HIDE DEF f
  <2>2. \E g : RecordingRecursion(g, s, batch, 0)
    BY <2>1 DEF RecordingRecursion
  <2> QED BY <2>2
<1>2. ASSUME NEW m \in Nat, m \in S PROVE m + 1 \in S
  <2>1. PICK f : f = [i \in 0..m |-> IF i = 0 THEN s ELSE Entered(f[i - 1], batch[i])]
    BY <1>2, Zenon DEF RecordingRecursion
  <2> DEFINE g == [i \in 0..m + 1 |-> IF i = m + 1 THEN Entered(f[m], batch[m + 1]) ELSE f[i]]
  <2>2. ASSUME NEW i \in 0..m + 1
        PROVE  g[i] = IF i = 0 THEN s ELSE Entered(g[i - 1], batch[i])
    <3>1. CASE i = m + 1
      <4>1. i # 0 /\ i - 1 = m /\ m \in 0..m + 1 /\ m # m + 1
        BY <3>1
      <4> QED BY <3>1, <4>1
    <3>2. CASE i # m + 1
      <4>1. i \in 0..m /\ (i # 0 => i - 1 \in 0..m + 1 /\ i - 1 # m + 1)
        BY <3>2
      <4>2. g[i] = f[i] /\ (i # 0 => g[i - 1] = f[i - 1])
        BY <3>2, <4>1
      <4>3. f[i] = IF i = 0 THEN s ELSE Entered(f[i - 1], batch[i])
        BY <2>1, <4>1
      <4> QED BY <4>2, <4>3
    <3> QED BY <3>1, <3>2
  <2>3. g = [i \in 0..m + 1 |-> g[i]]
    OBVIOUS
  <2> HIDE DEF g
  <2>4. g = [i \in 0..m + 1 |-> IF i = 0 THEN s ELSE Entered(g[i - 1], batch[i])]
    BY <2>2, <2>3
  <2>5. RecordingRecursion(g, s, batch, m + 1)
    BY <2>4, Zenon DEF RecordingRecursion
  <2> QED BY <2>5
<1> HIDE DEF S
<1>3. n \in S
  BY <1>1, <1>2, Counting
<1> QED BY <1>3 DEF S

\* Recording is the last of them.
LEMMA RecordingSteps ==
  ASSUME NEW s, NEW batch, Len(batch) \in Nat
  PROVE  \E f : History(f, s, batch) /\ Recording(s, batch) = f[Len(batch)]
<1> DEFINE n == Len(batch)
           f == CHOOSE f : RecordingRecursion(f, s, batch, n)
<1>1. Recording(s, batch) = f[n]
  BY Zenon DEF Recording, RecordingRecursion
<1>2. f = [i \in 0..n |-> IF i = 0 THEN s ELSE Entered(f[i - 1], batch[i])]
  <2>1. \E g : RecordingRecursion(g, s, batch, n)
    BY RecordingExist
  <2>2. RecordingRecursion(f, s, batch, n)
    BY <2>1, Zenon
  <2> HIDE DEF f
  <2> QED BY <2>2, Zenon DEF RecordingRecursion
<1> HIDE DEF f
<1>3. f[0] = s /\ \A i \in 1..n : f[i] = Entered(f[i - 1], batch[i])
  <2>1. 0 \in 0..n /\ \A i \in 1..n : i \in 0..n /\ i # 0
    OBVIOUS
  <2> QED BY <1>2, <2>1
<1> QED BY <1>1, <1>3 DEF History

\* There is but one history.
LEMMA OneHistory ==
  ASSUME NEW s, NEW batch, Len(batch) \in Nat, NEW f, NEW g, History(f, s, batch), History(g, s, batch)
  PROVE  \A n \in 0..Len(batch) : f[n] = g[n]
<1> DEFINE S == {n \in Nat : n <= Len(batch) => f[n] = g[n]}
<1>1. 0 \in S
  BY DEF History
<1>2. ASSUME NEW n \in Nat, n \in S PROVE n + 1 \in S
  <2> SUFFICES ASSUME n + 1 <= Len(batch) PROVE f[n + 1] = g[n + 1]
    OBVIOUS
  <2>1. n + 1 \in 1..Len(batch) /\ (n + 1) - 1 = n
    OBVIOUS
  <2>2. f[n + 1] = Entered(f[n], batch[n + 1]) /\ g[n + 1] = Entered(g[n], batch[n + 1])
    BY <2>1 DEF History
  <2>3. f[n] = g[n]
    BY <1>2, <2>1
  <2> QED BY <2>2, <2>3
<1> HIDE DEF S
<1>3. \A n \in Nat : n \in S
  BY <1>1, <1>2, Counting
<1> QED BY <1>3 DEF S

\* Whatever stores the events lead through, Recording is the last of them.
LEMMA RecordingIs ==
  ASSUME NEW s, NEW batch, Len(batch) \in Nat, NEW f, History(f, s, batch)
  PROVE  Recording(s, batch) = f[Len(batch)]
<1>1. PICK g : History(g, s, batch) /\ Recording(s, batch) = g[Len(batch)]
  BY RecordingSteps
<1>2. Len(batch) \in 0..Len(batch)
  OBVIOUS
<1> QED BY <1>1, <1>2, OneHistory

\* First the stores of f, then those of g.
Joins(h, f, m, g, n) == (\A i \in 0..m : h[i] = f[i]) /\ \A i \in 0..n : h[m + i] = g[i]

\* A batch and then another is one batch.
LEMMA HistoryConcat ==
  ASSUME NEW s, NEW a, NEW b, IsSequence(a), IsSequence(b),
         NEW f, NEW g, History(f, s, a), History(g, f[Len(a)], b)
  PROVE  \E h : History(h, s, a \o b) /\ Joins(h, f, Len(a), g, Len(b))
<1> DEFINE m == Len(a)
           n == Len(b)
           h == [i \in 0..m + n |-> IF i <= m THEN f[i] ELSE g[i - m]]
<1>1. m \in Nat /\ n \in Nat
  BY DEF IsSequence
<1>2. IsSequence(a \o b) /\ Len(a \o b) = m + n
  BY ConcatSequences
<1>3. /\ \A i \in 1..m : (a \o b)[i] = a[i]
      /\ \A i \in 1..n : (a \o b)[m + i] = b[i]
  BY ConcatElements
<1>4. /\ f[0] = s /\ \A i \in 1..m : f[i] = Entered(f[i - 1], a[i])
      /\ g[0] = f[m] /\ \A i \in 1..n : g[i] = Entered(g[i - 1], b[i])
  BY DEF History
<1> HIDE DEF m, n
<1>5. \A i \in 0..m : h[i] = f[i]
  BY <1>1
<1>6. ASSUME NEW i \in 0..n PROVE h[m + i] = g[i]
  <2>1. CASE i = 0
    BY <1>1, <1>4, <2>1
  <2>2. CASE i # 0
    <3>1. m + i \in 0..m + n /\ ~(m + i <= m) /\ (m + i) - m = i
      BY <1>1, <2>2
    <3> QED BY <3>1
  <2> QED BY <2>1, <2>2
<1> HIDE DEF h
<1>7. h[0] = s
  BY <1>1, <1>4, <1>5
<1>8. ASSUME NEW i \in 1..m + n PROVE h[i] = Entered(h[i - 1], (a \o b)[i])
  <2>1. CASE i <= m
    <3>1. i \in 1..m /\ i \in 0..m /\ i - 1 \in 0..m
      BY <1>1, <2>1
    <3> QED BY <1>3, <1>4, <1>5, <3>1
  <2>2. CASE i > m
    <3>1. i - m \in 1..n /\ i - m \in 0..n /\ (i - m) - 1 \in 0..n
          /\ m + (i - m) = i /\ m + ((i - m) - 1) = i - 1
      BY <1>1, <2>2
    <3>2. h[i] = g[i - m] /\ h[i - 1] = g[(i - m) - 1] /\ (a \o b)[i] = b[i - m]
      BY <1>3, <1>6, <3>1
    <3> QED BY <1>4, <3>1, <3>2
  <2>3. i <= m \/ i > m
    BY <1>1
  <2> QED BY <2>1, <2>2, <2>3
<1>9. History(h, s, a \o b)
  BY <1>2, <1>7, <1>8 DEF History
<1>10. Joins(h, f, m, g, n)
  BY <1>5, <1>6 DEF Joins
<1> QED BY <1>9, <1>10, Zenon DEF m, n

\* Recording two batches in turn is recording them as one.
LEMMA RecordingConcat ==
  ASSUME NEW s, NEW a, NEW b, IsSequence(a), IsSequence(b)
  PROVE  Recording(s, a \o b) = Recording(Recording(s, a), b)
<1>1. Len(a) \in Nat /\ Len(b) \in Nat
  BY DEF IsSequence
<1>2. PICK f : History(f, s, a) /\ Recording(s, a) = f[Len(a)]
  BY <1>1, RecordingSteps
<1>3. PICK g : History(g, f[Len(a)], b) /\ Recording(f[Len(a)], b) = g[Len(b)]
  BY <1>1, RecordingSteps
<1>4. PICK h : History(h, s, a \o b) /\ Joins(h, f, Len(a), g, Len(b))
  BY <1>2, <1>3, HistoryConcat, Zenon
<1>5. Len(a \o b) = Len(a) + Len(b)
  BY ConcatSequences
<1>6. Recording(s, a \o b) = h[Len(a) + Len(b)]
  <2>1. Len(a \o b) \in Nat
    BY <1>1, <1>5
  <2> QED BY <1>4, <1>5, <2>1, RecordingIs
<1>7. h[Len(a) + Len(b)] = g[Len(b)]
  BY <1>1, <1>4 DEF Joins
<1> QED BY <1>2, <1>3, <1>6, <1>7

\* In no event nothing happens.
LEMMA RecordingEmpty ==
  ASSUME NEW s
  PROVE  Recording(s, <<>>) = s
<1>1. Len(<<>>) = 0 /\ 0 \in Nat
  BY EmptySequence
<1>2. PICK f : History(f, s, <<>>) /\ Recording(s, <<>>) = f[Len(<<>>)]
  BY <1>1, RecordingSteps
<1> QED BY <1>1, <1>2 DEF History

-----------------------------------------------------------------------------
\* Batches the projector accepts.

\* The projector accepts every event of the batch on the way.
LegalHistory(f, s, batch) ==
  History(f, s, batch) /\ \A i \in 1..Len(batch) : Legal(f[i - 1].board, batch[i].event)

\* One after the other.
LEMMA LegalConcat ==
  ASSUME NEW s, NEW a, NEW b, IsSequence(a), IsSequence(b),
         NEW f, NEW g, LegalHistory(f, s, a), LegalHistory(g, f[Len(a)], b)
  PROVE  \E h : LegalHistory(h, s, a \o b) /\ Joins(h, f, Len(a), g, Len(b))
<1> DEFINE m == Len(a)
           n == Len(b)
<1>1. m \in Nat /\ n \in Nat
  BY DEF IsSequence
<1>2. Len(a \o b) = m + n /\ IsSequence(a \o b)
  BY ConcatSequences
<1>3. /\ \A i \in 1..m : (a \o b)[i] = a[i]
      /\ \A i \in 1..n : (a \o b)[m + i] = b[i]
  BY ConcatElements
<1>4. History(f, s, a) /\ History(g, f[Len(a)], b)
  BY DEF LegalHistory
<1>5. PICK h : History(h, s, a \o b) /\ Joins(h, f, Len(a), g, Len(b))
  BY <1>4, HistoryConcat, Zenon
<1>6. /\ \A i \in 1..m : Legal(f[i - 1].board, a[i].event)
      /\ \A i \in 1..n : Legal(g[i - 1].board, b[i].event)
  BY DEF LegalHistory
<1>7. (\A i \in 0..m : h[i] = f[i]) /\ \A i \in 0..n : h[m + i] = g[i]
  BY <1>5 DEF Joins
<1> HIDE DEF m, n
<1>8. ASSUME NEW i \in 1..m + n PROVE Legal(h[i - 1].board, (a \o b)[i].event)
  <2>1. CASE i <= m
    <3>1. i \in 1..m /\ i - 1 \in 0..m
      BY <1>1, <2>1
    <3>2. h[i - 1] = f[i - 1] /\ (a \o b)[i] = a[i]
      BY <1>3, <1>7, <3>1
    <3> QED BY <1>6, <3>1, <3>2
  <2>2. CASE i > m
    <3>1. i - m \in 1..n /\ (i - m) - 1 \in 0..n /\ m + (i - m) = i /\ m + ((i - m) - 1) = i - 1
      BY <1>1, <2>2
    <3>2. h[i - 1] = g[(i - m) - 1] /\ (a \o b)[i] = b[i - m]
      BY <1>3, <1>7, <3>1
    <3> QED BY <1>6, <3>1, <3>2
  <2>3. i <= m \/ i > m
    BY <1>1
  <2> QED BY <2>1, <2>2, <2>3
<1>9. LegalHistory(h, s, a \o b)
  BY <1>2, <1>5, <1>8 DEF LegalHistory
<1> QED BY <1>5, <1>9

\* The events of a batch.
LEMMA EventsAre ==
  ASSUME NEW batch, IsSequence(batch)
  PROVE  /\ IsSequence(Events(batch)) /\ Len(Events(batch)) = Len(batch)
         /\ \A i \in 1..Len(batch) : Events(batch)[i] = batch[i].event
<1>1. Len(batch) \in Nat /\ DOMAIN batch = 1..Len(batch)
  BY DomainOfSequence DEF IsSequence
<1>2. Events(batch) = [i \in 1..Len(batch) |-> batch[i].event]
  BY <1>1 DEF Events
<1>3. Events(batch) = [i \in 1..Len(batch) |-> Events(batch)[i]]
  BY <1>2
<1>4. \A i \in 1..Len(batch) : Events(batch)[i] = batch[i].event
  BY <1>2
<1> QED BY <1>1, <1>3, <1>4, FunctionSequence

\* The events of a batch are all of its time.
LEMMA StampedAre ==
  ASSUME NEW events, IsSequence(events), NEW now
  PROVE  /\ IsSequence(Stamped(events, now)) /\ Len(Stamped(events, now)) = Len(events)
         /\ \A i \in 1..Len(events) : Stamped(events, now)[i].event = events[i] /\ Stamped(events, now)[i].at = now
<1>1. Len(events) \in Nat /\ DOMAIN events = 1..Len(events)
  BY DomainOfSequence DEF IsSequence
<1>2. Stamped(events, now) = [i \in 1..Len(events) |-> [event |-> events[i], at |-> now]]
  BY <1>1 DEF Stamped
<1>3. Stamped(events, now) = [i \in 1..Len(events) |-> Stamped(events, now)[i]]
  BY <1>2
<1>4. \A i \in 1..Len(events) : Stamped(events, now)[i].event = events[i] /\ Stamped(events, now)[i].at = now
  BY <1>2
<1> QED BY <1>1, <1>3, <1>4, FunctionSequence

\* Stamping events loses none of them.
LEMMA EventsOfStamped ==
  ASSUME NEW events, IsSequence(events), NEW now
  PROVE  Events(Stamped(events, now)) = events
<1>1. /\ IsSequence(Stamped(events, now)) /\ Len(Stamped(events, now)) = Len(events)
      /\ \A i \in 1..Len(events) : Stamped(events, now)[i].event = events[i]
  BY StampedAre
<1>2. /\ IsSequence(Events(Stamped(events, now))) /\ Len(Events(Stamped(events, now))) = Len(events)
      /\ \A i \in 1..Len(events) : Events(Stamped(events, now))[i] = Stamped(events, now)[i].event
  BY <1>1, EventsAre
<1> QED BY <1>1, <1>2, SameSequence

\* Stamping goes through the events one by one.
LEMMA StampedConcat ==
  ASSUME NEW a, NEW b, IsSequence(a), IsSequence(b), NEW now
  PROVE  Stamped(a \o b, now) = Stamped(a, now) \o Stamped(b, now)
<1> DEFINE sa == Stamped(a, now)
           sb == Stamped(b, now)
           sc == Stamped(a \o b, now)
<1>1. Len(a) \in Nat /\ Len(b) \in Nat /\ Len(a \o b) = Len(a) + Len(b) /\ IsSequence(a \o b)
  BY ConcatSequences DEF IsSequence
<1>2. /\ \A i \in 1..Len(a) : (a \o b)[i] = a[i]
      /\ \A i \in 1..Len(b) : (a \o b)[Len(a) + i] = b[i]
  BY ConcatElements
<1>3. IsSequence(sa) /\ Len(sa) = Len(a) /\ IsSequence(sb) /\ Len(sb) = Len(b)
      /\ IsSequence(sc) /\ Len(sc) = Len(a) + Len(b)
  BY <1>1, StampedAre
<1>4. /\ DOMAIN a = 1..Len(a) /\ DOMAIN b = 1..Len(b) /\ DOMAIN (a \o b) = 1..Len(a) + Len(b)
  BY <1>1, DomainOfSequence
<1>5. /\ \A i \in 1..Len(a) : sa[i] = [event |-> a[i], at |-> now]
      /\ \A i \in 1..Len(b) : sb[i] = [event |-> b[i], at |-> now]
      /\ \A i \in 1..Len(a) + Len(b) : sc[i] = [event |-> (a \o b)[i], at |-> now]
  BY <1>4 DEF Stamped
<1> HIDE DEF sa, sb, sc
<1>6. IsSequence(sa \o sb) /\ Len(sa \o sb) = Len(a) + Len(b)
  BY <1>3, ConcatSequences
<1>7. /\ \A i \in 1..Len(a) : (sa \o sb)[i] = sa[i]
      /\ \A i \in 1..Len(b) : (sa \o sb)[Len(a) + i] = sb[i]
  BY <1>3, ConcatElements
<1>8. ASSUME NEW i \in 1..Len(a) + Len(b) PROVE sc[i] = (sa \o sb)[i]
  <2>1. CASE i <= Len(a)
    <3>1. i \in 1..Len(a)
      BY <1>1, <2>1
    <3> QED BY <1>2, <1>5, <1>7, <3>1
  <2>2. CASE i > Len(a)
    <3>1. i - Len(a) \in 1..Len(b) /\ Len(a) + (i - Len(a)) = i
      BY <1>1, <2>2
    <3>2. (sa \o sb)[i] = sb[i - Len(a)] /\ (a \o b)[i] = b[i - Len(a)]
      BY <1>2, <1>7, <3>1
    <3> QED BY <1>5, <3>1, <3>2
  <2>3. i <= Len(a) \/ i > Len(a)
    BY <1>1
  <2> QED BY <2>1, <2>2, <2>3
<1>9. sc = sa \o sb
  BY <1>3, <1>6, <1>8, SameSequence
<1> QED BY <1>9 DEF sa, sb, sc

\* What the projector has found acceptable is entered legally.
LEMMA ReplaysLegally ==
  ASSUME NEW s, NEW batch, IsSequence(batch), Replays(s.board, Events(batch))
  PROVE  \E f : LegalHistory(f, s, batch)
<1> DEFINE evs == Events(batch)
           n == Len(batch)
<1>1. n \in Nat /\ Len(evs) = n /\ \A i \in 1..n : evs[i] = batch[i].event
  BY EventsAre DEF IsSequence
<1>2. PICK bs : bs \in Runs(s.board, evs)
  BY DEF Replays
<1>3. IsReplay(bs, s.board, evs)
  BY <1>1, <1>2, RunsAre
<1>4. PICK f : History(f, s, batch)
  BY <1>1, RecordingSteps
<1> HIDE DEF evs, n
<1>5. bs[1] = s.board /\ \A i \in 1..n : Legal(bs[i], evs[i]) /\ bs[i + 1] = Apply(bs[i], evs[i])
  BY <1>1, <1>3 DEF IsReplay
<1>6. f[0] = s /\ \A i \in 1..n : f[i] = Entered(f[i - 1], batch[i])
  BY <1>4 DEF History, n
<1> DEFINE S == {i \in Nat : i <= n => f[i].board = bs[i + 1]}
<1>7. 0 \in S
  BY <1>5, <1>6
<1>8. ASSUME NEW i \in Nat, i \in S PROVE i + 1 \in S
  <2> SUFFICES ASSUME i + 1 <= n PROVE f[i + 1].board = bs[(i + 1) + 1]
    OBVIOUS
  <2>1. i + 1 \in 1..n /\ (i + 1) - 1 = i
    BY <1>1
  <2>2. f[i + 1] = Entered(f[i], batch[i + 1]) /\ f[i].board = bs[i + 1]
    BY <1>1, <1>6, <1>8, <2>1
  <2>3. f[i + 1].board = Apply(f[i].board, batch[i + 1].event)
    BY <2>2 DEF Entered
  <2>4. bs[(i + 1) + 1] = Apply(bs[i + 1], batch[i + 1].event)
    BY <1>1, <1>5, <2>1
  <2> QED BY <2>2, <2>3, <2>4
<1> HIDE DEF S
<1>9. \A i \in Nat : i \in S
  BY <1>7, <1>8, Counting
<1>10. ASSUME NEW i \in 1..n PROVE Legal(f[i - 1].board, batch[i].event)
  <2>1. i - 1 \in Nat /\ i - 1 <= n /\ (i - 1) + 1 = i
    BY <1>1
  <2>2. f[i - 1].board = bs[(i - 1) + 1]
    BY <1>9, <2>1 DEF S
  <2> QED BY <1>1, <1>5, <2>1, <2>2
<1> QED BY <1>4, <1>10 DEF LegalHistory, n

-----------------------------------------------------------------------------
\* Stores keep their shape.

\* What an event leaves behind of the attempts at a task.
NotedTask(a, e, now) ==
  CASE e.kind = "output.rejected" /\ Penalizing(e.code) ->
         [a EXCEPT !.penalties = @ + 1, !.charged = e.code, !.rejectedAt = now]
    [] e.kind = "output.rejected" /\ ~Penalizing(e.code) -> [a EXCEPT !.rejectedAt = now]
    [] e.kind = "claim"    -> [a EXCEPT !.claimedAt = now]
    [] e.kind = "complete" -> [a EXCEPT !.completedAt = now]
    [] OTHER               -> a

\* The events that runtime_policy.py looks for.
NotedKinds == {"output.rejected", "claim", "complete"}

\* An event is noted of its own task only.
LEMMA NotedIs ==
  ASSUME NEW a, a = [id \in TaskIds |-> a[id]], NEW e, NEW now
  PROVE  /\ DOMAIN Noted(a, e, now) = TaskIds
         /\ Noted(a, e, now) = [id \in TaskIds |-> Noted(a, e, now)[id]]
         /\ \A id \in TaskIds :
              Noted(a, e, now)[id] = IF e.kind \in NotedKinds /\ id = e.task THEN NotedTask(a[id], e, now) ELSE a[id]
<1>0. DOMAIN a = TaskIds
  OBVIOUS
<1>1. CASE e.kind = "output.rejected" /\ Penalizing(e.code)
  <2>1. Noted(a, e, now) =
          [a EXCEPT ![e.task].penalties = @ + 1, ![e.task].charged = e.code, ![e.task].rejectedAt = now]
    BY <1>1 DEF Noted
  <2>2. \A id : NotedTask(a[id], e, now) = [a[id] EXCEPT !.penalties = @ + 1, !.charged = e.code, !.rejectedAt = now]
    BY <1>1 DEF NotedTask
  <2>3. e.kind \in NotedKinds
    BY <1>1 DEF NotedKinds
  <2> HIDE DEF TaskIds
  <2> QED BY <1>0, <2>1, <2>2, <2>3
<1>2. CASE e.kind = "output.rejected" /\ ~Penalizing(e.code)
  <2>1. Noted(a, e, now) = [a EXCEPT ![e.task].rejectedAt = now]
    BY <1>2 DEF Noted
  <2>2. \A id : NotedTask(a[id], e, now) = [a[id] EXCEPT !.rejectedAt = now]
    BY <1>2 DEF NotedTask
  <2>3. e.kind \in NotedKinds
    BY <1>2 DEF NotedKinds
  <2> QED BY <1>0, <2>1, <2>2, <2>3
<1>3. CASE e.kind = "claim"
  <2>1. Noted(a, e, now) = [a EXCEPT ![e.task].claimedAt = now]
    BY <1>3 DEF Noted
  <2>2. \A id : NotedTask(a[id], e, now) = [a[id] EXCEPT !.claimedAt = now]
    BY <1>3 DEF NotedTask
  <2>3. e.kind \in NotedKinds
    BY <1>3 DEF NotedKinds
  <2> QED BY <1>0, <2>1, <2>2, <2>3
<1>4. CASE e.kind = "complete"
  <2>1. Noted(a, e, now) = [a EXCEPT ![e.task].completedAt = now]
    BY <1>4 DEF Noted
  <2>2. \A id : NotedTask(a[id], e, now) = [a[id] EXCEPT !.completedAt = now]
    BY <1>4 DEF NotedTask
  <2>3. e.kind \in NotedKinds
    BY <1>4 DEF NotedKinds
  <2> QED BY <1>0, <2>1, <2>2, <2>3
<1>5. CASE e.kind \notin NotedKinds
  <2>1. Noted(a, e, now) = a
    BY <1>5 DEF Noted, NotedKinds
  <2> QED BY <1>0, <1>5, <2>1
<1> QED BY <1>1, <1>2, <1>3, <1>4, <1>5 DEF NotedKinds

\* Attempts keep their shape, and are not dated later than now.
LEMMA NotedTyped ==
  ASSUME NEW a, NEW now \in Nat, TypedAttempts(a, now), NEW e, NEW at \in 0..now
  PROVE  TypedAttempts(Noted(a, e, at), now)
<1> DEFINE c == Noted(a, e, at)
<1>1. a = [id \in TaskIds |-> a[id]]
  BY DEF TypedAttempts
<1>2. /\ c = [id \in TaskIds |-> c[id]]
      /\ \A id \in TaskIds :
           c[id] = IF e.kind \in NotedKinds /\ id = e.task THEN NotedTask(a[id], e, at) ELSE a[id]
  BY <1>1, NotedIs
<1> HIDE DEF c
<1>3. ASSUME NEW t,
             DOMAIN t = DOMAIN NoAttempts /\ t.penalties \in Nat
             /\ {t.rejectedAt, t.claimedAt, t.completedAt} \subseteq (0..now) \cup {None}
      PROVE  LET u == NotedTask(t, e, at) IN
             /\ DOMAIN u = DOMAIN NoAttempts
             /\ u.penalties \in Nat
             /\ {u.rejectedAt, u.claimedAt, u.completedAt} \subseteq (0..now) \cup {None}
  <2>0. DOMAIN NoAttempts = {"penalties", "charged", "rejectedAt", "claimedAt", "completedAt"}
    BY DEF NoAttempts
  <2>1. CASE e.kind = "output.rejected" /\ Penalizing(e.code)
    <3> DEFINE u == NotedTask(t, e, at)
    <3>1. u = [t EXCEPT !.penalties = @ + 1, !.charged = e.code, !.rejectedAt = at]
      BY <2>1 DEF NotedTask
    <3> HIDE DEF u
    <3>2. DOMAIN u = DOMAIN t
      BY <3>1
    <3>3. /\ u.penalties = t.penalties + 1 /\ u.rejectedAt = at
          /\ u.claimedAt = t.claimedAt /\ u.completedAt = t.completedAt
      BY <1>3, <2>0, <3>1
    <3> QED BY <1>3, <3>2, <3>3 DEF u
  <2>2. CASE e.kind = "output.rejected" /\ ~Penalizing(e.code)
    BY <1>3, <2>0, <2>2 DEF NotedTask
  <2>3. CASE e.kind = "claim"
    BY <1>3, <2>0, <2>3 DEF NotedTask
  <2>4. CASE e.kind = "complete"
    BY <1>3, <2>0, <2>4 DEF NotedTask
  <2>5. CASE e.kind \notin NotedKinds
    BY <1>3, <2>5 DEF NotedTask, NotedKinds
  <2> QED BY <2>1, <2>2, <2>3, <2>4, <2>5 DEF NotedKinds
<1>4. ASSUME NEW id \in TaskIds
      PROVE  /\ DOMAIN c[id] = DOMAIN NoAttempts
             /\ c[id].penalties \in Nat
             /\ {c[id].rejectedAt, c[id].claimedAt, c[id].completedAt} \subseteq (0..now) \cup {None}
  <2>1. /\ DOMAIN a[id] = DOMAIN NoAttempts
        /\ a[id].penalties \in Nat
        /\ {a[id].rejectedAt, a[id].claimedAt, a[id].completedAt} \subseteq (0..now) \cup {None}
    BY DEF TypedAttempts
  <2>2. CASE e.kind \in NotedKinds /\ id = e.task
    <3>1. c[id] = NotedTask(a[id], e, at)
      BY <1>2, <2>2
    <3> QED BY <1>3, <2>1, <3>1
  <2>3. CASE ~(e.kind \in NotedKinds /\ id = e.task)
    <3>1. c[id] = a[id]
      BY <1>2, <2>3
    <3> QED BY <2>1, <3>1
  <2> QED BY <2>2, <2>3
<1> QED BY <1>2, <1>4 DEF TypedAttempts, c

\* An event leaves the first task of an id the only one that is worked on.
LEMMA FirstWorkedStays ==
  ASSUME NEW b, NEW e, WellFormed(b), Legal(b, e), FirstWorked(b.tasks)
  PROVE  FirstWorked(Apply(b, e).tasks)
<1> DEFINE ts == b.tasks
           us == Apply(b, e).tasks
<1>1. IsSequence(ts) /\ (\A i \in 1..Len(ts) : IsTask(ts[i])) /\ Len(ts) \in Nat
  BY WellFormedTasks DEF IsSequence
<1>2. /\ IsSequence(us)
      /\ e.kind \in TaskCreations => Len(us) = Len(ts) + 1 /\ us[Len(ts) + 1] = NewTask(e)
      /\ e.kind \notin TaskCreations => Len(us) = Len(ts)
      /\ \A i \in 1..Len(ts) :
           \/ us[i] = ts[i]
           \/ e.kind = "task.create" /\ us[i] = [ts[i] EXCEPT !.superseded = TRUE]
           \/ /\ e.kind \in TaskChanges /\ FirstAt(ts, e.task, i)
              /\ ts[i].status = RequiredStatus[e.kind] /\ us[i] = Changed(ts[i], e)
  BY TasksAfterAre
<1>3. Grows(ts, us) \/ MovesOne(ts, us) \/ StaysAll(ts, us)
  BY ApplyStep
<1>4. FirstWorked(ts)
  OBVIOUS
<1> HIDE DEF ts, us
<1>5. \A i \in 1..Len(ts) : us[i].id = ts[i].id
  BY <1>3 DEF Grows, MovesOne, StaysAll, Moves, Stays
<1>6. ASSUME NEW i \in 1..Len(us), us[i].status # "todo" PROVE FirstAt(us, us[i].id, i)
  <2>1. CASE i = Len(ts) + 1 /\ e.kind \in TaskCreations
    <3>1. us[i].status = "todo"
      BY <1>2, <2>1 DEF NewTask
    <3> QED BY <3>1, <1>6
  <2>2. CASE i \in 1..Len(ts)
    <3>0. \A j \in 1..i - 1 : j \in 1..Len(ts)
      BY <1>1, <2>2
    <3>1. ts[i].status # "todo" => FirstAt(ts, ts[i].id, i)
      BY <1>4, <2>2 DEF FirstWorked
    <3>2. CASE us[i].status = ts[i].status
      BY <1>5, <1>6, <2>2, <3>0, <3>1, <3>2 DEF FirstAt
    <3>3. CASE FirstAt(ts, e.task, i)
      BY <1>5, <2>2, <3>0, <3>3 DEF FirstAt
    <3>4. CASE us[i] = ts[i]
      BY <3>2, <3>4
    <3>5. CASE us[i] = [ts[i] EXCEPT !.superseded = TRUE]
      <4>1. us[i].status = ts[i].status
        BY <1>1, <2>2, <3>5 DEF IsTask
      <4> QED BY <4>1, <3>2
    <3> QED BY <1>2, <2>2, <3>3, <3>4, <3>5
  <2>3. i = Len(ts) + 1 \/ i \in 1..Len(ts)
    BY <1>1, <1>2
  <2>4. i = Len(ts) + 1 => e.kind \in TaskCreations
    BY <1>1, <1>2
  <2> QED BY <2>1, <2>2, <2>3, <2>4
<1> QED BY <1>6 DEF FirstWorked, us

\* A typed store stays typed under an event the projector accepts.
LEMMA EnteredTyped ==
  ASSUME NEW s, NEW now \in Nat, TypedStore(s, now), NEW x, Legal(s.board, x.event), x.at \in 0..now
  PROVE  TypedStore(Entered(s, x), now)
<1>1. WellFormed(Apply(s.board, x.event))
  BY ApplyStep DEF TypedStore
<1>2. FirstWorked(Apply(s.board, x.event).tasks)
  BY FirstWorkedStays DEF TypedStore
<1>3. TypedAttempts(Noted(s.attempts, x.event, x.at), now)
  BY NotedTyped DEF TypedStore
<1> QED BY <1>1, <1>2, <1>3 DEF Entered, TypedStore

\* All stores of a history are typed.
LEMMA HistoryTyped ==
  ASSUME NEW s, NEW now \in Nat, TypedStore(s, now), NEW batch, IsSequence(batch),
         \A i \in 1..Len(batch) : batch[i].at \in 0..now, NEW f, LegalHistory(f, s, batch)
  PROVE  \A n \in 0..Len(batch) : TypedStore(f[n], now)
<1> DEFINE S == {n \in Nat : n <= Len(batch) => TypedStore(f[n], now)}
<1>0. Len(batch) \in Nat
  BY DEF IsSequence
<1>1. 0 \in S
  BY DEF LegalHistory, History
<1>2. ASSUME NEW n \in Nat, n \in S PROVE n + 1 \in S
  <2> SUFFICES ASSUME n + 1 <= Len(batch) PROVE TypedStore(f[n + 1], now)
    OBVIOUS
  <2>1. n + 1 \in 1..Len(batch) /\ (n + 1) - 1 = n
    BY <1>0
  <2>2. f[n + 1] = Entered(f[n], batch[n + 1]) /\ Legal(f[n].board, batch[n + 1].event)
    BY <2>1 DEF LegalHistory, History
  <2>3. TypedStore(f[n], now)
    BY <1>0, <1>2
  <2> QED BY <2>1, <2>2, <2>3, EnteredTyped
<1> HIDE DEF S
<1>3. \A n \in Nat : n \in S
  BY <1>1, <1>2, Counting
<1> QED BY <1>3 DEF S

-----------------------------------------------------------------------------
\* What becomes of the tasks of a store.

\* A batch the projector accepts, all of whose stores are typed.
TypedHistory(f, s, batch, now) ==
  /\ LegalHistory(f, s, batch)
  /\ IsSequence(batch)
  /\ \A n \in 0..Len(batch) : TypedStore(f[n], now)

\* One step of a typed history.
LEMMA HistoryStep ==
  ASSUME NEW s, NEW now, NEW batch, NEW f, TypedHistory(f, s, batch, now), NEW n \in Nat, n + 1 <= Len(batch)
  PROVE  /\ n + 1 \in 1..Len(batch) /\ n \in 0..Len(batch) /\ n <= Len(batch)
         /\ f[n + 1] = Entered(f[n], batch[n + 1])
         /\ Legal(f[n].board, batch[n + 1].event)
         /\ TypedStore(f[n], now) /\ WellFormed(f[n].board)
         /\ f[n + 1].board = Apply(f[n].board, batch[n + 1].event)
         /\ f[n + 1].attempts = Noted(f[n].attempts, batch[n + 1].event, batch[n + 1].at)
<1>1. Len(batch) \in Nat
  BY DEF TypedHistory, IsSequence
<1>2. n + 1 \in 1..Len(batch) /\ n \in 0..Len(batch) /\ (n + 1) - 1 = n
  BY <1>1
<1>3. f[n + 1] = Entered(f[n], batch[n + 1]) /\ Legal(f[n].board, batch[n + 1].event)
  BY <1>2 DEF TypedHistory, LegalHistory, History
<1>4. TypedStore(f[n], now)
  BY <1>2 DEF TypedHistory
<1> QED BY <1>1, <1>2, <1>3, <1>4 DEF TypedStore, Entered

-----------------------------------------------------------------------------
\* A task becomes done by an approval of it, and is no longer to be done by a
\* claim of it.
LEMMA StatusStep ==
  ASSUME NEW b, NEW e, WellFormed(b), Legal(b, e), NEW i \in 1..Len(Apply(b, e).tasks)
  PROVE  LET ts == b.tasks
             t == Apply(b, e).tasks[i]
             was == \E j \in 1..Len(ts) : ts[j].id = t.id /\ ts[j].status = t.status IN
         /\ t.status = "done" =>
              was \/ (e.kind = "review" /\ e.decision = "approve" /\ e.task = t.id)
         /\ t.status # "todo" =>
              \/ \E j \in 1..Len(ts) : ts[j].id = t.id /\ ts[j].status # "todo"
              \/ e.kind = "claim" /\ e.task = t.id
<1> DEFINE ts == b.tasks
           us == Apply(b, e).tasks
<1>1. IsSequence(ts) /\ (\A j \in 1..Len(ts) : IsTask(ts[j])) /\ Len(ts) \in Nat
  BY WellFormedTasks DEF IsSequence
<1>2. /\ e.kind \in TaskCreations => Len(us) = Len(ts) + 1 /\ us[Len(ts) + 1] = NewTask(e)
      /\ e.kind \notin TaskCreations => Len(us) = Len(ts)
      /\ \A j \in 1..Len(ts) :
           \/ us[j] = ts[j]
           \/ e.kind = "task.create" /\ us[j] = [ts[j] EXCEPT !.superseded = TRUE]
           \/ /\ e.kind \in TaskChanges /\ FirstAt(ts, e.task, j)
              /\ ts[j].status = RequiredStatus[e.kind] /\ us[j] = Changed(ts[j], e)
  BY TasksAfterAre
<1>3. i \in 1..Len(us)
  OBVIOUS
<1> HIDE DEF ts, us
<1>4. CASE i \notin 1..Len(ts)
  <2>1. i = Len(ts) + 1 /\ e.kind \in TaskCreations
    BY <1>1, <1>2, <1>3, <1>4
  <2>2. us[i].status = "todo"
    BY <1>2, <2>1 DEF NewTask
  <2> QED BY <2>2 DEF us
<1>5. CASE i \in 1..Len(ts)
  <2>1. IsTask(ts[i])
    BY <1>1, <1>5
  <2>2. CASE us[i].id = ts[i].id /\ us[i].status = ts[i].status
    BY <1>5, <2>2 DEF ts, us
  <2>3. CASE us[i] = ts[i]
    BY <2>2, <2>3
  <2>4. CASE us[i] = [ts[i] EXCEPT !.superseded = TRUE]
    BY <2>1, <2>2, <2>4 DEF IsTask
  <2>5. CASE /\ e.kind \in TaskChanges /\ FirstAt(ts, e.task, i)
             /\ ts[i].status = RequiredStatus[e.kind] /\ us[i] = Changed(ts[i], e)
    <3>1. e.kind \in {"claim", "complete", "review", "task.amend", "task.limits.set"}
      BY <2>5 DEF TaskChanges, RequiredStatus
    <3>2. us[i].id = ts[i].id /\ e.task = us[i].id
      <4>1. ts[i].id = e.task
        BY <2>5 DEF FirstAt
      <4> QED BY <2>1, <2>5, <3>1, <4>1 DEF Changed, IsTask
    <3>3. CASE e.kind \in {"task.amend", "task.limits.set"}
      <4>1. us[i].status = ts[i].status
        BY <2>1, <2>5, <3>3 DEF Changed, IsTask
      <4> QED BY <2>2, <3>2, <4>1
    <3>4. CASE e.kind = "claim"
      <4>1. us[i].status = "in_progress"
        BY <2>1, <2>5, <3>4 DEF Changed, IsTask
      <4> QED BY <3>2, <3>4, <4>1 DEF us
    <3>5. CASE e.kind = "complete"
      <4>1. us[i].status = "review"
        BY <2>1, <2>5, <3>5 DEF Changed, IsTask
      <4>2. ts[i].status # "todo"
        BY <2>5, <3>5 DEF RequiredStatus
      <4> QED BY <1>5, <3>2, <4>1, <4>2 DEF us, ts
    <3>6. CASE e.kind = "review"
      <4>1. us[i].status = "done" => e.decision = "approve"
        BY <2>1, <2>5, <3>6 DEF Changed, IsTask
      <4>2. ts[i].status # "todo"
        BY <2>5, <3>6 DEF RequiredStatus
      <4> QED BY <1>5, <3>2, <3>6, <4>1, <4>2 DEF us, ts
    <3> QED BY <3>1, <3>3, <3>4, <3>5, <3>6
  <2> QED BY <1>2, <1>5, <2>3, <2>4, <2>5
<1> QED BY <1>4, <1>5

\* What is approved is done.
LEMMA ApprovalStep ==
  ASSUME NEW b, NEW e, WellFormed(b), Legal(b, e), e.kind = "review", e.decision = "approve"
  PROVE  DoneTask(Apply(b, e), e.task)
<1> DEFINE ts == b.tasks
           i == Index(ts, e.task)
           us == [ts EXCEPT ![i] = Changed(@, e)]
<1>1. IsSequence(ts) /\ \A j \in 1..Len(ts) : IsTask(ts[j])
  BY WellFormedTasks
<1>2. e.kind \in TaskChanges /\ e.kind \notin TaskCreations
  BY DEF TaskChanges, RequiredStatus, TaskCreations
<1>3. Known(ts, e.task)
  BY <1>2 DEF Legal
<1>4. DOMAIN ts = 1..Len(ts)
  BY <1>1, DomainOfSequence
<1>5. i \in 1..Len(ts) /\ FirstAt(ts, e.task, i)
  BY <1>3, <1>4 DEF Known, Index
<1>6. Apply(b, e).tasks = us
  BY <1>2 DEF Apply, TasksAfter, TaskCreations
<1> HIDE DEF i, ts
<1>7. IsTask(ts[i]) /\ ts[i].id = e.task
  BY <1>1, <1>5 DEF FirstAt
<1>8. us[i] = Changed(ts[i], e) /\ Len(us) = Len(ts)
  BY <1>1, <1>4, <1>5, ExceptSequence
<1> HIDE DEF us
<1>9. us[i].id = e.task /\ us[i].status = "done"
  BY <1>7, <1>8 DEF Changed, IsTask
<1> QED BY <1>5, <1>6, <1>8, <1>9 DEF DoneTask

-----------------------------------------------------------------------------
\* Done tasks stay so.
LEMMA HistoryDone ==
  ASSUME NEW s, NEW now, NEW batch, NEW f, TypedHistory(f, s, batch, now), NEW id,
         NEW m \in Nat, DoneTask(f[m].board, id)
  PROVE  \A n \in m..Len(batch) : DoneTask(f[n].board, id)
<1> DEFINE S == {d \in Nat : m + d <= Len(batch) => DoneTask(f[m + d].board, id)}
<1>0. Len(batch) \in Nat
  BY DEF TypedHistory, IsSequence
<1>1. 0 \in S
  OBVIOUS
<1>2. ASSUME NEW d \in Nat, d \in S PROVE d + 1 \in S
  <2> SUFFICES ASSUME m + (d + 1) <= Len(batch) PROVE DoneTask(f[m + (d + 1)].board, id)
    OBVIOUS
  <2>1. m + d \in Nat /\ (m + d) + 1 <= Len(batch) /\ (m + d) + 1 = m + (d + 1) /\ m + d <= Len(batch)
    BY <1>0
  <2>2. DoneTask(f[m + d].board, id)
    BY <1>2, <2>1
  <2>3. /\ Legal(f[m + d].board, batch[(m + d) + 1].event) /\ WellFormed(f[m + d].board)
        /\ f[(m + d) + 1].board = Apply(f[m + d].board, batch[(m + d) + 1].event)
    BY <2>1, HistoryStep
  <2> QED BY <2>1, <2>2, <2>3, DoneStays
<1> HIDE DEF S
<1>3. \A d \in Nat : d \in S
  BY <1>1, <1>2, Counting
<1>4. ASSUME NEW n \in m..Len(batch) PROVE DoneTask(f[n].board, id)
  <2>1. n - m \in Nat /\ m + (n - m) = n
    BY <1>0
  <2> QED BY <1>0, <1>3, <2>1 DEF S
<1> QED BY <1>4

\* What is no longer to be done was so before, or has been claimed on the way;
\* what is done was done before, or has been approved on the way.
Begun(b, id) == \E j \in 1..Len(b.tasks) : b.tasks[j].id = id /\ b.tasks[j].status # "todo"
Claims(batch, n, id) == \E k \in 1..n : batch[k].event.kind = "claim" /\ batch[k].event.task = id

\* What was begun, or done, on the way was so before, or by an event on the way.
LEMMA HistoryStatus ==
  ASSUME NEW s, NEW now, NEW batch, NEW f, TypedHistory(f, s, batch, now)
  PROVE  \A n \in 0..Len(batch) : \A id :
           /\ Begun(f[n].board, id) => Begun(s.board, id) \/ Claims(batch, n, id)
           /\ DoneTask(f[n].board, id) => DoneTask(s.board, id) \/ Approves(batch, n, id)
<1> DEFINE P(n) == \A id :
             /\ Begun(f[n].board, id) => Begun(s.board, id) \/ Claims(batch, n, id)
             /\ DoneTask(f[n].board, id) => DoneTask(s.board, id) \/ Approves(batch, n, id)
           S == {n \in Nat : n <= Len(batch) => P(n)}
<1>0. Len(batch) \in Nat
  BY DEF TypedHistory, IsSequence
<1>1. 0 \in S
  <2>1. f[0] = s
    BY DEF TypedHistory, LegalHistory, History
  <2> QED BY <2>1
<1>2. ASSUME NEW n \in Nat, n \in S PROVE n + 1 \in S
  <2> SUFFICES ASSUME n + 1 <= Len(batch) PROVE P(n + 1)
    OBVIOUS
  <2> DEFINE b == f[n].board
             e == batch[n + 1].event
  <2>1. /\ Legal(b, e) /\ WellFormed(b) /\ f[n + 1].board = Apply(b, e) /\ n <= Len(batch)
    BY HistoryStep
  <2>2. P(n)
    BY <1>2, <2>1
  <2>3. n + 1 \in 1..n + 1 /\ \A k \in 1..n : k \in 1..n + 1
    OBVIOUS
  <2> HIDE DEF b
  <2> SUFFICES ASSUME NEW id
               PROVE  /\ Begun(f[n + 1].board, id) => Begun(s.board, id) \/ Claims(batch, n + 1, id)
                      /\ DoneTask(f[n + 1].board, id) => DoneTask(s.board, id) \/ Approves(batch, n + 1, id)
    OBVIOUS
  <2>4. ASSUME Begun(Apply(b, e), id) PROVE Begun(s.board, id) \/ Claims(batch, n + 1, id)
    <3>1. PICK i \in 1..Len(Apply(b, e).tasks) : Apply(b, e).tasks[i].id = id /\ Apply(b, e).tasks[i].status # "todo"
      BY <2>4 DEF Begun
    <3>2. Begun(b, id) \/ (e.kind = "claim" /\ e.task = id)
      BY <2>1, <3>1, StatusStep DEF Begun
    <3>3. Begun(b, id) => Begun(s.board, id) \/ Claims(batch, n, id)
      BY <2>2 DEF b
    <3>4. Claims(batch, n, id) => Claims(batch, n + 1, id)
      BY <2>3 DEF Claims
    <3>5. e.kind = "claim" /\ e.task = id => Claims(batch, n + 1, id)
      BY <2>3 DEF Claims
    <3> QED BY <3>2, <3>3, <3>4, <3>5
  <2>5. ASSUME DoneTask(Apply(b, e), id) PROVE DoneTask(s.board, id) \/ Approves(batch, n + 1, id)
    <3>1. PICK i \in 1..Len(Apply(b, e).tasks) : Apply(b, e).tasks[i].id = id /\ Apply(b, e).tasks[i].status = "done"
      BY <2>5 DEF DoneTask
    <3>2. DoneTask(b, id) \/ (e.kind = "review" /\ e.decision = "approve" /\ e.task = id)
      BY <2>1, <3>1, StatusStep DEF DoneTask
    <3>3. DoneTask(b, id) => DoneTask(s.board, id) \/ Approves(batch, n, id)
      BY <2>2 DEF b
    <3>4. Approves(batch, n, id) => Approves(batch, n + 1, id)
      BY <2>3 DEF Approves
    <3>5. e.kind = "review" /\ e.decision = "approve" /\ e.task = id => Approves(batch, n + 1, id)
      BY <2>3 DEF Approves
    <3> QED BY <3>2, <3>3, <3>4, <3>5
  <2> QED BY <2>1, <2>4, <2>5
<1> HIDE DEF S
<1>3. \A n \in Nat : n \in S
  BY <1>1, <1>2, Counting
<1> QED BY <1>0, <1>3 DEF S

\* What has been approved on the way is done from then on.
LEMMA HistoryApproved ==
  ASSUME NEW s, NEW now, NEW batch, NEW f, TypedHistory(f, s, batch, now), NEW id,
         NEW m \in 0..Len(batch), Approves(batch, m, id)
  PROVE  DoneTask(f[Len(batch)].board, id)
<1>0. Len(batch) \in Nat
  BY DEF TypedHistory, IsSequence
<1>1. PICK k \in 1..m : batch[k].event.kind = "review" /\ batch[k].event.decision = "approve" /\ batch[k].event.task = id
  BY DEF Approves
<1>2. k - 1 \in Nat /\ (k - 1) + 1 = k /\ (k - 1) + 1 <= Len(batch) /\ k \in Nat /\ Len(batch) \in k..Len(batch)
  BY <1>0
<1>3. /\ Legal(f[k - 1].board, batch[(k - 1) + 1].event) /\ WellFormed(f[k - 1].board)
      /\ f[(k - 1) + 1].board = Apply(f[k - 1].board, batch[(k - 1) + 1].event)
  BY <1>2, HistoryStep
<1>4. DoneTask(f[k].board, id)
  BY <1>1, <1>2, <1>3, ApprovalStep
<1> QED BY <1>2, <1>4, HistoryDone

-----------------------------------------------------------------------------
\* What becomes of the attempts.

\* No attempt at a task is charged between s and u.
NoneCharged(s, u) == \A id \in TaskIds : NotCharged(s.attempts[id], u.attempts[id])

\* Nothing but a rejection charges an attempt.
LEMMA NoneChargedStep ==
  ASSUME NEW s, NEW now, TypedStore(s, now), NEW x, x.event.kind # "output.rejected"
  PROVE  NoneCharged(s, Entered(s, x))
<1> DEFINE e == x.event
           a == s.attempts
           c == Noted(a, e, x.at)
<1>1. a = [id \in TaskIds |-> a[id]] /\ \A id \in TaskIds : DOMAIN a[id] = DOMAIN NoAttempts
  BY DEF TypedStore, TypedAttempts
<1>2. \A id \in TaskIds : c[id] = IF e.kind \in NotedKinds /\ id = e.task THEN NotedTask(a[id], e, x.at) ELSE a[id]
  BY <1>1, NotedIs
<1>3. ASSUME NEW id \in TaskIds PROVE c[id].penalties = a[id].penalties /\ c[id].charged = a[id].charged
  <2>1. CASE e.kind \in NotedKinds /\ id = e.task
    <3>1. c[id] = NotedTask(a[id], e, x.at) /\ e.kind \in {"claim", "complete"}
      BY <1>2, <2>1 DEF NotedKinds
    <3>2. DOMAIN a[id] = {"penalties", "charged", "rejectedAt", "claimedAt", "completedAt"}
      BY <1>1 DEF NoAttempts
    <3> HIDE DEF c
    <3>3. CASE e.kind = "claim"
      <4>1. c[id] = [a[id] EXCEPT !.claimedAt = x.at]
        BY <3>1, <3>3 DEF NotedTask
      <4> QED BY <3>2, <4>1
    <3>4. CASE e.kind = "complete"
      <4>1. c[id] = [a[id] EXCEPT !.completedAt = x.at]
        BY <3>1, <3>4 DEF NotedTask
      <4> QED BY <3>2, <4>1
    <3> QED BY <3>1, <3>3, <3>4
  <2>2. CASE ~(e.kind \in NotedKinds /\ id = e.task)
    <3>1. c[id] = a[id]
      BY <1>2, <2>2
    <3> QED BY <3>1
  <2> QED BY <2>1, <2>2
<1>4. Entered(s, x).attempts = c
  BY DEF Entered
<1> QED BY <1>3, <1>4 DEF NoneCharged, NotCharged

\* An id that is not there yet is created, or none.
LEMMA UniqueStep ==
  ASSUME NEW s, WellFormed(s.board), EntriesUnique(s), NEW x, Legal(s.board, x.event),
         x.event.kind \in TaskCreations => x.event.task \notin Ids(s.board.tasks)
  PROVE  EntriesUnique(Entered(s, x))
<1> DEFINE e == x.event
           ts == s.board.tasks
           us == Apply(s.board, e).tasks
<1>1. IsSequence(ts) /\ Len(ts) \in Nat /\ DOMAIN ts = 1..Len(ts)
  BY WellFormedTasks, DomainOfSequence DEF IsSequence
<1>2. /\ IsSequence(us)
      /\ e.kind \in TaskCreations => Len(us) = Len(ts) + 1 /\ us[Len(ts) + 1] = NewTask(e)
      /\ e.kind \notin TaskCreations => Len(us) = Len(ts)
  BY TasksAfterAre
<1>3. Grows(ts, us) \/ MovesOne(ts, us) \/ StaysAll(ts, us)
  BY ApplyStep
<1>4. DOMAIN us = 1..Len(us)
  BY <1>2, DomainOfSequence
<1>5. \A i, j \in 1..Len(ts) : ts[i].id = ts[j].id => i = j
  BY <1>1 DEF EntriesUnique
<1>6. e.kind \in TaskCreations => \A i \in 1..Len(ts) : ts[i].id # e.task
  BY <1>1 DEF Ids
<1>7. Entered(s, x).board.tasks = us
  BY DEF Entered
<1> HIDE DEF ts, us
<1>8. \A i \in 1..Len(ts) : us[i].id = ts[i].id
  BY <1>3 DEF Grows, MovesOne, StaysAll, Moves, Stays
<1>9. e.kind \in TaskCreations => us[Len(ts) + 1].id = e.task
  BY <1>2 DEF NewTask
<1>10. \A i, j \in 1..Len(us) : us[i].id = us[j].id => i = j
  <2>1. CASE e.kind \in TaskCreations
    <3>1. Len(us) = Len(ts) + 1
      BY <1>2, <2>1
    <3>2. \A i \in 1..Len(us) : i \in 1..Len(ts) \/ i = Len(ts) + 1
      BY <1>1, <3>1
    <3> QED BY <1>5, <1>6, <1>8, <1>9, <2>1, <3>2
  <2>2. CASE e.kind \notin TaskCreations
    BY <1>2, <1>5, <1>8, <2>2
  <2> QED BY <2>1, <2>2
<1> QED BY <1>4, <1>7, <1>10 DEF EntriesUnique

\* Only ids that are not there yet are created.
OnlyNew(f, batch) ==
  \A i \in 1..Len(batch) :
    batch[i].event.kind \in TaskCreations => batch[i].event.task \notin Ids(f[i - 1].board.tasks)

\* Then there is one entry of each task.
LEMMA UniqueHistory ==
  ASSUME NEW s, NEW now, NEW batch, NEW f, TypedHistory(f, s, batch, now), EntriesUnique(s), OnlyNew(f, batch)
  PROVE  EntriesUnique(f[Len(batch)])
<1> DEFINE S == {n \in Nat : n <= Len(batch) => EntriesUnique(f[n])}
<1>0. Len(batch) \in Nat
  BY DEF TypedHistory, IsSequence
<1>1. 0 \in S
  <2>1. f[0] = s
    BY DEF TypedHistory, LegalHistory, History
  <2> QED BY <2>1
<1>2. ASSUME NEW n \in Nat, n \in S PROVE n + 1 \in S
  <2> SUFFICES ASSUME n + 1 <= Len(batch) PROVE EntriesUnique(f[n + 1])
    OBVIOUS
  <2> DEFINE u == f[n]
             x == batch[n + 1]
  <2>1. /\ n + 1 \in 1..Len(batch) /\ n <= Len(batch)
        /\ f[n + 1] = Entered(u, x) /\ Legal(u.board, x.event)
        /\ WellFormed(u.board)
    BY HistoryStep
  <2>2. EntriesUnique(u)
    BY <1>2, <2>1
  <2>3. x.event.kind \in TaskCreations => x.event.task \notin Ids(u.board.tasks)
    <3>1. (n + 1) - 1 = n
      OBVIOUS
    <3> QED BY <2>1, <3>1 DEF OnlyNew
  <2> HIDE DEF x, u
  <2> QED BY <2>1, <2>2, <2>3, UniqueStep
<1> HIDE DEF S
<1>3. \A n \in Nat : n \in S
  BY <1>1, <1>2, Counting
<1> QED BY <1>0, <1>3 DEF S

\* Events that reject nothing charge nothing.
LEMMA UnchargedHistory ==
  ASSUME NEW s, NEW now, NEW batch, NEW f, TypedHistory(f, s, batch, now),
         \A i \in 1..Len(batch) : batch[i].event.kind # "output.rejected"
  PROVE  NoneCharged(s, f[Len(batch)])
<1> DEFINE S == {n \in Nat : n <= Len(batch) => NoneCharged(s, f[n])}
<1>0. Len(batch) \in Nat
  BY DEF TypedHistory, IsSequence
<1>1. 0 \in S
  <2>1. f[0] = s
    BY DEF TypedHistory, LegalHistory, History
  <2> QED BY <2>1 DEF NoneCharged, NotCharged
<1>2. ASSUME NEW n \in Nat, n \in S PROVE n + 1 \in S
  <2> SUFFICES ASSUME n + 1 <= Len(batch) PROVE NoneCharged(s, f[n + 1])
    OBVIOUS
  <2> DEFINE u == f[n]
             x == batch[n + 1]
  <2>1. /\ n + 1 \in 1..Len(batch) /\ n <= Len(batch) /\ f[n + 1] = Entered(u, x) /\ TypedStore(u, now)
    BY HistoryStep
  <2>2. NoneCharged(s, u) /\ x.event.kind # "output.rejected"
    BY <1>2, <2>1
  <2> HIDE DEF x, u
  <2>3. NoneCharged(u, Entered(u, x))
    BY <2>1, <2>2, NoneChargedStep
  <2> QED BY <2>1, <2>2, <2>3 DEF NoneCharged, NotCharged
<1> HIDE DEF S
<1>3. \A n \in Nat : n \in S
  BY <1>1, <1>2, Counting
<1> QED BY <1>0, <1>3 DEF S

\* Attempts that are not charged are as open as they were.
LEMMA BlockedAsBefore ==
  ASSUME NEW s, NEW u, NEW id, NotCharged(s.attempts[id], u.attempts[id])
  PROVE  Blocked(u.attempts, id) <=> Blocked(s.attempts, id)
BY DEF NotCharged, Blocked, Penalties

\* What is charged first and what is charged next are charged in all.
LEMMA ChargingOn ==
  ASSUME NEW s, NEW u, NEW v, NEW batch, NEW more, Charging(s, u, batch), Charging(u, v, more),
         \A id : Escalated(batch, id) => Escalated(more, id)
  PROVE  Charging(s, v, more)
<1> SUFFICES ASSUME NEW id \in TaskIds PROVE NotCharged(s.attempts[id], v.attempts[id]) \/ Spent(s, v, more, id)
  BY DEF Charging
<1>1. NotCharged(s.attempts[id], u.attempts[id]) \/ Spent(s, u, batch, id)
  BY DEF Charging
<1>2. NotCharged(u.attempts[id], v.attempts[id]) \/ Spent(u, v, more, id)
  BY DEF Charging
<1>3. CASE NotCharged(u.attempts[id], v.attempts[id])
  <2>1. CASE NotCharged(s.attempts[id], u.attempts[id])
    BY <1>3, <2>1 DEF NotCharged
  <2>2. CASE Spent(s, u, batch, id)
    <3>1. Penalties(v.attempts, id) = Penalties(u.attempts, id) /\ v.attempts[id].charged = u.attempts[id].charged
      BY <1>3 DEF NotCharged, Penalties
    <3>2. Blocked(v.attempts, id) => Blocked(u.attempts, id)
      BY <1>3, BlockedAsBefore
    <3> QED BY <2>2, <3>1, <3>2 DEF Spent
  <2> QED BY <1>1, <2>1, <2>2
<1>4. CASE Spent(u, v, more, id)
  <2>1. ~Blocked(s.attempts, id)
    <3>1. CASE NotCharged(s.attempts[id], u.attempts[id])
      BY <1>4, <3>1, BlockedAsBefore DEF Spent
    <3>2. CASE Spent(s, u, batch, id)
      BY <3>2 DEF Spent
    <3> QED BY <1>1, <3>1, <3>2
  <2> QED BY <1>4, <2>1 DEF Spent
<1> QED BY <1>2, <1>3, <1>4

-----------------------------------------------------------------------------
\* Events the projector always accepts, and that leave the tasks as they are.
Quiet == {"output.rejected", "issue.report", "run.end", "verify.ok", WriteKind}

\* A quiet event is always accepted and changes no task.
LEMMA QuietStep ==
  ASSUME NEW b, NEW e, e.kind \in Quiet
  PROVE  Legal(b, e) /\ Apply(b, e).tasks = b.tasks
<1>1. e.kind \notin TaskChanges /\ e.kind \notin TaskCreations
      /\ e.kind \notin {"task.create", "hotfix.create", "issue.resolve", "claim", "complete", "review", "task.limits.set"}
  BY DEF Quiet, WriteKind, TaskChanges, RequiredStatus, TaskCreations
<1>2. Legal(b, e)
  BY <1>1 DEF Legal
<1>3. TasksAfter(b.tasks, e) = b.tasks
  BY <1>1 DEF TasksAfter
<1> QED BY <1>2, <1>3 DEF Apply

\* A batch of quiet events.
QuietBatch(batch) == \A i \in 1..Len(batch) : batch[i].event.kind \in Quiet

\* A quiet batch is always accepted and changes no task.
LEMMA QuietHistory ==
  ASSUME NEW s, NEW batch, IsSequence(batch), NEW f, History(f, s, batch), QuietBatch(batch)
  PROVE  /\ LegalHistory(f, s, batch)
         /\ \A n \in 0..Len(batch) : f[n].board.tasks = s.board.tasks
<1> DEFINE S == {n \in Nat : n <= Len(batch) => f[n].board.tasks = s.board.tasks}
<1>0. Len(batch) \in Nat
  BY DEF IsSequence
<1>1. 0 \in S
  BY DEF History
<1>2. ASSUME NEW n \in Nat, n \in S PROVE n + 1 \in S
  <2> SUFFICES ASSUME n + 1 <= Len(batch) PROVE f[n + 1].board.tasks = s.board.tasks
    OBVIOUS
  <2>1. n + 1 \in 1..Len(batch) /\ (n + 1) - 1 = n /\ n <= Len(batch)
    BY <1>0
  <2>2. f[n + 1] = Entered(f[n], batch[n + 1])
    BY <2>1 DEF History
  <2>3. f[n + 1].board = Apply(f[n].board, batch[n + 1].event)
    BY <2>2 DEF Entered
  <2> QED BY <1>2, <2>1, <2>3, QuietStep DEF QuietBatch
<1> HIDE DEF S
<1>3. \A n \in Nat : n \in S
  BY <1>1, <1>2, Counting
<1>4. LegalHistory(f, s, batch)
  BY QuietStep DEF LegalHistory, QuietBatch
<1> QED BY <1>0, <1>3, <1>4 DEF S

-----------------------------------------------------------------------------
\* An attempt at a task is charged.
Charged(a, c, code) == c.penalties = a.penalties + 1 /\ c.charged = code

\* A rejection charges its task, unless the output named another status.
Rejects(s, u, id, code) ==
  /\ u.board.tasks = s.board.tasks
  /\ \A other \in TaskIds : other # id => NotCharged(s.attempts[other], u.attempts[other])
  /\ id \in TaskIds => IF code # "PRIOR_STATUS_MISMATCH"
                       THEN Charged(s.attempts[id], u.attempts[id], code)
                       ELSE NotCharged(s.attempts[id], u.attempts[id])

\* What one rejection does.
LEMMA RejectionStep ==
  ASSUME NEW s, NEW now, TypedStore(s, now), NEW x, NEW id, NEW code, x.event = Rejected(id, code)
  PROVE  Rejects(s, Entered(s, x), id, code)
<1> DEFINE e == x.event
           a == s.attempts
           c == Noted(a, e, x.at)
           u == Entered(s, x)
<1>0. e.kind = "output.rejected" /\ e.task = id /\ e.code = code /\ e.kind \in NotedKinds
  BY DEF Rejected, NotedKinds
<1>1. a = [i \in TaskIds |-> a[i]] /\ \A i \in TaskIds : DOMAIN a[i] = DOMAIN NoAttempts
  BY DEF TypedStore, TypedAttempts
<1>2. \A i \in TaskIds : c[i] = IF e.kind \in NotedKinds /\ i = e.task THEN NotedTask(a[i], e, x.at) ELSE a[i]
  BY <1>1, NotedIs
<1>3. u.attempts = c /\ u.board = Apply(s.board, e)
  BY DEF Entered
<1>4. e.kind \in Quiet
  BY <1>0 DEF Quiet
<1>5. u.board.tasks = s.board.tasks
  BY <1>3, <1>4, QuietStep
<1> HIDE DEF u, c
<1>7. ASSUME NEW other \in TaskIds, other # id PROVE NotCharged(a[other], c[other])
  <2>1. c[other] = a[other]
    BY <1>0, <1>2, <1>7
  <2> QED BY <2>1 DEF NotCharged
<1>8. ASSUME id \in TaskIds
      PROVE  IF code # "PRIOR_STATUS_MISMATCH" THEN Charged(a[id], c[id], code) ELSE NotCharged(a[id], c[id])
  <2>1. c[id] = NotedTask(a[id], e, x.at)
    BY <1>0, <1>2, <1>8
  <2>2. DOMAIN a[id] = {"penalties", "charged", "rejectedAt", "claimedAt", "completedAt"}
    BY <1>1, <1>8 DEF NoAttempts
  <2>3. CASE Penalizing(code)
    <3>1. c[id] = [a[id] EXCEPT !.penalties = @ + 1, !.charged = code, !.rejectedAt = x.at]
      BY <1>0, <2>1, <2>3 DEF NotedTask
    <3>2. c[id].penalties = a[id].penalties + 1 /\ c[id].charged = code
      BY <2>2, <3>1
    <3> QED BY <2>3, <3>2 DEF Charged, Penalizing
  <2>4. CASE ~Penalizing(code)
    <3>1. c[id] = [a[id] EXCEPT !.rejectedAt = x.at]
      BY <1>0, <2>1, <2>4 DEF NotedTask
    <3>2. c[id].penalties = a[id].penalties /\ c[id].charged = a[id].charged
      BY <2>2, <3>1
    <3> QED BY <2>4, <3>2 DEF NotCharged, Penalizing
  <2> QED BY <2>3, <2>4
<1> QED BY <1>3, <1>5, <1>7, <1>8 DEF u, Rejects

\* Timeouts of different tasks charge each of them.
LEMMA TimeoutHistory ==
  ASSUME NEW s, NEW now, NEW batch, NEW f, TypedHistory(f, s, batch, now), NEW ids,
         \A i \in 1..Len(batch) : ids[i] \in TaskIds /\ batch[i].event = Rejected(ids[i], "ATTEMPT_TIMEOUT"),
         \A i, j \in 1..Len(batch) : ids[i] = ids[j] => i = j
  PROVE  LET u == f[Len(batch)] IN
         /\ u.board.tasks = s.board.tasks
         /\ \A i \in 1..Len(batch) : Charged(s.attempts[ids[i]], u.attempts[ids[i]], "ATTEMPT_TIMEOUT")
         /\ \A id \in TaskIds :
              (\A i \in 1..Len(batch) : ids[i] # id) => NotCharged(s.attempts[id], u.attempts[id])
<1> DEFINE P(n, u) ==
             /\ u.board.tasks = s.board.tasks
             /\ \A i \in 1..n : Charged(s.attempts[ids[i]], u.attempts[ids[i]], "ATTEMPT_TIMEOUT")
             /\ \A id \in TaskIds : (\A i \in 1..n : ids[i] # id) => NotCharged(s.attempts[id], u.attempts[id])
           S == {n \in Nat : n <= Len(batch) => P(n, f[n])}
<1>0. Len(batch) \in Nat
  BY DEF TypedHistory, IsSequence
<1>1. 0 \in S
  <2>1. f[0] = s
    BY DEF TypedHistory, LegalHistory, History
  <2> QED BY <2>1 DEF NotCharged
<1>2. ASSUME NEW n \in Nat, n \in S PROVE n + 1 \in S
  <2> SUFFICES ASSUME n + 1 <= Len(batch) PROVE P(n + 1, f[n + 1])
    OBVIOUS
  <2> DEFINE u == f[n]
             v == f[n + 1]
             k == ids[n + 1]
  <2>1. /\ n + 1 \in 1..Len(batch) /\ n <= Len(batch) /\ v = Entered(u, batch[n + 1]) /\ TypedStore(u, now)
    BY HistoryStep
  <2>2. P(n, u)
    BY <1>2, <2>1
  <2>3. batch[n + 1].event = Rejected(k, "ATTEMPT_TIMEOUT") /\ k \in TaskIds
    BY <2>1
  <2> HIDE DEF u, v
  <2> DEFINE x == batch[n + 1]
  <2> HIDE DEF x, k, P, S
  <2>10. Rejects(u, Entered(u, x), k, "ATTEMPT_TIMEOUT")
    BY <2>1, <2>3, RejectionStep DEF x
  <2> USE DEF P
  <2>4. /\ v.board.tasks = u.board.tasks
        /\ \A other \in TaskIds : other # k => NotCharged(u.attempts[other], v.attempts[other])
        /\ Charged(u.attempts[k], v.attempts[k], "ATTEMPT_TIMEOUT")
    BY <2>1, <2>3, <2>10 DEF x, Rejects
  <2>5. \A i \in 1..n : i \in 1..Len(batch) /\ i # n + 1
    BY <1>0
  <2> USE DEF k
  <2>6. \A i \in 1..n : ids[i] \in TaskIds /\ ids[i] # k
    BY <2>1, <2>5
  <2>7. Charged(s.attempts[k], v.attempts[k], "ATTEMPT_TIMEOUT")
    <3>1. NotCharged(s.attempts[k], u.attempts[k])
      BY <2>2, <2>3, <2>6
    <3> QED BY <2>4, <3>1 DEF Charged, NotCharged
  <2>8. ASSUME NEW i \in 1..n + 1 PROVE Charged(s.attempts[ids[i]], v.attempts[ids[i]], "ATTEMPT_TIMEOUT")
    <3>1. CASE i = n + 1
      BY <2>7, <3>1
    <3>2. CASE i \in 1..n
      <4>1. Charged(s.attempts[ids[i]], u.attempts[ids[i]], "ATTEMPT_TIMEOUT")
        BY <2>2, <3>2
      <4>2. NotCharged(u.attempts[ids[i]], v.attempts[ids[i]])
        BY <2>4, <2>6, <3>2
      <4> QED BY <4>1, <4>2 DEF Charged, NotCharged
    <3> QED BY <3>1, <3>2
  <2>9. ASSUME NEW id \in TaskIds, \A i \in 1..n + 1 : ids[i] # id PROVE NotCharged(s.attempts[id], v.attempts[id])
    <3>1. id # k /\ \A i \in 1..n : ids[i] # id
      BY <2>9
    <3>2. NotCharged(s.attempts[id], u.attempts[id]) /\ NotCharged(u.attempts[id], v.attempts[id])
      BY <2>2, <2>4, <3>1
    <3> QED BY <3>2 DEF NotCharged
  <2> QED BY <2>2, <2>4, <2>8, <2>9 DEF v
<1> HIDE DEF S
<1>3. \A n \in Nat : n \in S
  BY <1>1, <1>2, Counting
<1> QED BY <1>0, <1>3 DEF S

-----------------------------------------------------------------------------
\* Choosing from lists.

\* p takes from s: what is in p is in s, and different tasks stay different.
DistinctIds(s) == \A i, j \in 1..Len(s) : s[i].id = s[j].id => i = j

\* p has only elements of s, none of them twice unless s has.
Takes(p, s) ==
  /\ IsSequence(p)
  /\ \A i \in 1..Len(p) : \E k \in 1..Len(s) : p[i] = s[k]
  /\ DistinctIds(s) => DistinctIds(p)

\* Taking from what was taken.
LEMMA TakesTwice ==
  ASSUME NEW p, NEW q, NEW s, Takes(p, q), Takes(q, s)
  PROVE  Takes(p, s)
BY DEF Takes

\* Picked takes, what is at the given places.
TakesAt(p, s, places) ==
  Takes(p, s) /\ \A i \in 1..Len(p) : \E k \in 1..Len(s) : k \in places /\ p[i] = s[k]

\* Picking takes, from the places picked.
LEMMA PickedTakes ==
  ASSUME NEW s, IsSequence(s), NEW places
  PROVE  TakesAt(Picked(s, places), s, places)
<1> DEFINE p == Picked(s, places)
<1>1. PICK at : Picks(p, s, places, at)
  BY PickedAre
<1> HIDE DEF p
<1>2. IsSequence(p) /\ Len(p) \in Nat /\ Len(s) \in Nat
  BY <1>1 DEF Picks, IsSequence
<1>3. \A i \in 1..Len(p) : at[i] \in 1..Len(s) /\ at[i] \in places /\ p[i] = s[at[i]]
  BY <1>1 DEF Picks
<1>4. ASSUME DistinctIds(s), NEW i \in 1..Len(p), NEW j \in 1..Len(p), p[i].id = p[j].id PROVE i = j
  <2>1. at[i] = at[j]
    BY <1>3, <1>4 DEF DistinctIds
  <2>2. i < j => at[i] < at[j]
    BY <1>1, <1>4 DEF Picks
  <2>3. j < i => at[j] < at[i]
    BY <1>1, <1>4 DEF Picks
  <2>4. at[i] \in Nat /\ i \in Nat /\ j \in Nat
    BY <1>2, <1>3, <1>4
  <2> QED BY <2>1, <2>2, <2>3, <2>4
<1>5. DistinctIds(s) => DistinctIds(p)
  BY <1>4 DEF DistinctIds
<1> QED BY <1>2, <1>3, <1>5 DEF TakesAt, Takes, p

\* The beginning of a sequence takes.
LEMMA FirstOfTakes ==
  ASSUME NEW s, IsSequence(s), NEW n \in Nat
  PROVE  Takes(FirstOf(s, n), s)
<1> DEFINE m == IF n < Len(s) THEN n ELSE Len(s)
           p == SubSeq(s, 1, m)
<1>1. m \in Nat /\ m <= Len(s) /\ Len(s) \in Nat
  BY DEF IsSequence
<1>2. FirstOf(s, n) = p
  BY DEF FirstOf
<1> HIDE DEF m
<1>3. IsSequence(p) /\ Len(p) = m /\ \A i \in 1..m : p[i] = s[i]
  BY <1>1, PrefixSequence
<1> HIDE DEF p
<1>4. \A i \in 1..Len(p) : i \in 1..Len(s)
  BY <1>1, <1>3
<1>5. \A i \in 1..Len(p) : \E k \in 1..Len(s) : p[i] = s[k]
  BY <1>3, <1>4
<1>6. DistinctIds(s) => DistinctIds(p)
  BY <1>3, <1>4 DEF DistinctIds
<1> QED BY <1>2, <1>3, <1>5, <1>6 DEF Takes

-----------------------------------------------------------------------------
\* Where the elements of a flattened sequence come from: the sequence and the
\* place in it.
FlattenRecursion(f, seqs, n) == f = [i \in 1..n |-> IF i = 1 THEN seqs[i] ELSE f[i - 1] \o seqs[i]]

\* The partial concatenations exist.
LEMMA FlattenExist ==
  ASSUME NEW seqs, NEW n \in Nat
  PROVE  \E f : FlattenRecursion(f, seqs, n)
<1> DEFINE S == {m \in Nat : \E f : FlattenRecursion(f, seqs, m)}
<1>1. 0 \in S
  <2> DEFINE f == [i \in 1..0 |-> seqs[i]]
  <2>1. f = [i \in 1..0 |-> IF i = 1 THEN seqs[i] ELSE f[i - 1] \o seqs[i]]
    OBVIOUS
  <2> HIDE DEF f
  <2>2. \E g : FlattenRecursion(g, seqs, 0)
    BY <2>1 DEF FlattenRecursion
  <2> QED BY <2>2
<1>2. ASSUME NEW m \in Nat, m \in S PROVE m + 1 \in S
  <2>1. PICK f : f = [i \in 1..m |-> IF i = 1 THEN seqs[i] ELSE f[i - 1] \o seqs[i]]
    BY <1>2, Zenon DEF FlattenRecursion
  <2> DEFINE Join(i, p) == p \o seqs[i]
             g == [i \in 1..m + 1 |-> IF i = m + 1 THEN IF i = 1 THEN seqs[i] ELSE Join(i, f[m]) ELSE f[i]]
  <2>2. ASSUME NEW i \in 1..m + 1
        PROVE  g[i] = IF i = 1 THEN seqs[i] ELSE Join(i, g[i - 1])
    <3> HIDE DEF Join
    <3>1. CASE i = m + 1
      <4>1. i # 1 => i - 1 = m /\ m \in 1..m + 1 /\ m # m + 1
        BY <3>1
      <4> QED BY <3>1, <4>1
    <3>2. CASE i # m + 1
      <4>1. i \in 1..m /\ (i # 1 => i - 1 \in 1..m + 1 /\ i - 1 # m + 1)
        BY <3>2
      <4>2. g[i] = f[i] /\ (i # 1 => g[i - 1] = f[i - 1])
        BY <3>2, <4>1
      <4>3. f[i] = IF i = 1 THEN seqs[i] ELSE Join(i, f[i - 1])
        BY <2>1, <4>1 DEF Join
      <4> QED BY <4>2, <4>3
    <3> QED BY <3>1, <3>2
  <2>3. g = [i \in 1..m + 1 |-> g[i]]
    OBVIOUS
  <2> HIDE DEF g
  <2>4. g = [i \in 1..m + 1 |-> IF i = 1 THEN seqs[i] ELSE g[i - 1] \o seqs[i]]
    BY <2>2, <2>3
  <2>5. FlattenRecursion(g, seqs, m + 1)
    BY <2>4, Zenon DEF FlattenRecursion
  <2> QED BY <2>5
<1> HIDE DEF S
<1>3. n \in S
  BY <1>1, <1>2, Counting
<1> QED BY <1>3 DEF S

\* Of every element of p, the sequence and the place in it that it is from.
Sources(p, seqs, m, block, place) ==
  /\ IsSequence(p)
  /\ \A k \in 1..Len(p) :
       /\ block[k] \in 1..m /\ place[k] \in 1..Len(seqs[block[k]]) /\ p[k] = seqs[block[k]][place[k]]
       /\ \A l \in 1..Len(p) : block[k] = block[l] /\ place[k] = place[l] => k = l

\* What is flattened comes from the sequences, each element from a place of its own.
LEMMA FlattenSources ==
  ASSUME NEW seqs, NEW n \in Nat, Len(seqs) = n, IsSequence(seqs), \A i \in 1..n : IsSequence(seqs[i])
  PROVE  \E block, place : Sources(FlattenSeq(seqs), seqs, n, block, place)
<1>1. CASE n = 0
  <2>1. FlattenSeq(seqs) = seqs
    BY <1>1 DEF FlattenSeq
  <2>2. \A k \in 1..Len(seqs) : FALSE
    BY <1>1
  <2> DEFINE none == [k \in {} |-> k]
  <2>3. Sources(FlattenSeq(seqs), seqs, n, none, none)
    BY <2>1, <2>2 DEF Sources
  <2> QED BY <2>3
<1>2. CASE n # 0
  <2> DEFINE f == CHOOSE f : FlattenRecursion(f, seqs, n)
  <2>1. FlattenSeq(seqs) = f[n]
    BY <1>2, Zenon DEF FlattenSeq, FlattenRecursion
  <2>2. FlattenRecursion(f, seqs, n)
    BY FlattenExist, Zenon
  <2> HIDE DEF f
  <2>3. f = [i \in 1..n |-> IF i = 1 THEN seqs[i] ELSE f[i - 1] \o seqs[i]]
    BY <2>2, Zenon DEF FlattenRecursion
  <2>4. \A i \in 1..n : f[i] = IF i = 1 THEN seqs[i] ELSE f[i - 1] \o seqs[i]
    BY <2>3
  <2> DEFINE S == {m \in Nat : m + 1 <= n => \E block, place : Sources(f[m + 1], seqs, m + 1, block, place)}
  <2>5. 0 \in S
    <3>1. f[1] = seqs[1] /\ IsSequence(seqs[1]) /\ 1 \in 1..n
      BY <1>2, <2>4
    <3> DEFINE block == [k \in 1..Len(seqs[1]) |-> 1]
               place == [k \in 1..Len(seqs[1]) |-> k]
    <3>2. Sources(f[1], seqs, 1, block, place)
      BY <3>1 DEF Sources
    <3> HIDE DEF block, place
    <3> QED BY <3>2
  <2>6. ASSUME NEW m \in Nat, m \in S PROVE m + 1 \in S
    <3> SUFFICES ASSUME m + 2 <= n PROVE \E block, place : Sources(f[m + 2], seqs, m + 2, block, place)
      OBVIOUS
    <3>1. m + 1 \in 1..n /\ m + 2 \in 1..n /\ (m + 2) - 1 = m + 1 /\ m + 1 <= n /\ m + 2 # 1
      OBVIOUS
    <3>2. PICK block, place : Sources(f[m + 1], seqs, m + 1, block, place)
      BY <2>6, <3>1
    <3> DEFINE p == f[m + 1]
               q == seqs[m + 2]
               L == Len(p)
               K == Len(q)
               c == p \o q
    <3>3. f[m + 2] = c
      BY <2>4, <3>1
    <3>4. IsSequence(p) /\ L \in Nat /\ IsSequence(q) /\ K \in Nat
      BY <3>1, <3>2 DEF Sources, IsSequence
    <3>5. \A k \in 1..L :
            /\ block[k] \in 1..m + 1 /\ place[k] \in 1..Len(seqs[block[k]]) /\ p[k] = seqs[block[k]][place[k]]
            /\ \A l \in 1..L : block[k] = block[l] /\ place[k] = place[l] => k = l
      BY <3>2 DEF Sources
    <3> HIDE DEF p, q, L, K
    <3>6. IsSequence(c) /\ Len(c) = L + K
      BY <3>4, ConcatSequences DEF L, K
    <3>7. /\ \A k \in 1..L : c[k] = p[k]
          /\ \A k \in 1..K : c[L + k] = q[k]
      BY <3>4, ConcatElements DEF L, K
    <3> HIDE DEF c
    <3> DEFINE b == [k \in 1..L + K |-> IF k <= L THEN block[k] ELSE m + 2]
               o == [k \in 1..L + K |-> IF k <= L THEN place[k] ELSE k - L]
    <3>8. /\ \A k \in 1..L : b[k] = block[k] /\ o[k] = place[k]
          /\ \A k \in L + 1..L + K : b[k] = m + 2 /\ o[k] = k - L
      BY <3>4
    <3> HIDE DEF b, o
    <3>9. ASSUME NEW k \in 1..L + K
          PROVE  b[k] \in 1..m + 2 /\ o[k] \in 1..Len(seqs[b[k]]) /\ c[k] = seqs[b[k]][o[k]]
      <4>1. CASE k \in 1..L
        <5>1. block[k] \in 1..m + 2
          BY <3>5, <4>1
        <5> QED BY <3>5, <3>7, <3>8, <4>1, <5>1
      <4>2. CASE k \in L + 1..L + K
        <5>1. k - L \in 1..K /\ L + (k - L) = k /\ m + 2 \in 1..m + 2
          BY <3>4, <4>2
        <5> QED BY <3>7, <3>8, <4>2, <5>1 DEF q, K
      <4> QED BY <3>4, <4>1, <4>2
    <3>10. ASSUME NEW k \in 1..L + K, NEW l \in 1..L + K, b[k] = b[l], o[k] = o[l] PROVE k = l
      <4>1. CASE k \in 1..L /\ l \in 1..L
        BY <3>5, <3>8, <3>10, <4>1
      <4>2. CASE k \in L + 1..L + K /\ l \in L + 1..L + K
        <5>1. o[k] = k - L /\ o[l] = l - L
          BY <3>8, <4>2
        <5>2. k - L = l - L
          BY <3>10, <5>1
        <5>3. k \in Int /\ l \in Int /\ L \in Int
          BY <3>4
        <5> QED BY <5>2, <5>3
      <4>3. CASE k \in 1..L /\ l \in L + 1..L + K
        <5>1. b[k] \in 1..m + 1 /\ b[l] = m + 2
          BY <3>5, <3>8, <4>3
        <5> QED BY <3>10, <5>1
      <4>4. CASE l \in 1..L /\ k \in L + 1..L + K
        <5>1. b[l] \in 1..m + 1 /\ b[k] = m + 2
          BY <3>5, <3>8, <4>4
        <5> QED BY <3>10, <5>1
      <4>5. (k \in 1..L \/ k \in L + 1..L + K) /\ (l \in 1..L \/ l \in L + 1..L + K)
        BY <3>4
      <4> QED BY <4>1, <4>2, <4>3, <4>4, <4>5
    <3>11. Sources(c, seqs, m + 2, b, o)
      BY <3>6, <3>9, <3>10 DEF Sources
    <3> QED BY <3>3, <3>11
  <2> HIDE DEF S
  <2>7. \A m \in Nat : m \in S
    BY <2>5, <2>6, Counting
  <2>8. n - 1 \in Nat /\ (n - 1) + 1 = n
    BY <1>2
  <2>9. \E block, place : Sources(f[(n - 1) + 1], seqs, (n - 1) + 1, block, place)
    BY <2>7, <2>8 DEF S
  <2> QED BY <2>1, <2>8, <2>9
<1> QED BY <1>1, <1>2

-----------------------------------------------------------------------------
\* Choosing tasks.

\* The tasks in the order of their ids.
LEMMA InOrderTakes ==
  ASSUME NEW tasks, IsSequence(tasks)
  PROVE  Takes(InOrder(tasks), tasks) /\ \A i \in 1..Len(InOrder(tasks)) : InOrder(tasks)[i].id \in TaskIds
<1> DEFINE n == Len(TaskOrder)
           Of(i) == Filter(tasks, LAMBDA t : t.id = TaskOrder[i])
           Places(i) == {k \in 1..Len(tasks) : tasks[k].id = TaskOrder[i]}
           seqs == [i \in 1..n |-> Of(i)]
           p == FlattenSeq(seqs)
<1>1. n \in Nat /\ DOMAIN TaskOrder = 1..n
  BY TaskAssumption, DomainOfSequence DEF IsSequence
<1>2. InOrder(tasks) = p
  BY <1>1 DEF InOrder
<1>3. \A i \in 1..n : seqs[i] = Picked(tasks, Places(i))
  BY DEF Filter
<1> HIDE DEF Of
<1>4. ASSUME NEW i \in 1..n
      PROVE  Takes(seqs[i], tasks) /\ \A k \in 1..Len(seqs[i]) : seqs[i][k].id = TaskOrder[i]
  <2>1. seqs[i] = Picked(tasks, Places(i))
    BY <1>3
  <2> HIDE DEF seqs, Places
  <2>2. TakesAt(seqs[i], tasks, Places(i))
    BY <2>1, PickedTakes
  <2>3. \A j \in Places(i) : tasks[j].id = TaskOrder[i]
    BY DEF Places
  <2> DEFINE q == seqs[i]
  <2> HIDE DEF q
  <2>4. TakesAt(q, tasks, Places(i))
    BY <2>2 DEF q
  <2>5. ASSUME NEW k \in 1..Len(q) PROVE q[k].id = TaskOrder[i]
    <3>1. PICK j \in 1..Len(tasks) : j \in Places(i) /\ q[k] = tasks[j]
      BY <2>4 DEF TakesAt
    <3> QED BY <2>3, <3>1
  <2>6. Takes(q, tasks)
    BY <2>4 DEF TakesAt
  <2> QED BY <2>5, <2>6 DEF q
<1>5. seqs = [i \in 1..n |-> seqs[i]]
  OBVIOUS
<1> HIDE DEF seqs
<1>6. IsSequence(seqs) /\ Len(seqs) = n
  BY <1>1, <1>5, FunctionSequence
<1>7. \A i \in 1..n : IsSequence(seqs[i])
  BY <1>4 DEF Takes
<1>8. PICK block, place : Sources(p, seqs, n, block, place)
  BY <1>1, <1>6, <1>7, FlattenSources
<1> HIDE DEF p
<1>9. \A k \in 1..Len(p) :
        /\ block[k] \in 1..n /\ place[k] \in 1..Len(seqs[block[k]]) /\ p[k] = seqs[block[k]][place[k]]
        /\ \A l \in 1..Len(p) : block[k] = block[l] /\ place[k] = place[l] => k = l
  BY <1>8 DEF Sources
<1>10. \A k \in 1..Len(p) : p[k].id = TaskOrder[block[k]]
  BY <1>4, <1>9
<1>11. ASSUME NEW k \in 1..Len(p) PROVE \E j \in 1..Len(tasks) : p[k] = tasks[j]
  <2>1. block[k] \in 1..n /\ place[k] \in 1..Len(seqs[block[k]]) /\ p[k] = seqs[block[k]][place[k]]
    BY <1>9
  <2>2. Takes(seqs[block[k]], tasks)
    BY <1>4, <2>1
  <2> QED BY <2>1, <2>2 DEF Takes
<1>12. ASSUME DistinctIds(tasks), NEW k \in 1..Len(p), NEW l \in 1..Len(p), p[k].id = p[l].id PROVE k = l
  <2>1. block[k] = block[l]
    BY <1>1, <1>9, <1>10, <1>12, TaskAssumption
  <2>2. DistinctIds(seqs[block[k]])
    BY <1>4, <1>9, <1>12 DEF Takes
  <2>3. place[k] = place[l]
    <3>1. place[k] \in 1..Len(seqs[block[k]]) /\ place[l] \in 1..Len(seqs[block[k]])
      BY <1>9, <2>1
    <3>2. seqs[block[k]][place[k]].id = seqs[block[k]][place[l]].id
      BY <1>9, <1>12, <2>1
    <3> QED BY <2>2, <3>1, <3>2 DEF DistinctIds
  <2> QED BY <1>9, <2>1, <2>3
<1>13. Takes(p, tasks)
  BY <1>8, <1>11, <1>12 DEF Takes, DistinctIds, Sources
<1>14. \A k \in 1..Len(p) : p[k].id \in TaskIds
  BY <1>1, <1>9, <1>10 DEF TaskIds
<1> QED BY <1>2, <1>13, <1>14

\* The tasks of a status.
LEMMA HavingTakes ==
  ASSUME NEW tasks, IsSequence(tasks), NEW status
  PROVE  LET p == Having(tasks, status) IN
         Takes(p, tasks) /\ \A i \in 1..Len(p) : p[i].id \in TaskIds /\ p[i].status = status
<1> DEFINE q == InOrder(tasks)
           places == {n \in 1..Len(q) : q[n].status = status /\ ~q[n].superseded}
           p == Having(tasks, status)
<1>1. p = Picked(q, places)
  BY DEF Having, Filter
<1>2. Takes(q, tasks) /\ \A i \in 1..Len(q) : q[i].id \in TaskIds
  BY InOrderTakes
<1>3. IsSequence(q)
  BY <1>2 DEF Takes
<1> HIDE DEF q, p
<1>4. \A k \in places : q[k].status = status
  OBVIOUS
<1> HIDE DEF places
<1>5. TakesAt(p, q, places)
  BY <1>1, <1>3, PickedTakes
<1>6. Takes(p, tasks)
  BY <1>2, <1>5, TakesTwice DEF TakesAt
<1>7. \A i \in 1..Len(p) : p[i].id \in TaskIds /\ p[i].status = status
  BY <1>2, <1>4, <1>5 DEF TakesAt
<1> QED BY <1>6, <1>7 DEF p

\* What is ready is still to be done.
LEMMA ReadyTakes ==
  ASSUME NEW tasks, IsSequence(tasks)
  PROVE  Takes(Ready(tasks), Having(tasks, "todo"))
<1>1. IsSequence(Having(tasks, "todo"))
  BY HavingTakes DEF Takes
<1> DEFINE h == Having(tasks, "todo")
           places == {n \in 1..Len(h) : \A d \in DependsOn[h[n].id] \cap Ids(tasks) : DoneIn(tasks, d)}
<1>2. Ready(tasks) = Picked(h, places)
  BY DEF Ready, Filter
<1> HIDE DEF h, places
<1>3. TakesAt(Ready(tasks), h, places)
  BY <1>1, <1>2, PickedTakes DEF h
<1> QED BY <1>3 DEF h, TakesAt

\* What is eligible is still to be done, and has its dependencies done.
LEMMA EligibleTakes ==
  ASSUME NEW tasks, IsSequence(tasks)
  PROVE  /\ Takes(Eligible(tasks), Having(tasks, "todo"))
         /\ \A i \in 1..Len(Eligible(tasks)) : \A d \in DependsOn[Eligible(tasks)[i].id] : DoneIn(tasks, d)
<1> DEFINE h == Having(tasks, "todo")
           places == {n \in 1..Len(h) : \A d \in DependsOn[h[n].id] : DoneIn(tasks, d)}
           p == Eligible(tasks)
<1>1. IsSequence(h)
  BY HavingTakes DEF Takes
<1>2. p = Picked(h, places)
  BY DEF Eligible, Filter
<1> HIDE DEF p, h
<1>3. \A k \in places : \A d \in DependsOn[h[k].id] : DoneIn(tasks, d)
  OBVIOUS
<1> HIDE DEF places
<1>4. TakesAt(p, h, places)
  BY <1>1, <1>2, PickedTakes
<1>5. \A i \in 1..Len(p) : \A d \in DependsOn[p[i].id] : DoneIn(tasks, d)
  BY <1>3, <1>4 DEF TakesAt
<1> QED BY <1>4, <1>5 DEF p, h, TakesAt

-----------------------------------------------------------------------------
\* The first group takes.
GroupStep(before, t) ==
  IF Conflict(UNION {Declared[before[i].id] : i \in DOMAIN before}, Declared[t.id]) THEN before ELSE Append(before, t)

\* The groups that FirstGroup goes through.
GroupRecursion(f, tasks, n) == f = [i \in 0..n |-> IF i = 0 THEN <<>> ELSE GroupStep(f[i - 1], tasks[i])]

\* There are such groups.
LEMMA GroupExist ==
  ASSUME NEW tasks, NEW n \in Nat
  PROVE  \E f : GroupRecursion(f, tasks, n)
<1> DEFINE S == {m \in Nat : \E f : GroupRecursion(f, tasks, m)}
<1>1. 0 \in S
  <2> DEFINE f == [i \in 0..0 |-> <<>>]
  <2>1. f = [i \in 0..0 |-> IF i = 0 THEN <<>> ELSE GroupStep(f[i - 1], tasks[i])]
    OBVIOUS
  <2> HIDE DEF f
  <2>2. \E g : GroupRecursion(g, tasks, 0)
    BY <2>1 DEF GroupRecursion
  <2> QED BY <2>2
<1>2. ASSUME NEW m \in Nat, m \in S PROVE m + 1 \in S
  <2>1. PICK f : f = [i \in 0..m |-> IF i = 0 THEN <<>> ELSE GroupStep(f[i - 1], tasks[i])]
    BY <1>2, Zenon DEF GroupRecursion
  <2> DEFINE g == [i \in 0..m + 1 |-> IF i = m + 1 THEN GroupStep(f[m], tasks[m + 1]) ELSE f[i]]
  <2>2. ASSUME NEW i \in 0..m + 1
        PROVE  g[i] = IF i = 0 THEN <<>> ELSE GroupStep(g[i - 1], tasks[i])
    <3>1. CASE i = m + 1
      <4>1. i # 0 /\ i - 1 = m /\ m \in 0..m + 1 /\ m # m + 1
        BY <3>1
      <4> QED BY <3>1, <4>1
    <3>2. CASE i # m + 1
      <4>1. i \in 0..m /\ (i # 0 => i - 1 \in 0..m + 1 /\ i - 1 # m + 1)
        BY <3>2
      <4>2. g[i] = f[i] /\ (i # 0 => g[i - 1] = f[i - 1])
        BY <3>2, <4>1
      <4>3. f[i] = IF i = 0 THEN <<>> ELSE GroupStep(f[i - 1], tasks[i])
        BY <2>1, <4>1
      <4> QED BY <4>2, <4>3
    <3> QED BY <3>1, <3>2
  <2>3. g = [i \in 0..m + 1 |-> g[i]]
    OBVIOUS
  <2> HIDE DEF g
  <2>4. g = [i \in 0..m + 1 |-> IF i = 0 THEN <<>> ELSE GroupStep(g[i - 1], tasks[i])]
    BY <2>2, <2>3
  <2>5. GroupRecursion(g, tasks, m + 1)
    BY <2>4, Zenon DEF GroupRecursion
  <2> QED BY <2>5
<1> HIDE DEF S
<1>3. n \in S
  BY <1>1, <1>2, Counting
<1> QED BY <1>3 DEF S

\* The first group is taken from the tasks.
LEMMA FirstGroupTakes ==
  ASSUME NEW tasks, IsSequence(tasks)
  PROVE  Takes(FirstGroup(tasks), tasks)
<1> DEFINE n == Len(tasks)
           f == CHOOSE f : GroupRecursion(f, tasks, n)
<1>0. n \in Nat
  BY DEF IsSequence
<1>1. FirstGroup(tasks) = f[n]
  BY Zenon DEF FirstGroup, GroupRecursion, GroupStep
<1>2. GroupRecursion(f, tasks, n)
  BY <1>0, GroupExist, Zenon
<1> HIDE DEF f
<1>3. f = [i \in 0..n |-> IF i = 0 THEN <<>> ELSE GroupStep(f[i - 1], tasks[i])]
  BY <1>2, Zenon DEF GroupRecursion
<1> HIDE DEF n
<1>4. f[0] = <<>> /\ \A i \in 1..n : f[i] = GroupStep(f[i - 1], tasks[i])
  <2>1. 0 \in 0..n /\ \A i \in 1..n : i \in 0..n /\ i # 0
    BY <1>0
  <2> QED BY <1>3, <2>1
<1> DEFINE P(m, p) ==
             /\ IsSequence(p)
             /\ \A i \in 1..Len(p) : \E k \in 1..m : p[i] = tasks[k]
             /\ DistinctIds(tasks) => DistinctIds(p)
           S == {m \in Nat : m <= n => P(m, f[m])}
<1>5. 0 \in S
  <2>1. IsSequence(<<>>) /\ Len(<<>>) = 0
    BY EmptySequence
  <2> QED BY <1>4, <2>1 DEF DistinctIds
<1>6. ASSUME NEW m \in Nat, m \in S PROVE m + 1 \in S
  <2> SUFFICES ASSUME m + 1 <= n PROVE P(m + 1, f[m + 1])
    OBVIOUS
  <2> DEFINE p == f[m]
             q == f[m + 1]
             t == tasks[m + 1]
  <2>1. m + 1 \in 1..n /\ (m + 1) - 1 = m /\ m <= n
    BY <1>0
  <2>2. P(m, p)
    BY <1>6, <2>1
  <2>3. q = GroupStep(p, t)
    BY <1>4, <2>1
  <2>4. q = p \/ q = Append(p, t)
    BY <2>3 DEF GroupStep
  <2> HIDE DEF p, q
  <2>5. Len(p) \in Nat /\ IsSequence(p)
    BY <2>2 DEF IsSequence
  <2>6. CASE q = p
    <3>1. \A k \in 1..m : k \in 1..m + 1
      OBVIOUS
    <3> QED BY <2>2, <2>6, <3>1 DEF q
  <2>7. CASE q = Append(p, t)
    <3>1. IsSequence(q) /\ Len(q) = Len(p) + 1 /\ (\A i \in 1..Len(p) : q[i] = p[i]) /\ q[Len(p) + 1] = t
      BY <2>5, <2>7, AppendSequence
    <3>2. \A i \in 1..Len(q) : i \in 1..Len(p) \/ i = Len(p) + 1
      BY <2>5, <3>1
    <3>3. ASSUME NEW i \in 1..Len(q) PROVE \E k \in 1..m + 1 : q[i] = tasks[k]
      <4>1. CASE i \in 1..Len(p)
        <5>1. PICK k \in 1..m : p[i] = tasks[k]
          BY <2>2, <4>1
        <5>2. k \in 1..m + 1
          OBVIOUS
        <5> QED BY <3>1, <4>1, <5>1, <5>2
      <4>2. CASE i = Len(p) + 1
        <5>1. m + 1 \in 1..m + 1 /\ q[i] = tasks[m + 1]
          BY <3>1, <4>2
        <5> QED BY <5>1
      <4> QED BY <3>2, <4>1, <4>2
    <3>4. ASSUME DistinctIds(tasks), NEW i \in 1..Len(q), NEW j \in 1..Len(q), q[i].id = q[j].id PROVE i = j
      <4>1. ASSUME NEW x \in 1..Len(p), q[x].id = t.id PROVE FALSE
        <5>1. PICK k \in 1..m : p[x] = tasks[k]
          BY <2>2
        <5>2. tasks[k].id = tasks[m + 1].id /\ k \in 1..n /\ k # m + 1
          BY <1>0, <2>1, <3>1, <4>1, <5>1
        <5> QED BY <2>1, <3>4, <5>2 DEF DistinctIds, n
      <4>2. CASE i \in 1..Len(p) /\ j \in 1..Len(p)
        BY <2>2, <3>1, <3>4, <4>2 DEF DistinctIds
      <4>3. CASE i = Len(p) + 1 /\ j = Len(p) + 1
        BY <4>3
      <4>4. CASE i \in 1..Len(p) /\ j = Len(p) + 1
        BY <3>1, <3>4, <4>1, <4>4
      <4>5. CASE j \in 1..Len(p) /\ i = Len(p) + 1
        BY <3>1, <3>4, <4>1, <4>5
      <4> QED BY <3>2, <4>2, <4>3, <4>4, <4>5
    <3>5. DistinctIds(tasks) => DistinctIds(q)
      BY <3>4 DEF DistinctIds
    <3> QED BY <3>1, <3>3, <3>5 DEF q
  <2> QED BY <2>4, <2>6, <2>7
<1> HIDE DEF S
<1>7. \A m \in Nat : m \in S
  BY <1>5, <1>6, Counting
<1>8. P(n, f[n])
  BY <1>0, <1>7 DEF S
<1> QED BY <1>1, <1>8 DEF Takes, n

-----------------------------------------------------------------------------
\* The wave of an iteration.

\* LastTaskOf finds the last one.
LEMMA LastIsLast ==
  ASSUME NEW ts, IsSequence(ts), NEW id, NEW m \in 1..Len(ts), ts[m].id = id
  PROVE  \E k \in m..Len(ts) : k \in 1..Len(ts) /\ ts[k].id = id /\ LastTaskOf(ts, id) = ts[k]
<1> DEFINE S == {i \in 1..Len(ts) : ts[i].id = id}
<1>0. Len(ts) \in Nat
  BY DEF IsSequence
<1>1. S # {} /\ S \in SUBSET (1..Len(ts)) /\ S \in SUBSET Nat /\ m \in S
  OBVIOUS
<1>2. SelectLastInSeq(ts, LAMBDA t : t.id = id) = Max(S)
  BY <1>1 DEF SelectLastInSeq
<1>3. \A i \in S : i \in 1..Len(ts) /\ ts[i].id = id
  OBVIOUS
<1> HIDE DEF S
<1>4. PICK k \in S : \A y \in S : y <= k
  BY <1>0, <1>1, Greatest
<1>5. Max(S) = k
  BY <1>1, <1>4, MaxIs
<1>6. LastTaskOf(ts, id) = ts[k]
  BY <1>2, <1>5 DEF LastTaskOf
<1>7. k \in m..Len(ts)
  BY <1>0, <1>1, <1>3, <1>4
<1> QED BY <1>3, <1>4, <1>6, <1>7

\* New work: tasks that are to be done and whose dependencies are.
Prepared(w, tasks) ==
  \A i \in 1..Len(w) : w[i].status = "todo" => \A d \in DependsOn[w[i].id] : DoneIn(tasks, d)

\* New work is workable and has its dependencies done among the tasks.
LEMMA NewWaveTakes ==
  ASSUME NEW tasks, IsSequence(tasks), FirstWorked(tasks)
  PROVE  LET w == NewWave(tasks) IN Takes(w, tasks) /\ Workable(w) /\ Prepared(w, tasks)
<1> DEFINE h == Having(tasks, "todo")
           e == Eligible(tasks)
           g == FirstGroup(e)
           w == NewWave(tasks)
<1>1. Takes(h, tasks) /\ \A i \in 1..Len(h) : h[i].id \in TaskIds /\ h[i].status = "todo"
  BY HavingTakes
<1>2. Takes(e, h) /\ \A i \in 1..Len(e) : \A d \in DependsOn[e[i].id] : DoneIn(tasks, d)
  BY EligibleTakes
<1>3. IsSequence(e)
  BY <1>2 DEF Takes
<1>4. Takes(g, e)
  BY <1>3, FirstGroupTakes
<1>5. IsSequence(g) /\ Len(g) \in Nat /\ DOMAIN g = 1..Len(g)
  BY <1>4, DomainOfSequence DEF Takes, IsSequence
<1>6. w = [i \in 1..Len(g) |-> LastTaskOf(tasks, g[i].id)]
  BY <1>5 DEF NewWave
<1> HIDE DEF w, g, e, h
<1>7. IsSequence(w) /\ Len(w) = Len(g) /\ \A i \in 1..Len(g) : w[i] = LastTaskOf(tasks, g[i].id)
  <2>1. w = [i \in 1..Len(g) |-> w[i]] /\ \A i \in 1..Len(g) : w[i] = LastTaskOf(tasks, g[i].id)
    BY <1>6
  <2> QED BY <1>5, <2>1, FunctionSequence
<1>8. Takes(g, h) /\ Takes(g, tasks)
  BY <1>1, <1>2, <1>4, TakesTwice
<1>9. ASSUME NEW i \in 1..Len(g)
      PROVE  /\ g[i].id \in TaskIds /\ w[i].id = g[i].id /\ w[i].status = "todo"
             /\ \E k \in 1..Len(tasks) : w[i] = tasks[k]
             /\ \A d \in DependsOn[g[i].id] : DoneIn(tasks, d)
  <2>1. PICK j \in 1..Len(h) : g[i] = h[j]
    BY <1>8 DEF Takes
  <2>2. PICK m \in 1..Len(tasks) : g[i] = tasks[m]
    BY <1>8 DEF Takes
  <2>3. g[i].id \in TaskIds /\ g[i].status = "todo"
    BY <1>1, <2>1
  <2>4. PICK k \in m..Len(tasks) :
          k \in 1..Len(tasks) /\ tasks[k].id = g[i].id /\ LastTaskOf(tasks, g[i].id) = tasks[k]
    BY <2>2, LastIsLast
  <2>5. w[i] = tasks[k]
    BY <1>7, <2>4
  <2>6. tasks[k].status = "todo"
    <3>1. CASE k = m
      BY <2>2, <2>3, <3>1
    <3>2. CASE k # m
      <4>1. m \in 1..k - 1
        BY <2>4, <3>2
      <4>2. ~FirstAt(tasks, tasks[k].id, k)
        BY <2>2, <2>4, <4>1 DEF FirstAt
      <4> QED BY <2>4, <4>2 DEF FirstWorked
    <3> QED BY <3>1, <3>2
  <2>7. PICK l \in 1..Len(e) : g[i] = e[l]
    BY <1>4 DEF Takes
  <2>8. \A d \in DependsOn[g[i].id] : DoneIn(tasks, d)
    BY <1>2, <2>7
  <2> QED BY <2>3, <2>4, <2>5, <2>6, <2>8
<1>10. DistinctIds(tasks) => DistinctIds(w)
  <2>1. DistinctIds(tasks) => DistinctIds(g)
    BY <1>8 DEF Takes
  <2> QED BY <1>7, <1>9, <2>1 DEF DistinctIds
<1>11. Takes(w, tasks)
  BY <1>7, <1>9, <1>10 DEF Takes
<1>12. Workable(w)
  BY <1>7, <1>9 DEF Workable
<1>13. Prepared(w, tasks)
  BY <1>7, <1>9 DEF Prepared
<1> QED BY <1>11, <1>12, <1>13 DEF w

\* A wave is workable; above --parallel 1 what it has to claim is prepared.
LEMMA SelectWaveTakes ==
  ASSUME NEW tasks, IsSequence(tasks), FirstWorked(tasks), NEW limit \in Nat
  PROVE  LET w == SelectWave(tasks, limit) IN
         Takes(w, tasks) /\ Workable(w) /\ (limit # 1 => Prepared(w, tasks))
<1> DEFINE r == Having(tasks, "review")
           p == Having(tasks, "in_progress")
           n == IF limit = 1 THEN Ready(tasks) ELSE NewWave(tasks)
           begun == IF r # <<>> THEN r ELSE p
           c == IF begun # <<>> THEN begun ELSE n
           w == FirstOf(c, limit)
<1>1. SelectWave(tasks, limit) = w
  BY DEF SelectWave
<1>2. Takes(r, tasks) /\ Workable(r) /\ Prepared(r, tasks)
  BY HavingTakes DEF Workable, Prepared
<1>3. Takes(p, tasks) /\ Workable(p) /\ Prepared(p, tasks)
  BY HavingTakes DEF Workable, Prepared
<1>4. Takes(n, tasks) /\ Workable(n) /\ (limit # 1 => Prepared(n, tasks))
  <2>1. CASE limit = 1
    <3> DEFINE h == Having(tasks, "todo")
    <3>1. Takes(h, tasks) /\ \A i \in 1..Len(h) : h[i].id \in TaskIds /\ h[i].status = "todo"
      BY HavingTakes
    <3>2. Takes(Ready(tasks), h)
      BY ReadyTakes
    <3> HIDE DEF h
    <3>3. Takes(Ready(tasks), tasks)
      BY <3>1, <3>2, TakesTwice
    <3>4. Workable(Ready(tasks))
      <4> SUFFICES ASSUME NEW i \in 1..Len(Ready(tasks))
                   PROVE  Ready(tasks)[i].id \in TaskIds /\ Ready(tasks)[i].status = "todo"
        BY DEF Workable
      <4>1. PICK k \in 1..Len(h) : Ready(tasks)[i] = h[k]
        BY <3>2 DEF Takes
      <4> QED BY <3>1, <4>1
    <3> QED BY <2>1, <3>3, <3>4
  <2>2. CASE limit # 1
    BY <2>2, NewWaveTakes
  <2> QED BY <2>1, <2>2
<1> HIDE DEF r, p, n
<1>5. Takes(c, tasks) /\ Workable(c) /\ (limit # 1 => Prepared(c, tasks))
  BY <1>2, <1>3, <1>4
<1> HIDE DEF c
<1>6. Takes(w, c)
  BY <1>5, FirstOfTakes DEF Takes
<1> HIDE DEF w
<1>7. Takes(w, tasks)
  BY <1>5, <1>6, TakesTwice
<1>8. ASSUME NEW i \in 1..Len(w)
      PROVE  /\ w[i].id \in TaskIds /\ w[i].status \in {"todo", "in_progress", "review"}
             /\ limit # 1 /\ w[i].status = "todo" => \A d \in DependsOn[w[i].id] : DoneIn(tasks, d)
  <2>1. PICK k \in 1..Len(c) : w[i] = c[k]
    BY <1>6 DEF Takes
  <2> QED BY <1>5, <2>1 DEF Workable, Prepared
<1> QED BY <1>1, <1>7, <1>8 DEF Workable, Prepared

-----------------------------------------------------------------------------
\* The planned tasks come after those of the store, and are to be done.
LEMMA EffectiveIs ==
  ASSUME NEW b, WellFormed(b), FirstWorked(b.tasks)
  PROVE  LET e == EffectiveTasks(b) IN
         /\ IsSequence(e)
         /\ FirstWorked(e)
         /\ \A i \in 1..Len(e) : e[i].status = "todo" \/ \E j \in 1..Len(b.tasks) : e[i] = b.tasks[j]
         /\ DistinctIds(b.tasks) => DistinctIds(e)
<1> DEFINE ts == b.tasks
           places == {n \in 1..Len(TaskOrder) : TaskOrder[n] \in Planned \ Ids(ts)}
           planned == Filter(TaskOrder, LAMBDA id : id \in Planned \ Ids(ts))
           news == [i \in DOMAIN planned |-> NewTask([kind |-> "task.create", task |-> planned[i]])]
           e == ts \o news
<1>1. EffectiveTasks(b) = e
  BY DEF EffectiveTasks
<1>2. IsSequence(ts) /\ Len(ts) \in Nat /\ DOMAIN ts = 1..Len(ts)
  BY WellFormedTasks, DomainOfSequence DEF IsSequence
<1>3. planned = Picked(TaskOrder, places)
  BY DEF Filter
<1>4. \A n \in places : TaskOrder[n] \notin Ids(ts)
  OBVIOUS
<1> HIDE DEF planned, places
<1>5. IsSequence(TaskOrder) /\ DOMAIN TaskOrder = 1..Len(TaskOrder) /\ Len(TaskOrder) \in Nat
  BY TaskAssumption, DomainOfSequence DEF IsSequence
<1>6. PICK at : Picks(planned, TaskOrder, places, at)
  BY <1>3, <1>5, PickedAre
<1>7. IsSequence(planned) /\ Len(planned) \in Nat /\ DOMAIN planned = 1..Len(planned)
  BY <1>6, DomainOfSequence DEF Picks, IsSequence
<1> DEFINE m == Len(ts)
           k == Len(planned)
<1>8. /\ IsSequence(news) /\ Len(news) = k
      /\ \A i \in 1..k : news[i].id = planned[i] /\ news[i].status = "todo"
  <2>1. news = [i \in 1..k |-> news[i]] /\ \A i \in 1..k : news[i].id = planned[i] /\ news[i].status = "todo"
    BY <1>7 DEF NewTask
  <2> HIDE DEF news
  <2> QED BY <1>7, <2>1, FunctionSequence
<1> HIDE DEF news
<1>9. IsSequence(e) /\ Len(e) = m + k
  BY <1>2, <1>8, ConcatSequences
<1>10. /\ \A i \in 1..m : e[i] = ts[i]
       /\ \A i \in 1..k : e[m + i] = news[i]
  BY <1>2, <1>8, ConcatElements
<1>11. FirstWorked(ts)
  OBVIOUS
<1>18. \A i \in 1..m : \A j \in places : ts[i].id # TaskOrder[j]
  BY <1>2, <1>4 DEF Ids
<1> HIDE DEF e, ts, m, k
<1>12. m \in Nat /\ k \in Nat
  BY <1>2, <1>7 DEF m, k
<1>13. ASSUME NEW i \in m + 1..m + k
       PROVE  i - m \in 1..k /\ e[i].id = planned[i - m] /\ e[i].status = "todo"
  <2>1. i - m \in 1..k /\ m + (i - m) = i
    BY <1>12
  <2>2. e[i] = news[i - m]
    BY <1>10, <2>1
  <2> QED BY <1>8, <2>1, <2>2 DEF k
<1>14. ASSUME NEW i \in 1..m + k PROVE i \in 1..m \/ i \in m + 1..m + k
  BY <1>12
<1>15. \A i \in 1..m + k : e[i].status = "todo" \/ \E j \in 1..m : e[i] = ts[j]
  BY <1>10, <1>13, <1>14
<1>16. FirstWorked(e)
  <2> SUFFICES ASSUME NEW i \in 1..m + k, e[i].status # "todo" PROVE FirstAt(e, e[i].id, i)
    BY <1>9 DEF FirstWorked
  <2>1. i \in 1..m
    BY <1>13, <1>14
  <2>2. FirstAt(ts, ts[i].id, i)
    BY <1>10, <1>11, <2>1 DEF FirstWorked, m
  <2>3. \A j \in 1..i - 1 : j \in 1..m
    BY <1>12, <2>1
  <2> QED BY <1>10, <2>1, <2>2, <2>3 DEF FirstAt
<1>17. ASSUME DistinctIds(ts), NEW i \in 1..m + k, NEW j \in 1..m + k, e[i].id = e[j].id PROVE i = j
  <2>1. CASE i \in 1..m /\ j \in 1..m
    BY <1>10, <1>17, <2>1 DEF DistinctIds, m
  <2>2. CASE i \in m + 1..m + k /\ j \in m + 1..m + k
    <3> DEFINE x == i - m
               y == j - m
    <3>1. x \in 1..k /\ y \in 1..k /\ planned[x] = planned[y]
      BY <1>13, <1>17, <2>2
    <3> HIDE DEF x, y
    <3>2. /\ at[x] \in 1..Len(TaskOrder) /\ at[y] \in 1..Len(TaskOrder)
          /\ planned[x] = TaskOrder[at[x]] /\ planned[y] = TaskOrder[at[y]]
          /\ x < y => at[x] < at[y]
          /\ y < x => at[y] < at[x]
      BY <1>6, <3>1 DEF Picks, k
    <3>3. at[x] = at[y]
      BY <1>5, <3>1, <3>2, TaskAssumption
    <3>4. x = y
      <4>1. at[x] \in Nat /\ x \in Nat /\ y \in Nat
        BY <3>1, <3>2
      <4> QED BY <3>2, <3>3, <4>1
    <3>5. i - m = j - m /\ i \in Int /\ j \in Int
      BY <1>12, <3>4 DEF x, y
    <3> QED BY <1>12, <3>5
  <2>3. ASSUME NEW x \in 1..m, NEW y \in m + 1..m + k, e[x].id = e[y].id PROVE FALSE
    <3>1. y - m \in 1..k /\ e[y].id = planned[y - m] /\ e[x] = ts[x]
      BY <1>10, <1>13
    <3>2. at[y - m] \in places /\ planned[y - m] = TaskOrder[at[y - m]]
      BY <1>6, <3>1 DEF Picks, k
    <3> QED BY <1>18, <2>3, <3>1, <3>2
  <2>4. (i \in 1..m \/ i \in m + 1..m + k) /\ (j \in 1..m \/ j \in m + 1..m + k)
    BY <1>14
  <2> QED BY <1>17, <2>1, <2>2, <2>3, <2>4
<1> QED BY <1>1, <1>9, <1>15, <1>16, <1>17 DEF DistinctIds, ts, m

\* What a wave is made of.
WaveOf(w, x) ==
  /\ IsSequence(w)
  /\ Workable(w)
  /\ \A i \in 1..Len(w) : ~Blocked(x.store.attempts, w[i].id)
  /\ EntriesUnique(x.store) => DistinctIds(w)
  /\ x.limit # 1 => \A i \in 1..Len(w) : w[i].status = "todo" =>
                      \A d \in DependsOn[w[i].id] : DoneTask(x.store.board, d)

\* The wave of an iteration is such a one.
LEMMA WaveIs ==
  ASSUME NEW x, NEW now, TypedStore(x.store, now), x.limit \in Nat
  PROVE  WaveOf(Wave(x), x)
<1> DEFINE b == x.store.board
           e == EffectiveTasks(b)
           places == {n \in 1..Len(e) : Candidate(x, e[n])}
           ts == Picked(e, places)
           w == Wave(x)
<1>1. WellFormed(b) /\ FirstWorked(b.tasks)
  BY DEF TypedStore
<1>2. w = SelectWave(ts, x.limit)
  BY DEF Wave, Filter
<1>3. /\ IsSequence(e) /\ FirstWorked(e)
      /\ \A i \in 1..Len(e) : e[i].status = "todo" \/ \E j \in 1..Len(b.tasks) : e[i] = b.tasks[j]
      /\ DistinctIds(b.tasks) => DistinctIds(e)
  BY <1>1, EffectiveIs
<1>4. \A n \in places : ~Blocked(x.store.attempts, e[n].id)
  BY DEF Candidate
<1>5. EntriesUnique(x.store) => DistinctIds(b.tasks)
  <2>1. IsSequence(b.tasks)
    BY <1>1, WellFormedTasks
  <2>2. DOMAIN b.tasks = 1..Len(b.tasks)
    BY <2>1, DomainOfSequence
  <2> QED BY <2>2 DEF EntriesUnique, DistinctIds
<1> HIDE DEF e, places, w, b
<1>6. PICK at : Picks(ts, e, places, at)
  BY <1>3, PickedAre
<1>7. TakesAt(ts, e, places)
  BY <1>3, PickedTakes
<1> HIDE DEF ts
<1>8. IsSequence(ts) /\ Len(ts) \in Nat /\ Len(e) \in Nat
  BY <1>3, <1>6 DEF Picks, IsSequence
<1>9. FirstWorked(ts)
  <2> SUFFICES ASSUME NEW i \in 1..Len(ts), ts[i].status # "todo" PROVE FirstAt(ts, ts[i].id, i)
    BY DEF FirstWorked
  <2>1. at[i] \in 1..Len(e) /\ ts[i] = e[at[i]]
    BY <1>6 DEF Picks
  <2>2. FirstAt(e, e[at[i]].id, at[i])
    BY <1>3, <2>1 DEF FirstWorked
  <2>3. ASSUME NEW j \in 1..i - 1 PROVE ts[j].id # ts[i].id
    <3>1. j \in 1..Len(ts) /\ j < i
      BY <1>8
    <3>2. at[j] \in 1..Len(e) /\ ts[j] = e[at[j]] /\ at[j] < at[i]
      BY <1>6, <3>1 DEF Picks
    <3>3. at[j] \in 1..at[i] - 1
      BY <1>8, <2>1, <3>2
    <3> QED BY <2>1, <2>2, <3>2, <3>3 DEF FirstAt
  <2> QED BY <2>3 DEF FirstAt
<1>10. Takes(w, ts) /\ Workable(w) /\ (x.limit # 1 => Prepared(w, ts))
  BY <1>2, <1>8, <1>9, SelectWaveTakes
<1>11. IsSequence(w)
  BY <1>10 DEF Takes
<1>12. ASSUME NEW i \in 1..Len(w) PROVE ~Blocked(x.store.attempts, w[i].id)
  <2>1. PICK k \in 1..Len(ts) : w[i] = ts[k]
    BY <1>10 DEF Takes
  <2>2. PICK n \in 1..Len(e) : n \in places /\ ts[k] = e[n]
    BY <1>7 DEF TakesAt
  <2> QED BY <1>4, <2>1, <2>2
<1>13. EntriesUnique(x.store) => DistinctIds(w)
  BY <1>3, <1>5, <1>7, <1>10 DEF Takes, TakesAt
<1>14. ASSUME NEW d, DoneIn(ts, d) PROVE DoneTask(b, d)
  <2>1. DOMAIN ts = 1..Len(ts)
    BY <1>8, DomainOfSequence
  <2>2. \E i \in 1..Len(ts) : ts[i].id = d
    BY <1>14, <2>1 DEF DoneIn, Ids
  <2>3. PICK k \in 1..Len(ts) : ts[k].id = d /\ LastTaskOf(ts, d) = ts[k]
    BY <1>8, <2>2, LastPlace
  <2>4. ts[k].status = "done"
    BY <1>14, <2>3 DEF DoneIn
  <2>5. PICK n \in 1..Len(e) : ts[k] = e[n]
    BY <1>7 DEF TakesAt
  <2>6. PICK j \in 1..Len(b.tasks) : e[n] = b.tasks[j]
    BY <1>3, <2>4, <2>5
  <2> QED BY <2>3, <2>4, <2>5, <2>6 DEF DoneTask
<1>15. x.limit # 1 => \A i \in 1..Len(w) : w[i].status = "todo" =>
                        \A d \in DependsOn[w[i].id] : DoneTask(b, d)
  BY <1>10, <1>14 DEF Prepared
<1> QED BY <1>10, <1>11, <1>12, <1>13, <1>15 DEF WaveOf, w, b

-----------------------------------------------------------------------------
\* A run that collects events.

\* y is x after some more events.
Advances(x, y, now) ==
  /\ RunCore(y, now)
  /\ y.limit = x.limit
  /\ y.fresh = x.fresh
  /\ \A id : Escalated(x.batch, id) => Escalated(y.batch, id)
  /\ \A s : Copy(x, s) => Copy(y, s)
  /\ WritesApart(x) => WritesApart(y)

\* y claims in turn if x does.
TakesTurn(x, y) == \A b : Turn(x, b) => Turn(y, b)

\* One advance after another is an advance.
LEMMA AdvancesTwice ==
  ASSUME NEW x, NEW y, NEW z, NEW now, Advances(x, y, now), Advances(y, z, now)
  PROVE  Advances(x, z, now)
BY DEF Advances

\* The other fields of a run do not matter to this.
LEMMA AdvancesLike ==
  ASSUME NEW x, NEW y, NEW now, RunCore(x, now), DOMAIN y = RunShape,
         y.store = x.store, y.batch = x.batch, y.limit = x.limit, y.fresh = x.fresh, y.written = x.written
  PROVE  Advances(x, y, now)
BY Zenon DEF Advances, RunCore, Copy, WritesApart

\* es is what y has more than x.
Moved(x, y, es) ==
  /\ DOMAIN y = RunShape
  /\ IsSequence(es)
  /\ y.batch = x.batch \o es
  /\ y.store = Recording(x.store, es)
  /\ y.limit = x.limit
  /\ y.fresh = x.fresh

\* What is written is in the write set, and was not touched before.
WritesOnce(x, y, es) ==
  /\ x.written \subseteq y.written
  /\ \A k \in 1..Len(es) : es[k].event.kind = WriteKind =>
       /\ es[k].event.paths \subseteq y.written
       /\ ~Conflict(x.written, es[k].event.paths)
       /\ \A l \in 1..Len(es) : es[l].event.kind = WriteKind => k = l

\* What is claimed has its dependencies done.
ClaimsInTurn(x, es) ==
  \A k \in 1..Len(es) : es[k].event.kind = "claim" =>
    /\ es[k].event.task \in TaskIds
    /\ \A dep \in DependsOn[es[k].event.task] : DoneTask(x.store.board, dep)

\* The elements of a concatenation, first those of a, then those of es.
LEMMA BatchGrows ==
  ASSUME NEW a, NEW es, IsSequence(a), IsSequence(es)
  PROVE  LET c == a \o es IN
         /\ IsSequence(c) /\ Len(c) = Len(a) + Len(es) /\ Len(a) \in Nat /\ Len(es) \in Nat
         /\ \A i \in 1..Len(a) : c[i] = a[i] /\ i \in 1..Len(c)
         /\ \A i \in 1..Len(es) : c[Len(a) + i] = es[i] /\ Len(a) + i \in 1..Len(c)
         /\ \A i \in 1..Len(c) : i \in 1..Len(a) \/ (i - Len(a) \in 1..Len(es) /\ c[i] = es[i - Len(a)])
<1> DEFINE c == a \o es
           m == Len(a)
           n == Len(es)
<1>1. IsSequence(c) /\ Len(c) = m + n /\ m \in Nat /\ n \in Nat
  BY ConcatSequences DEF IsSequence
<1>2. (\A i \in 1..m : c[i] = a[i]) /\ \A i \in 1..n : c[m + i] = es[i]
  BY ConcatElements
<1> HIDE DEF c, m, n
<1>3. ASSUME NEW i \in 1..m + n PROVE i \in 1..m \/ (i - m \in 1..n /\ c[i] = es[i - m])
  <2>1. CASE i <= m
    BY <1>1, <2>1
  <2>2. CASE i > m
    <3>1. i - m \in 1..n /\ m + (i - m) = i
      BY <1>1, <2>2
    <3> QED BY <1>2, <3>1
  <2>3. i <= m \/ i > m
    BY <1>1
  <2> QED BY <2>1, <2>2, <2>3
<1>4. (\A i \in 1..m : i \in 1..m + n) /\ \A i \in 1..n : m + i \in 1..m + n
  BY <1>1
<1> QED BY <1>1, <1>2, <1>3, <1>4 DEF c, m, n

\* A run that collects what the projector accepts, and writes where nobody wrote, advances.
LEMMA AdvanceBy ==
  ASSUME NEW now \in Nat, NEW x, RunCore(x, now), NEW y, NEW es, Moved(x, y, es),
         \A i \in 1..Len(es) : es[i].at \in 0..now,
         NEW f, LegalHistory(f, x.store, es), WritesOnce(x, y, es)
  PROVE  /\ TypedHistory(f, x.store, es, now)
         /\ y.store = f[Len(es)]
         /\ Advances(x, y, now)
<1> DEFINE a == x.batch
           c == a \o es
           m == Len(a)
           n == Len(es)
<1>1. y.batch = c /\ y.store = Recording(x.store, es) /\ IsSequence(a) /\ IsSequence(es)
  BY DEF Moved, RunCore
<1>2. /\ IsSequence(c) /\ Len(c) = m + n /\ m \in Nat /\ n \in Nat
      /\ \A i \in 1..m : c[i] = a[i] /\ i \in 1..Len(c)
      /\ \A i \in 1..n : c[m + i] = es[i] /\ m + i \in 1..Len(c)
      /\ \A i \in 1..Len(c) : i \in 1..m \/ (i - m \in 1..n /\ c[i] = es[i - m])
  BY <1>1, BatchGrows
<1>3. TypedHistory(f, x.store, es, now)
  BY <1>1, HistoryTyped DEF TypedHistory, RunCore
<1>4. y.store = f[n]
  BY <1>1, <1>2, RecordingIs DEF LegalHistory
<1>5. TypedStore(y.store, now)
  BY <1>2, <1>3, <1>4 DEF TypedHistory
<1>6. ASSUME NEW s, Copy(x, s) PROVE Copy(y, s)
  <2>1. Recording(s, c) = Recording(Recording(s, a), es)
    BY <1>1, RecordingConcat
  <2> QED BY <1>1, <1>6, <2>1 DEF Copy, Moved
<1> HIDE DEF c, m, n, a
<1>7. \A i \in 1..Len(c) : c[i].at \in 0..now
  <2>1. \A i \in 1..m : a[i].at \in 0..now
    BY DEF RunCore, a, m
  <2>2. \A i \in 1..n : es[i].at \in 0..now
    BY DEF n
  <2> QED BY <1>2, <2>1, <2>2
<1>8. RunCore(y, now)
  BY <1>1, <1>2, <1>5, <1>7 DEF RunCore, Moved
<1>9. ASSUME WritesApart(x) PROVE WritesApart(y)
  <2> DEFINE W(e) == e.event.kind = WriteKind
             p(e) == e.event.paths
  <2>1. \A i \in 1..m : W(a[i]) =>
          p(a[i]) \subseteq x.written /\ \A j \in 1..m : i < j /\ W(a[j]) => ~Conflict(p(a[i]), p(a[j]))
    BY <1>9, Zenon DEF WritesApart, a, m
  <2>2. /\ x.written \subseteq y.written
        /\ \A k \in 1..n : W(es[k]) =>
             /\ p(es[k]) \subseteq y.written /\ ~Conflict(x.written, p(es[k]))
             /\ \A l \in 1..n : W(es[l]) => k = l
    BY Zenon DEF WritesOnce, n
  <2>3. ASSUME NEW i \in 1..Len(c), W(c[i])
        PROVE  p(c[i]) \subseteq y.written /\ \A j \in 1..Len(c) : i < j /\ W(c[j]) => ~Conflict(p(c[i]), p(c[j]))
    <3> HIDE DEF W, p
    <3>1. CASE i \in 1..m
      <4>1. c[i] = a[i] /\ W(a[i]) /\ p(a[i]) \subseteq x.written
        BY <1>2, <2>1, <2>3, <3>1
      <4>2. ASSUME NEW j \in 1..Len(c), i < j, W(c[j]) PROVE ~Conflict(p(c[i]), p(c[j]))
        <5>1. CASE j \in 1..m
          BY <1>2, <2>1, <3>1, <4>1, <4>2, <5>1
        <5>2. CASE j - m \in 1..n /\ c[j] = es[j - m]
          <6>1. ~Conflict(x.written, p(c[j]))
            BY <2>2, <4>2, <5>2
          <6> QED BY <4>1, <6>1 DEF Conflict
        <5> QED BY <1>2, <5>1, <5>2
      <4> QED BY <2>2, <4>1, <4>2
    <3>2. CASE i - m \in 1..n /\ c[i] = es[i - m]
      <4>1. p(c[i]) \subseteq y.written
        BY <2>2, <2>3, <3>2
      <4>2. ASSUME NEW j \in 1..Len(c), i < j, W(c[j]) PROVE FALSE
        <5>0. i \in Int /\ j \in Int /\ m \in Int
          BY <1>2
        <5>1. j - m \in 1..n /\ c[j] = es[j - m]
          <6>1. j \notin 1..m
            BY <3>2, <4>2, <5>0
          <6> QED BY <1>2, <6>1
        <5>2. i - m = j - m
          BY <2>2, <2>3, <3>2, <4>2, <5>1
        <5> QED BY <4>2, <5>0, <5>2
      <4> QED BY <4>1, <4>2
    <3> QED BY <1>2, <3>1, <3>2
  <2> QED BY <1>1, <2>3 DEF WritesApart
<1>10. ASSUME NEW id, Escalated(a, id) PROVE Escalated(c, id)
  <2>1. DOMAIN a = 1..m /\ DOMAIN c = 1..Len(c)
    BY <1>1, <1>2, DomainOfSequence DEF m
  <2>2. PICK i \in DOMAIN a : a[i].event.kind = "issue.report" /\ a[i].event.issue = <<"MAXATT", id>>
    BY <1>10 DEF Escalated
  <2>3. c[i] = a[i] /\ i \in DOMAIN c
    BY <1>2, <2>1, <2>2
  <2> QED BY <2>2, <2>3 DEF Escalated
<1> QED BY <1>1, <1>3, <1>4, <1>6, <1>8, <1>9, <1>10 DEF Advances, Moved, n, a

\* A run that collects claims of what has its dependencies done stays in turn.
LEMMA TurnBy ==
  ASSUME NEW now, NEW x, RunCore(x, now), NEW y, NEW es, Moved(x, y, es), NEW f, TypedHistory(f, x.store, es, now),
         y.store = f[Len(es)], ClaimsInTurn(x, es)
  PROVE  TakesTurn(x, y)
<1> DEFINE a == x.batch
           c == a \o es
           m == Len(a)
           n == Len(es)
<1>1. y.batch = c /\ IsSequence(a) /\ IsSequence(es)
  BY DEF Moved, RunCore
<1>2. /\ IsSequence(c) /\ Len(c) = m + n /\ m \in Nat /\ n \in Nat
      /\ \A i \in 1..m : c[i] = a[i] /\ i \in 1..Len(c)
      /\ \A i \in 1..n : c[m + i] = es[i] /\ m + i \in 1..Len(c)
      /\ \A i \in 1..Len(c) : i \in 1..m \/ (i - m \in 1..n /\ c[i] = es[i - m])
  BY <1>1, BatchGrows
<1> HIDE DEF c, m, n, a
<1>3. ASSUME NEW id, NEW k \in 0..m, NEW l \in k..m + n, Approves(a, k, id) PROVE Approves(c, l, id)
  <2>1. PICK i \in 1..k : a[i].event.kind = "review" /\ a[i].event.decision = "approve" /\ a[i].event.task = id
    BY <1>3 DEF Approves
  <2>2. i \in 1..m /\ i \in 1..l
    BY <1>2
  <2> QED BY <1>2, <2>1, <2>2 DEF Approves
<1>4. ASSUME NEW id, Approves(es, n, id) PROVE Approves(c, m + n, id)
  <2>1. PICK i \in 1..n : es[i].event.kind = "review" /\ es[i].event.decision = "approve" /\ es[i].event.task = id
    BY <1>4 DEF Approves
  <2>2. m + i \in 1..m + n
    BY <1>2
  <2> QED BY <1>2, <2>1, <2>2 DEF Approves
<1> SUFFICES ASSUME NEW b, Turn(x, b) PROVE Turn(y, b)
  BY DEF TakesTurn
<1>5. /\ \A k \in 1..m : a[k].event.kind = "claim" =>
           /\ a[k].event.task \in TaskIds
           /\ \A dep \in DependsOn[a[k].event.task] : DoneTask(b, dep) \/ Approves(a, k - 1, dep)
      /\ \A id \in TaskIds : DoneTask(x.store.board, id) => DoneTask(b, id) \/ Approves(a, m, id)
  BY DEF Turn, a, m
<1>6. ASSUME NEW k \in 1..Len(c), c[k].event.kind = "claim"
      PROVE  /\ c[k].event.task \in TaskIds
             /\ \A dep \in DependsOn[c[k].event.task] : DoneTask(b, dep) \/ Approves(c, k - 1, dep)
  <2>1. CASE k \in 1..m
    <3>1. k - 1 \in 0..m /\ k - 1 \in (k - 1)..m + n
      BY <1>2, <2>1
    <3>2. c[k] = a[k]
      BY <1>2, <2>1
    <3> QED BY <1>3, <1>5, <1>6, <2>1, <3>1, <3>2
  <2>2. CASE k - m \in 1..n /\ c[k] = es[k - m]
    <3>1. c[k].event.task \in TaskIds /\ \A dep \in DependsOn[c[k].event.task] : DoneTask(x.store.board, dep)
      BY <1>6, <2>2 DEF ClaimsInTurn, n
    <3>2. m \in 0..m /\ k - 1 \in m..m + n
      BY <1>2, <2>2
    <3>3. DependsOn[c[k].event.task] \subseteq TaskIds
      BY <3>1, TaskAssumption
    <3> QED BY <1>3, <1>5, <3>1, <3>2, <3>3
  <2> QED BY <1>2, <2>1, <2>2
<1>7. ASSUME NEW id \in TaskIds, DoneTask(y.store.board, id) PROVE DoneTask(b, id) \/ Approves(c, m + n, id)
  <2>1. n \in 0..n
    BY <1>2
  <2>2. DoneTask(x.store.board, id) \/ Approves(es, n, id)
    BY <1>7, <2>1, HistoryStatus DEF n
  <2>3. m \in 0..m /\ m + n \in m..m + n
    BY <1>2
  <2> QED BY <1>3, <1>4, <1>5, <2>2, <2>3
<1> QED BY <1>1, <1>2, <1>6, <1>7 DEF Turn

-----------------------------------------------------------------------------
\* What an iteration collects.

\* The fields that collecting events leaves alone.
SameOtherwise(x, y) ==
  /\ y.pc = x.pc /\ y.wave = x.wave /\ y.stalls = x.stalls
  /\ y.signature = x.signature /\ y.left = x.left /\ y.odd = x.odd

\* Collecting moves the batch and the copy, and nothing else.
LEMMA CollectIs ==
  ASSUME NEW x, DOMAIN x = RunShape, NEW events, IsSequence(events)
  PROVE  LET y == Collect(x, events) IN
         /\ Moved(x, y, Stamped(events, clock))
         /\ SameOtherwise(x, y)
         /\ y.written = x.written
<1> DEFINE es == Stamped(events, clock)
           u == Recording(x.store, es)
           y == Collect(x, events)
<1>1. IsSequence(es)
  BY StampedAre
<1>2. y = [x EXCEPT !.batch = @ \o es, !.store = Recording(@, es)]
  BY DEF Collect
<1> HIDE DEF y
<1>3. DOMAIN y = RunShape
  BY <1>2
<1>4. y.batch = x.batch \o es /\ y.store = u
  BY <1>2 DEF RunShape
<1>5. /\ y.limit = x.limit /\ y.fresh = x.fresh /\ y.written = x.written
      /\ y.pc = x.pc /\ y.wave = x.wave /\ y.stalls = x.stalls
      /\ y.signature = x.signature /\ y.left = x.left /\ y.odd = x.odd
  BY <1>2 DEF RunShape
<1> QED BY <1>1, <1>3, <1>4, <1>5 DEF Moved, SameOtherwise, y

\* Quiet events that write nothing.
Silent(events) == \A i \in 1..Len(events) : events[i].kind \in Quiet \ {WriteKind}

\* Silent events can always be collected.
LEMMA SilentCollect ==
  ASSUME clock \in Nat, NEW x, RunCore(x, clock), NEW events, IsSequence(events), Silent(events)
  PROVE  LET y == Collect(x, events) IN
         /\ Advances(x, y, clock)
         /\ TakesTurn(x, y)
         /\ SameOtherwise(x, y)
         /\ y.store.board.tasks = x.store.board.tasks
         /\ \E f : TypedHistory(f, x.store, Stamped(events, clock), clock) /\ y.store = f[Len(events)]
<1> DEFINE es == Stamped(events, clock)
           y == Collect(x, events)
<1>1. Moved(x, y, es) /\ SameOtherwise(x, y) /\ y.written = x.written
  BY CollectIs DEF RunCore
<1>2. /\ IsSequence(es) /\ Len(es) = Len(events) /\ Len(es) \in Nat
      /\ \A i \in 1..Len(es) : es[i].event = events[i] /\ es[i].at = clock
  BY StampedAre DEF IsSequence
<1> HIDE DEF es, y
<1>3. \A i \in 1..Len(es) : es[i].event.kind \in Quiet /\ es[i].event.kind # WriteKind /\ es[i].at \in 0..clock
  BY <1>2 DEF Silent
<1>11. \A i \in 1..Len(es) : es[i].at \in 0..clock
  BY <1>3
<1>12. QuietBatch(es)
  BY <1>3 DEF QuietBatch
<1>4. PICK f : History(f, x.store, es)
  BY <1>2, RecordingSteps
<1>5. LegalHistory(f, x.store, es) /\ \A n \in 0..Len(es) : f[n].board.tasks = x.store.board.tasks
  BY <1>2, <1>4, <1>12, QuietHistory
<1>6. WritesOnce(x, y, es)
  BY <1>1, <1>3 DEF WritesOnce
<1>7. ClaimsInTurn(x, es)
  BY <1>3 DEF ClaimsInTurn, Quiet, WriteKind
<1>8. TypedHistory(f, x.store, es, clock) /\ y.store = f[Len(es)] /\ Advances(x, y, clock)
  BY <1>1, <1>5, <1>6, <1>11, AdvanceBy
<1>9. TakesTurn(x, y)
  BY <1>1, <1>7, <1>8, TurnBy
<1>10. y.store.board.tasks = x.store.board.tasks
  BY <1>2, <1>5, <1>8
<1> QED BY <1>1, <1>2, <1>8, <1>9, <1>10 DEF es, y

-----------------------------------------------------------------------------
\* run.end and verify.ok.
LEMMA ClosingIs ==
  ASSUME NEW b
  PROVE  /\ IsSequence(Closing(b))
         /\ \A i \in 1..Len(Closing(b)) : Closing(b)[i].kind \in {"run.end", "verify.ok"}
<1> DEFINE P == AllTasksDone(b.tasks) /\ b.run # "success"
           end == [kind |-> "run.end"]
           ok == [kind |-> "verify.ok", certifies |-> b.tasks]
           es == IF P THEN <<end>> ELSE <<>>
           c == es \o <<ok>>
<1>1. Closing(b) = c
  BY DEF Closing
<1>2. end.kind = "run.end" /\ ok.kind = "verify.ok" /\ <<end>>[1] = end /\ <<ok>>[1] = ok
  OBVIOUS
<1> HIDE DEF P, end, ok
<1>3. IsSequence(es) /\ \A i \in 1..Len(es) : es[i] = end
  <2>1. CASE P
    BY <1>2, <2>1, SingletonSequence
  <2>2. CASE ~P
    BY <2>2, EmptySequence
  <2> QED BY <2>1, <2>2
<1> HIDE DEF es
<1>4. IsSequence(<<ok>>) /\ Len(<<ok>>) = 1
  BY SingletonSequence
<1>5. /\ IsSequence(c)
      /\ \A i \in 1..Len(c) : (i \in 1..Len(es) /\ c[i] = es[i]) \/ (i - Len(es) \in 1..Len(<<ok>>) /\ c[i] = <<ok>>[i - Len(es)])
  BY <1>3, <1>4, BatchGrows
<1> HIDE DEF c
<1>6. \A i \in 1..Len(c) : c[i].kind \in {"run.end", "verify.ok"}
  <2> SUFFICES ASSUME NEW i \in 1..Len(c) PROVE c[i].kind \in {"run.end", "verify.ok"}
    OBVIOUS
  <2>1. CASE i \in 1..Len(es) /\ c[i] = es[i]
    BY <1>2, <1>3, <2>1
  <2>2. CASE i - Len(es) \in 1..Len(<<ok>>) /\ c[i] = <<ok>>[i - Len(es)]
    <3>1. i - Len(es) = 1
      BY <1>4, <2>2
    <3> QED BY <1>2, <2>2, <3>1
  <2> QED BY <1>5, <2>1, <2>2
<1> QED BY <1>1, <1>5, <1>6

\* The end of a run charges nothing and creates nothing.
LEMMA OverIs ==
  ASSUME clock \in Nat, NEW x, RunCore(x, clock)
  PROVE  LET y == Over(x) IN
         /\ Advances(x, y, clock)
         /\ TakesTurn(x, y)
         /\ y.pc = "commit" /\ y.wave = <<>> /\ y.stalls = x.stalls
         /\ y.store.board.tasks = x.store.board.tasks
         /\ NoneCharged(x.store, y.store)
<1> DEFINE events == Closing(x.store.board)
           es == Stamped(events, clock)
           z == Collect(x, events)
           y == Over(x)
<1>1. IsSequence(events) /\ \A i \in 1..Len(events) : events[i].kind \in {"run.end", "verify.ok"}
  BY ClosingIs
<1>2. y = [z EXCEPT !.pc = "commit", !.wave = <<>>]
  BY DEF Over
<1> HIDE DEF events, y
<1>3. Silent(events)
  BY <1>1 DEF Silent, Quiet, WriteKind
<1>4. /\ Advances(x, z, clock) /\ TakesTurn(x, z) /\ SameOtherwise(x, z)
      /\ z.store.board.tasks = x.store.board.tasks
      /\ \E f : TypedHistory(f, x.store, Stamped(events, clock), clock) /\ z.store = f[Len(events)]
  BY <1>1, <1>3, SilentCollect
<1> HIDE DEF z
<1>5. RunCore(z, clock) /\ DOMAIN z = RunShape
  BY <1>4 DEF Advances, RunCore
<1>6. /\ DOMAIN y = RunShape /\ y.pc = "commit" /\ y.wave = <<>>
      /\ y.store = z.store /\ y.batch = z.batch /\ y.limit = z.limit /\ y.fresh = z.fresh /\ y.written = z.written
      /\ y.stalls = z.stalls
  BY <1>2, <1>5 DEF RunShape
<1>7. Advances(x, y, clock)
  <2>1. Advances(z, y, clock)
    BY <1>5, <1>6, AdvancesLike
  <2> QED BY <1>4, <2>1, AdvancesTwice
<1>8. TakesTurn(x, y)
  BY <1>4, <1>6 DEF TakesTurn, Turn
<1>9. NoneCharged(x.store, y.store)
  <2>1. PICK f : TypedHistory(f, x.store, es, clock) /\ z.store = f[Len(events)]
    BY <1>4
  <2>2. Len(es) = Len(events) /\ \A i \in 1..Len(es) : es[i].event = events[i]
    BY <1>1, StampedAre
  <2>3. \A i \in 1..Len(es) : es[i].event.kind # "output.rejected"
    BY <1>1, <2>2
  <2> HIDE DEF es
  <2>4. NoneCharged(x.store, f[Len(es)])
    BY <2>1, <2>3, UnchargedHistory
  <2> QED BY <1>6, <2>1, <2>2, <2>4
<1> QED BY <1>4, <1>6, <1>7, <1>8, <1>9 DEF y, SameOtherwise

-----------------------------------------------------------------------------
\* Tasks that are late.
LEMMA TimeoutsAre ==
  ASSUME NEW x, NEW w, w = Wave(x), IsSequence(w)
  PROVE  \E at : LET q == Timeouts(x) IN
           /\ IsSequence(q)
           /\ \A i \in 1..Len(q) :
                /\ at[i] \in 1..Len(w) /\ Late(x, w[at[i]])
                /\ q[i] = Rejected(w[at[i]].id, "ATTEMPT_TIMEOUT")
                /\ \A j \in 1..Len(q) : at[i] = at[j] => i = j
<1> DEFINE places == {n \in 1..Len(w) : Late(x, w[n])}
           late == Filter(w, LAMBDA t : Late(x, t))
           q == [i \in DOMAIN late |-> Rejected(late[i].id, "ATTEMPT_TIMEOUT")]
<1>1. Timeouts(x) = q
  BY DEF Timeouts
<1>2. late = Picked(w, places)
  BY DEF Filter
<1>3. \A n \in places : Late(x, w[n])
  OBVIOUS
<1> HIDE DEF late, places
<1>4. PICK at : Picks(late, w, places, at)
  BY <1>2, PickedAre
<1>5. IsSequence(late) /\ DOMAIN late = 1..Len(late) /\ Len(late) \in Nat /\ Len(w) \in Nat
  BY <1>4, DomainOfSequence DEF Picks, IsSequence
<1>6. q = [i \in 1..Len(late) |-> q[i]] /\ \A i \in 1..Len(late) : q[i] = Rejected(late[i].id, "ATTEMPT_TIMEOUT")
  BY <1>5
<1> HIDE DEF q
<1>7. IsSequence(q) /\ Len(q) = Len(late)
  BY <1>5, <1>6, FunctionSequence
<1>8. ASSUME NEW i \in 1..Len(late)
      PROVE  /\ at[i] \in 1..Len(w) /\ Late(x, w[at[i]]) /\ q[i] = Rejected(w[at[i]].id, "ATTEMPT_TIMEOUT")
             /\ \A j \in 1..Len(late) : at[i] = at[j] => i = j
  <2>1. at[i] \in 1..Len(w) /\ at[i] \in places /\ late[i] = w[at[i]]
    BY <1>4 DEF Picks
  <2>2. ASSUME NEW j \in 1..Len(late), at[i] = at[j] PROVE i = j
    <3>1. i < j => at[i] < at[j]
      BY <1>4 DEF Picks
    <3>2. j < i => at[j] < at[i]
      BY <1>4 DEF Picks
    <3>3. at[i] \in Nat /\ at[j] \in Nat /\ i \in Nat /\ j \in Nat
      BY <1>5, <2>1, <2>2
    <3> QED BY <2>2, <3>1, <3>2, <3>3
  <2> QED BY <1>3, <1>6, <2>1, <2>2
<1> QED BY <1>1, <1>7, <1>8

\* Those that are not are still there to be worked on.
LEMMA RunnableTakes ==
  ASSUME NEW x, NEW w, w = Wave(x), IsSequence(w)
  PROVE  /\ Takes(Runnable(x), w)
         /\ \A i \in 1..Len(Runnable(x)) : \E k \in 1..Len(w) : Runnable(x)[i] = w[k] /\ ~Late(x, w[k])
<1> DEFINE places == {n \in 1..Len(w) : ~Late(x, w[n])}
<1>1. Runnable(x) = Picked(w, places)
  BY DEF Runnable, Filter
<1>2. \A n \in places : ~Late(x, w[n])
  OBVIOUS
<1> HIDE DEF places
<1>3. TakesAt(Runnable(x), w, places)
  BY <1>1, PickedTakes
<1> QED BY <1>2, <1>3 DEF TakesAt

-----------------------------------------------------------------------------
\* Attempts that are charged.

\* Timeouts of tasks that have attempts left charge these.
LEMMA TimeoutsCharge ==
  ASSUME NEW s, NEW now, TypedStore(s, now), NEW u, NEW batch, NEW ids, NEW n,
         \A i \in 1..n : ids[i] \in TaskIds /\ ~Blocked(s.attempts, ids[i]),
         \A i \in 1..n : Charged(s.attempts[ids[i]], u.attempts[ids[i]], "ATTEMPT_TIMEOUT"),
         \A id \in TaskIds : (\A i \in 1..n : ids[i] # id) => NotCharged(s.attempts[id], u.attempts[id])
  PROVE  Charging(s, u, batch)
<1>1. ASSUME NEW i \in 1..n PROVE Spent(s, u, batch, ids[i])
  <2>1. Charged(s.attempts[ids[i]], u.attempts[ids[i]], "ATTEMPT_TIMEOUT") /\ ~Blocked(s.attempts, ids[i])
    OBVIOUS
  <2>2. s.attempts[ids[i]].penalties \in Nat /\ MaxAttempts \in Nat
    BY ScheduleBoundAssumption DEF TypedStore, TypedAttempts
  <2>3. /\ u.attempts[ids[i]].penalties = s.attempts[ids[i]].penalties + 1
        /\ u.attempts[ids[i]].charged = "ATTEMPT_TIMEOUT"
    BY <2>1 DEF Charged
  <2>4. ~(s.attempts[ids[i]].penalties >= MaxAttempts)
    BY <2>1 DEF Blocked, Penalties
  <2>5. Penalties(u.attempts, ids[i]) <= MaxAttempts
    BY <2>2, <2>3, <2>4 DEF Penalties
  <2> QED BY <2>1, <2>3, <2>5 DEF Spent, Unescalated
<1> QED BY <1>1 DEF Charging

\* An iteration rejects what is late; what is runnable stays open.
LEMMA IterationIs ==
  ASSUME clock \in Nat, NEW x, RunCore(x, clock)
  PROVE  LET y == Collect(StepTaken(x), Timeouts(x)) IN
         /\ Advances(x, y, clock)
         /\ TakesTurn(x, y)
         /\ y.pc = x.pc /\ y.wave = x.wave /\ y.stalls = x.stalls
         /\ y.store.board.tasks = x.store.board.tasks
         /\ EntriesUnique(x.store) => /\ Charging(x.store, y.store, y.batch)
                                      /\ \A i \in 1..Len(Runnable(x)) : ~Blocked(y.store.attempts, Runnable(x)[i].id)
<1> DEFINE w == Wave(x)
           z == StepTaken(x)
           q == Timeouts(x)
           es == Stamped(q, clock)
           y == Collect(z, q)
<1>0. /\ DOMAIN x = RunShape /\ TypedStore(x.store, clock) /\ x.limit \in Nat
  BY DEF RunCore
<1>1. WaveOf(w, x)
  BY <1>0, WaveIs
<1>2. IsSequence(w) /\ Workable(w)
  BY <1>1 DEF WaveOf
<1>3. PICK at : /\ IsSequence(q)
                /\ \A i \in 1..Len(q) :
                     /\ at[i] \in 1..Len(w) /\ Late(x, w[at[i]])
                     /\ q[i] = Rejected(w[at[i]].id, "ATTEMPT_TIMEOUT")
                     /\ \A j \in 1..Len(q) : at[i] = at[j] => i = j
  BY <1>2, TimeoutsAre
<1>4. /\ DOMAIN z = RunShape /\ z.store = x.store /\ z.batch = x.batch /\ z.limit = x.limit /\ z.fresh = x.fresh
      /\ z.written = x.written /\ z.pc = x.pc /\ z.wave = x.wave /\ z.stalls = x.stalls
  BY <1>0 DEF StepTaken, RunShape
<1> HIDE DEF z
<1>5. Advances(x, z, clock)
  BY <1>4, AdvancesLike
<1>6. TakesTurn(x, z)
  BY <1>4 DEF TakesTurn, Turn
<1>7. RunCore(z, clock)
  BY <1>5 DEF Advances
<1> HIDE DEF q
<1>8. Silent(q)
  <2>1. ASSUME NEW i \in 1..Len(q) PROVE q[i].kind = "output.rejected"
    <3>1. q[i] = Rejected(w[at[i]].id, "ATTEMPT_TIMEOUT")
      BY <1>3
    <3> QED BY <3>1 DEF Rejected
  <2> QED BY <2>1 DEF Silent, Quiet, WriteKind
<1>9. /\ Advances(z, y, clock) /\ TakesTurn(z, y) /\ SameOtherwise(z, y)
      /\ y.store.board.tasks = z.store.board.tasks
      /\ \E f : TypedHistory(f, z.store, es, clock) /\ y.store = f[Len(q)]
  BY <1>3, <1>7, <1>8, SilentCollect
<1> HIDE DEF y
<1>10. Advances(x, y, clock)
  BY <1>5, <1>9, AdvancesTwice
<1>11. TakesTurn(x, y)
  BY <1>6, <1>9 DEF TakesTurn
<1>12. ASSUME EntriesUnique(x.store)
       PROVE  /\ Charging(x.store, y.store, y.batch)
              /\ \A i \in 1..Len(Runnable(x)) : ~Blocked(y.store.attempts, Runnable(x)[i].id)
  <2> DEFINE ids == [i \in 1..Len(q) |-> w[at[i]].id]
             s == x.store
             u == y.store
  <2>1. DistinctIds(w) /\ \A i \in 1..Len(w) : ~Blocked(s.attempts, w[i].id)
    BY <1>1, <1>12 DEF WaveOf
  <2>2. \A i \in 1..Len(q) : at[i] \in 1..Len(w) /\ ids[i] = w[at[i]].id
    BY <1>3
  <2> HIDE DEF ids
  <2>3. PICK f : TypedHistory(f, s, es, clock) /\ u = f[Len(q)]
    BY <1>4, <1>9
  <2>4. Len(es) = Len(q) /\ \A i \in 1..Len(es) : es[i].event = q[i]
    BY <1>3, StampedAre
  <2> HIDE DEF es, w
  <2>5. \A i \in 1..Len(es) : ids[i] \in TaskIds /\ es[i].event = Rejected(ids[i], "ATTEMPT_TIMEOUT")
    BY <1>2, <1>3, <2>2, <2>4 DEF Workable
  <2>6. \A i, j \in 1..Len(es) : ids[i] = ids[j] => i = j
    <3> SUFFICES ASSUME NEW i \in 1..Len(es), NEW j \in 1..Len(es), ids[i] = ids[j] PROVE i = j
      OBVIOUS
    <3>1. at[i] = at[j]
      BY <2>1, <2>2, <2>4 DEF DistinctIds
    <3> QED BY <1>3, <2>4, <3>1
  <2> HIDE DEF u, s
  <2>7. /\ \A i \in 1..Len(es) : Charged(s.attempts[ids[i]], u.attempts[ids[i]], "ATTEMPT_TIMEOUT")
        /\ \A id \in TaskIds :
             (\A i \in 1..Len(es) : ids[i] # id) => NotCharged(s.attempts[id], u.attempts[id])
    BY <2>3, <2>4, <2>5, <2>6, TimeoutHistory
  <2>8. \A i \in 1..Len(es) : ids[i] \in TaskIds /\ ~Blocked(s.attempts, ids[i])
    BY <2>1, <2>2, <2>4, <2>5
  <2>9. TypedStore(s, clock)
    BY <1>0 DEF s
  <2>10. Charging(s, u, y.batch)
    BY <2>7, <2>8, <2>9, TimeoutsCharge
  <2>11. ASSUME NEW i \in 1..Len(Runnable(x)) PROVE ~Blocked(u.attempts, Runnable(x)[i].id)
    <3>1. PICK k \in 1..Len(w) : Runnable(x)[i] = w[k] /\ ~Late(x, w[k])
      BY <1>2, RunnableTakes DEF w
    <3>2. w[k].id \in TaskIds /\ ~Blocked(s.attempts, w[k].id)
      BY <1>2, <2>1 DEF Workable
    <3>3. ASSUME NEW j \in 1..Len(es), ids[j] = w[k].id PROVE FALSE
      <4>1. at[j] \in 1..Len(w) /\ w[at[j]].id = w[k].id /\ Late(x, w[at[j]])
        BY <1>3, <2>2, <2>4, <3>3
      <4>2. at[j] = k
        BY <2>1, <4>1 DEF DistinctIds
      <4> QED BY <3>1, <4>1, <4>2
    <3>4. NotCharged(s.attempts[w[k].id], u.attempts[w[k].id])
      BY <2>7, <3>2, <3>3
    <3> QED BY <3>1, <3>2, <3>4, BlockedAsBefore
  <2> QED BY <2>10, <2>11 DEF u, s
<1> QED BY <1>4, <1>9, <1>10, <1>11, <1>12 DEF SameOtherwise, y, z, q

-----------------------------------------------------------------------------
\* A rejection of an output.
LEMMA RejectIs ==
  ASSUME clock \in Nat, NEW x, RunCore(x, clock), NEW t, t.id \in TaskIds, NEW code
  PROVE  LET y == Reject(x, t, code) IN
         /\ Advances(x, y, clock)
         /\ TakesTurn(x, y)
         /\ SameOtherwise(x, y)
         /\ y.store.board.tasks = x.store.board.tasks
         /\ \A id \in TaskIds : id # t.id /\ ~Blocked(x.store.attempts, id) => ~Blocked(y.store.attempts, id)
         /\ ~Blocked(x.store.attempts, t.id) => Charging(x.store, y.store, y.batch)
<1> DEFINE rej == <<Rejected(t.id, code)>>
           iss == [kind |-> "issue.report", issue |-> <<"MAXATT", t.id>>]
           rep == <<iss>>
           after == Collect(x, rej)
           y == Reject(x, t, code)
           P == code # "LLM_PARSE_FAILED" /\ Blocked(after.store.attempts, t.id)
           s == x.store
           v == after.store
           u == y.store
           er == Stamped(rej, clock)
           ei == Stamped(rep, clock)
<1>1. y = IF P THEN Collect(after, rep) ELSE after
  BY DEF Reject
<1>2. IsSequence(rej) /\ Len(rej) = 1 /\ rej[1] = Rejected(t.id, code)
  BY SingletonSequence
<1>3. IsSequence(rep) /\ Len(rep) = 1 /\ rep[1] = iss
  BY SingletonSequence
<1>4. iss.kind = "issue.report" /\ iss.issue = <<"MAXATT", t.id>>
  OBVIOUS
<1> HIDE DEF rej, rep, iss
<1>5. Silent(rej) /\ Silent(rep)
  BY <1>2, <1>3, <1>4 DEF Silent, Rejected, Quiet, WriteKind
<1>6. /\ Advances(x, after, clock) /\ TakesTurn(x, after) /\ SameOtherwise(x, after)
      /\ after.store.board.tasks = x.store.board.tasks
      /\ \E f : TypedHistory(f, x.store, er, clock) /\ after.store = f[Len(rej)]
  BY <1>2, <1>5, SilentCollect
<1>7. RunCore(after, clock)
  BY <1>6 DEF Advances
<1> HIDE DEF after
<1>8. P => /\ Advances(after, y, clock) /\ TakesTurn(after, y) /\ SameOtherwise(after, y)
           /\ y.store.board.tasks = after.store.board.tasks
           /\ \E f : TypedHistory(f, after.store, ei, clock) /\ y.store = f[Len(rep)]
  <2> DEFINE z == Collect(after, rep)
  <2>1. /\ Advances(after, z, clock) /\ TakesTurn(after, z) /\ SameOtherwise(after, z)
        /\ z.store.board.tasks = after.store.board.tasks
        /\ \E f : TypedHistory(f, after.store, ei, clock) /\ z.store = f[Len(rep)]
    BY <1>3, <1>5, <1>7, SilentCollect
  <2>2. P => y = z
    BY <1>1
  <2> HIDE DEF z, y, P
  <2> QED BY <2>1, <2>2
<1>9. ~P => y = after
  BY <1>1
<1> HIDE DEF y, P
<1>10. Advances(x, y, clock)
  BY <1>6, <1>8, <1>9, AdvancesTwice
<1>11. TakesTurn(x, y)
  BY <1>6, <1>8, <1>9 DEF TakesTurn
<1>12. SameOtherwise(x, y) /\ y.store.board.tasks = x.store.board.tasks
  BY <1>6, <1>8, <1>9 DEF SameOtherwise
<1>13. /\ Len(er) = 1 /\ er[1].event = rej[1]
       /\ Len(ei) = 1 /\ ei[1].event = rep[1]
  <2>1. 1 \in 1..Len(rej) /\ 1 \in 1..Len(rep)
    BY <1>2, <1>3
  <2> QED BY <1>2, <1>3, <2>1, StampedAre
<1> HIDE DEF er, ei
<1>14. TypedStore(s, clock)
  BY DEF RunCore
<1>15. Rejects(s, v, t.id, code)
  <2>1. PICK f : TypedHistory(f, s, er, clock) /\ v = f[Len(rej)]
    BY <1>6
  <2>2. f[0] = s /\ f[1] = Entered(f[0], er[1])
    <3>1. 1 \in 1..Len(er) /\ 1 - 1 = 0
      BY <1>13
    <3> QED BY <2>1, <3>1 DEF TypedHistory, LegalHistory, History
  <2>3. v = Entered(s, er[1]) /\ er[1].event = Rejected(t.id, code)
    BY <1>2, <1>13, <2>1, <2>2
  <2> QED BY <1>14, <2>3, RejectionStep
<1>16. NoneCharged(v, u)
  <2>1. CASE ~P
    BY <1>9, <2>1 DEF NoneCharged, NotCharged
  <2>2. CASE P
    <3>1. PICK f : TypedHistory(f, v, ei, clock) /\ u = f[Len(rep)]
      BY <1>8, <2>2
    <3>2. \A i \in 1..Len(ei) : i = 1 /\ ei[i].event = iss
      BY <1>3, <1>13
    <3>3. NoneCharged(v, f[Len(ei)])
      BY <1>4, <3>1, <3>2, UnchargedHistory
    <3> QED BY <1>3, <1>13, <3>1, <3>3
  <2> QED BY <2>1, <2>2
<1>17. ASSUME P PROVE Escalated(y.batch, t.id)
  <2> DEFINE m == Len(after.batch)
  <2>1. y.batch = after.batch \o ei /\ IsSequence(after.batch) /\ IsSequence(ei)
    <3>1. y = Collect(after, rep)
      BY <1>1, <1>17 DEF y
    <3>2. Moved(after, Collect(after, rep), ei)
      BY <1>3, <1>7, CollectIs DEF RunCore, ei
    <3> QED BY <1>7, <3>1, <3>2 DEF Moved, RunCore
  <2>2. /\ IsSequence(y.batch)
        /\ \A i \in 1..Len(ei) : y.batch[m + i] = ei[i] /\ m + i \in 1..Len(y.batch)
    BY <2>1, BatchGrows
  <2>3. DOMAIN y.batch = 1..Len(y.batch)
    BY <2>2, DomainOfSequence
  <2>4. 1 \in 1..Len(ei)
    BY <1>13
  <2>5. m + 1 \in DOMAIN y.batch /\ y.batch[m + 1].event = iss
    BY <1>3, <1>13, <2>2, <2>3, <2>4
  <2> QED BY <1>4, <2>5 DEF Escalated
<1>18. /\ \A id \in TaskIds : id # t.id => NotCharged(s.attempts[id], u.attempts[id])
       /\ IF code # "PRIOR_STATUS_MISMATCH" THEN Charged(s.attempts[t.id], u.attempts[t.id], code)
                                            ELSE NotCharged(s.attempts[t.id], u.attempts[t.id])
  BY <1>15, <1>16 DEF Rejects, NoneCharged, NotCharged, Charged
<1>19. ASSUME ~Blocked(s.attempts, t.id), code # "PRIOR_STATUS_MISMATCH" PROVE Spent(s, u, y.batch, t.id)
  <2>1. /\ s.attempts[t.id].penalties \in Nat /\ MaxAttempts \in Nat
        /\ ~(s.attempts[t.id].penalties >= MaxAttempts)
    BY <1>14, <1>19, ScheduleBoundAssumption DEF TypedStore, TypedAttempts, Blocked, Penalties
  <2>2. u.attempts[t.id].penalties = s.attempts[t.id].penalties + 1 /\ u.attempts[t.id].charged = code
    BY <1>18, <1>19 DEF Charged
  <2>3. Penalties(u.attempts, t.id) <= MaxAttempts
    BY <2>1, <2>2 DEF Penalties
  <2>4. ASSUME Blocked(u.attempts, t.id), u.attempts[t.id].charged \notin Unescalated PROVE P
    <3>1. NotCharged(v.attempts[t.id], u.attempts[t.id])
      BY <1>16 DEF NoneCharged
    <3>2. Blocked(v.attempts, t.id)
      BY <2>4, <3>1, BlockedAsBefore
    <3> QED BY <2>2, <2>4, <3>2 DEF P, Unescalated
  <2> QED BY <1>17, <1>19, <2>3, <2>4 DEF Spent
<1>20. ~Blocked(s.attempts, t.id) => Charging(s, u, y.batch)
  BY <1>18, <1>19 DEF Charging
<1>21. \A id \in TaskIds : id # t.id /\ ~Blocked(s.attempts, id) => ~Blocked(u.attempts, id)
  BY <1>18, BlockedAsBefore
<1> QED BY <1>10, <1>11, <1>12, <1>20, <1>21 DEF y

-----------------------------------------------------------------------------
\* What comes back from an adapter.

\* What an adapter answers is about the task it was shown.
LEMMA AnswersAre ==
  ASSUME NEW t, t.status \in {"todo", "in_progress", "review"}, NEW agent, NEW c \in Answers(t, agent)
  PROVE  /\ c.task = t.id
         /\ c.op \in AgentOps \cup {"fail"}
         /\ c.op = "claim" => t.status = "todo"
<1> DEFINE act == CASE t.status = "todo"        -> [op : {"claim"}, task : {t.id}, actor : {agent}]
                    [] t.status = "in_progress" -> [op : {"complete"}, task : {t.id}, actor : {agent}, writes : Deliveries]
                    [] t.status = "review"      -> [op : {"review"}, task : {t.id}, actor : {agent}, qa : {FALSE},
                                                    decision : {"approve", "request_changes"}]
           reports == [op : {"report"}, task : {t.id}, issue : Issues]
           fails == [op : {"fail"}, task : {t.id}, code : {"SCHEMA_INVALID", "PRIOR_STATUS_MISMATCH", "LLM_PARSE_FAILED"}]
<1>1. c \in act \/ c \in reports \/ c \in fails
  BY DEF Answers
<1>2. ASSUME c \in reports PROVE c.task = t.id /\ c.op = "report"
  BY <1>2
<1>3. ASSUME c \in fails PROVE c.task = t.id /\ c.op = "fail"
  BY <1>3
<1>4. ASSUME c \in act PROVE c.task = t.id /\ c.op \in {"claim", "complete", "review"} /\ (c.op = "claim" => t.status = "todo")
  <2>1. CASE t.status = "todo"
    <3>1. c \in [op : {"claim"}, task : {t.id}, actor : {agent}]
      BY <1>4, <2>1
    <3> QED BY <2>1, <3>1
  <2>2. CASE t.status = "in_progress"
    <3>1. c \in [op : {"complete"}, task : {t.id}, actor : {agent}, writes : Deliveries]
      BY <1>4, <2>2
    <3> QED BY <3>1
  <2>3. CASE t.status = "review"
    <3>1. c \in [op : {"review"}, task : {t.id}, actor : {agent}, qa : {FALSE}, decision : {"approve", "request_changes"}]
      BY <1>4, <2>3
    <3> QED BY <3>1
  <2> QED BY <2>1, <2>2, <2>3
<1> HIDE DEF act, reports, fails
<1> QED BY <1>1, <1>2, <1>3, <1>4 DEF AgentOps

\* The event of an agent's command neither creates a task nor rejects one.
LEMMA AgentEventIs ==
  ASSUME NEW b, NEW c, c.op \in AgentOps
  PROVE  LET e == MainEvent(b, c) IN
         /\ e.kind \in {"claim", "complete", "review", "issue.report"}
         /\ e.kind = "claim" => c.op = "claim" /\ e.task = c.task
<1> DEFINE e == MainEvent(b, c)
<1>1. CASE c.op = "claim"
  <2>1. e = [kind |-> "claim", task |-> c.task, actor |-> c.actor]
    BY <1>1 DEF MainEvent
  <2> QED BY <1>1, <2>1
<1>2. CASE c.op = "complete"
  <2>1. e = [kind |-> "complete", task |-> c.task, actor |-> c.actor, issue |-> TaskOf(b.tasks, c.task).issue]
    BY <1>2 DEF MainEvent
  <2> QED BY <2>1
<1>3. CASE c.op = "review"
  <2>1. e = [kind |-> "review", task |-> c.task, actor |-> c.actor, decision |-> c.decision, qa |-> c.qa]
    BY <1>3 DEF MainEvent
  <2> QED BY <2>1
<1>4. CASE c.op = "report"
  <2>1. e = [kind |-> "issue.report", issue |-> c.issue]
    BY <1>4 DEF MainEvent
  <2> QED BY <2>1
<1> QED BY <1>1, <1>2, <1>3, <1>4 DEF AgentOps

\* What an accepted output adds to the batch.
Accepted(x, t, c) == Admission(x, t) \o <<MainEvent(x.store.board, c)>>
\* The file write of an accepted output.
Effect(t, c) ==
  IF Delivered(c) = {} THEN <<>>
  ELSE <<[kind |-> "orchestrator.file.write", task |-> t.id, paths |-> Delivered(c)]>>

\* They are the admission of the task, if it is not yet known, and the event of the output.
LEMMA AcceptedAre ==
  ASSUME NEW x, NEW t, NEW c, c.op \in AgentOps, c.task = t.id
  PROVE  LET main == Accepted(x, t, c) IN
         /\ IsSequence(main)
         /\ \A i \in 1..Len(main) :
              /\ main[i].kind \in {"task.create", "claim", "complete", "review", "issue.report"}
              /\ main[i].kind = "task.create" => i = 1 /\ main[i].task = t.id /\ t.id \notin Ids(x.store.board.tasks)
              /\ main[i].kind = "claim" => c.op = "claim" /\ main[i].task = t.id
<1> DEFINE new == [kind |-> "task.create", task |-> t.id, supersedes |-> {}]
           known == t.id \in Ids(x.store.board.tasks)
           a == Admission(x, t)
           e == MainEvent(x.store.board, c)
           b == <<e>>
           main == a \o b
<1>1. a = IF known THEN <<>> ELSE <<new>>
  BY DEF Admission
<1>2. new.kind = "task.create" /\ new.task = t.id
  OBVIOUS
<1>3. /\ e.kind \in {"claim", "complete", "review", "issue.report"}
      /\ e.kind = "claim" => c.op = "claim" /\ e.task = t.id
  BY AgentEventIs
<1>4. IsSequence(b) /\ Len(b) = 1 /\ b[1] = e
  BY SingletonSequence
<1> HIDE DEF new, e, b
<1>5. IsSequence(a) /\ \A i \in 1..Len(a) : i = 1 /\ a[i] = new /\ ~known
  <2>1. CASE known
    <3>1. a = <<>>
      BY <1>1, <2>1
    <3> QED BY <3>1, EmptySequence
  <2>2. CASE ~known
    <3>1. a = <<new>>
      BY <1>1, <2>2
    <3>2. IsSequence(a) /\ Len(a) = 1 /\ a[1] = new
      BY <3>1, SingletonSequence
    <3> QED BY <2>2, <3>2
  <2> QED BY <2>1, <2>2
<1> HIDE DEF a
<1>10. IsSequence(a) /\ IsSequence(b) /\ main = a \o b
  BY <1>4, <1>5
<1> HIDE DEF main
<1>11. /\ IsSequence(main) /\ \A i \in 1..Len(a) : main[i] = a[i]
       /\ \A i \in 1..Len(main) : i \in 1..Len(a) \/ (i - Len(a) \in 1..Len(b) /\ main[i] = b[i - Len(a)])
  BY <1>10, BatchGrows
<1>6. \A i \in 1..Len(main) : (i \in 1..Len(a) /\ main[i] = a[i]) \/ (i - Len(a) \in 1..Len(b) /\ main[i] = b[i - Len(a)])
  BY <1>11
<1>7. ASSUME NEW i \in 1..Len(main) PROVE (i = 1 /\ main[i] = new /\ ~known) \/ main[i] = e
  <2>1. CASE i \in 1..Len(a) /\ main[i] = a[i]
    BY <1>5, <2>1
  <2>2. CASE i - Len(a) \in 1..Len(b) /\ main[i] = b[i - Len(a)]
    <3>1. i - Len(a) = 1
      BY <1>4, <2>2
    <3> QED BY <1>4, <2>2, <3>1
  <2> QED BY <1>6, <2>1, <2>2
<1>8. main = Accepted(x, t, c)
  BY DEF main, a, b, e, Accepted
<1> HIDE DEF known
<1>9. ASSUME NEW i \in 1..Len(main)
      PROVE  /\ main[i].kind \in {"task.create", "claim", "complete", "review", "issue.report"}
             /\ main[i].kind = "task.create" => i = 1 /\ main[i].task = t.id /\ ~known
             /\ main[i].kind = "claim" => c.op = "claim" /\ main[i].task = t.id
  <2>1. CASE i = 1 /\ main[i] = new /\ ~known
    BY <1>2, <2>1
  <2>2. CASE main[i] = e
    BY <1>3, <2>2
  <2> QED BY <1>7, <2>1, <2>2
<1> QED BY <1>11, <1>8, <1>9 DEF known

\* The file effects of an accepted output are one event, or none.
LEMMA EffectIs ==
  ASSUME NEW t, NEW c
  PROVE  /\ IsSequence(Effect(t, c))
         /\ \A i \in 1..Len(Effect(t, c)) : i = 1 /\ Effect(t, c)[i].kind = WriteKind /\ Effect(t, c)[i].paths = Delivered(c)
<1> DEFINE e == [kind |-> "orchestrator.file.write", task |-> t.id, paths |-> Delivered(c)]
           w == Effect(t, c)
<1>1. e.kind = WriteKind /\ e.paths = Delivered(c)
  BY DEF WriteKind
<1>2. w = IF Delivered(c) = {} THEN <<>> ELSE <<e>>
  BY DEF Effect
<1> HIDE DEF e, w
<1>3. CASE Delivered(c) = {}
  BY <1>2, <1>3, EmptySequence DEF w
<1>4. CASE Delivered(c) # {}
  <2>1. w = <<e>>
    BY <1>2, <1>4
  <2>2. IsSequence(w) /\ Len(w) = 1 /\ w[1] = e
    BY <2>1, SingletonSequence
  <2> QED BY <1>1, <2>2 DEF w
<1> QED BY <1>3, <1>4

\* An output that is accepted.
LEMMA AcceptIs ==
  ASSUME clock \in Nat, NEW x, RunCore(x, clock), NEW t, t.id \in TaskIds, NEW c, c.op \in AgentOps, c.task = t.id,
         Replays(x.store.board, Accepted(x, t, c)), ~Conflict(x.written, Delivered(c))
  PROVE  LET y == [Collect(x, Accepted(x, t, c) \o Effect(t, c)) EXCEPT !.written = @ \cup Delivered(c)] IN
         /\ Advances(x, y, clock)
         /\ (c.op = "claim" => \A dep \in DependsOn[t.id] : DoneTask(x.store.board, dep)) => TakesTurn(x, y)
         /\ SameOtherwise(x, y)
         /\ \A id : DoneTask(x.store.board, id) => DoneTask(y.store.board, id)
         /\ NoneCharged(x.store, y.store)
         /\ EntriesUnique(x.store) => EntriesUnique(y.store)
<1> DEFINE main == Accepted(x, t, c)
           write == Effect(t, c)
           events == main \o write
           z == Collect(x, events)
           y == [z EXCEPT !.written = @ \cup Delivered(c)]
           es == Stamped(events, clock)
           s == x.store
<1>1. /\ IsSequence(main)
      /\ \A i \in 1..Len(main) :
           /\ main[i].kind \in {"task.create", "claim", "complete", "review", "issue.report"}
           /\ main[i].kind = "task.create" => i = 1 /\ main[i].task = t.id /\ t.id \notin Ids(s.board.tasks)
           /\ main[i].kind = "claim" => c.op = "claim" /\ main[i].task = t.id
  BY AcceptedAre
<1>2. /\ IsSequence(write)
      /\ \A i \in 1..Len(write) : i = 1 /\ write[i].kind = WriteKind /\ write[i].paths = Delivered(c)
  BY EffectIs
<1>3. Replays(s.board, main)
  OBVIOUS
<1> HIDE DEF main, write
<1>4. /\ IsSequence(events) /\ Len(events) = Len(main) + Len(write) /\ Len(main) \in Nat /\ Len(write) \in Nat
      /\ \A i \in 1..Len(main) : events[i] = main[i] /\ i \in 1..Len(events)
      /\ \A i \in 1..Len(events) : i \in 1..Len(main) \/ (i - Len(main) \in 1..Len(write) /\ events[i] = write[i - Len(main)])
  BY <1>1, <1>2, BatchGrows
<1>5. es = Stamped(main, clock) \o Stamped(write, clock)
  BY <1>1, <1>2, StampedConcat
<1> HIDE DEF events
<1>6. /\ IsSequence(es) /\ Len(es) = Len(events)
      /\ \A i \in 1..Len(events) : es[i].event = events[i] /\ es[i].at = clock
  BY <1>4, StampedAre
<1>7. Moved(x, z, es) /\ SameOtherwise(x, z) /\ z.written = x.written
  BY <1>4, CollectIs DEF RunCore
<1> HIDE DEF z, es
<1>8. /\ DOMAIN y = RunShape /\ y.written = x.written \cup Delivered(c)
      /\ y.batch = z.batch /\ y.store = z.store /\ y.limit = z.limit /\ y.fresh = z.fresh
      /\ y.pc = z.pc /\ y.wave = z.wave /\ y.stalls = z.stalls
      /\ y.signature = z.signature /\ y.left = z.left /\ y.odd = z.odd
  <2>1. DOMAIN z = RunShape
    BY <1>7 DEF Moved
  <2> QED BY <1>7, <2>1 DEF RunShape
<1> HIDE DEF y
<1>9. Moved(x, y, es)
  BY <1>7, <1>8 DEF Moved
<1>10. SameOtherwise(x, y)
  BY <1>7, <1>8 DEF SameOtherwise
<1>11. PICK f : LegalHistory(f, s, es)
  <2> DEFINE sm == Stamped(main, clock)
             sw == Stamped(write, clock)
  <2>1. IsSequence(sm) /\ Events(sm) = main /\ IsSequence(sw)
    BY <1>1, <1>2, StampedAre, EventsOfStamped
  <2>2. QuietBatch(sw)
    <3>1. Len(sw) = Len(write) /\ \A i \in 1..Len(write) : sw[i].event = write[i]
      BY <1>2, StampedAre
    <3> HIDE DEF sw
    <3>2. \A i \in 1..Len(sw) : sw[i].event.kind = WriteKind
      BY <1>2, <3>1
    <3> QED BY <3>2 DEF QuietBatch, Quiet
  <2> HIDE DEF sm, sw
  <2>3. PICK g : LegalHistory(g, s, sm)
    BY <1>3, <2>1, ReplaysLegally
  <2>4. PICK h : History(h, g[Len(sm)], sw)
    <3>1. Len(sw) \in Nat
      BY <2>1 DEF IsSequence
    <3> QED BY <3>1, RecordingSteps
  <2>5. LegalHistory(h, g[Len(sm)], sw)
    BY <2>1, <2>2, <2>4, QuietHistory
  <2>6. \E k : LegalHistory(k, s, sm \o sw)
    BY <2>1, <2>3, <2>5, LegalConcat, Zenon
  <2>7. es = sm \o sw
    BY <1>5 DEF sm, sw
  <2> QED BY <2>6, <2>7
<1>12. \A i \in 1..Len(es) : es[i].at \in 0..clock
  BY <1>6
<1>13. ASSUME NEW k \in 1..Len(es)
       PROVE  /\ es[k].event.kind = WriteKind => k = Len(main) + 1 /\ es[k].event.paths = Delivered(c)
              /\ es[k].event.kind \in {WriteKind, "task.create", "claim", "complete", "review", "issue.report"}
              /\ es[k].event.kind = "task.create" => k = 1 /\ es[k].event.task = t.id /\ t.id \notin Ids(s.board.tasks)
              /\ es[k].event.kind = "claim" => c.op = "claim" /\ es[k].event.task = t.id
  <2>1. k \in 1..Len(events) /\ es[k].event = events[k]
    BY <1>6
  <2>2. CASE k \in 1..Len(main)
    <3>1. es[k].event = main[k]
      BY <1>4, <2>1, <2>2
    <3>2. main[k].kind # WriteKind
      BY <1>1, <2>2 DEF WriteKind
    <3> QED BY <1>1, <2>2, <3>1, <3>2
  <2>3. CASE k - Len(main) \in 1..Len(write) /\ events[k] = write[k - Len(main)]
    <3>1. k - Len(main) = 1 /\ es[k].event.kind = WriteKind /\ es[k].event.paths = Delivered(c)
      BY <1>2, <2>1, <2>3
    <3>2. k = Len(main) + 1
      BY <1>4, <2>1, <3>1
    <3> QED BY <3>1, <3>2 DEF WriteKind
  <2> QED BY <1>4, <2>1, <2>2, <2>3
<1>14. WritesOnce(x, y, es)
  <2>1. ~Conflict(x.written, Delivered(c)) /\ Delivered(c) \subseteq y.written /\ x.written \subseteq y.written
    BY <1>8
  <2> QED BY <1>13, <2>1 DEF WritesOnce
<1>15. TypedHistory(f, s, es, clock) /\ y.store = f[Len(es)] /\ Advances(x, y, clock)
  BY <1>9, <1>11, <1>12, <1>14, AdvanceBy
<1>16. ASSUME c.op = "claim" => \A dep \in DependsOn[t.id] : DoneTask(s.board, dep)
       PROVE  TakesTurn(x, y)
  <2>1. ClaimsInTurn(x, es)
    <3> SUFFICES ASSUME NEW k \in 1..Len(es), es[k].event.kind = "claim"
                 PROVE  /\ es[k].event.task \in TaskIds
                        /\ \A dep \in DependsOn[es[k].event.task] : DoneTask(x.store.board, dep)
      BY DEF ClaimsInTurn
    <3>1. c.op = "claim" /\ es[k].event.task = t.id
      BY <1>13
    <3> QED BY <1>16, <3>1
  <2> QED BY <1>9, <1>15, <2>1, TurnBy
<1>17. Len(es) \in Nat
  BY <1>4, <1>6
<1>18. f[0] = s
  BY <1>11 DEF LegalHistory, History
<1>19. ASSUME NEW id, DoneTask(s.board, id) PROVE DoneTask(y.store.board, id)
  <2>1. DoneTask(f[0].board, id) /\ 0 \in Nat /\ Len(es) \in 0..Len(es)
    BY <1>17, <1>18, <1>19
  <2>2. DoneTask(f[Len(es)].board, id)
    BY <1>15, <2>1, HistoryDone
  <2> QED BY <1>15, <2>2
<1>20. ASSUME NEW i \in 1..Len(es)
       PROVE  /\ es[i].event.kind # "output.rejected"
              /\ es[i].event.kind \in TaskCreations => es[i].event.task \notin Ids(f[i - 1].board.tasks)
  <2>1. es[i].event.kind \in {WriteKind, "task.create", "claim", "complete", "review", "issue.report"}
    BY <1>13
  <2>2. es[i].event.kind # "output.rejected" /\ (es[i].event.kind \in TaskCreations => es[i].event.kind = "task.create")
    BY <2>1 DEF WriteKind, TaskCreations
  <2>3. es[i].event.kind = "task.create" => i - 1 = 0 /\ es[i].event.task \notin Ids(s.board.tasks)
    BY <1>13
  <2> QED BY <1>18, <2>2, <2>3
<1>21. NoneCharged(s, y.store)
  BY <1>15, <1>20, UnchargedHistory
<1>22. ASSUME EntriesUnique(s) PROVE EntriesUnique(y.store)
  <2>1. OnlyNew(f, es)
    BY <1>20 DEF OnlyNew
  <2> QED BY <1>15, <1>22, <2>1, UniqueHistory
<1> QED BY <1>10, <1>15, <1>16, <1>19, <1>21, <1>22 DEF y, z, events, main, write, s

\* What becomes of an output.
LEMMA TakeIs ==
  ASSUME clock \in Nat, NEW x, RunCore(x, clock), NEW t, t.id \in TaskIds,
         NEW c, c.op \in AgentOps \cup {"fail"}, c.task = t.id
  PROVE  LET y == Take(x, t, c) IN
         /\ Advances(x, y, clock)
         /\ (c.op = "claim" => \A dep \in DependsOn[t.id] : DoneTask(x.store.board, dep)) => TakesTurn(x, y)
         /\ SameOtherwise(x, y)
         /\ \A id : DoneTask(x.store.board, id) => DoneTask(y.store.board, id)
         /\ EntriesUnique(x.store) => EntriesUnique(y.store)
         /\ \A id \in TaskIds : id # t.id /\ ~Blocked(x.store.attempts, id) => ~Blocked(y.store.attempts, id)
         /\ ~Blocked(x.store.attempts, t.id) => Charging(x.store, y.store, y.batch)
<1> DEFINE y == Take(x, t, c)
           main == Accepted(x, t, c)
           Q(v) == /\ Advances(x, v, clock)
                   /\ (c.op = "claim" => \A dep \in DependsOn[t.id] : DoneTask(x.store.board, dep)) => TakesTurn(x, v)
                   /\ SameOtherwise(x, v)
                   /\ \A id : DoneTask(x.store.board, id) => DoneTask(v.store.board, id)
                   /\ EntriesUnique(x.store) => EntriesUnique(v.store)
                   /\ \A id \in TaskIds : id # t.id /\ ~Blocked(x.store.attempts, id) => ~Blocked(v.store.attempts, id)
                   /\ ~Blocked(x.store.attempts, t.id) => Charging(x.store, v.store, v.batch)
<1>1. \A code : Q(Reject(x, t, code))
  <2> SUFFICES ASSUME NEW code PROVE Q(Reject(x, t, code))
    OBVIOUS
  <2> DEFINE v == Reject(x, t, code)
  <2>1. /\ Advances(x, v, clock) /\ TakesTurn(x, v) /\ SameOtherwise(x, v)
        /\ v.store.board.tasks = x.store.board.tasks
        /\ \A id \in TaskIds : id # t.id /\ ~Blocked(x.store.attempts, id) => ~Blocked(v.store.attempts, id)
        /\ ~Blocked(x.store.attempts, t.id) => Charging(x.store, v.store, v.batch)
    BY RejectIs
  <2> HIDE DEF v
  <2>2. \A id : DoneTask(x.store.board, id) => DoneTask(v.store.board, id)
    BY <2>1 DEF DoneTask
  <2>3. EntriesUnique(x.store) => EntriesUnique(v.store)
    BY <2>1 DEF EntriesUnique
  <2> QED BY <2>1, <2>2, <2>3 DEF v
<1>2. CASE c.op = "fail"
  <2>1. y = Reject(x, t, c.code)
    BY <1>2 DEF Take
  <2> QED BY <1>1, <2>1
<1>3. CASE c.op # "fail" /\ ~Replays(x.store.board, main)
  <2>1. y = Reject(x, t, "LOCK_VIOLATION")
    BY <1>3 DEF Take, Accepted
  <2> QED BY <1>1, <2>1
<1>4. CASE c.op # "fail" /\ Replays(x.store.board, main) /\ Conflict(x.written, Delivered(c))
  <2>1. y = Reject(x, t, "WRITE_CONFLICT")
    BY <1>4 DEF Take, Accepted
  <2> QED BY <1>1, <2>1
<1>5. CASE c.op # "fail" /\ Replays(x.store.board, main) /\ ~Conflict(x.written, Delivered(c))
  <2> DEFINE v == [Collect(x, main \o Effect(t, c)) EXCEPT !.written = @ \cup Delivered(c)]
  <2>1. y = v
    BY <1>5 DEF Take, Accepted, Effect
  <2>2. c.op \in AgentOps
    BY <1>5
  <2>3. /\ Advances(x, v, clock)
        /\ (c.op = "claim" => \A dep \in DependsOn[t.id] : DoneTask(x.store.board, dep)) => TakesTurn(x, v)
        /\ SameOtherwise(x, v)
        /\ \A id : DoneTask(x.store.board, id) => DoneTask(v.store.board, id)
        /\ NoneCharged(x.store, v.store)
        /\ EntriesUnique(x.store) => EntriesUnique(v.store)
    BY <1>5, <2>2, AcceptIs
  <2> HIDE DEF v
  <2>4. \A id \in TaskIds : ~Blocked(x.store.attempts, id) => ~Blocked(v.store.attempts, id)
    BY <2>3, BlockedAsBefore DEF NoneCharged
  <2>5. Charging(x.store, v.store, v.batch)
    BY <2>3 DEF NoneCharged, Charging
  <2>6. Q(v)
    BY <2>3, <2>4, <2>5
  <2> QED BY <2>1, <2>6
<1>6. Q(y)
  BY <1>2, <1>3, <1>4, <1>5
<1> QED BY <1>6

-----------------------------------------------------------------------------
\* The steps of a run.

\* What is left of a sequence without its head.
LEMMA TailSequence ==
  ASSUME NEW s, IsSequence(s), Len(s) > 0
  PROVE  /\ Head(s) = s[1] /\ IsSequence(Tail(s)) /\ Len(Tail(s)) = Len(s) - 1
         /\ \A i \in 1..Len(Tail(s)) : Tail(s)[i] = s[i + 1]
<1> DEFINE S == {s[i] : i \in 1..Len(s)}
<1>1. s \in Seq(S)
  BY DEF IsSequence
<1> HIDE DEF S
<1>2. s # <<>>
  BY EmptySequence
<1>3. Head(s) = s[1] /\ Tail(s) \in Seq(S) /\ Len(Tail(s)) = Len(s) - 1 /\ \A i \in 1..Len(Tail(s)) : Tail(s)[i] = s[i + 1]
  BY <1>1, <1>2, HeadTailProperties
<1> QED BY <1>3, IsSequenceOf

\* A step of a run keeps what is known of it, of its copy, of its writes, of
\* what it charges, and of its claims.
Keeps(x, y, now) ==
  /\ TypedRun(y, now)
  /\ \A s : Copy(x, s) => Copy(y, s)
  /\ WritesApart(x) => WritesApart(y)
  /\ SoundRun(x) => SoundRun(y) /\ \A s : Within(x, s) => Within(y, s)
  /\ \A b : InTurn(x, b) => InTurn(y, b)

\* What a run that advances has charged.
LEMMA WithinOn ==
  ASSUME NEW x, NEW y, NEW now, Advances(x, y, now), Charging(x.store, y.store, y.batch)
  PROVE  \A s : Within(x, s) => Within(y, s)
BY ChargingOn DEF Advances, Within

\* The end of the loop.
LEMMA OverMoves ==
  ASSUME clock \in Nat, NEW x, TypedRun(x, clock)
  PROVE  Keeps(x, Over(x), clock)
<1> DEFINE y == Over(x)
<1>1. RunCore(x, clock)
  BY DEF TypedRun
<1>2. /\ Advances(x, y, clock) /\ TakesTurn(x, y) /\ y.pc = "commit" /\ y.wave = <<>> /\ y.stalls = x.stalls
      /\ y.store.board.tasks = x.store.board.tasks /\ NoneCharged(x.store, y.store)
  BY <1>1, OverIs
<1> HIDE DEF y
<1>3. IsSequence(y.wave) /\ Len(y.wave) = 0
  BY <1>2, EmptySequence
<1>4. TypedRun(y, clock)
  BY <1>2, <1>3 DEF TypedRun, Advances, Workable
<1>5. SoundRun(x) => SoundRun(y)
  BY <1>2, <1>3 DEF SoundRun, WaveOpen, EntriesUnique
<1>6. \A b : InTurn(x, b) => InTurn(y, b)
  BY <1>2, <1>3 DEF InTurn, Ahead, TakesTurn, Advances
<1>7. \A s : Within(x, s) => Within(y, s)
  BY <1>2, WithinOn DEF NoneCharged, Charging
<1>8. Keeps(x, y, clock)
  BY <1>2, <1>4, <1>5, <1>6, <1>7 DEF Keeps, Advances
<1> QED BY <1>8 DEF y

\* An iteration, before its wave is dispatched.
Stepped(x) == Collect(StepTaken(x), Timeouts(x))

\* An iteration keeps what is known of its run.
LEMMA SteppedMoves ==
  ASSUME clock \in Nat, NEW x, TypedRun(x, clock), x.pc = "select"
  PROVE  Keeps(x, Stepped(x), clock)
<1> DEFINE y == Stepped(x)
<1>1. RunCore(x, clock)
  BY DEF TypedRun
<1>2. /\ Advances(x, y, clock) /\ TakesTurn(x, y) /\ y.pc = x.pc /\ y.wave = x.wave /\ y.stalls = x.stalls
      /\ y.store.board.tasks = x.store.board.tasks
      /\ EntriesUnique(x.store) => Charging(x.store, y.store, y.batch)
  BY <1>1, IterationIs DEF Stepped
<1> HIDE DEF y
<1>3. ~(Len(x.wave) > 0) /\ Len(x.wave) \in Nat
  BY DEF TypedRun, IsSequence
<1>4. TypedRun(y, clock)
  BY <1>2, <1>3 DEF TypedRun, Advances
<1>5. ASSUME SoundRun(x) PROVE SoundRun(y) /\ \A s : Within(x, s) => Within(y, s)
  <2>1. EntriesUnique(x.store) /\ SoundRun(y)
    BY <1>2, <1>3, <1>5 DEF SoundRun, WaveOpen, EntriesUnique
  <2> QED BY <1>2, <2>1, WithinOn
<1>6. \A b : InTurn(x, b) => InTurn(y, b)
  BY <1>2, <1>3 DEF InTurn, Ahead, TakesTurn, Advances
<1>7. Keeps(x, y, clock)
  BY <1>2, <1>4, <1>5, <1>6 DEF Keeps, Advances
<1> QED BY <1>7 DEF y

\* The dispatch of a wave.
LEMMA DispatchMoves ==
  ASSUME clock \in Nat, NEW x, TypedRun(x, clock), x.pc = "select", Runnable(x) # <<>>, Stalls(x) < 2, NEW signature
  PROVE  Keeps(x, [Stepped(x) EXCEPT !.pc = "running", !.wave = Runnable(x), !.signature = signature, !.stalls = Stalls(x)], clock)
<1> DEFINE z == Stepped(x)
           w == Wave(x)
           p == Runnable(x)
           n == Stalls(x)
           y == [z EXCEPT !.pc = "running", !.wave = p, !.signature = signature, !.stalls = n]
<1>1. RunCore(x, clock) /\ TypedStore(x.store, clock) /\ x.limit \in Nat
  BY DEF TypedRun, RunCore
<1>2. /\ Advances(x, z, clock) /\ TakesTurn(x, z)
      /\ z.store.board.tasks = x.store.board.tasks
      /\ EntriesUnique(x.store) => /\ Charging(x.store, z.store, z.batch)
                                   /\ \A i \in 1..Len(p) : ~Blocked(z.store.attempts, p[i].id)
  BY <1>1, IterationIs DEF Stepped
<1>3. WaveOf(w, x)
  BY <1>1, WaveIs
<1>4. Takes(p, w)
  BY <1>3, RunnableTakes DEF WaveOf
<1>5. n \in 0..1
  BY DEF Stalls, TypedRun
<1>6. p # <<>>
  OBVIOUS
<1> HIDE DEF z, w, p, n
<1>7. RunCore(z, clock) /\ DOMAIN z = RunShape
  BY <1>2 DEF Advances, RunCore
<1>8. /\ DOMAIN y = RunShape /\ y.pc = "running" /\ y.wave = p /\ y.stalls = n
      /\ y.store = z.store /\ y.batch = z.batch /\ y.limit = z.limit /\ y.fresh = z.fresh /\ y.written = z.written
  BY <1>7 DEF RunShape
<1> HIDE DEF y
<1>9. Advances(x, y, clock)
  <2>1. Advances(z, y, clock)
    BY <1>7, <1>8, AdvancesLike
  <2> QED BY <1>2, <2>1, AdvancesTwice
<1>10. TakesTurn(x, y)
  BY <1>2, <1>8 DEF TakesTurn, Turn
<1>11. IsSequence(p) /\ Len(p) > 0
  <2>1. IsSequence(p) /\ Len(p) \in Nat
    BY <1>4 DEF Takes, IsSequence
  <2>2. ASSUME Len(p) = 0 PROVE FALSE
    <3>1. p = <<>>
      BY <2>1, <2>2, EmptySequence, SameSequence
    <3> QED BY <1>6, <3>1
  <2> QED BY <2>1, <2>2
<1>12. Workable(p)
  BY <1>3, <1>4 DEF WaveOf, Takes, Workable
<1>13. TypedRun(y, clock)
  BY <1>5, <1>8, <1>9, <1>11, <1>12 DEF TypedRun, Advances
<1>14. ASSUME SoundRun(x) PROVE SoundRun(y) /\ \A s : Within(x, s) => Within(y, s)
  <2>1. EntriesUnique(x.store)
    BY <1>14 DEF SoundRun
  <2>2. DistinctIds(p)
    BY <1>3, <1>4, <2>1 DEF WaveOf, Takes
  <2>3. EntriesUnique(y.store)
    BY <1>2, <1>8, <2>1 DEF EntriesUnique
  <2>4. Charging(x.store, y.store, y.batch)
    BY <1>2, <1>8, <2>1
  <2> QED BY <1>2, <1>8, <1>9, <2>1, <2>2, <2>3, <2>4, WithinOn DEF SoundRun, WaveOpen, DistinctIds
<1>15. ASSUME NEW b, InTurn(x, b) PROVE InTurn(y, b)
  <2>1. x.limit # 1 /\ Turn(y, b) /\ y.limit # 1
    BY <1>9, <1>10, <1>15 DEF InTurn, TakesTurn, Advances
  <2>2. ASSUME NEW i \in 1..Len(p), p[i].status = "todo", NEW dep \in DependsOn[p[i].id]
        PROVE  DoneTask(z.store.board, dep)
    <3>1. PICK k \in 1..Len(w) : p[i] = w[k]
      BY <1>4 DEF Takes
    <3>2. DoneTask(x.store.board, dep)
      BY <1>3, <2>1, <2>2, <3>1 DEF WaveOf
    <3> QED BY <1>2, <3>2 DEF DoneTask
  <2>3. Ahead(y)
    BY <1>8, <2>2 DEF Ahead
  <2> QED BY <2>1, <2>3 DEF InTurn
<1>16. Keeps(x, y, clock)
  BY <1>9, <1>13, <1>14, <1>15 DEF Keeps, Advances
<1> QED BY <1>16 DEF y, z, p, n

\* An output is taken.
LEMMA DeliverMoves ==
  ASSUME clock \in Nat, NEW x, TypedRun(x, clock), x.pc = "running", NEW agent, NEW c \in Answers(Head(x.wave), agent)
  PROVE  Keeps(x, [Take(x, Head(x.wave), c) EXCEPT !.wave = Tail(@), !.pc = IF Len(x.wave) = 1 THEN "select" ELSE "running"], clock)
<1> DEFINE t == Head(x.wave)
           z == Take(x, t, c)
           p == Tail(x.wave)
           pc == IF Len(x.wave) = 1 THEN "select" ELSE "running"
           y == [z EXCEPT !.wave = Tail(@), !.pc = pc]
<1>1. RunCore(x, clock) /\ IsSequence(x.wave) /\ Len(x.wave) > 0 /\ Workable(x.wave) /\ x.stalls \in 0..1 /\ Len(x.wave) \in Nat
  BY DEF TypedRun, IsSequence
<1>2. t = x.wave[1] /\ 1 \in 1..Len(x.wave)
  BY <1>1, TailSequence
<1>3. t.id \in TaskIds /\ t.status \in {"todo", "in_progress", "review"}
  BY <1>1, <1>2 DEF Workable
<1>4. c \in Answers(t, agent)
  OBVIOUS
<1> HIDE DEF t
<1>5. c.task = t.id /\ c.op \in AgentOps \cup {"fail"} /\ (c.op = "claim" => t.status = "todo")
  BY <1>3, <1>4, AnswersAre
<1>6. /\ Advances(x, z, clock) /\ SameOtherwise(x, z)
      /\ (c.op = "claim" => \A dep \in DependsOn[t.id] : DoneTask(x.store.board, dep)) => TakesTurn(x, z)
      /\ \A id : DoneTask(x.store.board, id) => DoneTask(z.store.board, id)
      /\ EntriesUnique(x.store) => EntriesUnique(z.store)
      /\ \A id \in TaskIds : id # t.id /\ ~Blocked(x.store.attempts, id) => ~Blocked(z.store.attempts, id)
      /\ ~Blocked(x.store.attempts, t.id) => Charging(x.store, z.store, z.batch)
  BY <1>1, <1>3, <1>5, TakeIs
<1>7. /\ IsSequence(p) /\ Len(p) = Len(x.wave) - 1
      /\ \A i \in 1..Len(p) : p[i] = x.wave[i + 1] /\ i + 1 \in 1..Len(x.wave) /\ i + 1 # 1
  <2>1. /\ IsSequence(p) /\ Len(p) = Len(x.wave) - 1
        /\ \A i \in 1..Len(p) : p[i] = x.wave[i + 1]
    BY <1>1, TailSequence
  <2> HIDE DEF p
  <2>2. \A i \in 1..Len(p) : i + 1 \in 1..Len(x.wave) /\ i + 1 # 1
    BY <1>1, <2>1
  <2> QED BY <2>1, <2>2
<1>8. pc \in {"select", "running"} /\ (pc = "running" <=> Len(p) > 0)
  <2> HIDE DEF p
  <2>1. CASE Len(x.wave) = 1
    <3>1. pc = "select" /\ ~(Len(p) > 0)
      BY <1>7, <2>1
    <3> QED BY <3>1
  <2>2. CASE Len(x.wave) # 1
    <3>1. pc = "running"
      BY <2>2
    <3>2. Len(x.wave) \in Nat /\ Len(x.wave) > 0 /\ Len(p) = Len(x.wave) - 1
      BY <1>1, <1>7
    <3> HIDE DEF pc, y, z
    <3>3. \A n \in Nat : \A m : n > 0 /\ n # 1 /\ m = n - 1 => m > 0
      OBVIOUS
    <3>4. Len(p) > 0
      BY <2>2, <3>2, <3>3, Zenon
    <3> QED BY <3>1, <3>4
  <2> QED BY <2>1, <2>2
<1> HIDE DEF z, pc
<1>9. RunCore(z, clock) /\ DOMAIN z = RunShape
  BY <1>6 DEF Advances, RunCore
<1>10. /\ DOMAIN y = RunShape /\ y.pc = pc /\ y.wave = p /\ y.stalls = x.stalls
       /\ y.store = z.store /\ y.batch = z.batch /\ y.limit = z.limit /\ y.fresh = z.fresh /\ y.written = z.written
  BY <1>6, <1>9 DEF RunShape, SameOtherwise
<1> HIDE DEF y, p
<1>11. Advances(x, y, clock)
  <2>1. Advances(z, y, clock)
    BY <1>9, <1>10, AdvancesLike
  <2> QED BY <1>6, <2>1, AdvancesTwice
<1>12. Workable(p)
  BY <1>1, <1>7 DEF Workable
<1>13. TypedRun(y, clock)
  BY <1>1, <1>7, <1>8, <1>10, <1>11, <1>12 DEF TypedRun, Advances
<1>14. ASSUME SoundRun(x) PROVE SoundRun(y) /\ \A s : Within(x, s) => Within(y, s)
  <2>1. /\ EntriesUnique(x.store)
        /\ \A i, j \in 1..Len(x.wave) : x.wave[i].id = x.wave[j].id => i = j
        /\ \A i \in 1..Len(x.wave) : ~Blocked(x.store.attempts, x.wave[i].id)
    BY <1>14 DEF SoundRun, WaveOpen
  <2>2. /\ EntriesUnique(z.store) /\ Charging(x.store, z.store, z.batch)
        /\ \A id \in TaskIds : id # t.id /\ ~Blocked(x.store.attempts, id) => ~Blocked(z.store.attempts, id)
    BY <1>2, <1>6, <2>1
  <2>3. ASSUME NEW i \in 1..Len(p) PROVE ~Blocked(z.store.attempts, p[i].id)
    <3>1. p[i] = x.wave[i + 1] /\ i + 1 \in 1..Len(x.wave) /\ i + 1 # 1
      BY <1>7
    <3>2. p[i].id \in TaskIds /\ p[i].id # t.id /\ ~Blocked(x.store.attempts, p[i].id)
      BY <1>1, <1>2, <2>1, <3>1 DEF Workable
    <3> QED BY <2>2, <3>2
  <2>4. ASSUME NEW i \in 1..Len(p), NEW j \in 1..Len(p), p[i].id = p[j].id PROVE i = j
    <3>1. i + 1 = j + 1
      BY <1>7, <2>1, <2>4
    <3> QED BY <1>1, <1>7, <3>1
  <2>5. SoundRun(y)
    BY <1>10, <2>2, <2>3, <2>4 DEF SoundRun, WaveOpen
  <2> QED BY <1>10, <1>11, <2>2, <2>5, WithinOn
<1>15. ASSUME NEW b, InTurn(x, b) PROVE InTurn(y, b)
  <2>1. x.limit # 1 /\ Turn(x, b) /\ Ahead(x)
    BY <1>15 DEF InTurn
  <2>2. c.op = "claim" => \A dep \in DependsOn[t.id] : DoneTask(x.store.board, dep)
    BY <1>2, <1>5, <2>1 DEF Ahead
  <2>3. Turn(z, b)
    BY <1>6, <2>1, <2>2 DEF TakesTurn
  <2>4. Turn(y, b)
    BY <1>10, <2>3 DEF Turn
  <2>5. ASSUME NEW i \in 1..Len(p), p[i].status = "todo", NEW dep \in DependsOn[p[i].id]
        PROVE  DoneTask(z.store.board, dep)
    <3>1. p[i] = x.wave[i + 1] /\ i + 1 \in 1..Len(x.wave)
      BY <1>7
    <3>2. DoneTask(x.store.board, dep)
      BY <2>1, <2>5, <3>1 DEF Ahead
    <3> QED BY <1>6, <3>2
  <2>6. Ahead(y)
    BY <1>10, <2>5 DEF Ahead
  <2> QED BY <1>11, <2>1, <2>4, <2>6 DEF InTurn, Advances
<1>16. Keeps(x, y, clock)
  BY <1>11, <1>13, <1>14, <1>15 DEF Keeps, Advances
<1> QED BY <1>16 DEF y, z, pc, t

-----------------------------------------------------------------------------
\* The store grows.

\* What was typed by a time is typed by a later one.
LEMMA TypedLater ==
  ASSUME NEW now \in Nat, NEW later \in Nat, now <= later
  PROVE  /\ \A s : TypedStore(s, now) => TypedStore(s, later)
         /\ \A x : TypedRun(x, now) => TypedRun(x, later)
<1>1. \A v : v \in 0..now => v \in 0..later
  OBVIOUS
<1>2. ASSUME NEW s, TypedStore(s, now) PROVE TypedStore(s, later)
  BY <1>1, <1>2 DEF TypedStore, TypedAttempts
<1>3. ASSUME NEW x, TypedRun(x, now) PROVE TypedRun(x, later)
  BY <1>1, <1>2, <1>3 DEF TypedRun, RunCore
<1> QED BY <1>2, <1>3

\* What is appended to the store: typed, and what is done stays done.
LEMMA AppendIs ==
  ASSUME NEW s, NEW now \in Nat, TypedStore(s, now), NEW batch, IsSequence(batch),
         \A i \in 1..Len(batch) : batch[i].at \in 0..now, NEW f, LegalHistory(f, s, batch)
  PROVE  /\ TypedHistory(f, s, batch, now)
         /\ Recording(s, batch) = f[Len(batch)]
         /\ TypedStore(f[Len(batch)], now)
         /\ \A id : DoneTask(s.board, id) => DoneTask(f[Len(batch)].board, id)
<1>2. TypedHistory(f, s, batch, now)
  BY HistoryTyped DEF TypedHistory
<1>3. Len(batch) \in Nat /\ Len(batch) \in 0..Len(batch)
  BY DEF IsSequence
<1>4. Recording(s, batch) = f[Len(batch)]
  BY <1>3, RecordingIs DEF LegalHistory
<1>5. TypedStore(f[Len(batch)], now)
  BY <1>2, <1>3 DEF TypedHistory
<1>6. f[0] = s
  BY DEF LegalHistory, History
<1>7. ASSUME NEW id, DoneTask(s.board, id) PROVE DoneTask(f[Len(batch)].board, id)
  <2>1. DoneTask(f[0].board, id) /\ 0 \in Nat
    BY <1>6, <1>7
  <2> QED BY <1>2, <1>3, <2>1, HistoryDone
<1> QED BY <1>2, <1>4, <1>5, <1>7

\* The order of dependencies, task by task.
LEMMA DependenciesDoneIs ==
  ASSUME NEW s, WellFormed(s.board)
  PROVE  DependenciesDone(s) <=> \A id : Begun(s.board, id) => \A dep \in DependsOn[id] : DoneTask(s.board, dep)
<1> DEFINE ts == s.board.tasks
<1>1. IsSequence(ts) /\ DOMAIN ts = 1..Len(ts)
  BY WellFormedTasks, DomainOfSequence
<1>2. DependenciesDone(s) <=> \A i \in 1..Len(ts) : ts[i].status # "todo" =>
                                \A dep \in DependsOn[ts[i].id] : DoneTask(s.board, dep)
  <2>1. \A dep : DoneTask(s.board, dep) <=> \E j \in DOMAIN ts : ts[j].id = dep /\ ts[j].status = "done"
    BY <1>1 DEF DoneTask
  <2>2. DependenciesDone(s) <=> \A i \in DOMAIN ts : ts[i].status # "todo" =>
          \A dep \in DependsOn[ts[i].id] : \E j \in DOMAIN ts : ts[j].id = dep /\ ts[j].status = "done"
    BY DEF DependenciesDone
  <2> HIDE DEF ts
  <2> QED BY <1>1, <2>1, <2>2
<1> QED BY <1>2 DEF Begun

\* A batch that claims in turn keeps the order of dependencies.
LEMMA DependenciesStay ==
  ASSUME NEW s, NEW now \in Nat, NEW batch, NEW f, TypedHistory(f, s, batch, now), DependenciesDone(s),
         \A k \in 1..Len(batch) : batch[k].event.kind = "claim" =>
           \A dep \in DependsOn[batch[k].event.task] : DoneTask(s.board, dep) \/ Approves(batch, k - 1, dep)
  PROVE  DependenciesDone(f[Len(batch)])
<1> DEFINE n == Len(batch)
           u == f[n]
<1>1. n \in Nat /\ n \in 0..n /\ 0 \in 0..n
  BY DEF TypedHistory, IsSequence
<1>2. f[0] = s
  BY DEF TypedHistory, LegalHistory, History
<1>3. WellFormed(s.board) /\ WellFormed(u.board)
  BY <1>1, <1>2 DEF TypedHistory, TypedStore
<1>4. \A id : Begun(s.board, id) => \A dep \in DependsOn[id] : DoneTask(s.board, dep)
  BY <1>3, DependenciesDoneIs
<1>5. \A id : Begun(u.board, id) => Begun(s.board, id) \/ Claims(batch, n, id)
  BY <1>1, HistoryStatus
<1>6. \A id : DoneTask(s.board, id) => DoneTask(u.board, id)
  BY <1>1, <1>2, HistoryDone
<1>7. \A id : \A m \in 0..n : Approves(batch, m, id) => DoneTask(u.board, id)
  BY HistoryApproved
<1> HIDE DEF n, u
<1>8. ASSUME NEW id, Begun(u.board, id), NEW dep \in DependsOn[id] PROVE DoneTask(u.board, dep)
  <2>1. CASE Begun(s.board, id)
    BY <1>4, <1>6, <1>8, <2>1
  <2>2. CASE Claims(batch, n, id)
    <3>1. PICK k \in 1..n : batch[k].event.kind = "claim" /\ batch[k].event.task = id
      BY <2>2 DEF Claims
    <3>2. DoneTask(s.board, dep) \/ Approves(batch, k - 1, dep)
      BY <1>8, <3>1 DEF n
    <3>3. k - 1 \in 0..n
      BY <1>1
    <3> QED BY <1>6, <1>7, <3>2, <3>3
  <2> QED BY <1>5, <1>8, <2>1, <2>2
<1>9. DependenciesDone(u)
  BY <1>3, <1>8, DependenciesDoneIs
<1> QED BY <1>9 DEF u, n

\* A run is in turn also after the store has grown.
LEMMA TurnLater ==
  ASSUME NEW b, NEW c, \A id : DoneTask(b, id) => DoneTask(c, id), NEW x, InTurn(x, b)
  PROVE  InTurn(x, c)
BY DEF InTurn, Turn

\* A run that is told that the store has grown.
LEMMA OutdatedIs ==
  ASSUME NEW x, NEW now, TypedRun(x, now)
  PROVE  LET y == [x EXCEPT !.fresh = FALSE] IN
         /\ TypedRun(y, now) /\ y.pc # "idle"
         /\ \A s : Copy(y, s) /\ Within(y, s)
         /\ WritesApart(x) => WritesApart(y)
         /\ SoundRun(x) => SoundRun(y)
         /\ \A b : InTurn(x, b) => InTurn(y, b)
<1> DEFINE y == [x EXCEPT !.fresh = FALSE]
<1>1. /\ DOMAIN y = RunShape /\ y.fresh = FALSE /\ y.pc = x.pc /\ y.limit = x.limit /\ y.store = x.store
      /\ y.batch = x.batch /\ y.wave = x.wave /\ y.stalls = x.stalls /\ y.written = x.written
  BY DEF TypedRun, RunCore, RunShape
<1> HIDE DEF y
<1>2. TypedRun(y, now) /\ y.pc # "idle"
  BY <1>1 DEF TypedRun, RunCore
<1>3. \A s : Copy(y, s) /\ Within(y, s)
  BY <1>1 DEF Copy, Within
<1>4. WritesApart(x) => WritesApart(y)
  BY <1>1, Zenon DEF WritesApart
<1>5. SoundRun(x) => SoundRun(y)
  BY <1>1, Zenon DEF SoundRun, WaveOpen
<1>6. \A b : InTurn(x, b) => InTurn(y, b)
  BY <1>1, Zenon DEF InTurn, Turn, Ahead
<1> QED BY <1>2, <1>3, <1>4, <1>5, <1>6 DEF y

-----------------------------------------------------------------------------
\* The inductive invariant.
IInv == Typed /\ Copies /\ Apart /\ Orders /\ InTurns

\* A busy runner is typed, an idle one is Idle.
LEMMA BusyTyped ==
  ASSUME IInv, NEW r \in Runners
  PROVE  /\ Busy(r) => TypedRun(run[r], clock) /\ Copy(run[r], store) /\ WritesApart(run[r])
         /\ ~Busy(r) => run[r] = Idle
         /\ Idle.pc = "idle"
<1>1. Idle.pc = "idle"
  BY DEF Idle
<1>2. run[r] = Idle \/ TypedRun(run[r], clock)
  BY DEF IInv, Typed
<1>3. TypedRun(run[r], clock) => run[r].pc # "idle"
  BY DEF TypedRun
<1> QED BY <1>1, <1>2, <1>3 DEF IInv, Copies, Apart, Busy

\* The initial states.
LEMMA InitIInv == ASSUME Init PROVE IInv
<1>1. PICK opening \in Openings : store = Opened(opening)
  BY DEF Init
<1> DEFINE s == [board |-> EmptyBoard, attempts |-> [id \in TaskIds |-> NoAttempts]]
           batch == Stamped(opening, 0)
<1>2. /\ IsSequence(opening) /\ Replays(EmptyBoard, opening)
      /\ EntriesUnique(store)
  BY <1>1, OpeningAssumption
<1>3. store = Recording(s, batch)
  BY <1>1 DEF Opened
<1>4. s.board = EmptyBoard /\ s.attempts = [id \in TaskIds |-> NoAttempts]
  OBVIOUS
<1>5. IsSequence(batch) /\ Len(batch) = Len(opening) /\ Events(batch) = opening /\ \A i \in 1..Len(opening) : batch[i].at = 0
  BY <1>2, StampedAre, EventsOfStamped
<1> HIDE DEF s, batch
<1>6. TypedStore(s, 0)
  <2>1. EmptyBoard.tasks = <<>>
    BY DEF EmptyBoard
  <2>2. WellFormed(EmptyBoard) /\ FirstWorked(EmptyBoard.tasks)
    BY <2>1, EmptySequence DEF WellFormed, FirstWorked
  <2>3. TypedAttempts(s.attempts, 0)
    BY <1>4 DEF TypedAttempts, NoAttempts
  <2> QED BY <1>4, <2>2, <2>3 DEF TypedStore
<1>7. TypedStore(store, 0)
  <2>1. \A i \in 1..Len(batch) : batch[i].at \in 0..0
    BY <1>5
  <2>2. PICK f : LegalHistory(f, s, batch)
    BY <1>2, <1>4, <1>5, ReplaysLegally
  <2> QED BY <1>3, <1>5, <1>6, <2>1, <2>2, AppendIs
<1>8. /\ clock = 0 /\ run = [r \in Runners |-> Idle] /\ limits = <<>> /\ retried = FALSE
  BY DEF Init
<1>9. \A r \in Runners : run[r] = Idle /\ ~Busy(r)
  BY <1>8 DEF Busy, Idle
<1>10. Typed
  <2>1. clock \in 0..MaxClock
    BY <1>8, ScheduleBoundAssumption
  <2> QED BY <1>7, <1>8, <1>9, <2>1, EmptySequence DEF Typed
<1>11. Copies /\ Apart
  BY <1>9 DEF Copies, Apart
<1>12. Orders
  BY <1>2, <1>9 DEF Orders
<1>13. InTurns
  BY <1>1, <1>9 DEF InTurns, Wide, OthersConsiderate
<1> QED BY <1>10, <1>11, <1>12, <1>13 DEF IInv

-----------------------------------------------------------------------------
\* The invariant, step by step.

\* A run that moves on its own.
LEMMA RunnerStep ==
  ASSUME IInv, NEW r \in Runners, Busy(r), NEW y, Keeps(run[r], y, clock), Update(r, y),
         UNCHANGED <<clock, store, limits, retried>>
  PROVE  IInv'
<1>1. run' = [run EXCEPT ![r] = y] /\ DOMAIN run = Runners
  BY DEF Update, IInv, Typed
<1>2. DOMAIN run' = Runners /\ run'[r] = y /\ \A q \in Runners : q # r => run'[q] = run[q]
  BY <1>1
<1>3. TypedRun(run[r], clock) /\ Copy(run[r], store) /\ WritesApart(run[r])
  BY BusyTyped
<1>4. /\ TypedRun(y, clock) /\ Copy(y, store) /\ WritesApart(y)
      /\ SoundRun(run[r]) => SoundRun(y) /\ \A s : Within(run[r], s) => Within(y, s)
      /\ \A b : InTurn(run[r], b) => InTurn(y, b)
  BY <1>3 DEF Keeps
<1>5. clock' = clock /\ store' = store /\ limits' = limits /\ retried' = retried
  OBVIOUS
<1>6. Typed'
  <2>1. \A q \in Runners : run[q] = Idle \/ TypedRun(run[q], clock)
    BY DEF IInv, Typed
  <2>2. \A q \in Runners : run'[q] = Idle \/ TypedRun(run'[q], clock)
    BY <1>2, <1>4, <2>1
  <2> QED BY <1>2, <1>5, <2>2 DEF IInv, Typed
<1>7. Copies'
  <2>1. \A q \in Runners : run[q].pc # "idle" => Copy(run[q], store)
    BY DEF IInv, Copies, Busy
  <2>2. \A q \in Runners : run'[q].pc # "idle" => Copy(run'[q], store)
    BY <1>2, <1>4, <2>1
  <2> QED BY <1>5, <2>2 DEF Copies, Busy
<1>8. Apart'
  <2>1. \A q \in Runners : run[q].pc # "idle" => WritesApart(run[q])
    BY DEF IInv, Apart, Busy
  <2>2. \A q \in Runners : run'[q].pc # "idle" => WritesApart(run'[q])
    BY <1>2, <1>4, <2>1
  <2> QED BY <2>2 DEF Apart, Busy
<1>9. Orders'
  <2>1. ASSUME ~retried
        PROVE  /\ EntriesUnique(store)
               /\ \A q \in Runners : run'[q].pc # "idle" => SoundRun(run'[q]) /\ Within(run'[q], store)
    <3>1. /\ EntriesUnique(store)
          /\ \A q \in Runners : run[q].pc # "idle" => SoundRun(run[q]) /\ Within(run[q], store)
      BY <2>1 DEF IInv, Orders, Busy
    <3>2. SoundRun(y) /\ Within(y, store)
      BY <1>4, <3>1 DEF Busy
    <3> QED BY <1>2, <3>1, <3>2
  <2> QED BY <1>5, <2>1 DEF Orders, Busy
<1>10. InTurns'
  <2>1. ASSUME Wide
        PROVE  DependenciesDone(store) /\ \A q \in Runners : run'[q].pc # "idle" => InTurn(run'[q], store.board)
    <3>1. DependenciesDone(store) /\ \A q \in Runners : run[q].pc # "idle" => InTurn(run[q], store.board)
      BY <2>1 DEF IInv, InTurns, Busy
    <3>2. InTurn(y, store.board)
      BY <1>4, <3>1 DEF Busy
    <3> QED BY <1>2, <3>1, <3>2
  <2>2. Wide' <=> Wide
    BY <1>5 DEF Wide
  <2> QED BY <1>5, <2>1, <2>2 DEF InTurns, Busy
<1> QED BY <1>6, <1>7, <1>8, <1>9, <1>10 DEF IInv

\* A run that is busy is in its phase.
LEMMA AtBusy ==
  ASSUME NEW r, NEW phase \in {"select", "running", "commit"}, At(r, phase)
  PROVE  Busy(r) /\ run[r].pc = phase
BY DEF At, Busy

\* The steps of a run up to its commit.
LEMMA LoopEndsStep == ASSUME IInv, NEW r \in Runners, LoopEnds(r) PROVE IInv'
<1>1. At(r, "select") /\ Update(r, Over(run[r])) /\ UNCHANGED <<clock, store, limits, retried>>
  BY DEF LoopEnds
<1>2. Busy(r) /\ TypedRun(run[r], clock) /\ clock \in Nat
  BY <1>1, AtBusy, BusyTyped, ScheduleBoundAssumption DEF IInv, Typed
<1> QED BY <1>1, <1>2, OverMoves, RunnerStep

\* What an iteration starts from.
LEMMA IteratedIs ==
  ASSUME IInv, NEW r \in Runners, Iterates(r)
  PROVE  /\ Busy(r) /\ run[r].pc = "select" /\ TypedRun(run[r], clock) /\ clock \in Nat
         /\ Iterated(r) = Stepped(run[r])
<1>1. At(r, "select")
  BY DEF Iterates
<1>2. Busy(r) /\ run[r].pc = "select"
  BY <1>1, AtBusy
<1>3. TypedRun(run[r], clock)
  BY <1>2, BusyTyped
<1>4. clock \in Nat
  BY ScheduleBoundAssumption DEF IInv, Typed
<1> QED BY <1>2, <1>3, <1>4 DEF Iterated, Stepped

\* An iteration that finds all of its wave expired.
LEMMA AllLateStep == ASSUME IInv, NEW r \in Runners, AllLate(r) PROVE IInv'
<1>1. Iterates(r) /\ Update(r, Iterated(r)) /\ UNCHANGED <<clock, store, limits, retried>>
  BY DEF AllLate
<1>2. /\ Busy(r) /\ run[r].pc = "select" /\ TypedRun(run[r], clock) /\ clock \in Nat
      /\ Iterated(r) = Stepped(run[r])
  BY <1>1, IteratedIs
<1>3. Keeps(run[r], Iterated(r), clock)
  BY <1>2, SteppedMoves
<1> QED BY <1>1, <1>2, <1>3, RunnerStep

\* A run that stalls.
LEMMA StallStep == ASSUME IInv, NEW r \in Runners, Stall(r) PROVE IInv'
<1> DEFINE x == run[r]
           z == Iterated(r)
           y == Over(z)
<1>1. Iterates(r) /\ Update(r, y) /\ UNCHANGED <<clock, store, limits, retried>>
  BY DEF Stall
<1>2. Busy(r) /\ x.pc = "select" /\ TypedRun(x, clock) /\ clock \in Nat /\ z = Stepped(x)
  BY <1>1, IteratedIs
<1>3. Keeps(x, z, clock)
  BY <1>2, SteppedMoves
<1>4. TypedRun(z, clock)
  BY <1>3 DEF Keeps
<1>5. Keeps(z, y, clock)
  BY <1>2, <1>4, OverMoves
<1> HIDE DEF x, y, z
<1>6. Keeps(x, y, clock)
  BY <1>3, <1>5 DEF Keeps
<1> QED BY <1>1, <1>2, <1>6, RunnerStep DEF x

\* A run that dispatches a wave.
LEMMA DispatchStep == ASSUME IInv, NEW r \in Runners, Dispatch(r) PROVE IInv'
<1> DEFINE x == run[r]
           y == [Iterated(r) EXCEPT !.pc = "running", !.wave = Runnable(x), !.signature = Signature(Runnable(x)),
                                    !.stalls = Stalls(x)]
<1>1. /\ Iterates(r) /\ Runnable(x) # <<>> /\ Stalls(x) < 2 /\ Update(r, y)
      /\ UNCHANGED <<clock, store, limits, retried>>
  BY DEF Dispatch
<1>2. Busy(r) /\ x.pc = "select" /\ TypedRun(x, clock) /\ clock \in Nat /\ Iterated(r) = Stepped(x)
  BY <1>1, IteratedIs
<1>3. Keeps(x, y, clock)
  BY <1>1, <1>2, DispatchMoves
<1> HIDE DEF y
<1> QED BY <1>1, <1>2, <1>3, RunnerStep

\* A run that takes an output.
LEMMA DeliverStep == ASSUME IInv, NEW r \in Runners, Deliver(r) PROVE IInv'
<1> DEFINE x == run[r]
           t == Head(x.wave)
           y(c) == [Take(x, t, c) EXCEPT !.wave = Tail(@), !.pc = IF Len(x.wave) = 1 THEN "select" ELSE "running"]
<1>1. At(r, "running") /\ UNCHANGED <<clock, store, limits, retried>>
  BY DEF Deliver
<1>2. PICK c \in Answers(t, AgentOf[r]) : Update(r, y(c))
  BY DEF Deliver
<1>3. Busy(r) /\ x.pc = "running"
  BY <1>1, AtBusy
<1>4. TypedRun(x, clock) /\ clock \in Nat
  BY <1>3, BusyTyped, ScheduleBoundAssumption DEF IInv, Typed
<1>5. Keeps(x, y(c), clock)
  BY <1>3, <1>4, DeliverMoves
<1> HIDE DEF y
<1> QED BY <1>1, <1>2, <1>3, <1>5, RunnerStep

\* A run that starts has read all there is.
LEMMA StartIs ==
  ASSUME NEW now \in Nat, TypedStore(store, now), NEW limit \in Nat, NEW steps
  PROVE  LET y == [pc |-> "select", limit |-> limit, left |-> steps, odd |-> FALSE, store |-> store, batch |-> <<>>,
                   wave |-> <<>>, signature |-> <<>>, stalls |-> 0, written |-> {}, fresh |-> TRUE] IN
         /\ TypedRun(y, now) /\ Copy(y, store) /\ WritesApart(y)
         /\ EntriesUnique(store) => SoundRun(y)
         /\ Within(y, store)
         /\ limit # 1 => InTurn(y, store.board)
<1> DEFINE y == [pc |-> "select", limit |-> limit, left |-> steps, odd |-> FALSE, store |-> store, batch |-> <<>>,
                 wave |-> <<>>, signature |-> <<>>, stalls |-> 0, written |-> {}, fresh |-> TRUE]
<1>1. /\ DOMAIN y = RunShape /\ y.pc = "select" /\ y.limit = limit /\ y.store = store /\ y.batch = <<>>
      /\ y.wave = <<>> /\ y.stalls = 0
  BY DEF RunShape
<1> HIDE DEF y
<1>2. IsSequence(<<>>) /\ Len(<<>>) = 0
  BY EmptySequence
<1>3. TypedRun(y, now)
  BY <1>1, <1>2 DEF TypedRun, RunCore, Workable
<1>4. Copy(y, store)
  BY <1>1, RecordingEmpty DEF Copy
<1>5. WritesApart(y) /\ WaveOpen(y) /\ Ahead(y) /\ Turn(y, store.board)
  BY <1>1, <1>2 DEF WritesApart, WaveOpen, Ahead, Turn
<1>6. Within(y, store)
  BY <1>1 DEF Within, Charging, NotCharged
<1> QED BY <1>1, <1>3, <1>4, <1>5, <1>6 DEF SoundRun, InTurn, y

\* A run starts.
LEMMA StartStep ==
  ASSUME IInv, NEW r \in Runners, NEW limit \in Limits, NEW steps, Start(r, limit, steps)
  PROVE  IInv'
<1> DEFINE y == [pc |-> "select", limit |-> limit, left |-> steps, odd |-> FALSE, store |-> store, batch |-> <<>>,
                 wave |-> <<>>, signature |-> <<>>, stalls |-> 0, written |-> {}, fresh |-> TRUE]
<1>1. /\ run' = [run EXCEPT ![r] = y] /\ limits' = Append(limits, limit)
      /\ clock' = clock /\ store' = store /\ retried' = retried
  BY DEF Start
<1>2. limit \in Nat /\ clock \in Nat /\ TypedStore(store, clock) /\ IsSequence(limits) /\ DOMAIN run = Runners
  BY ScheduleBoundAssumption DEF IInv, Typed
<1>3. /\ TypedRun(y, clock) /\ Copy(y, store) /\ WritesApart(y)
      /\ EntriesUnique(store) => SoundRun(y)
      /\ Within(y, store)
      /\ limit # 1 => InTurn(y, store.board)
  BY <1>2, StartIs
<1> HIDE DEF y
<1>4. DOMAIN run' = Runners /\ run'[r] = y /\ \A q \in Runners : q # r => run'[q] = run[q]
  BY <1>1, <1>2
<1>5. /\ IsSequence(limits') /\ Len(limits') = Len(limits) + 1 /\ Len(limits) \in Nat
      /\ \A i \in 1..Len(limits) : limits'[i] = limits[i]
      /\ limits'[Len(limits) + 1] = limit
  BY <1>1, <1>2, AppendSequence DEF IsSequence
<1>6. Typed'
  <2>1. \A q \in Runners : run[q] = Idle \/ TypedRun(run[q], clock)
    BY DEF IInv, Typed
  <2>2. \A q \in Runners : run'[q] = Idle \/ TypedRun(run'[q], clock)
    BY <1>3, <1>4, <2>1
  <2> QED BY <1>1, <1>4, <1>5, <2>2 DEF IInv, Typed
<1>7. Copies'
  <2>1. \A q \in Runners : run[q].pc # "idle" => Copy(run[q], store)
    BY DEF IInv, Copies, Busy
  <2>2. \A q \in Runners : run'[q].pc # "idle" => Copy(run'[q], store)
    BY <1>3, <1>4, <2>1
  <2> QED BY <1>1, <2>2 DEF Copies, Busy
<1>8. Apart'
  <2>1. \A q \in Runners : run[q].pc # "idle" => WritesApart(run[q])
    BY DEF IInv, Apart, Busy
  <2>2. \A q \in Runners : run'[q].pc # "idle" => WritesApart(run'[q])
    BY <1>3, <1>4, <2>1
  <2> QED BY <2>2 DEF Apart, Busy
<1>9. Orders'
  <2>1. ASSUME ~retried
        PROVE  /\ EntriesUnique(store)
               /\ \A q \in Runners : run'[q].pc # "idle" => SoundRun(run'[q]) /\ Within(run'[q], store)
    <3>1. /\ EntriesUnique(store)
          /\ \A q \in Runners : run[q].pc # "idle" => SoundRun(run[q]) /\ Within(run[q], store)
      BY <2>1 DEF IInv, Orders, Busy
    <3> QED BY <1>3, <1>4, <3>1
  <2> QED BY <1>1, <2>1 DEF Orders, Busy
<1>10. InTurns'
  <2>1. ASSUME Wide'
        PROVE  Wide /\ limit # 1
    <3>1. OthersConsiderate /\ \A i \in 1..Len(limits') : limits'[i] > 1
      BY <2>1 DEF Wide
    <3>2. \A i \in 1..Len(limits) : i \in 1..Len(limits')
      BY <1>5
    <3>3. Len(limits) + 1 \in 1..Len(limits')
      BY <1>5
    <3>4. limit > 1
      BY <1>5, <3>1, <3>3
    <3>5. \A i \in 1..Len(limits) : limits[i] > 1
      BY <1>5, <3>1, <3>2
    <3> QED BY <1>2, <3>1, <3>4, <3>5 DEF Wide
  <2>2. ASSUME Wide, limit # 1
        PROVE  DependenciesDone(store) /\ \A q \in Runners : run'[q].pc # "idle" => InTurn(run'[q], store.board)
    <3>1. DependenciesDone(store) /\ \A q \in Runners : run[q].pc # "idle" => InTurn(run[q], store.board)
      BY <2>2 DEF IInv, InTurns, Busy
    <3> QED BY <1>3, <1>4, <2>2, <3>1
  <2> QED BY <1>1, <2>1, <2>2 DEF InTurns, Busy
<1> QED BY <1>6, <1>7, <1>8, <1>9, <1>10 DEF IInv

-----------------------------------------------------------------------------
\* The runners other than these have been told that the store has grown.
Outdated(others) ==
  \A q \in Runners : run'[q] = IF q \in others /\ Busy(q) THEN [run[q] EXCEPT !.fresh = FALSE]
                               ELSE IF q \in others THEN run[q] ELSE Idle

\* The store grows, by a batch of some run or of another agent.
LEMMA GrowStep ==
  ASSUME IInv, NEW others, Outdated(others), DOMAIN run' = Runners,
         UNCHANGED <<clock, limits>>,
         NEW batch, IsSequence(batch), \A i \in 1..Len(batch) : batch[i].at \in 0..clock,
         NEW f, LegalHistory(f, store, batch), Appended(batch),
         ~retried' => ~retried,
         ~retried' /\ EntriesUnique(store) => EntriesUnique(store'),
         Wide /\ DependenciesDone(store) =>
           \A k \in 1..Len(batch) : batch[k].event.kind = "claim" =>
             \A dep \in DependsOn[batch[k].event.task] : DoneTask(store.board, dep) \/ Approves(batch, k - 1, dep)
  PROVE  IInv'
<1>1. clock \in Nat /\ TypedStore(store, clock)
  BY ScheduleBoundAssumption DEF IInv, Typed
<1>2. /\ TypedHistory(f, store, batch, clock)
      /\ Recording(store, batch) = f[Len(batch)]
      /\ TypedStore(f[Len(batch)], clock)
      /\ \A id : DoneTask(store.board, id) => DoneTask(f[Len(batch)].board, id)
  BY <1>1, AppendIs
<1>3. store' = f[Len(batch)]
  BY <1>2 DEF Appended
<1>4. TypedStore(store', clock) /\ \A id : DoneTask(store.board, id) => DoneTask(store'.board, id)
  BY <1>2, <1>3
<1>5. clock' = clock /\ limits' = limits
  OBVIOUS
<1>6. ASSUME NEW q \in Runners, run'[q] # Idle
      PROVE  /\ TypedRun(run[q], clock) /\ Busy(q)
             /\ TypedRun(run'[q], clock)
             /\ Copy(run'[q], store') /\ Within(run'[q], store')
             /\ WritesApart(run'[q])
             /\ SoundRun(run[q]) => SoundRun(run'[q])
             /\ \A b : InTurn(run[q], b) => InTurn(run'[q], b)
  <2>1. (~Busy(q) => run[q] = Idle)
    BY BusyTyped
  <2>2. Busy(q) /\ run'[q] = [run[q] EXCEPT !.fresh = FALSE]
    BY <1>6, <2>1 DEF Outdated
  <2>3. TypedRun(run[q], clock) /\ WritesApart(run[q])
    BY <2>2, BusyTyped
  <2> DEFINE x == run[q]
             y == [x EXCEPT !.fresh = FALSE]
  <2>4. /\ TypedRun(y, clock)
        /\ \A s : Copy(y, s) /\ Within(y, s)
        /\ WritesApart(x) => WritesApart(y)
        /\ SoundRun(x) => SoundRun(y)
        /\ \A b : InTurn(x, b) => InTurn(y, b)
    BY <2>3, OutdatedIs
  <2> HIDE DEF x, y
  <2>5. run'[q] = y /\ run[q] = x
    BY <2>2 DEF x, y
  <2> QED BY <2>2, <2>3, <2>4, <2>5
<1>7. \A q \in Runners : run'[q].pc # "idle" => run'[q] # Idle
  BY DEF Idle
<1>8. Typed'
  <2>1. \A q \in Runners : run'[q] = Idle \/ TypedRun(run'[q], clock)
    BY <1>6
  <2> QED BY <1>4, <1>5, <2>1 DEF IInv, Typed
<1>9. Copies' /\ Apart'
  <2>1. \A q \in Runners : run'[q].pc # "idle" => Copy(run'[q], store') /\ WritesApart(run'[q])
    BY <1>6, <1>7
  <2> QED BY <2>1 DEF Copies, Apart, Busy
<1>10. Orders'
  <2>1. ASSUME ~retried'
        PROVE  /\ EntriesUnique(store')
               /\ \A q \in Runners : run'[q].pc # "idle" => SoundRun(run'[q]) /\ Within(run'[q], store')
    <3>1. EntriesUnique(store) /\ \A q \in Runners : Busy(q) => SoundRun(run[q])
      BY <2>1 DEF IInv, Orders
    <3>2. EntriesUnique(store')
      BY <2>1, <3>1
    <3> QED BY <1>6, <1>7, <3>1, <3>2
  <2> QED BY <2>1 DEF Orders, Busy
<1>11. InTurns'
  <2>1. ASSUME Wide
        PROVE  DependenciesDone(store') /\ \A q \in Runners : run'[q].pc # "idle" => InTurn(run'[q], store'.board)
    <3>1. DependenciesDone(store) /\ \A q \in Runners : Busy(q) => InTurn(run[q], store.board)
      BY <2>1 DEF IInv, InTurns
    <3>2. \A k \in 1..Len(batch) : batch[k].event.kind = "claim" =>
            \A dep \in DependsOn[batch[k].event.task] : DoneTask(store.board, dep) \/ Approves(batch, k - 1, dep)
      BY <2>1, <3>1
    <3>3. DependenciesDone(f[Len(batch)])
      BY <1>1, <1>2, <3>1, <3>2, DependenciesStay
    <3>4. ASSUME NEW q \in Runners, run'[q].pc # "idle" PROVE InTurn(run'[q], store'.board)
      <4>1. InTurn(run'[q], store.board)
        BY <1>6, <1>7, <3>1, <3>4
      <4> QED BY <1>4, <4>1, TurnLater
    <3> QED BY <1>3, <3>3, <3>4
  <2>2. Wide' <=> Wide
    BY <1>5 DEF Wide
  <2> QED BY <2>1, <2>2 DEF InTurns, Busy
<1> QED BY <1>8, <1>9, <1>10, <1>11 DEF IInv

\* A batch that is appended to the log it was built for leaves the copy of its run.
LEMMA CommitIs ==
  ASSUME IInv, NEW r \in Runners, Commit(r), ~retried'
  PROVE  ~retried /\ SoundRun(run[r]) /\ store' = run[r].store /\ Charging(store, store', run[r].batch)
<1>1. At(r, "commit") /\ Appended(run[r].batch) /\ ~retried /\ run[r].fresh
  BY DEF Commit
<1>2. Busy(r)
  BY <1>1, AtBusy
<1>3. SoundRun(run[r]) /\ Within(run[r], store)
  BY <1>1, <1>2 DEF IInv, Orders
<1>4. store' = run[r].store
  BY <1>1, <1>2, BusyTyped DEF Copy, Appended
<1> QED BY <1>1, <1>3, <1>4 DEF Within

\* The commit of a run.
LEMMA CommitStep == ASSUME IInv, NEW r \in Runners, Commit(r) PROVE IInv'
<1> DEFINE x == run[r]
<1>1. /\ At(r, "commit") /\ Replays(store.board, Events(x.batch)) /\ Appended(x.batch)
      /\ run' = [Outdate(Runners \ {r}) EXCEPT ![r] = Idle]
      /\ retried' = (retried \/ ~x.fresh)
      /\ UNCHANGED <<clock, limits>>
  BY DEF Commit
<1>2. Busy(r)
  BY <1>1, AtBusy
<1>3. TypedRun(x, clock)
  BY <1>2, BusyTyped
<1>4. IsSequence(x.batch) /\ \A i \in 1..Len(x.batch) : x.batch[i].at \in 0..clock
  BY <1>3 DEF TypedRun, RunCore
<1>5. DOMAIN run' = Runners /\ Outdated(Runners \ {r})
  BY <1>1 DEF Outdate, Outdated, Busy
<1>6. ~retried' => ~retried
  BY <1>1
<1>7. ~retried' => EntriesUnique(store')
  BY CommitIs DEF SoundRun
<1>8. ASSUME Wide, NEW k \in 1..Len(x.batch), x.batch[k].event.kind = "claim",
             NEW dep \in DependsOn[x.batch[k].event.task]
      PROVE  DoneTask(store.board, dep) \/ Approves(x.batch, k - 1, dep)
  <2>1. Turn(x, store.board)
    BY <1>2, <1>8 DEF IInv, InTurns, InTurn
  <2> QED BY <1>8, <2>1 DEF Turn
<1>9. PICK f : LegalHistory(f, store, x.batch)
  BY <1>1, <1>4, ReplaysLegally
<1> QED BY <1>1, <1>4, <1>5, <1>6, <1>7, <1>8, <1>9, GrowStep

\* The refusal of a commit.
LEMMA RefuseStep == ASSUME IInv, NEW r \in Runners, Refuse(r) PROVE IInv'
<1>1. run' = [run EXCEPT ![r] = Idle] /\ UNCHANGED <<clock, store, limits, retried>> /\ DOMAIN run = Runners
  BY DEF Refuse, Update, IInv, Typed
<1>2. DOMAIN run' = Runners /\ \A q \in Runners : run'[q] = IF q = r THEN Idle ELSE run[q]
  BY <1>1
<1>3. Idle.pc = "idle"
  BY DEF Idle
<1>4. \A q \in Runners : run'[q].pc # "idle" => run'[q] = run[q]
  BY <1>2, <1>3
<1>5. Typed'
  <2>1. \A q \in Runners : run[q] = Idle \/ TypedRun(run[q], clock)
    BY DEF IInv, Typed
  <2>2. \A q \in Runners : run'[q] = Idle \/ TypedRun(run'[q], clock)
    BY <1>2, <2>1
  <2> QED BY <1>1, <1>2, <2>2 DEF IInv, Typed
<1>6. Copies'
  <2>1. \A q \in Runners : run'[q].pc # "idle" => Copy(run'[q], store)
    BY <1>4 DEF IInv, Copies, Busy
  <2> QED BY <1>1, <2>1 DEF Copies, Busy
<1>7. Apart'
  BY <1>4 DEF IInv, Apart, Busy
<1>8. Orders'
  BY <1>1, <1>4 DEF IInv, Orders, Busy
<1>9. InTurns'
  <2>1. Wide' <=> Wide
    BY <1>1 DEF Wide
  <2> QED BY <1>1, <1>4, <2>1 DEF IInv, InTurns, Busy
<1> QED BY <1>5, <1>6, <1>7, <1>8, <1>9 DEF IInv

-----------------------------------------------------------------------------
\* A submission of another agent.
LEMMA SubmitStep == ASSUME IInv, NEW c \in Submissions, Submit(c) PROVE IInv'
<1> DEFINE b == store.board
           e == SubmittedEvent(b, c)
           main == <<e>>
           end == Closing(After(b, main))
           events == main \o end
           batch == Stamped(events, clock)
<1>1. /\ Replays(b, main) /\ Appended(batch) /\ run' = Outdate(Runners)
      /\ UNCHANGED <<clock, limits, retried>>
  BY DEF Submit
<1>2. c.op \in AgentOps \cup {"reject"} /\ c.task \in TaskIds
  BY SubmissionAssumption
<1>3. /\ e.kind \in {"claim", "complete", "review", "issue.report", "output.rejected"}
      /\ e.kind = "claim" => c.op = "claim" /\ e.task = c.task
  <2>1. CASE c.op = "reject"
    BY <2>1 DEF SubmittedEvent, Rejected
  <2>2. CASE c.op # "reject"
    <3>1. c.op \in AgentOps /\ e = MainEvent(b, c)
      BY <1>2, <2>2 DEF SubmittedEvent
    <3>2. /\ MainEvent(b, c).kind \in {"claim", "complete", "review", "issue.report"}
          /\ MainEvent(b, c).kind = "claim" => c.op = "claim" /\ MainEvent(b, c).task = c.task
      BY <3>1, AgentEventIs
    <3> QED BY <3>1, <3>2
  <2> QED BY <2>1, <2>2
<1>4. IsSequence(main) /\ Len(main) = 1 /\ main[1] = e
  BY SingletonSequence
<1>5. IsSequence(end) /\ \A i \in 1..Len(end) : end[i].kind \in {"run.end", "verify.ok"}
  BY ClosingIs
<1> HIDE DEF e, main, end
<1>6. /\ IsSequence(events) /\ \A i \in 1..Len(main) : events[i] = main[i]
      /\ \A i \in 1..Len(events) : i \in 1..Len(main) \/ (i - Len(main) \in 1..Len(end) /\ events[i] = end[i - Len(main)])
  BY <1>4, <1>5, BatchGrows
<1>7. batch = Stamped(main, clock) \o Stamped(end, clock)
  BY <1>4, <1>5, StampedConcat
<1> HIDE DEF events
<1>8. /\ IsSequence(batch) /\ Len(batch) = Len(events)
      /\ \A i \in 1..Len(events) : batch[i].event = events[i] /\ batch[i].at = clock
  BY <1>6, StampedAre
<1>9. PICK f : LegalHistory(f, store, batch)
  <2> DEFINE sm == Stamped(main, clock)
             se == Stamped(end, clock)
  <2>1. IsSequence(sm) /\ Events(sm) = main /\ IsSequence(se)
    BY <1>4, <1>5, StampedAre, EventsOfStamped
  <2>2. QuietBatch(se)
    <3>1. Len(se) = Len(end) /\ \A i \in 1..Len(end) : se[i].event = end[i]
      BY <1>5, StampedAre
    <3> HIDE DEF se
    <3> QED BY <1>5, <3>1 DEF QuietBatch, Quiet
  <2> HIDE DEF sm, se
  <2>3. PICK g : LegalHistory(g, store, sm)
    BY <1>1, <2>1, ReplaysLegally
  <2>4. PICK h : History(h, g[Len(sm)], se)
    <3>1. Len(se) \in Nat
      BY <2>1 DEF IsSequence
    <3> QED BY <3>1, RecordingSteps
  <2>5. LegalHistory(h, g[Len(sm)], se)
    BY <2>1, <2>2, <2>4, QuietHistory
  <2>6. \E k : LegalHistory(k, store, sm \o se)
    BY <2>1, <2>3, <2>5, LegalConcat, Zenon
  <2>7. batch = sm \o se
    BY <1>7 DEF sm, se
  <2> HIDE DEF batch
  <2> QED BY <2>6, <2>7
<1> HIDE DEF batch
<1>10. clock \in Nat /\ TypedStore(store, clock) /\ DOMAIN run = Runners
  BY ScheduleBoundAssumption DEF IInv, Typed
<1>11. \A i \in 1..Len(batch) : batch[i].at \in 0..clock
  BY <1>8, <1>10
<1>12. ASSUME NEW k \in 1..Len(batch)
       PROVE  /\ batch[k].event.kind \in {"claim", "complete", "review", "issue.report", "output.rejected", "run.end",
                                          "verify.ok"}
              /\ batch[k].event.kind = "claim" => c.op = "claim" /\ batch[k].event.task = c.task
  <2>1. k \in 1..Len(events) /\ batch[k].event = events[k]
    BY <1>8
  <2>2. CASE k \in 1..Len(main)
    <3>1. events[k] = e
      BY <1>4, <1>6, <2>2
    <3> QED BY <1>3, <2>1, <3>1
  <2>3. CASE k - Len(main) \in 1..Len(end) /\ events[k] = end[k - Len(main)]
    BY <1>5, <2>1, <2>3
  <2> QED BY <1>6, <2>1, <2>2, <2>3
<1>13. ASSUME EntriesUnique(store) PROVE EntriesUnique(store')
  <2>1. OnlyNew(f, batch)
    BY <1>12 DEF OnlyNew, TaskCreations
  <2>2. TypedHistory(f, store, batch, clock) /\ Recording(store, batch) = f[Len(batch)]
    BY <1>8, <1>9, <1>10, <1>11, AppendIs
  <2>3. EntriesUnique(f[Len(batch)])
    BY <1>13, <2>1, <2>2, UniqueHistory
  <2> QED BY <1>1, <2>2, <2>3 DEF Appended
<1>14. ASSUME Wide, NEW k \in 1..Len(batch), batch[k].event.kind = "claim", NEW dep \in DependsOn[batch[k].event.task]
       PROVE  FALSE
  <2>1. c.op = "claim" /\ batch[k].event.task = c.task
    BY <1>12, <1>14
  <2> QED BY <1>14, <2>1 DEF Wide, OthersConsiderate
<1>15. DOMAIN run' = Runners /\ Outdated(Runners)
  BY <1>1, <1>10 DEF Outdate, Outdated, Busy
<1> QED BY <1>1, <1>8, <1>9, <1>11, <1>13, <1>14, <1>15, GrowStep

\* Time passes.
LEMMA TickStep == ASSUME IInv, Tick PROVE IInv'
<1>1. clock < MaxClock /\ clock' = clock + 1 /\ UNCHANGED <<store, run, limits, retried>>
  BY DEF Tick
<1>2. clock \in Nat /\ clock + 1 \in Nat /\ clock <= clock + 1 /\ clock + 1 \in 0..MaxClock
  BY <1>1, ScheduleBoundAssumption DEF IInv, Typed
<1>3. /\ \A s : TypedStore(s, clock) => TypedStore(s, clock + 1)
      /\ \A x : TypedRun(x, clock) => TypedRun(x, clock + 1)
  BY <1>2, TypedLater
<1>4. Typed'
  BY <1>1, <1>2, <1>3 DEF IInv, Typed
<1>5. Copies' /\ Apart'
  BY <1>1 DEF IInv, Copies, Apart, Busy
<1>6. Orders' /\ InTurns'
  BY <1>1 DEF IInv, Orders, InTurns, Wide, Busy
<1> QED BY <1>4, <1>5, <1>6 DEF IInv

-----------------------------------------------------------------------------
\* A stuttering step.
LEMMA StutterStep == ASSUME IInv, UNCHANGED vars PROVE IInv'
<1>1. UNCHANGED <<clock, store, run, limits, retried>>
  BY DEF vars
<1>2. Typed' /\ Copies' /\ Apart'
  BY <1>1 DEF IInv, Typed, Copies, Apart, Busy
<1>3. Orders' /\ InTurns'
  BY <1>1 DEF IInv, Orders, InTurns, Wide, Busy
<1> QED BY <1>2, <1>3 DEF IInv

\* Every step keeps the invariant.
LEMMA IInvStep == ASSUME IInv, [Next]_vars PROVE IInv'
<1>1. ASSUME NEW r \in Runners, NEW limit \in Limits, NEW steps \in Steps, Start(r, limit, steps) PROVE IInv'
  BY <1>1, StartStep
<1>2. ASSUME NEW r \in Runners, Proceed(r) PROVE IInv'
  BY <1>2, LoopEndsStep, AllLateStep, StallStep, DispatchStep, DeliverStep, CommitStep, RefuseStep DEF Proceed
<1>3. ASSUME NEW c \in Submissions, Submit(c) PROVE IInv'
  BY <1>3, SubmitStep
<1>4. CASE Tick
  BY <1>4, TickStep
<1>5. CASE UNCHANGED vars
  BY <1>5, StutterStep
<1> QED BY <1>1, <1>2, <1>3, <1>4, <1>5 DEF Next

\* The invariant holds throughout.
THEOREM SchedulerInvariant == Spec => []IInv
<1>1. Init => IInv
  BY InitIInv
<1>2. IInv /\ [Next]_vars => IInv'
  BY IInvStep
<1> QED BY <1>1, <1>2, PTL DEF Spec

\* The store and the copies of it that runs work on keep their shape, and no
\* attempt is dated later than now.
THEOREM SchedulerTyped == Spec => []TypeOK
<1>1. IInv => TypeOK
  <2> SUFFICES ASSUME IInv PROVE TypeOK
    OBVIOUS
  <2>1. clock \in 0..MaxClock /\ TypedStore(store, clock) /\ \A r \in Runners : run[r] = Idle \/ TypedRun(run[r], clock)
    BY DEF IInv, Typed
  <2>2. WellFormed(store.board) /\ DOMAIN store.attempts = TaskIds
    BY <2>1 DEF TypedStore, TypedAttempts
  <2>3. \A id \in TaskIds :
          {store.attempts[id].rejectedAt, store.attempts[id].claimedAt, store.attempts[id].completedAt}
            \subseteq (0..clock) \cup {None}
    BY <2>1 DEF TypedStore, TypedAttempts
  <2>4. ASSUME NEW r \in Runners, run[r] # Idle
        PROVE  DOMAIN run[r] = RunShape /\ WellFormed(run[r].store.board) /\ run[r].stalls \in 0..1
    BY <2>1, <2>4 DEF TypedRun, RunCore, TypedStore
  <2> QED BY <2>1, <2>2, <2>3, <2>4 DEF TypeOK
<1> QED BY <1>1, SchedulerInvariant, PTL

\* However many waves it takes, and whatever is reopened in between, one run
\* never delivers to a path, or to a directory of it, twice.
THEOREM DeliveredOnce == Spec => []DeliveriesDisjoint
<1>1. IInv => DeliveriesDisjoint
  <2> SUFFICES ASSUME IInv, NEW r \in Runners, run[r].pc # "idle",
                      NEW i \in DOMAIN Events(run[r].batch), NEW j \in DOMAIN Events(run[r].batch), i < j,
                      {Events(run[r].batch)[i].kind, Events(run[r].batch)[j].kind} = {"orchestrator.file.write"}
               PROVE  ~Conflict(Events(run[r].batch)[i].paths, Events(run[r].batch)[j].paths)
    BY DEF DeliveriesDisjoint
  <2> DEFINE batch == run[r].batch
             events == Events(batch)
  <2>1. TypedRun(run[r], clock) /\ WritesApart(run[r])
    BY BusyTyped DEF Busy
  <2>2. IsSequence(batch)
    BY <2>1 DEF TypedRun, RunCore
  <2>3. DOMAIN events = 1..Len(batch) /\ \A k \in 1..Len(batch) : events[k] = batch[k].event
    BY <2>2, EventsAre, DomainOfSequence
  <2>4. \A k \in 1..Len(batch) : batch[k].event.kind = WriteKind =>
          \A l \in 1..Len(batch) : k < l /\ batch[l].event.kind = WriteKind =>
            ~Conflict(batch[k].event.paths, batch[l].event.paths)
    BY <2>1 DEF WritesApart
  <2>5. i \in 1..Len(batch) /\ j \in 1..Len(batch)
    BY <2>3
  <2>6. events[i].kind = WriteKind /\ events[j].kind = WriteKind
    BY DEF WriteKind
  <2> HIDE DEF events, batch
  <2>7. ~Conflict(events[i].paths, events[j].paths)
    BY <2>3, <2>4, <2>5, <2>6
  <2> QED BY <2>7 DEF events, batch
<1> QED BY <1>1, SchedulerInvariant, PTL

\* What a run charges, when it commits to the log its batch was built for.
LEMMA ChargesAre ==
  ASSUME IInv, NEW r \in Runners, NEW id \in TaskIds, Charges(r, id)
  PROVE  Spent(store, store', run[r].batch, id)
<1>1. Charging(store, store', run[r].batch)
  BY CommitIs DEF Charges
<1>2. ~NotCharged(store.attempts[id], store'.attempts[id])
  <2>1. store.attempts[id].penalties \in Nat
    BY DEF IInv, Typed, TypedStore, TypedAttempts
  <2>2. store'.attempts[id].penalties > store.attempts[id].penalties
    BY DEF Charges, Penalties
  <2>3. ASSUME store'.attempts[id].penalties = store.attempts[id].penalties PROVE FALSE
    BY <2>1, <2>2, <2>3
  <2> QED BY <2>3 DEF NotCharged
<1> QED BY <1>1, <1>2 DEF Charging

\* No run charges a task more attempts than it has, whatever mixture of
\* timeouts, lock violations, conflicts and refused outputs they are spent on,
\* unless its batch is appended to a log it was not built for.
THEOREM AttemptsNeverExceeded == Spec => AttemptsBounded
<1> DEFINE A == \A r \in Runners, id \in TaskIds : Charges(r, id) => Penalties(store'.attempts, id) <= MaxAttempts
<1>1. IInv => [A]_vars
  BY ChargesAre DEF Spent
<1>2. AttemptsBounded <=> [][A]_vars
  BY DEF AttemptsBounded
<1> HIDE DEF A
<1>3. Spec => [][A]_vars
  BY <1>1, SchedulerInvariant, PTL
<1> QED BY <1>2, <1>3

\* Nor does it silently use up the last of them.
THEOREM ExhaustionNeverForgotten == Spec => ExhaustionReported
<1> DEFINE A == \A r \in Runners, id \in TaskIds :
                  /\ Charges(r, id)
                  /\ Blocked(store'.attempts, id)
                  /\ store'.attempts[id].charged \notin Unescalated
                  => Escalated(run[r].batch, id)
<1>1. IInv => [A]_vars
  BY ChargesAre DEF Spent
<1>2. ExhaustionReported <=> [][A]_vars
  BY DEF ExhaustionReported
<1> HIDE DEF A
<1>3. Spec => [][A]_vars
  BY <1>1, SchedulerInvariant, PTL
<1> QED BY <1>2, <1>3

\* A planned task is created once, whatever number of runs dispatch it.
THEOREM NeverAdmittedTwice == Spec => []AdmittedOnce
<1>1. IInv => AdmittedOnce
  BY DEF IInv, Orders, AdmittedOnce
<1> QED BY <1>1, SchedulerInvariant, PTL

\* When every run selects its tasks for --parallel above 1, no batch that is
\* committed, not even one that is retried on a log it was not built for,
\* claims a task before what it depends on is done.
THEOREM NothingBeforeItsDependencies == Spec => []DependenciesFirst
<1>1. IInv => DependenciesFirst
  <2> SUFFICES ASSUME IInv, OthersConsiderate, \A i \in DOMAIN limits : limits[i] > 1 PROVE DependenciesDone(store)
    BY DEF DependenciesFirst
  <2>1. DOMAIN limits = 1..Len(limits)
    BY DomainOfSequence DEF IInv, Typed
  <2>2. Wide
    BY <2>1 DEF Wide
  <2> QED BY <2>2 DEF IInv, InTurns
<1> QED BY <1>1, SchedulerInvariant, PTL

=============================================================================
