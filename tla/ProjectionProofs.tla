--------------------------- MODULE ProjectionProofs ---------------------------
(***************************************************************************)
(* What is proved of the projector and of the batches commands build, for  *)
(* any board and any event: what an event does to the list of tasks, which *)
(* boards materialize goes through, and what a batch is made of.  The      *)
(* proofs about the modules that use them, GovernedStore and Scheduler,    *)
(* rest on these.                                                          *)
(***************************************************************************)
EXTENDS Envelope, SequenceLemmas

-----------------------------------------------------------------------------
\* The greatest element of a set is its Max.
LEMMA MaxIs ==
  ASSUME NEW S \in SUBSET Nat, NEW m \in S, \A y \in S : y <= m
  PROVE  Max(S) = m
<1>1. Max(S) \in S /\ \A y \in S : Max(S) >= y
  <2>1. \E x \in S : \A y \in S : x >= y
    OBVIOUS
  <2> QED BY <2>1, Zenon DEF Max
<1>2. Max(S) >= m /\ Max(S) <= m /\ Max(S) \in Nat
  BY <1>1
<1> QED BY <1>2

\* What an event may do to one task, and to the list of tasks.
Moves(t, u) ==
  /\ u.id = t.id
  /\ \/ t.status = "todo" /\ t.owner = None /\ u.status = "in_progress"
     \/ t.status = "in_progress" /\ u.status = "review" /\ u.owner = t.owner
     \/ t.status = "review" /\ u.status \in {"done", "in_progress"} /\ u.owner = t.owner

Stays(t, u) == u.id = t.id /\ u.status = t.status /\ u.owner = t.owner

Grows(ts, us) ==
  /\ Len(us) = Len(ts) + 1
  /\ us[Len(ts) + 1].status = "todo"
  /\ us[Len(ts) + 1].owner = None
  /\ \A i \in 1..Len(ts) : Stays(ts[i], us[i])

MovesOne(ts, us) ==
  /\ Len(us) = Len(ts)
  /\ \E i \in 1..Len(ts) :
       /\ Moves(ts[i], us[i])
       /\ \A j \in 1..Len(ts) \ {i} : Stays(ts[j], us[j])

StaysAll(ts, us) ==
  /\ Len(us) = Len(ts)
  /\ \A i \in 1..Len(ts) : Stays(ts[i], us[i])

IsTask(t) ==
  /\ t.status \in Statuses
  /\ t = [id |-> t.id, status |-> t.status, owner |-> t.owner, limits |-> t.limits,
          issue |-> t.issue, hotfix |-> t.hotfix, superseded |-> t.superseded]

\* A board is well formed when its tasks are a sequence of tasks.
LEMMA WellFormedTasks ==
  ASSUME NEW b
  PROVE  WellFormed(b) <=> IsSequence(b.tasks) /\ \A i \in 1..Len(b.tasks) : IsTask(b.tasks[i])
  BY DEF WellFormed, IsTask

\* Marking a task as superseded leaves it a task with its id, status and owner.
LEMMA MarkedTask ==
  ASSUME NEW t, IsTask(t)
  PROVE  IsTask([t EXCEPT !.superseded = TRUE]) /\ Stays(t, [t EXCEPT !.superseded = TRUE])
<1>1. ASSUME NEW v PROVE IsTask([t EXCEPT !.superseded = v]) /\ Stays(t, [t EXCEPT !.superseded = v])
  BY DEF IsTask, Stays
<1> QED BY <1>1

\* Marking tasks as superseded keeps their number, ids, status and owner.
LEMMA SupersedeKeeps ==
  ASSUME NEW tasks, NEW ids, IsSequence(tasks), \A i \in 1..Len(tasks) : IsTask(tasks[i])
  PROVE  /\ IsSequence(Supersede(tasks, ids))
         /\ Len(Supersede(tasks, ids)) = Len(tasks)
         /\ \A i \in 1..Len(tasks) :
              IsTask(Supersede(tasks, ids)[i]) /\ Stays(tasks[i], Supersede(tasks, ids)[i])
<1> DEFINE marked(i) == IF \E id \in ids : FirstAt(tasks, id, i)
                        THEN [tasks[i] EXCEPT !.superseded = TRUE] ELSE tasks[i]
           S == {marked(i) : i \in 1..Len(tasks)}
<1>1. Supersede(tasks, ids) = [i \in 1..Len(tasks) |-> marked(i)]
  BY DEF Supersede, IsSequence
<1>2. Len(tasks) \in Nat
  BY DEF IsSequence
<1>3. [i \in 1..Len(tasks) |-> marked(i)] \in Seq(S)
  <2> HIDE DEF marked
  <2> QED BY <1>2, IsASeq
<1>4. IsSequence(Supersede(tasks, ids))
  <2> HIDE DEF S
  <2> QED BY <1>1, <1>3, IsSequenceOf
<1>5. Len(Supersede(tasks, ids)) = Len(tasks)
  <2> HIDE DEF marked
  <2>1. DOMAIN Supersede(tasks, ids) = 1..Len(tasks)
    BY <1>1
  <2> QED BY <2>1, <1>2, <1>4 DEF IsSequence
<1>6. \A i \in 1..Len(tasks) : Supersede(tasks, ids)[i] = marked(i)
  <2> HIDE DEF marked
  <2> QED BY <1>1
<1>7. ASSUME NEW i \in 1..Len(tasks) PROVE IsTask(marked(i)) /\ Stays(tasks[i], marked(i))
  BY MarkedTask DEF Stays
<1> HIDE DEF marked
<1> QED BY <1>4, <1>5, <1>6, <1>7

\* A new task at the end.
LEMMA CreationStep ==
  ASSUME NEW ts, NEW us, NEW e,
         IsSequence(ts), \A i \in 1..Len(ts) : IsTask(ts[i]),
         IsSequence(us), Len(us) = Len(ts),
         \A i \in 1..Len(ts) : IsTask(us[i]) /\ Stays(ts[i], us[i])
  PROVE  LET vs == Append(us, NewTask(e)) IN
         /\ IsSequence(vs)
         /\ \A i \in 1..Len(vs) : IsTask(vs[i])
         /\ Grows(ts, vs)
<1> DEFINE vs == Append(us, NewTask(e))
<1>1. /\ IsSequence(vs)
      /\ Len(vs) = Len(ts) + 1
      /\ \A i \in 1..Len(ts) : vs[i] = us[i]
      /\ vs[Len(ts) + 1] = NewTask(e)
  BY AppendSequence
<1>2. IsTask(NewTask(e)) /\ NewTask(e).status = "todo" /\ NewTask(e).owner = None
  BY DEF IsTask, NewTask, Statuses
<1>3. Len(ts) \in Nat
  BY DEF IsSequence
<1> HIDE DEF vs
<1>4. \A i \in 1..Len(vs) : IsTask(vs[i])
  BY <1>1, <1>2, <1>3
<1>5. Grows(ts, vs)
  BY <1>1, <1>2, <1>3 DEF Grows
<1> QED BY <1>1, <1>4, <1>5 DEF vs

\* One task changes, the one of the event.
LEMMA ChangeStep ==
  ASSUME NEW b, NEW e, WellFormed(b), Legal(b, e), e.kind \in TaskChanges
  PROVE  LET us == [b.tasks EXCEPT ![Index(b.tasks, e.task)] = Changed(@, e)] IN
         /\ IsSequence(us)
         /\ \A i \in 1..Len(us) : IsTask(us[i])
         /\ MovesOne(b.tasks, us) \/ StaysAll(b.tasks, us)
<1> DEFINE ts == b.tasks
           k  == Index(ts, e.task)
           us == [ts EXCEPT ![k] = Changed(ts[k], e)]
<1>1. IsSequence(ts) /\ Len(ts) \in Nat /\ DOMAIN ts = 1..Len(ts) /\ \A i \in 1..Len(ts) : IsTask(ts[i])
  BY WellFormedTasks DEF IsSequence
<1>2. k \in 1..Len(ts)
  BY <1>1 DEF Legal, Known, Index
<1>3. IsSequence(us) /\ Len(us) = Len(ts)
  BY <1>1, ExceptSequence
<1>4. us[k] = Changed(ts[k], e) /\ \A i \in 1..Len(ts) \ {k} : us[i] = ts[i]
  BY <1>1, <1>2
<1>5. IsTask(ts[k]) /\ ts[k].status = RequiredStatus[e.kind]
  BY <1>1, <1>2 DEF Legal, TaskOf
<1>6. /\ e.kind = "claim" => ts[k].owner = None
      /\ e.kind \in {"claim", "complete", "review", "task.amend", "task.limits.set"}
  BY DEF Legal, TaskOf, TaskChanges, RequiredStatus
<1> HIDE DEF us, k, ts
<1>7. IsTask(us[k]) /\ (Moves(ts[k], us[k]) \/ Stays(ts[k], us[k]))
  <2>1. CASE e.kind = "claim"
    BY <2>1, <1>4, <1>5, <1>6 DEF IsTask, Changed, Moves, Stays, Statuses, RequiredStatus
  <2>2. CASE e.kind = "complete"
    BY <2>2, <1>4, <1>5 DEF IsTask, Changed, Moves, Stays, Statuses, RequiredStatus
  <2>3. CASE e.kind = "review"
    BY <2>3, <1>4, <1>5 DEF IsTask, Changed, Moves, Stays, Statuses, RequiredStatus
  <2>4. CASE e.kind \in {"task.amend", "task.limits.set"}
    BY <2>4, <1>4, <1>5 DEF IsTask, Changed, Moves, Stays, Statuses
  <2> QED BY <2>1, <2>2, <2>3, <2>4, <1>6
<1>8. \A i \in 1..Len(us) : IsTask(us[i])
  BY <1>1, <1>3, <1>4, <1>7
<1>9. MovesOne(ts, us) \/ StaysAll(ts, us)
  BY <1>2, <1>3, <1>4, <1>7 DEF MovesOne, StaysAll, Stays
<1> QED BY <1>3, <1>8, <1>9 DEF us, k, ts

\* Every event the projector applies keeps the board well formed, and does to
\* the list of tasks what the lifecycle allows.
LEMMA ApplyStep ==
  ASSUME NEW b, NEW e, WellFormed(b), Legal(b, e)
  PROVE  /\ WellFormed(Apply(b, e))
         /\ LET us == Apply(b, e).tasks IN
            Grows(b.tasks, us) \/ MovesOne(b.tasks, us) \/ StaysAll(b.tasks, us)
<1> DEFINE ts == b.tasks
           us == TasksAfter(ts, e)
<1>1. IsSequence(ts) /\ \A i \in 1..Len(ts) : IsTask(ts[i])
  BY WellFormedTasks
<1>2. Apply(b, e).tasks = us
  BY DEF Apply
<1>3. StaysAll(ts, ts)
  BY DEF StaysAll, Stays
<1> SUFFICES /\ IsSequence(us)
             /\ \A i \in 1..Len(us) : IsTask(us[i])
             /\ Grows(ts, us) \/ MovesOne(ts, us) \/ StaysAll(ts, us)
  BY <1>2, WellFormedTasks
<1> HIDE DEF ts
<1>4. CASE e.kind = "task.create"
  <2> DEFINE marked == Supersede(ts, e.supersedes)
  <2>1. /\ IsSequence(marked) /\ Len(marked) = Len(ts)
        /\ \A i \in 1..Len(ts) : IsTask(marked[i]) /\ Stays(ts[i], marked[i])
    BY <1>1, SupersedeKeeps
  <2>2. us = Append(marked, NewTask(e))
    BY <1>4 DEF TasksAfter, TaskChanges, RequiredStatus
  <2> HIDE DEF marked, us
  <2> QED BY <1>1, <2>1, <2>2, CreationStep
<1>5. CASE e.kind = "hotfix.create"
  <2>1. us = Append(ts, NewTask(e))
    BY <1>5 DEF TasksAfter, TaskChanges, RequiredStatus
  <2>2. \A i \in 1..Len(ts) : Stays(ts[i], ts[i])
    BY DEF Stays
  <2> HIDE DEF us
  <2> QED BY <1>1, <2>1, <2>2, CreationStep
<1>6. CASE e.kind \in TaskChanges
  <2>1. e.kind \notin {"task.create", "hotfix.create"}
    BY <1>6 DEF TaskChanges, RequiredStatus
  <2>2. us = [ts EXCEPT ![Index(ts, e.task)] = Changed(@, e)]
    BY <1>6, <2>1 DEF TasksAfter
  <2> HIDE DEF us
  <2> QED BY <1>6, <2>2, ChangeStep DEF ts
<1>7. CASE e.kind \notin TaskChanges \cup {"task.create", "hotfix.create"}
  <2>1. us = ts
    BY <1>7 DEF TasksAfter
  <2> QED BY <1>1, <1>3, <2>1
<1> QED BY <1>4, <1>5, <1>6, <1>7

\* What an event that is legal does to each task: only the first task of its id
\* is changed, only creating a task marks others, and a new one comes last.
LEMMA TasksAfterAre ==
  ASSUME NEW b, NEW e, WellFormed(b), Legal(b, e)
  PROVE  LET ts == b.tasks
             us == Apply(b, e).tasks IN
         /\ IsSequence(us)
         /\ e.kind \in TaskCreations => Len(us) = Len(ts) + 1 /\ us[Len(ts) + 1] = NewTask(e)
         /\ e.kind \notin TaskCreations => Len(us) = Len(ts)
         /\ \A i \in 1..Len(ts) :
              \/ us[i] = ts[i]
              \/ e.kind = "task.create" /\ us[i] = [ts[i] EXCEPT !.superseded = TRUE]
              \/ /\ e.kind \in TaskChanges /\ FirstAt(ts, e.task, i)
                 /\ ts[i].status = RequiredStatus[e.kind] /\ us[i] = Changed(ts[i], e)
<1> DEFINE ts == b.tasks
           us == TasksAfter(ts, e)
           Kept(i) == \/ us[i] = ts[i]
                      \/ e.kind = "task.create" /\ us[i] = [ts[i] EXCEPT !.superseded = TRUE]
                      \/ /\ e.kind \in TaskChanges /\ FirstAt(ts, e.task, i)
                         /\ ts[i].status = RequiredStatus[e.kind] /\ us[i] = Changed(ts[i], e)
<1>1. IsSequence(ts) /\ Len(ts) \in Nat /\ DOMAIN ts = 1..Len(ts) /\ \A i \in 1..Len(ts) : IsTask(ts[i])
  BY WellFormedTasks DEF IsSequence
<1>2. Apply(b, e).tasks = us
  BY DEF Apply
<1> SUFFICES /\ IsSequence(us)
             /\ e.kind \in TaskCreations => Len(us) = Len(ts) + 1 /\ us[Len(ts) + 1] = NewTask(e)
             /\ e.kind \notin TaskCreations => Len(us) = Len(ts)
             /\ \A i \in 1..Len(ts) : Kept(i)
  BY <1>2
<1>3. CASE e.kind = "task.create"
  <2> DEFINE marked == Supersede(ts, e.supersedes)
  <2>1. IsSequence(marked) /\ Len(marked) = Len(ts)
    BY <1>1, SupersedeKeeps
  <2>2. us = Append(marked, NewTask(e))
    BY <1>3 DEF TasksAfter, TaskChanges, RequiredStatus
  <2>3. \A i \in 1..Len(ts) : marked[i] = ts[i] \/ marked[i] = [ts[i] EXCEPT !.superseded = TRUE]
    BY <1>1 DEF Supersede
  <2> HIDE DEF marked, us, ts
  <2>4. /\ IsSequence(us) /\ Len(us) = Len(ts) + 1 /\ us[Len(ts) + 1] = NewTask(e)
        /\ \A i \in 1..Len(ts) : us[i] = marked[i]
    BY <2>1, <2>2, AppendSequence
  <2> QED BY <1>3, <2>3, <2>4 DEF TaskCreations
<1>4. CASE e.kind = "hotfix.create"
  <2>1. us = Append(ts, NewTask(e))
    BY <1>4 DEF TasksAfter, TaskChanges, RequiredStatus
  <2> HIDE DEF us, ts
  <2>2. /\ IsSequence(us) /\ Len(us) = Len(ts) + 1 /\ us[Len(ts) + 1] = NewTask(e)
        /\ \A i \in 1..Len(ts) : us[i] = ts[i]
    BY <1>1, <2>1, AppendSequence
  <2> QED BY <1>4, <2>2 DEF TaskCreations
<1>5. CASE e.kind \in TaskChanges
  <2> DEFINE k == Index(ts, e.task)
  <2>1. e.kind \notin TaskCreations
    BY <1>5 DEF TaskChanges, TaskCreations, RequiredStatus
  <2>2. us = [ts EXCEPT ![k] = Changed(ts[k], e)]
    BY <1>5, <2>1 DEF TasksAfter, TaskCreations
  <2>3. k \in 1..Len(ts) /\ FirstAt(ts, e.task, k) /\ ts[k].status = RequiredStatus[e.kind]
    BY <1>1, <1>5 DEF Legal, Known, Index, TaskOf
  <2> HIDE DEF us, k, ts
  <2>4. IsSequence(us) /\ Len(us) = Len(ts)
    BY <1>1, <2>2, ExceptSequence
  <2>5. us[k] = Changed(ts[k], e) /\ \A i \in 1..Len(ts) \ {k} : us[i] = ts[i]
    BY <1>1, <2>2, <2>3
  <2> QED BY <1>5, <2>1, <2>3, <2>4, <2>5
<1>6. CASE e.kind \notin TaskChanges \cup TaskCreations
  <2>1. us = ts
    BY <1>6 DEF TasksAfter, TaskCreations
  <2> HIDE DEF us, ts
  <2> QED BY <1>1, <1>6, <2>1
<1> QED BY <1>3, <1>4, <1>5, <1>6 DEF TaskCreations

\* The first task of an id is where Index says, and nowhere else.
LEMMA IndexIs ==
  ASSUME NEW ts, IsSequence(ts), NEW id, NEW i \in 1..Len(ts), FirstAt(ts, id, i)
  PROVE  Known(ts, id) /\ Index(ts, id) = i
<1>1. DOMAIN ts = 1..Len(ts) /\ Len(ts) \in Nat
  BY DomainOfSequence DEF IsSequence
<1>2. Known(ts, id) /\ Index(ts, id) \in 1..Len(ts) /\ FirstAt(ts, id, Index(ts, id))
  BY <1>1 DEF Known, Index
<1> DEFINE k == Index(ts, id)
<1> HIDE DEF k
<1>3. k \in 1..Len(ts) /\ FirstAt(ts, id, k)
  BY <1>2 DEF k
<1>4. ~(k < i) /\ ~(i < k)
  BY <1>1, <1>3 DEF FirstAt
<1>5. k = i
  BY <1>1, <1>3, <1>4
<1> QED BY <1>2, <1>5 DEF k

\* Events leave the first task of an id where it is; so its position is a name
\* for it.
LEMMA FirstStays ==
  ASSUME NEW b, NEW e, WellFormed(b), Legal(b, e), NEW id, Known(b.tasks, id)
  PROVE  LET us == Apply(b, e).tasks
             k == Index(b.tasks, id) IN
         /\ k \in 1..Len(b.tasks) /\ FirstAt(b.tasks, id, k)
         /\ Known(us, id)
         /\ Index(us, id) = k
<1> DEFINE ts == b.tasks
           us == Apply(b, e).tasks
           k == Index(ts, id)
<1>1. IsSequence(ts) /\ Len(ts) \in Nat /\ DOMAIN ts = 1..Len(ts)
  BY DomainOfSequence DEF WellFormed, IsSequence
<1>2. k \in 1..Len(ts) /\ FirstAt(ts, id, k)
  BY <1>1 DEF Known, Index
<1>3. IsSequence(us) /\ Len(us) \in {Len(ts), Len(ts) + 1}
  BY TasksAfterAre
<1>4. \A i \in 1..Len(ts) : us[i].id = ts[i].id
  <2>1. Grows(ts, us) \/ MovesOne(ts, us) \/ StaysAll(ts, us)
    BY ApplyStep
  <2> HIDE DEF ts, us
  <2> QED BY <1>1, <2>1 DEF Grows, MovesOne, StaysAll, Moves, Stays
<1> HIDE DEF ts, us, k
<1>5. k \in 1..Len(us) /\ FirstAt(us, id, k)
  BY <1>1, <1>2, <1>3, <1>4 DEF FirstAt
<1>6. Known(us, id) /\ Index(us, id) = k
  BY <1>3, <1>5, IndexIs
<1> QED BY <1>2, <1>6 DEF ts, us, k

\* A task of that id that is done.
DoneTask(b, id) == \E i \in 1..Len(b.tasks) : b.tasks[i].id = id /\ b.tasks[i].status = "done"

\* A task that is done stays, and stays done.
LEMMA DoneStays ==
  ASSUME NEW b, NEW e, WellFormed(b), Legal(b, e), NEW id, DoneTask(b, id)
  PROVE  DoneTask(Apply(b, e), id)
<1> DEFINE ts == b.tasks
           us == Apply(b, e).tasks
<1>1. PICK i \in 1..Len(ts) : ts[i].id = id /\ ts[i].status = "done"
  BY DEF DoneTask
<1>2. Grows(ts, us) \/ MovesOne(ts, us) \/ StaysAll(ts, us)
  BY ApplyStep
<1>3. Len(ts) \in Nat
  BY DEF WellFormed, IsSequence
<1> HIDE DEF ts, us
<1>4. i \in 1..Len(us) /\ us[i].id = id /\ us[i].status = "done"
  <2>1. CASE Grows(ts, us)
    BY <2>1, <1>1, <1>3 DEF Grows, Stays
  <2>2. CASE MovesOne(ts, us)
    BY <2>2, <1>1 DEF MovesOne, Moves, Stays
  <2>3. CASE StaysAll(ts, us)
    BY <2>3, <1>1 DEF StaysAll, Stays
  <2> QED BY <1>2, <2>1, <2>2, <2>3
<1> QED BY <1>4 DEF DoneTask, us

\* LastTaskOf finds a task of that id, if there is one.
LEMMA LastPlace ==
  ASSUME NEW ts, Len(ts) \in Nat, NEW id, \E i \in 1..Len(ts) : ts[i].id = id
  PROVE  \E k \in 1..Len(ts) : ts[k].id = id /\ LastTaskOf(ts, id) = ts[k]
<1> DEFINE S == {i \in 1..Len(ts) : ts[i].id = id}
<1>1. S # {} /\ S \in SUBSET (1..Len(ts))
  OBVIOUS
<1>2. \E x \in S : \A y \in S : y <= x
  <2> HIDE DEF S
  <2> QED BY <1>1, Greatest
<1>3. SelectLastInSeq(ts, LAMBDA t : t.id = id) = Max(S)
  BY <1>1 DEF SelectLastInSeq
<1>4. Max(S) \in S
  <2>1. Max(S) = CHOOSE x \in S : \A y \in S : x >= y
    BY DEF Max
  <2> QED BY <2>1, <1>2
<1> QED BY <1>3, <1>4 DEF LastTaskOf

\* A target that validate_hotfix_request lets pass is done.
LEMMA HotfixAllowedDone ==
  ASSUME NEW b, WellFormed(b), NEW c, HotfixAllowed(b, c)
  PROVE  DoneTask(b, c.fixes)
<1>1. IsSequence(b.tasks)
  BY DEF WellFormed
<1>2. DOMAIN b.tasks = 1..Len(b.tasks) /\ Len(b.tasks) \in Nat
  BY <1>1, DomainOfSequence DEF IsSequence
<1>3. \E i \in 1..Len(b.tasks) : b.tasks[i].id = c.fixes
  BY <1>2 DEF HotfixAllowed, Ids
<1>4. \E k \in 1..Len(b.tasks) : b.tasks[k].id = c.fixes /\ LastTaskOf(b.tasks, c.fixes) = b.tasks[k]
  BY <1>2, <1>3, LastPlace
<1> QED BY <1>4 DEF HotfixAllowed, DoneTask

-----------------------------------------------------------------------------
\* bs are the boards materialize goes through, over all of evs from b on.
IsReplay(bs, b, evs) ==
  /\ Len(bs) = Len(evs) + 1
  /\ bs[1] = b
  /\ \A i \in 1..Len(evs) : Legal(bs[i], evs[i]) /\ bs[i + 1] = Apply(bs[i], evs[i])

\* What the runs over the first n events have to satisfy.
RunsRecursion(f, b, evs, n) ==
  f = [i \in 0..n |->
         IF i = 0 THEN {<<b>>}
         ELSE {Append(bs, Apply(Last(bs), evs[i])) : bs \in {r \in f[i - 1] : Legal(Last(r), evs[i])}}]

\* There are such runs, for any number of events.
LEMMA RunsExist ==
  ASSUME NEW b, NEW evs, NEW n \in Nat
  PROVE  \E f : RunsRecursion(f, b, evs, n)
<1> DEFINE Next(runs, e) == {Append(bs, Apply(Last(bs), e)) : bs \in {r \in runs : Legal(Last(r), e)}}
           S == {m \in Nat : \E f : RunsRecursion(f, b, evs, m)}
<1>1. 0 \in S
  <2> DEFINE f == [i \in 0..0 |-> {<<b>>}]
  <2>1. f = [i \in 0..0 |-> IF i = 0 THEN {<<b>>} ELSE Next(f[i - 1], evs[i])]
    <3> HIDE DEF Next
    <3> QED OBVIOUS
  <2> HIDE DEF f
  <2>2. RunsRecursion(f, b, evs, 0)
    BY <2>1 DEF RunsRecursion
  <2> QED BY <2>2
<1>2. ASSUME NEW m \in Nat, m \in S PROVE m + 1 \in S
  <2>1. PICK f : f = [i \in 0..m |-> IF i = 0 THEN {<<b>>} ELSE Next(f[i - 1], evs[i])]
    BY <1>2 DEF RunsRecursion
  <2> DEFINE g == [i \in 0..m + 1 |-> IF i = m + 1 THEN Next(f[m], evs[m + 1]) ELSE f[i]]
  <2> HIDE DEF Next
  <2>2. ASSUME NEW i \in 0..m + 1
        PROVE  g[i] = IF i = 0 THEN {<<b>>} ELSE Next(g[i - 1], evs[i])
    <3>1. CASE i = m + 1
      <4>1. i # 0 /\ i - 1 = m /\ m \in 0..m + 1 /\ m # m + 1
        BY <3>1
      <4> QED BY <3>1, <4>1
    <3>2. CASE i # m + 1
      <4>1. i \in 0..m /\ (i # 0 => i - 1 \in 0..m + 1 /\ i - 1 # m + 1)
        BY <3>2
      <4>2. g[i] = f[i] /\ (i # 0 => g[i - 1] = f[i - 1])
        BY <3>2, <4>1
      <4>3. f[i] = IF i = 0 THEN {<<b>>} ELSE Next(f[i - 1], evs[i])
        BY <2>1, <4>1
      <4> QED BY <4>2, <4>3
    <3> QED BY <3>1, <3>2
  <2>3. g = [i \in 0..m + 1 |-> g[i]]
    OBVIOUS
  <2> HIDE DEF g
  <2>4. g = [i \in 0..m + 1 |-> IF i = 0 THEN {<<b>>} ELSE Next(g[i - 1], evs[i])]
    BY <2>2, <2>3
  <2>5. RunsRecursion(g, b, evs, m + 1)
    BY <2>4, Zenon DEF RunsRecursion, Next
  <2> QED BY <2>5
<1> HIDE DEF S
<1>3. n \in S
  BY <1>1, <1>2, Counting
<1> QED BY <1>3 DEF S

\* Runs has the one run there is: the boards, when every event is accepted.
LEMMA RunsAre ==
  ASSUME NEW b, NEW evs, Len(evs) \in Nat, NEW bs
  PROVE  bs \in Runs(b, evs) <=> IsSequence(bs) /\ IsReplay(bs, b, evs)
<1> DEFINE n == Len(evs)
           f == CHOOSE f : RunsRecursion(f, b, evs, n)
           Next(runs, e) == {Append(cs, Apply(Last(cs), e)) : cs \in {r \in runs : Legal(Last(r), e)}}
           Partial(cs, i) == /\ IsSequence(cs) /\ Len(cs) = i + 1 /\ cs[1] = b
                             /\ \A j \in 1..i : Legal(cs[j], evs[j]) /\ cs[j + 1] = Apply(cs[j], evs[j])
           S == {i \in Nat : i <= n => \A cs : cs \in f[i] <=> Partial(cs, i)}
<1>1. Runs(b, evs) = f[n]
  BY Zenon DEF Runs, RunsRecursion
<1>2. f = [i \in 0..n |-> IF i = 0 THEN {<<b>>} ELSE Next(f[i - 1], evs[i])]
  <2>1. \E g : RunsRecursion(g, b, evs, n)
    BY RunsExist
  <2>2. RunsRecursion(f, b, evs, n)
    BY <2>1, Zenon
  <2> HIDE DEF f
  <2> QED BY <2>2, Zenon DEF RunsRecursion
<1> HIDE DEF f, Next
<1>3. f[0] = {<<b>>} /\ \A i \in 1..n : f[i] = Next(f[i - 1], evs[i])
  <2>1. 0 \in 0..n /\ \A i \in 1..n : i \in 0..n /\ i # 0
    OBVIOUS
  <2> QED BY <1>2, <2>1
<1>4. 0 \in S
  <2>1. ASSUME NEW cs PROVE cs \in {<<b>>} <=> Partial(cs, 0)
    <3>1. IsSequence(<<b>>) /\ Len(<<b>>) = 1 /\ <<b>>[1] = b
      BY SingletonSequence
    <3>2. ASSUME Partial(cs, 0) PROVE cs = <<b>>
      <4>1. \A i \in 1..Len(cs) : cs[i] = <<b>>[i]
        BY <3>1, <3>2
      <4> QED BY <3>1, <3>2, <4>1, SameSequence
    <3> QED BY <3>1, <3>2
  <2> QED BY <1>3, <2>1
<1>5. ASSUME NEW i \in Nat, i \in S PROVE i + 1 \in S
  <2> SUFFICES ASSUME i + 1 <= n, NEW cs PROVE cs \in f[i + 1] <=> Partial(cs, i + 1)
    OBVIOUS
  <2> DEFINE e == evs[i + 1]
  <2>1. i <= n /\ f[i + 1] = Next(f[i], e) /\ \A ds : ds \in f[i] <=> Partial(ds, i)
    <3>1. i <= n /\ i + 1 \in 1..n /\ (i + 1) - 1 = i
      OBVIOUS
    <3> QED BY <1>3, <1>5, <3>1
  <2>2. \A ds : Partial(ds, i) => Last(ds) = ds[i + 1]
    BY DEF Last
  <2>3. ASSUME cs \in f[i + 1] PROVE Partial(cs, i + 1)
    <3>1. PICK ds : ds \in f[i] /\ Legal(Last(ds), e) /\ cs = Append(ds, Apply(Last(ds), e))
      BY <2>1, <2>3 DEF Next
    <3>2. Partial(ds, i) /\ Last(ds) = ds[i + 1]
      BY <2>1, <2>2, <3>1
    <3>3. /\ IsSequence(cs) /\ Len(cs) = i + 2
          /\ \A j \in 1..i + 1 : cs[j] = ds[j]
          /\ cs[i + 2] = Apply(ds[i + 1], e)
      <4>1. Len(ds) + 1 = i + 2
        BY <3>2
      <4> HIDE DEF e
      <4> QED BY <3>1, <3>2, <4>1, AppendSequence
    <3>4. ASSUME NEW j \in 1..i + 1 PROVE Legal(cs[j], evs[j]) /\ cs[j + 1] = Apply(cs[j], evs[j])
      <4>1. CASE j \in 1..i
        BY <3>2, <3>3, <4>1
      <4>2. CASE j = i + 1
        BY <3>1, <3>2, <3>3, <4>2
      <4> QED BY <4>1, <4>2
    <3> QED BY <3>2, <3>3, <3>4
  <2>4. ASSUME Partial(cs, i + 1) PROVE cs \in f[i + 1]
    <3> DEFINE ds == SubSeq(cs, 1, i + 1)
    <3>1. IsSequence(ds) /\ Len(ds) = i + 1 /\ \A j \in 1..i + 1 : ds[j] = cs[j]
      <4>1. IsSequence(cs) /\ i + 1 \in Nat /\ i + 1 <= Len(cs)
        BY <2>4
      <4> QED BY <4>1, PrefixSequence
    <3> HIDE DEF ds
    <3>2. Partial(ds, i)
      BY <2>4, <3>1
    <3>3. Last(ds) = cs[i + 1] /\ Legal(cs[i + 1], e) /\ cs[i + 2] = Apply(cs[i + 1], e)
      BY <2>2, <2>4, <3>1, <3>2
    <3>4. cs = Append(ds, Apply(Last(ds), e))
      <4> DEFINE us == Append(ds, Apply(Last(ds), e))
      <4>1. /\ IsSequence(us) /\ Len(us) = i + 2
            /\ \A j \in 1..i + 1 : us[j] = ds[j]
            /\ us[i + 2] = Apply(Last(ds), e)
        <5>1. Len(ds) + 1 = i + 2
          BY <3>1
        <5> HIDE DEF e
        <5> QED BY <3>1, <5>1, AppendSequence
      <4> HIDE DEF us
      <4>2. \A j \in 1..Len(cs) : cs[j] = us[j]
        BY <2>4, <3>1, <3>3, <4>1
      <4>3. cs = us
        BY <2>4, <4>1, <4>2, SameSequence
      <4> QED BY <4>3 DEF us
    <3>5. ds \in f[i]
      BY <2>1, <3>2
    <3> QED BY <2>1, <3>3, <3>4, <3>5 DEF Next
  <2> QED BY <2>3, <2>4
<1> HIDE DEF S
<1>6. n \in S
  BY <1>4, <1>5, Counting
<1>7. bs \in f[n] <=> Partial(bs, n)
  BY <1>6 DEF S
<1> QED BY <1>1, <1>7 DEF IsReplay

\* The projector goes through the same boards whenever it goes through the same
\* events from the same board.
LEMMA OneReplay ==
  ASSUME NEW b, NEW evs, Len(evs) \in Nat, NEW bs, IsReplay(bs, b, evs), NEW cs, IsReplay(cs, b, evs)
  PROVE  \A i \in 1..Len(evs) + 1 : bs[i] = cs[i]
<1> DEFINE n == Len(evs)
           S == {i \in 1..n + 1 : \A j \in 1..i : bs[j] = cs[j]}
<1>1. 1 \in S
  <2>1. \A j \in 1..1 : j = 1
    OBVIOUS
  <2> QED BY <2>1 DEF IsReplay
<1>2. S \in SUBSET (1..n + 1) /\ n + 1 \in Nat
  OBVIOUS
<1>3. PICK m \in S : \A y \in S : y <= m
  <2> HIDE DEF S
  <2> QED BY <1>1, <1>2, Greatest
<1>4. m \in 1..n + 1 /\ \A j \in 1..m : bs[j] = cs[j]
  OBVIOUS
<1>5. CASE m = n + 1
  BY <1>4, <1>5
<1>6. CASE m # n + 1
  <2>1. m \in 1..n
    BY <1>4, <1>6
  <2>2. bs[m + 1] = Apply(bs[m], evs[m]) /\ cs[m + 1] = Apply(cs[m], evs[m])
    BY <2>1 DEF IsReplay
  <2>3. bs[m + 1] = cs[m + 1]
    BY <1>4, <2>1, <2>2
  <2>4. \A j \in 1..m + 1 : j \in 1..m \/ j = m + 1
    BY <2>1
  <2>5. m + 1 \in S
    BY <1>4, <2>1, <2>3, <2>4
  <2>6. m + 1 <= m
    BY <1>3, <2>5
  <2> QED BY <2>1, <2>6
<1> QED BY <1>5, <1>6

-----------------------------------------------------------------------------
\* What a batch is made of: the event the command is about, what follows from
\* it, perhaps run.end, and verify.ok.
WriteKind == "orchestrator.file.write"

\* The commands that append.
AppendingOps == AgentOps \cup {"create", "amend", "limits", "hotfix", "resolve", "reject"}

\* The first event of a batch creates a task for task create and for hotfix
\* create only.
LEMMA MainEventIs ==
  ASSUME NEW b, NEW c, c.op \in AppendingOps
  PROVE  LET e == MainEvent(b, c) IN
         /\ e.kind \notin {WriteKind, "run.end", "verify.ok"}
         /\ e.kind = "task.create" => c.op = "create" /\ e.task = c.task
         /\ e.kind = "hotfix.create" => c.op = "hotfix"
         /\ c.op = "complete" => e.kind = "complete" /\ e.task = c.task
<1>1. CASE c.op = "create"
  BY <1>1 DEF MainEvent, WriteKind
<1>2. CASE c.op = "amend"
  BY <1>2 DEF MainEvent, WriteKind
<1>3. CASE c.op = "limits"
  BY <1>3 DEF MainEvent, WriteKind
<1>4. CASE c.op = "claim"
  BY <1>4 DEF MainEvent, WriteKind
<1>5. CASE c.op = "complete"
  BY <1>5 DEF MainEvent, WriteKind
<1>6. CASE c.op = "review"
  BY <1>6 DEF MainEvent, WriteKind
<1>7. CASE c.op = "report"
  BY <1>7 DEF MainEvent, WriteKind
<1>8. CASE c.op = "hotfix"
  BY <1>8 DEF MainEvent, HotfixEvent, WriteKind
<1>9. CASE c.op = "resolve"
  BY <1>9 DEF MainEvent, WriteKind
<1>10. CASE c.op = "reject"
  BY <1>10 DEF MainEvent, WriteKind
<1> QED
  BY <1>1, <1>2, <1>3, <1>4, <1>5, <1>6, <1>7, <1>8, <1>9, <1>10 DEF AppendingOps, AgentOps

\* The events of a command after the first.
Consequence(c, e) ==
  \/ Writes(c) /\ e.kind = WriteKind
  \/ c.op = "report" /\ c.fixes # None /\ e = HotfixEvent(c.issue)
  \/ e.kind = "issue.resolve"

\* The events of a command before the batch is closed.
CommandEvents(cand, b, c, fs) ==
  /\ IsSequence(cand) /\ Len(cand) \in Nat \ {0}
  /\ cand[1] = MainEvent(b, c)
  /\ \A i \in 2..Len(cand) : Consequence(c, cand[i])
  /\ Writes(c) => /\ Len(cand) = 2
                  /\ cand[2] = [kind |-> WriteKind, task |-> c.task, effects |-> Effects(c, fs)]

\* What _build_events makes: the event of the command, and what follows from it.
LEMMA CandidatesShape ==
  ASSUME NEW b, NEW evs, NEW c, NEW fs
  PROVE  CommandEvents(Candidates(b, evs, c, fs), b, c, fs)
<1> DEFINE main == <<MainEvent(b, c)>>
           ws == WriteEvents(c, fs)
           rs == ReportEvents(evs, c)
           vs == ReviewEvents(b, evs, c)
           one == main \o ws
           two == one \o rs
           cand == two \o vs
           write == [kind |-> WriteKind, task |-> c.task, effects |-> Effects(c, fs)]
<1>1. /\ IsSequence(ws)
      /\ Writes(c) => Len(ws) = 1 /\ ws[1] = write
      /\ ~Writes(c) => Len(ws) = 0
  <2>1. CASE Writes(c)
    <3>1. ws = <<write>>
      BY <2>1 DEF WriteEvents, WriteKind
    <3> HIDE DEF ws, write
    <3>2. <<write>>[1] = write
      OBVIOUS
    <3> QED BY <2>1, <3>1, <3>2, SingletonSequence
  <2>2. CASE ~Writes(c)
    BY <2>2, EmptySequence DEF WriteEvents
  <2> QED BY <2>1, <2>2
<1>2. /\ IsSequence(rs)
      /\ \A i \in 1..Len(rs) : c.op = "report" /\ c.fixes # None /\ rs[i] = HotfixEvent(c.issue)
      /\ c.op # "report" => Len(rs) = 0
  <2> DEFINE e == HotfixEvent(c.issue)
  <2>2. CASE c.op = "report" /\ c.fixes # None /\ ~HotfixExists(evs, c.issue)
    <3>1. rs = <<e>>
      BY <2>2 DEF ReportEvents
    <3> HIDE DEF rs, e
    <3>2. <<e>>[1] = e
      OBVIOUS
    <3> QED BY <2>2, <3>1, <3>2, SingletonSequence DEF e
  <2>3. CASE ~(c.op = "report" /\ c.fixes # None /\ ~HotfixExists(evs, c.issue))
    <3>1. rs = <<>>
      BY <2>3, Zenon DEF ReportEvents
    <3> HIDE DEF rs
    <3> QED BY <3>1, EmptySequence
  <2> QED BY <2>2, <2>3
<1>3. /\ IsSequence(vs)
      /\ \A i \in 1..Len(vs) : vs[i].kind = "issue.resolve"
      /\ c.op # "review" => Len(vs) = 0
  <2> DEFINE P == /\ c.op = "review"
                  /\ c.decision = "approve"
                  /\ TaskOf(b.tasks, c.task).hotfix
                  /\ TaskOf(b.tasks, c.task).issue # None
                  /\ ~Happened(evs, "issue.resolve", LAMBDA e : e.issue = TaskOf(b.tasks, c.task).issue)
             r == [kind |-> "issue.resolve", issue |-> TaskOf(b.tasks, c.task).issue]
  <2>1. vs = IF P THEN <<r>> ELSE <<>>
    BY Zenon DEF ReviewEvents
  <2>2. r.kind = "issue.resolve" /\ (P => c.op = "review") /\ <<r>>[1] = r
    OBVIOUS
  <2> HIDE DEF vs, P, r
  <2> QED BY <2>1, <2>2, SingletonSequence, EmptySequence
<1>4. IsSequence(main) /\ Len(main) = 1 /\ main[1] = MainEvent(b, c)
  BY SingletonSequence
<1>5. Candidates(b, evs, c, fs) = cand
  BY DEF Candidates
<1> HIDE DEF main, ws, rs, vs
<1>6. /\ IsSequence(one) /\ Len(one) = 1 + Len(ws)
      /\ one[1] = MainEvent(b, c)
      /\ \A i \in 1..Len(ws) : one[1 + i] = ws[i]
  <2>1. IsSequence(one) /\ Len(one) = Len(main) + Len(ws)
    BY <1>1, <1>4, ConcatSequences
  <2>2. /\ \A i \in 1..Len(main) : one[i] = main[i]
        /\ \A i \in 1..Len(ws) : one[Len(main) + i] = ws[i]
    BY <1>1, <1>4, ConcatElements
  <2> QED BY <1>4, <2>1, <2>2
<1>7. Len(ws) \in Nat /\ Len(rs) \in Nat /\ Len(vs) \in Nat
  BY <1>1, <1>2, <1>3 DEF IsSequence
<1> HIDE DEF one
<1>8. /\ IsSequence(two) /\ Len(two) = 1 + Len(ws) + Len(rs)
      /\ \A i \in 1..Len(one) : two[i] = one[i]
      /\ \A i \in 1..Len(rs) : two[Len(one) + i] = rs[i]
  <2>1. IsSequence(two) /\ Len(two) = Len(one) + Len(rs)
    BY <1>2, <1>6, ConcatSequences
  <2>2. /\ \A i \in 1..Len(one) : two[i] = one[i]
        /\ \A i \in 1..Len(rs) : two[Len(one) + i] = rs[i]
    BY <1>2, <1>6, ConcatElements
  <2> QED BY <1>6, <2>1, <2>2
<1> HIDE DEF two
<1>9. /\ IsSequence(cand) /\ Len(cand) = 1 + Len(ws) + Len(rs) + Len(vs)
      /\ \A i \in 1..Len(two) : cand[i] = two[i]
      /\ \A i \in 1..Len(vs) : cand[Len(two) + i] = vs[i]
  <2>1. IsSequence(cand) /\ Len(cand) = Len(two) + Len(vs)
    BY <1>3, <1>8, ConcatSequences
  <2>2. /\ \A i \in 1..Len(two) : cand[i] = two[i]
        /\ \A i \in 1..Len(vs) : cand[Len(two) + i] = vs[i]
    BY <1>3, <1>8, ConcatElements
  <2> QED BY <1>8, <2>1, <2>2
<1> HIDE DEF cand
<1>10. cand[1] = MainEvent(b, c)
  <2>1. 1 \in 1..Len(one) /\ 1 \in 1..Len(two)
    BY <1>6, <1>7, <1>8
  <2> QED BY <1>6, <1>8, <1>9, <2>1
<1>11. ASSUME NEW i \in 2..Len(cand) PROVE Consequence(c, cand[i])
  <2>1. CASE i <= Len(one)
    <3>1. i - 1 \in 1..Len(ws) /\ i \in 1..Len(one) /\ i \in 1..Len(two) /\ 1 + (i - 1) = i
      BY <2>1, <1>6, <1>7, <1>8
    <3>2. cand[i] = ws[i - 1]
      BY <3>1, <1>6, <1>8, <1>9
    <3>3. Writes(c) /\ i - 1 = 1
      <4>1. Len(ws) # 0
        BY <3>1, <1>7
      <4>2. Writes(c)
        BY <4>1, <1>1, Zenon
      <4>3. Len(ws) = 1
        BY <4>2, <1>1
      <4> QED BY <4>2, <4>3, <3>1
    <3> QED BY <3>2, <3>3, <1>1 DEF Consequence
  <2>2. CASE i > Len(one) /\ i <= Len(two)
    <3>1. i - Len(one) \in 1..Len(rs) /\ i \in 1..Len(two) /\ Len(one) + (i - Len(one)) = i
      BY <2>2, <1>6, <1>7, <1>8
    <3>2. cand[i] = rs[i - Len(one)]
      BY <3>1, <1>8, <1>9
    <3> QED BY <3>1, <3>2, <1>2 DEF Consequence
  <2>3. CASE i > Len(two)
    <3>1. i - Len(two) \in 1..Len(vs) /\ Len(two) + (i - Len(two)) = i
      BY <2>3, <1>7, <1>8, <1>9
    <3>2. cand[i] = vs[i - Len(two)]
      BY <3>1, <1>9
    <3> QED BY <3>1, <3>2, <1>3 DEF Consequence
  <2> QED BY <2>1, <2>2, <2>3, <1>6, <1>7, <1>8
<1>12. ASSUME Writes(c) PROVE Len(cand) = 2 /\ cand[2] = write
  <2>1. c.op = "complete"
    BY <1>12 DEF Writes
  <2>2. Len(rs) = 0 /\ Len(vs) = 0 /\ Len(ws) = 1
    BY <1>12, <2>1, <1>1, <1>2, <1>3
  <2>3. 2 \in 1..Len(one) /\ 2 \in 1..Len(two)
    BY <2>2, <1>6, <1>8
  <2> QED BY <1>12, <2>2, <2>3, <1>1, <1>6, <1>8, <1>9
<1> HIDE DEF write
<1>13. Len(cand) \in Nat \ {0}
  BY <1>7, <1>9
<1> QED BY <1>5, <1>9, <1>10, <1>11, <1>12, <1>13 DEF write, CommandEvents

\* The batch that closes cand, which leads to board a.
Closes(batch, cand, a) ==
  /\ IsSequence(batch)
  /\ Len(batch) \in {Len(cand) + 1, Len(cand) + 2}
  /\ \A i \in 1..Len(cand) : batch[i] = cand[i]
  /\ batch[Len(batch)] = [kind |-> "verify.ok", certifies |-> a.tasks]
  /\ Len(batch) = Len(cand) + 2 => batch[Len(cand) + 1] = [kind |-> "run.end"] /\ AllTasksDone(a.tasks)

\* A batch is its candidates, run.end when they finish the run, and verify.ok.
LEMMA BatchShape ==
  ASSUME NEW b, NEW evs, NEW c, NEW fs
  PROVE  Closes(Batch(b, evs, c, fs), Candidates(b, evs, c, fs), After(b, Candidates(b, evs, c, fs)))
<1> DEFINE cand == Candidates(b, evs, c, fs)
           m == Len(cand)
           a == After(b, cand)
           ok == [kind |-> "verify.ok", certifies |-> a.tasks]
           end == [kind |-> "run.end"]
           P == AllTasksDone(a.tasks) /\ a.run # "success"
           es == IF P THEN <<end>> ELSE <<>>
           tail == es \o <<ok>>
           batch == cand \o tail
<1>1. Batch(b, evs, c, fs) = batch
  BY DEF Batch, Closing
<1>2. IsSequence(cand) /\ m \in Nat
  BY CandidatesShape DEF CommandEvents
<1>3. /\ IsSequence(es)
      /\ Len(es) = 0 \/ (Len(es) = 1 /\ es[1] = end /\ AllTasksDone(a.tasks))
  <2>1. <<end>>[1] = end
    OBVIOUS
  <2>2. P => AllTasksDone(a.tasks)
    OBVIOUS
  <2> HIDE DEF P, end
  <2>3. CASE P
    BY <2>1, <2>2, <2>3, SingletonSequence
  <2>4. CASE ~P
    BY <2>4, EmptySequence
  <2> QED BY <2>3, <2>4
<1>4. IsSequence(<<ok>>) /\ Len(<<ok>>) = 1 /\ <<ok>>[1] = ok
  BY SingletonSequence
<1> HIDE DEF cand, ok, end, es, a
<1>5. /\ IsSequence(tail) /\ Len(tail) = Len(es) + 1
      /\ \A i \in 1..Len(es) : tail[i] = es[i]
      /\ tail[Len(es) + 1] = ok
  <2>1. IsSequence(tail) /\ Len(tail) = Len(es) + Len(<<ok>>)
    BY <1>3, <1>4, ConcatSequences
  <2>2. /\ \A i \in 1..Len(es) : tail[i] = es[i]
        /\ \A i \in 1..Len(<<ok>>) : tail[Len(es) + i] = <<ok>>[i]
    BY <1>3, <1>4, ConcatElements
  <2> QED BY <1>4, <2>1, <2>2
<1> HIDE DEF tail
<1>6. /\ IsSequence(batch) /\ Len(batch) = m + Len(tail)
      /\ \A i \in 1..m : batch[i] = cand[i]
      /\ \A i \in 1..Len(tail) : batch[m + i] = tail[i]
  <2>1. IsSequence(batch) /\ Len(batch) = m + Len(tail)
    BY <1>2, <1>5, ConcatSequences
  <2>2. /\ \A i \in 1..m : batch[i] = cand[i]
        /\ \A i \in 1..Len(tail) : batch[m + i] = tail[i]
    BY <1>2, <1>5, ConcatElements
  <2> QED BY <2>1, <2>2
<1> HIDE DEF batch, m
<1>7. CASE Len(es) = 0
  <2>1. Len(batch) = m + 1 /\ batch[m + 1] = ok
    BY <1>5, <1>6, <1>7
  <2> QED BY <1>1, <1>2, <1>6, <2>1 DEF m, cand, ok, a, Closes
<1>8. CASE Len(es) = 1
  <2>1. Len(batch) = m + 2 /\ batch[m + 1] = end /\ batch[m + 2] = ok /\ AllTasksDone(a.tasks)
    BY <1>3, <1>5, <1>6, <1>8
  <2> QED BY <1>1, <1>2, <1>6, <2>1 DEF m, cand, ok, a, end, Closes
<1> QED BY <1>3, <1>7, <1>8

\* Every batch is a sequence with at least the event the command is about.
LEMMA BatchNonempty ==
  ASSUME NEW b, NEW evs, NEW c, NEW fs
  PROVE  IsSequence(Batch(b, evs, c, fs)) /\ Len(Batch(b, evs, c, fs)) > 0
<1>1. IsSequence(WriteEvents(c, fs))
  BY SingletonSequence, EmptySequence, Zenon DEF WriteEvents
<1>2. IsSequence(ReportEvents(evs, c))
  BY SingletonSequence, EmptySequence, Zenon DEF ReportEvents
<1>3. IsSequence(ReviewEvents(b, evs, c))
  BY SingletonSequence, EmptySequence, Zenon DEF ReviewEvents
<1>4. IsSequence(<<MainEvent(b, c)>>) /\ Len(<<MainEvent(b, c)>>) = 1
  BY SingletonSequence
<1> DEFINE one == <<MainEvent(b, c)>> \o WriteEvents(c, fs)
           two == one \o ReportEvents(evs, c)
<1>5. IsSequence(one) /\ Len(one) > 0
  BY <1>1, <1>4, ConcatSequences DEF IsSequence
<1>6. IsSequence(two) /\ Len(two) > 0
  BY <1>2, <1>5, ConcatSequences DEF IsSequence
<1>7. IsSequence(two \o ReviewEvents(b, evs, c)) /\ Len(two \o ReviewEvents(b, evs, c)) > 0
  BY <1>3, <1>6, ConcatSequences DEF IsSequence
<1>8. IsSequence(Candidates(b, evs, c, fs)) /\ Len(Candidates(b, evs, c, fs)) > 0
  BY <1>7 DEF Candidates
<1>9. ASSUME NEW a PROVE IsSequence(Closing(a))
  <2> DEFINE last == <<[kind |-> "verify.ok", certifies |-> a.tasks]>>
  <2>1. IsSequence(last)
    BY SingletonSequence
  <2>2. IsSequence(IF AllTasksDone(a.tasks) /\ a.run # "success" THEN <<[kind |-> "run.end"]>> ELSE <<>>)
    BY SingletonSequence, EmptySequence, Zenon
  <2>3. IsSequence((IF AllTasksDone(a.tasks) /\ a.run # "success" THEN <<[kind |-> "run.end"]>> ELSE <<>>) \o last)
    BY <2>1, <2>2, ConcatSequences
  <2> QED BY <2>3 DEF Closing
<1> QED
  BY <1>8, <1>9, ConcatSequences DEF Batch, IsSequence

-----------------------------------------------------------------------------
\* An event keeps what makes a task the hotfix of an issue, when a complete names
\* the issue its task had.
LEMMA IssueStays ==
  ASSUME NEW b, NEW e, WellFormed(b), Legal(b, e),
         e.kind = "complete" => e.issue = TaskOf(b.tasks, e.task).issue
  PROVE  LET ts == b.tasks
             us == Apply(b, e).tasks IN
         \A i \in 1..Len(ts) :
           /\ us[i].issue = ts[i].issue /\ us[i].hotfix = ts[i].hotfix
           /\ us[i].status = "done" /\ ts[i].status # "done" =>
                e.kind = "review" /\ e.decision = "approve" /\ FirstAt(ts, e.task, i)
<1> DEFINE ts == b.tasks
           us == Apply(b, e).tasks
<1>1. IsSequence(ts) /\ \A i \in 1..Len(ts) : IsTask(ts[i])
  BY WellFormedTasks
<1>2. \A i \in 1..Len(ts) :
        \/ us[i] = ts[i]
        \/ e.kind = "task.create" /\ us[i] = [ts[i] EXCEPT !.superseded = TRUE]
        \/ /\ e.kind \in TaskChanges /\ FirstAt(ts, e.task, i)
           /\ ts[i].status = RequiredStatus[e.kind] /\ us[i] = Changed(ts[i], e)
  BY TasksAfterAre
<1>3. e.kind = "complete" => e.issue = ts[Index(ts, e.task)].issue
  BY DEF TaskOf
<1> HIDE DEF ts, us
<1>4. ASSUME NEW i \in 1..Len(ts)
      PROVE  /\ us[i].issue = ts[i].issue /\ us[i].hotfix = ts[i].hotfix
             /\ us[i].status = "done" /\ ts[i].status # "done" =>
                  e.kind = "review" /\ e.decision = "approve" /\ FirstAt(ts, e.task, i)
  <2>1. CASE us[i] = ts[i]
    BY <2>1
  <2>2. CASE us[i] = [ts[i] EXCEPT !.superseded = TRUE]
    BY <1>1, <2>2 DEF IsTask
  <2>3. CASE e.kind \in TaskChanges /\ FirstAt(ts, e.task, i) /\ us[i] = Changed(ts[i], e)
    <3>1. Index(ts, e.task) = i
      BY <1>1, <2>3, IndexIs
    <3>2. e.kind \in {"claim", "complete", "review", "task.amend", "task.limits.set"}
      BY <2>3 DEF TaskChanges, RequiredStatus
    <3>3. IsTask(ts[i])
      BY <1>1
    <3>4. CASE e.kind = "claim"
      BY <2>3, <3>3, <3>4 DEF Changed, IsTask
    <3>5. CASE e.kind = "complete"
      BY <1>3, <2>3, <3>1, <3>3, <3>5 DEF Changed, IsTask
    <3>6. CASE e.kind = "review"
      BY <2>3, <3>3, <3>6 DEF Changed, IsTask
    <3>7. CASE e.kind \in {"task.amend", "task.limits.set"}
      BY <2>3, <3>3, <3>7 DEF Changed, IsTask
    <3> QED BY <3>2, <3>4, <3>5, <3>6, <3>7
  <2> QED BY <1>2, <2>1, <2>2, <2>3
<1> QED BY <1>4 DEF ts, us

\* The event of a command that changes a task says what the command says.
LEMMA MainEventOfTask ==
  ASSUME NEW b, NEW c, c.op \in AppendingOps
  PROVE  LET e == MainEvent(b, c) IN
         /\ e.kind \in TaskChanges => e.task = c.task
         /\ e.kind \in {"complete", "review"} => e.kind = c.op
         /\ c.op = "complete" => e.issue = TaskOf(b.tasks, c.task).issue
         /\ e.kind = "review" => e.decision = c.decision
         /\ e.kind = "hotfix.create" => c.op = "hotfix" /\ e.issue = c.issue
<1> USE DEF TaskChanges, RequiredStatus
<1>1. CASE c.op = "create"
  BY <1>1 DEF MainEvent
<1>2. CASE c.op = "amend"
  BY <1>2 DEF MainEvent
<1>3. CASE c.op = "limits"
  BY <1>3 DEF MainEvent
<1>4. CASE c.op = "claim"
  BY <1>4 DEF MainEvent
<1>5. CASE c.op = "complete"
  BY <1>5 DEF MainEvent
<1>6. CASE c.op = "review"
  BY <1>6 DEF MainEvent
<1>7. CASE c.op = "report"
  BY <1>7 DEF MainEvent
<1>8. CASE c.op = "hotfix"
  BY <1>8 DEF MainEvent, HotfixEvent
<1>9. CASE c.op = "resolve"
  BY <1>9 DEF MainEvent
<1>10. CASE c.op = "reject"
  BY <1>10 DEF MainEvent
<1> QED
  BY <1>1, <1>2, <1>3, <1>4, <1>5, <1>6, <1>7, <1>8, <1>9, <1>10 DEF AppendingOps, AgentOps

\* A resolution that follows from a review is among the candidates, after the
\* review.
LEMMA ResolutionFollows ==
  ASSUME NEW b, NEW evs, NEW c, NEW fs, NEW r, ReviewEvents(b, evs, c) = <<r>>
  PROVE  LET cand == Candidates(b, evs, c, fs) IN
         Len(cand) \in Nat /\ Len(cand) >= 2 /\ cand[Len(cand)] = r
<1> DEFINE main == <<MainEvent(b, c)>>
           one == main \o WriteEvents(c, fs)
           two == one \o ReportEvents(evs, c)
<1>1. IsSequence(main) /\ Len(main) = 1
  BY SingletonSequence
<1>2. IsSequence(WriteEvents(c, fs)) /\ IsSequence(ReportEvents(evs, c))
  BY SingletonSequence, EmptySequence, Zenon DEF WriteEvents, ReportEvents
<1> HIDE DEF main
<1> DEFINE ws == WriteEvents(c, fs)
           rs == ReportEvents(evs, c)
<1>7. IsSequence(ws) /\ Len(ws) \in Nat /\ IsSequence(rs) /\ Len(rs) \in Nat
  BY <1>2 DEF IsSequence
<1> HIDE DEF ws, rs
<1>3. IsSequence(one) /\ Len(one) \in Nat /\ Len(one) >= 1
  <2>1. IsSequence(one) /\ Len(one) = Len(main) + Len(ws)
    BY <1>1, <1>7, ConcatSequences DEF ws
  <2> HIDE DEF one
  <2> QED BY <2>1, <1>1, <1>7
<1> HIDE DEF one
<1>4. IsSequence(two) /\ Len(two) \in Nat /\ Len(two) >= 1
  <2>1. IsSequence(two) /\ Len(two) = Len(one) + Len(rs)
    BY <1>3, <1>7, ConcatSequences DEF rs
  <2> HIDE DEF two
  <2> QED BY <2>1, <1>3, <1>7
<1>5. Candidates(b, evs, c, fs) = two \o <<r>>
  BY DEF Candidates, one, main
<1> HIDE DEF two
<1>6. Len(two \o <<r>>) = Len(two) + 1 /\ (two \o <<r>>)[Len(two) + 1] = r
  <2>1. IsSequence(<<r>>) /\ Len(<<r>>) = 1 /\ <<r>>[1] = r
    BY SingletonSequence
  <2> QED BY <1>4, <2>1, ConcatSequences, ConcatElements
<1> QED BY <1>4, <1>5, <1>6

\* The candidates of a review are the review and at most a resolution.
LEMMA ReviewIsShort ==
  ASSUME NEW b, NEW evs, NEW c, NEW fs, c.op = "review"
  PROVE  Len(Candidates(b, evs, c, fs)) \in {1, 2}
<1> DEFINE main == <<MainEvent(b, c)>>
           ws == WriteEvents(c, fs)
           rs == ReportEvents(evs, c)
           vs == ReviewEvents(b, evs, c)
<1>1. IsSequence(main) /\ Len(main) = 1
  BY SingletonSequence
<1>2. IsSequence(ws) /\ Len(ws) = 0 /\ IsSequence(rs) /\ Len(rs) = 0
  <2>1. ws = <<>> /\ rs = <<>>
    BY DEF WriteEvents, ReportEvents, Writes
  <2> HIDE DEF ws, rs
  <2> QED BY <2>1, EmptySequence
<1>3. IsSequence(vs) /\ Len(vs) \in {0, 1}
  <2> DEFINE r == [kind |-> "issue.resolve", issue |-> TaskOf(b.tasks, c.task).issue]
  <2>1. vs = <<>> \/ vs = <<r>>
    BY DEF ReviewEvents
  <2> HIDE DEF vs, r
  <2> QED BY <2>1, EmptySequence, SingletonSequence
<1> HIDE DEF main, ws, rs, vs
<1>4. IsSequence(main \o ws) /\ Len(main \o ws) = 1
  <2>1. IsSequence(main \o ws) /\ Len(main \o ws) = Len(main) + Len(ws)
    BY <1>1, <1>2, ConcatSequences
  <2> QED BY <2>1, <1>1, <1>2
<1>5. IsSequence((main \o ws) \o rs) /\ Len((main \o ws) \o rs) = 1
  <2>1. IsSequence((main \o ws) \o rs) /\ Len((main \o ws) \o rs) = Len(main \o ws) + Len(rs)
    BY <1>2, <1>4, ConcatSequences
  <2> QED BY <2>1, <1>2, <1>4
<1>6. Len(((main \o ws) \o rs) \o vs) = 1 + Len(vs)
  BY <1>3, <1>5, ConcatSequences
<1>7. Candidates(b, evs, c, fs) = ((main \o ws) \o rs) \o vs
  BY DEF Candidates, main, ws, rs, vs
<1> QED BY <1>3, <1>6, <1>7

=============================================================================
