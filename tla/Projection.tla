----------------------------- MODULE Projection -----------------------------
(***************************************************************************)
(* The read model of the event store: what one event does to the projected *)
(* state (projector.py), when the projector refuses it, and what           *)
(* materialize makes of a sequence of events.                              *)
(*                                                                         *)
(* An event is a record with its action in the field kind.  Of a task we   *)
(* keep the fields the lifecycle depends on; titles, targets, boundaries,  *)
(* review modes and timestamps are left out, and so are the fields of an   *)
(* event that only they use.                                               *)
(***************************************************************************)
EXTENDS Lists, Naturals, Sequences, SequencesExt

CONSTANT None  \* a task without assigned_to, resource_limits or issue_id; a
               \* complete that names no issue; no such file effect

\* The events that change one existing task, and the status they require
\* (state_machine.py; for the two administrative ones, projector.py).
RequiredStatus ==
  [kind \in {"claim", "complete", "review", "task.amend", "task.limits.set"} |->
     CASE kind = "claim"           -> "todo"
       [] kind = "complete"        -> "in_progress"
       [] kind = "review"          -> "review"
       [] kind = "task.amend"      -> "todo"
       [] kind = "task.limits.set" -> "in_progress"]

TaskChanges == DOMAIN RequiredStatus
TaskCreations == {"task.create", "hotfix.create"}

EmptyBoard == [tasks |-> <<>>, reported |-> {}, open |-> {}, run |-> "initialized"]

Ids(tasks) == {tasks[i].id : i \in DOMAIN tasks}

\* _task_by_id scans the list and stops at the first task with that id.
FirstAt(tasks, id, i) == tasks[i].id = id /\ \A j \in 1..(i - 1) : tasks[j].id # id
Known(tasks, id) == \E i \in DOMAIN tasks : FirstAt(tasks, id, i)
Index(tasks, id) == CHOOSE i \in DOMAIN tasks : FirstAt(tasks, id, i)
TaskOf(tasks, id) == tasks[Index(tasks, id)]

\* {t["task_id"]: t for t in tasks}[id]: a dict keeps the last one.
LastTaskOf(tasks, id) == tasks[SelectLastInSeq(tasks, LAMBDA t : t.id = id)]

NewTask(e) ==
  [id         |-> e.task,
   status     |-> "todo",
   owner      |-> None,
   limits     |-> None,
   issue      |-> IF e.kind = "hotfix.create" THEN e.issue ELSE None,
   hotfix     |-> e.kind = "hotfix.create",
   superseded |-> FALSE]

\* Mutant of Legal: _check_transition is not called.
LegalInAnyStatus(b, e) ==
  e.kind \in TaskChanges => Known(b.tasks, e.task)

\* The projector applies the event instead of raising.  Creating a task checks
\* that what it supersedes exists; only a hotfix must have a fresh id.
Legal(b, e) ==
  /\ e.kind = "task.create" => e.supersedes \subseteq Ids(b.tasks) \ {e.task}
  /\ e.kind = "hotfix.create" => e.task \notin Ids(b.tasks)
  /\ e.kind = "issue.resolve" => e.issue \in b.reported
  /\ e.kind \in TaskChanges =>
       /\ Known(b.tasks, e.task)
       /\ TaskOf(b.tasks, e.task).status = RequiredStatus[e.kind]
  /\ e.kind = "claim" => TaskOf(b.tasks, e.task).owner = None
  /\ e.kind = "complete" => TaskOf(b.tasks, e.task).owner = e.actor
  /\ e.kind = "review" => e.qa \/ TaskOf(b.tasks, e.task).owner = e.actor
  /\ e.kind = "task.limits.set" => TaskOf(b.tasks, e.task).limits = e.previous

\* Mutant of Changed: the decision of a review becomes the status.
ChangedToDecision(t, e) ==
  CASE e.kind = "claim"    -> [t EXCEPT !.status = "in_progress", !.owner = e.actor]
    [] e.kind = "complete" -> [t EXCEPT !.status = "review"]
    [] e.kind = "review"   -> [t EXCEPT !.status = e.decision]
    [] OTHER               -> t

\* The task an event of TaskChanges leaves behind.
Changed(t, e) ==
  CASE e.kind = "claim"    -> [t EXCEPT !.status = "in_progress", !.owner = e.actor]
    [] e.kind = "complete" -> [t EXCEPT !.status = "review",
                                        !.issue = IF e.issue = None THEN @ ELSE e.issue]
    [] e.kind = "review"   -> [t EXCEPT !.status = IF e.decision = "approve" THEN "done" ELSE "in_progress"]
    [] OTHER               -> [t EXCEPT !.limits = e.limits]

\* _derive_superseded_by marks the first task of each superseded id.
Supersede(tasks, ids) ==
  [i \in DOMAIN tasks |->
     IF \E id \in ids : FirstAt(tasks, id, i) THEN [tasks[i] EXCEPT !.superseded = TRUE] ELSE tasks[i]]

TasksAfter(tasks, e) ==
  CASE e.kind = "task.create"   -> Append(Supersede(tasks, e.supersedes), NewTask(e))
    [] e.kind = "hotfix.create" -> Append(tasks, NewTask(e))
    [] e.kind \in TaskChanges   -> [tasks EXCEPT ![Index(tasks, e.task)] = Changed(@, e)]
    [] OTHER                    -> tasks

\* _apply_event, for an event that is Legal.  An issue that is reported again
\* is open again.
Apply(b, e) ==
  [tasks    |-> TasksAfter(b.tasks, e),
   reported |-> IF e.kind = "issue.report" THEN b.reported \cup {e.issue} ELSE b.reported,
   open     |-> CASE e.kind = "issue.report"  -> b.open \cup {e.issue}
                  [] e.kind = "issue.resolve" -> b.open \ {e.issue}
                  [] OTHER                    -> b.open,
   run      |-> IF e.kind = "run.end" THEN "success" ELSE b.run]

\* The runs of materialize over evs from b, as the boards it goes through: one
\* run, or none when it raises.
Runs(b, evs) ==
  LET runs[n \in 0..Len(evs)] ==
        IF n = 0 THEN {<<b>>}
        ELSE {Append(bs, Apply(Last(bs), evs[n])) : bs \in {r \in runs[n - 1] : Legal(Last(r), evs[n])}}
  IN  runs[Len(evs)]

Replays(b, evs) == Runs(b, evs) # {}
After(b, evs) == Last(CHOOSE bs \in Runs(b, evs) : TRUE)

Statuses == {"todo", "in_progress", "review", "done"}

\* The shape of a board: a list of tasks, each with its fields.
WellFormed(b) ==
  /\ IsSequence(b.tasks)
  /\ \A i \in 1..Len(b.tasks) :
       LET t == b.tasks[i] IN
       /\ t.status \in Statuses
       /\ t = [id |-> t.id, status |-> t.status, owner |-> t.owner, limits |-> t.limits,
               issue |-> t.issue, hotfix |-> t.hotfix, superseded |-> t.superseded]

\* all_tasks_done (seeds.py): superseded tasks do not count.
AllTasksDone(tasks) ==
  LET active == {i \in DOMAIN tasks : ~tasks[i].superseded}
  IN  active # {} /\ \A i \in active : tasks[i].status = "done"

=============================================================================
