-------------------------- MODULE VerificationGate --------------------------
(***************************************************************************)
(* Evidence for deliveries (verification_candidate.py, _gate.py,           *)
(* _results.py).  An operator configures executable checks; a task may     *)
(* require them.  verification run tests a candidate delivery on a copy of *)
(* the check inputs and records the outcome, bound to everything it        *)
(* depended on; a complete names such a run, and rests on it only if the   *)
(* same binding would be computed again.                                   *)
(***************************************************************************)
EXTENDS Identity

CONSTANTS
  Checked,  \* tasks with executable_checks
  Target    \* the file each task delivers; all of them are inputs of the checks

\* An agent's event; content is what a complete delivers, run the execution_id
\* it names, 0 if none.
Step(act, actor, task, decision, content, run, grant, principal) ==
  [act |-> act, actor |-> actor, task |-> task, decision |-> decision, content |-> content,
   run |-> run, grant |-> grant, principal |-> principal]

Run(run, status, binding) ==
  [act |-> "verification.run", run |-> run, status |-> status, binding |-> binding, grant |-> NoGrant]

Configuration(checks) == [act |-> "verification.configure", checks |-> checks, grant |-> NoGrant]

-----------------------------------------------------------------------------
\* The task's place in its lifecycle (projector.py, for one task).

Moves(evs, task) == {i \in DOMAIN evs : evs[i].act \in {"claim", "complete", "review"} /\ evs[i].task = task}

Status(evs, task) ==
  IF Moves(evs, task) = {} THEN "todo"
  ELSE LET e == evs[CHOOSE i \in Moves(evs, task) : \A j \in Moves(evs, task) : j <= i] IN
       CASE e.act = "complete" -> "review"
         [] e.act = "review" /\ e.decision = "approve" -> "done"
         [] OTHER -> "in_progress"

\* materialize accepts e after evs.
Legal(evs, e) ==
  CASE e.act = "claim"    -> Status(evs, e.task) = "todo"
    [] e.act = "complete" -> Status(evs, e.task) = "in_progress" /\ Claimant(evs, e.task) = e.actor
    [] e.act = "review"   -> Status(evs, e.task) = "review"
    [] OTHER -> TRUE

-----------------------------------------------------------------------------
\* Mutant of Cycle: the claim alone.
CycleOfClaim(evs, task) ==
  LET starts == {i \in Moves(evs, task) : evs[i].act = "claim"}
  IN  IF starts = {} THEN 0 ELSE CHOOSE i \in starts : \A j \in starts : j <= i

\* cycle_id: the last claim or request for changes.
Cycle(evs, task) ==
  LET starts == {i \in Moves(evs, task) : evs[i].act = "claim" \/ (evs[i].act = "review" /\ evs[i].decision = "request_changes")}
  IN  IF starts = {} THEN 0 ELSE CHOOSE i \in starts : \A j \in starts : j <= i

\* current_config: the place of the last configuration, 0 if there is none.
ConfigAt(evs) ==
  LET confs == Doing(evs, "verification.configure")
  IN  IF confs = {} THEN 0 ELSE CHOOSE i \in confs : \A j \in confs : j <= i

\* prepare_candidate accepts a delivery of the task by the actor.
Preparable(evs, actor, task) ==
  /\ Status(evs, task) = "in_progress"
  /\ Claimant(evs, task) = actor
  /\ ConfigAt(evs) # 0

\* Mutant of Bound: the inputs on disk are left out.
BoundBlindly(evs, actor, task, content, disk) ==
  [task |-> task, actor |-> actor, cycle |-> Cycle(evs, task), config |-> ConfigAt(evs),
   inputs |-> {}, content |-> content, tested |-> [disk EXCEPT ![Target[task]] = content]]

\* The binding prepare_candidate computes.  tested is the copy of the inputs,
\* with the candidate in it, that the checks get to see; it follows from the
\* rest.
Bound(evs, actor, task, content, disk) ==
  [task |-> task, actor |-> actor, cycle |-> Cycle(evs, task), config |-> ConfigAt(evs),
   inputs |-> disk, content |-> content, tested |-> [disk EXCEPT ![Target[task]] = content]]

\* Two bindings have one hash.
SameBinding(a, b) == \A field \in {"task", "actor", "cycle", "config", "inputs", "content"} : a[field] = b[field]

\* validate_evidence for a complete e on top of evs and the files on disk.
Evident(evs, e, disk) ==
  e.act = "complete" /\ e.task \in Checked =>
    /\ Preparable(evs, e.actor, e.task)
    /\ \E i \in Doing(evs, "verification.run") :
         /\ evs[i].run = e.run
         /\ evs[i].status = "passed"
         /\ SameBinding(evs[i].binding, Bound(evs, e.actor, e.task, e.content, disk))

\* validate_pending, under the lock, for an event that is about to be appended.
\* It rebuilds the candidate from the event, whose payload must again be one an
\* agent may send: agent_result.schema.json allows no field for the identity
\* metadata that a signed event carries.
PendingHolds(evs, e, disk) ==
  /\ Evident(evs, e, disk)
  /\ e.act = "complete" /\ e.task \in Checked => e.grant = NoGrant

=============================================================================
