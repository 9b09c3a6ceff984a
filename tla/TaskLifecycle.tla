---------------------------- MODULE TaskLifecycle ----------------------------
(***************************************************************************)
(* What the event store promises about tasks: the diagram of               *)
(* state_machine.py, one task at a time, whatever writers, retries and     *)
(* crashes do.                                                             *)
(*                                                                         *)
(*   todo --claim--> in_progress --complete--> review --approve--> done    *)
(*                        ^------request_changes-----|                     *)
(***************************************************************************)
EXTENDS Naturals, Sequences

CONSTANT NoOwner

VARIABLE progress  \* the status and the owner of each task, in order of creation

Fresh == [status |-> "todo", owner |-> NoOwner]

Admit == progress' = Append(progress, Fresh)

\* Task i goes from one status to another; everything else stays.
Move(i, from, to) ==
  /\ progress[i].status = from
  /\ progress'[i].status = to
  /\ DOMAIN progress' = DOMAIN progress
  /\ \A j \in DOMAIN progress \ {i} : progress'[j] = progress[j]

\* A task has no owner until it is claimed, and that owner for ever after.
Claim(i) ==
  /\ Move(i, "todo", "in_progress")
  /\ progress[i].owner = NoOwner

Keep(i) == progress'[i].owner = progress[i].owner

Complete(i)       == Move(i, "in_progress", "review") /\ Keep(i)
Approve(i)        == Move(i, "review", "done")        /\ Keep(i)
RequestChanges(i) == Move(i, "review", "in_progress") /\ Keep(i)

LifecycleNext ==
  \/ Admit
  \/ \E i \in DOMAIN progress : Claim(i) \/ Complete(i) \/ Approve(i) \/ RequestChanges(i)

=============================================================================
