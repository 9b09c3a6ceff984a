---------------------------- MODULE MCScheduler ----------------------------
(* Small instances of Scheduler for TLC. *)
EXTENDS Scheduler

CONSTANTS r1, A, B, C, ann, bob, f, g, d, iss

AnnRuns == [r \in {r1} |-> ann]

\* B comes after A and writes to the directory A's file is in.
Tasks == <<A, B, C>>
BAfterA == A :> {} @@ B :> {A} @@ C :> {}
Files == A :> {f} @@ B :> {d} @@ C :> {g}
FileInDirectory == {<<f, d>>}

Create(id) == [kind |-> "task.create", task |-> id, supersedes |-> {}]

OnlyPlanned == {<<Create(A)>>}

\* bob has claimed and completed A.
AInReview ==
  <<[kind |-> "claim", task |-> A, actor |-> bob], [kind |-> "complete", task |-> A, actor |-> bob, issue |-> None]>>

\* B waits for A, which is to be reviewed; or A is done, so that B and C can be
\* worked on in one wave; or A has been rejected more often than it may be, by hand.
ByHand == Rejected(A, "SCHEMA_INVALID")
Beginnings ==
  {<<Create(A)>> \o AInReview,
   <<Create(A), ByHand, ByHand>>,
   <<Create(A), Create(C)>> \o AInReview
     \o <<[kind |-> "review", task |-> A, actor |-> bob, decision |-> "approve", qa |-> FALSE]>>}

\* Another agent reviews A or claims C, or an administrator rejects an output for A.
Others ==
  {[op |-> "review", task |-> A, actor |-> bob, decision |-> "approve", qa |-> TRUE],
   [op |-> "claim", task |-> C, actor |-> bob],
   [op |-> "reject", task |-> A, code |-> "SCHEMA_INVALID"]}

=============================================================================
