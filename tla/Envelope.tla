------------------------------ MODULE Envelope ------------------------------
(***************************************************************************)
(* What a command does with the events it has read, before it takes the    *)
(* lock: refuse, or build the batch of events it will try to append.       *)
(* Commands of agents go through submission.submit, the administrative     *)
(* ones through _commit_orchestrator_events.  A command that reads the log *)
(* a second time refuses when it has grown (EVENT_SEQ_NON_MONOTONIC), so   *)
(* one read stands for both.                                               *)
(*                                                                         *)
(* A command is a record with its name in the field op.  Schema, contract, *)
(* boundary and identity checks see only the command itself: the commands  *)
(* here are those that pass them, with qa saying whether the reviewer acts *)
(* as qa or orchestrator.  A file's content is the set of patches in it;   *)
(* an edit adds a patch to what it finds, a full update replaces it.       *)
(***************************************************************************)
EXTENDS Projection, TLC

CONSTANT MaxAttempts  \* attempt_limits.max_attempts_per_task

AgentOps == {"claim", "complete", "review", "report"}

\* count_penalizing_rejections: every output.rejected of the task counts.
Rejections(evs, id) ==
  Len(SelectSeq(evs, LAMBDA e : e.kind = "output.rejected" /\ e.task = id))

HotfixOf(issue) == <<"HF", issue>>

Happened(evs, kind, P(_)) == \E i \in DOMAIN evs : evs[i].kind = kind /\ P(evs[i])

\* Mutant of HotfixAllowed: the status of the fixed task is not looked at.
HotfixAllowedAnytime(b, c) ==
  /\ c.issue \in b.open
  /\ c.fixes \in Ids(b.tasks)

\* validate_hotfix_request: the target is the last task of that id, and done.
HotfixAllowed(b, c) ==
  /\ c.issue \in b.open
  /\ c.fixes \in Ids(b.tasks)
  /\ LastTaskOf(b.tasks, c.fixes).status = "done"

HotfixExists(evs, issue) ==
  Happened(evs, "hotfix.create", LAMBDA e : e.task = HotfixOf(issue))

HotfixEvent(issue) == [kind |-> "hotfix.create", task |-> HotfixOf(issue), issue |-> issue]

\* The event a command is about.
MainEvent(b, c) ==
  CASE c.op = "create"   -> [kind |-> "task.create", task |-> c.task, supersedes |-> c.supersedes]
    [] c.op = "amend"    -> [kind |-> "task.amend", task |-> c.task, limits |-> c.limits]
    [] c.op = "limits"   -> [kind |-> "task.limits.set", task |-> c.task, limits |-> c.limits,
                             previous |-> TaskOf(b.tasks, c.task).limits]
    [] c.op = "claim"    -> [kind |-> "claim", task |-> c.task, actor |-> c.actor]
    [] c.op = "complete" -> [kind |-> "complete", task |-> c.task, actor |-> c.actor,
                             issue |-> TaskOf(b.tasks, c.task).issue]
    [] c.op = "review"   -> [kind |-> "review", task |-> c.task, actor |-> c.actor,
                             decision |-> c.decision, qa |-> c.qa]
    [] c.op = "report"   -> [kind |-> "issue.report", issue |-> c.issue]
    [] c.op = "hotfix"   -> HotfixEvent(c.issue)
    [] c.op = "resolve"  -> [kind |-> "issue.resolve", issue |-> c.issue]
    [] c.op = "reject"   -> [kind |-> "output.rejected", task |-> c.task]

\* The file effects of a complete: the content each was computed from (for an
\* edit, what base_sha256 is checked against) and the content it will leave.
Effects(c, files) ==
  [k \in DOMAIN c.writes |->
     LET w == c.writes[k] IN
     [path  |-> w.path,
      base  |-> files[w.path],
      after |-> IF w.edit THEN files[w.path] \cup {w.patch} ELSE {w.patch}]]

Writes(c) == c.op = "complete" /\ c.writes # <<>>

WriteEvents(c, files) ==
  IF Writes(c)
  THEN <<[kind |-> "orchestrator.file.write", task |-> c.task, effects |-> Effects(c, files)]>>
  ELSE <<>>

\* build_hotfix_event on issue.report: None when there is no fixes or the
\* hotfix has already been created.
ReportEvents(evs, c) ==
  IF c.op = "report" /\ c.fixes # None /\ ~HotfixExists(evs, c.issue) THEN <<HotfixEvent(c.issue)>> ELSE <<>>

\* Mutant of ReviewEvents: resolves unless the issue was reported, instead of
\* unless it was resolved.
ReviewEventsUnlessReported(b, evs, c) ==
  IF /\ c.op = "review"
     /\ c.decision = "approve"
     /\ TaskOf(b.tasks, c.task).hotfix
     /\ ~Happened(evs, "issue.report", LAMBDA e : e.issue = TaskOf(b.tasks, c.task).issue)
  THEN <<[kind |-> "issue.resolve", issue |-> TaskOf(b.tasks, c.task).issue]>>
  ELSE <<>>

\* build_issue_resolve_event on review: the approval of a hotfix resolves its
\* issue, unless that issue was ever resolved before.
ReviewEvents(b, evs, c) ==
  IF /\ c.op = "review"
     /\ c.decision = "approve"
     /\ TaskOf(b.tasks, c.task).hotfix
     /\ TaskOf(b.tasks, c.task).issue # None
     /\ ~Happened(evs, "issue.resolve", LAMBDA e : e.issue = TaskOf(b.tasks, c.task).issue)
  THEN <<[kind |-> "issue.resolve", issue |-> TaskOf(b.tasks, c.task).issue]>>
  ELSE <<>>

Candidates(b, evs, c, files) ==
  <<MainEvent(b, c)>> \o WriteEvents(c, files) \o ReportEvents(evs, c) \o ReviewEvents(b, evs, c)

\* Every batch ends with run.end, when it finishes the last task of a run not
\* yet ended, and verify.ok, which certifies the tasks the batch leads to.
Closing(b) ==
  LET ended == AllTasksDone(b.tasks) /\ b.run # "success"
  IN  (IF ended THEN <<[kind |-> "run.end"]>> ELSE <<>>)
        \o <<[kind |-> "verify.ok", certifies |-> b.tasks]>>

Batch(b, evs, c, files) ==
  LET events == Candidates(b, evs, c, files)
  IN  events \o Closing(After(b, events))

\* What a command refuses on what it has read, besides the events that the
\* projector would raise on.
AcceptsAgent(b, evs, c) == Known(b.tasks, c.task) /\ Rejections(evs, c.task) < MaxAttempts
AcceptsCreate(b, c) == c.task \notin Ids(b.tasks)
AcceptsAmend(b, c) == Known(b.tasks, c.task)
AcceptsHotfix(b, evs, c) == HotfixAllowed(b, c) /\ ~HotfixExists(evs, c.issue)

\* set_task_limits: idle says that .roadmap/staging is empty.
AcceptsLimits(b, c, idle) ==
  /\ Known(b.tasks, c.task)
  /\ idle
  /\ c.limits # TaskOf(b.tasks, c.task).limits

\* A report with fixes is also a request for a hotfix.
AcceptsReport(b, c) ==
  c.fixes # None => HotfixAllowed([b EXCEPT !.open = @ \cup {c.issue}], c)

Accepts(b, evs, c, files, idle) ==
  /\ c.op \in AgentOps => AcceptsAgent(b, evs, c)
  /\ c.op = "create" => AcceptsCreate(b, c)
  /\ c.op = "amend"  => AcceptsAmend(b, c)
  /\ c.op = "limits" => AcceptsLimits(b, c, idle)
  /\ c.op = "hotfix" => AcceptsHotfix(b, evs, c)
  /\ c.op = "report" => AcceptsReport(b, c)
  /\ Replays(b, Candidates(b, evs, c, files))

=============================================================================
