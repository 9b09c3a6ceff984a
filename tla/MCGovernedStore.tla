-------------------------- MODULE MCGovernedStore --------------------------
(* Small instances of GovernedStore for TLC: commands, and the logs that     *)
(* earlier commands have left in the store.                                  *)
EXTENDS GovernedStore

CONSTANTS w1, w2, T1, T2, T3, T4, T5, T6, I1, ann, bob, f, g

Full(path, patch) == [path |-> path, patch |-> patch, edit |-> FALSE]
Edit(path, patch) == [path |-> path, patch |-> patch, edit |-> TRUE]

CreateOf(t) == [op |-> "create", task |-> t, supersedes |-> {}]
Replace(t, old) == [op |-> "create", task |-> t, supersedes |-> {old}]
AmendOf(t, n) == [op |-> "amend", task |-> t, limits |-> n]
LimitsOf(t, n) == [op |-> "limits", task |-> t, limits |-> n]
ClaimOf(t, a) == [op |-> "claim", task |-> t, actor |-> a]
CompleteOf(t, a, writes) == [op |-> "complete", task |-> t, actor |-> a, writes |-> writes]
ReviewOf(t, a, decision, qa) == [op |-> "review", task |-> t, actor |-> a, decision |-> decision, qa |-> qa]
ReportOf(t, i, fixes) == [op |-> "report", task |-> t, issue |-> i, fixes |-> fixes]
FixOf(i, t) == [op |-> "hotfix", issue |-> i, fixes |-> t]
ResolveOf(i) == [op |-> "resolve", issue |-> i]
RejectOf(t) == [op |-> "reject", task |-> t]
ProjectAll == [op |-> "project"]
RecoverAll == [op |-> "recover"]

Created(t) == [kind |-> "task.create", task |-> t, supersedes |-> {}]
Claimed(t, a) == [kind |-> "claim", task |-> t, actor |-> a]
Completed(t, a) == [kind |-> "complete", task |-> t, actor |-> a, issue |-> None]
Approved(t, a) == [kind |-> "review", task |-> t, actor |-> a, decision |-> "approve", qa |-> TRUE]
Reported(i) == [kind |-> "issue.report", issue |-> i]

\* The processes run the same code.
Writers == Permutations({w1, w2})

OneFile == <<f>>
TwoFiles == <<f, g>>
OneView == <<"roadmap">>
TwoViews == <<"roadmap", "issues">>

\* One task in review and one to do; two agents and a reviewer race for them.
RaceSetup == <<Created(T1), Claimed(T1, ann), Completed(T1, ann), Created(T2)>>
RaceCommands ==
  {ClaimOf(T2, ann), ClaimOf(T2, bob), CompleteOf(T2, ann, <<>>), CompleteOf(T1, ann, <<>>),
   ReviewOf(T1, bob, "approve", TRUE), ReviewOf(T1, ann, "request_changes", FALSE),
   AmendOf(T2, 1), RejectOf(T2)}

\* The last task of the run is in review; meanwhile tasks are added.
StrictSetup == <<Created(T3), Claimed(T3, ann), Completed(T3, ann)>>
StrictCommands ==
  {CreateOf(T4), Replace(T4, T3), ReviewOf(T3, bob, "approve", TRUE),
   ReviewOf(T3, bob, "request_changes", TRUE)}

\* Two tasks in progress that deliver to the same files, and an operator who
\* changes the limits of one of them.
EffectsSetup == <<Created(T1), Claimed(T1, ann), Created(T2), Claimed(T2, bob)>>
EffectsCommands ==
  {CompleteOf(T1, ann, <<Full(f, "a"), Full(g, "a")>>), CompleteOf(T2, bob, <<Edit(f, "b")>>),
   LimitsOf(T1, 1)}
RepairCommands == EffectsCommands \cup {ProjectAll, RecoverAll}

\* A finished task, another one, and an open issue; the same later, when a
\* hotfix of the issue is under review.
IssueSetup == <<Created(T5), Claimed(T5, ann), Completed(T5, ann), Approved(T5, bob), Created(T6), Reported(I1)>>
FixedSetup ==
  IssueSetup \o <<HotfixEvent(I1), Claimed(HotfixOf(I1), ann), [Completed(HotfixOf(I1), ann) EXCEPT !.issue = I1]>>
HotfixCommands ==
  {FixOf(I1, T5), FixOf(I1, T6), ReportOf(T5, I1, T5), ResolveOf(I1),
   ReviewOf(HotfixOf(I1), bob, "approve", TRUE)}

RaceSetups == {RaceSetup}
StrictSetups == {StrictSetup}
BatchSetups == {StrictSetup, EffectsSetup, IssueSetup, FixedSetup}
BatchCommands == StrictCommands \cup RepairCommands \cup HotfixCommands

=============================================================================
