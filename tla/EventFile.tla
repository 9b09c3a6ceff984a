------------------------------ MODULE EventFile ------------------------------
(***************************************************************************)
(* The file .roadmap/activity.jsonl as a file, and the owner's trust pin   *)
(* that vouches for it from outside the repository (store.py,              *)
(* trust_root.py, trust_enrollment.py, activity_admin.py, and the parts of *)
(* service_core.py and actor_admin.py that use them).  Commands append     *)
(* under the lock; the first use of a repository, init and activity clear  *)
(* empty the file without it; verify moves the checkpoint of the pin       *)
(* forward with what it read without it.  A process may be killed between  *)
(* any two steps, in the middle of a line too, and while nobody runs a     *)
(* command the file may be damaged: an older copy restored, a line edited. *)
(***************************************************************************)
EXTENDS StoreMutex, Lists, Naturals, Sequences, SequencesExt

CONSTANTS
  Starts,       \* [exists, file, enrolled, pin, rootless] of a repository at the start
  Size,         \* how many events the batch of each operation has
  MaxCommands,  \* bound: commands given
  MaxDeaths     \* bound: processes that die

Resets == {"clear", "init"}
Appends == {"commit", "bootstrap", "anchor"} \cup Resets
Ops == Appends \cup {"verify", "import", "recovery"}

ASSUME SizeAssumption == Size \in [Appends -> Nat \ {0}]
ASSUME FileBoundAssumption == MaxCommands \in Nat /\ MaxDeaths \in Nat

VARIABLES
  exists,    \* the file is there
  file,      \* its lines
  ended,     \* it ends with a newline
  enrolled,  \* the owner's enrollment of this workspace is there
  pin,       \* the owner's record, or NoPin
  recorder,  \* the process that holds the record's lock, or NoHolder
  rootless,  \* processes that run without ESAA_TRUST_ROOT
  pc, job,   \* what each process is doing
  backup,    \* ids of the events in the backups of activity clear
  acked,     \* history: ids of the events whose command has succeeded
  raced,     \* history: the file was emptied, or the checkpoint moved, on the
             \* strength of a reading that was out of date
  damage,    \* history: what has been done to the file by hand
  issued     \* how many commands have been given

fileVars == <<exists, file, ended>>
trustVars == <<enrolled, pin, recorder, rootless>>
pastVars == <<backup, acked, raced, damage, issued>>
vars == <<fileVars, trustVars, pc, job, pastVars, mutexVars>>

-----------------------------------------------------------------------------
\* Lines and histories.

NoId == <<0, 0>>

\* A line of the file.  Its id says which command wrote it and as which event of
\* the batch; the event_id of the code is made of seq.  An event hash is the
\* id together with the fact that nothing in the line has changed (intact); the
\* hash of a chain.anchor is that of the lines it covers.
Line(id, seq, kind, prev, covers) ==
  [id |-> id, seq |-> seq, kind |-> kind, prev |-> prev, covers |-> covers, intact |-> TRUE]

Torn == Line(NoId, 0, "torn", NoId, <<>>)

NoPin == [set |-> FALSE, hist |-> <<>>, boot |-> 0, pending |-> <<>>]
Pin(hist, boot, pending) == [set |-> TRUE, hist |-> hist, boot |-> boot, pending |-> pending]

IsPin(p) ==
  \/ p = NoPin
  \/ p = Pin(p.hist, p.boot, p.pending) /\ IsSequence(p.hist) /\ IsSequence(p.pending)

Of(evs, kind) == {i \in DOMAIN evs : evs[i].kind = kind}
Ids(evs) == {evs[i].id : i \in DOMAIN evs}
Active(evs) == Of(evs, "boot") # {}
LastSeq(evs) == IF evs = <<>> THEN 0 ELSE Last(evs).seq

\* _find_anchor: the place of the last chain.anchor, or 0.
AnchorAt(evs) == IF Of(evs, "anchor") = {} THEN 0 ELSE CHOOSE i \in Of(evs, "anchor") : \A j \in Of(evs, "anchor") : j <= i

\* Mutant of ChainHolds: the lines before the anchor are not looked at.
ChainHoldsAfter(evs) ==
  LET a == AnchorAt(evs) IN
  a # 0 => \A i \in DOMAIN evs : i > a => evs[i].prev = evs[i - 1].id /\ evs[i].intact

ChainHolds(evs) ==
  LET a == AnchorAt(evs) IN
  a # 0 =>
    /\ a = Len(evs[a].covers) + 1
    /\ SubSeq(evs, 1, a - 1) = evs[a].covers
    /\ \A i \in DOMAIN evs : i > a => evs[i].prev = evs[i - 1].id /\ evs[i].intact

\* parse_event_store, up to the chain.
Readable(evs) ==
  /\ Of(evs, "torn") = {}
  /\ \A i \in DOMAIN evs : evs[i].seq = i
  /\ ChainHolds(evs)

\* There is an anchor at most.
OneAnchor(evs) == \A i, j \in Of(evs, "anchor") : i = j

\* None of the lines has been edited, nor what an anchor says of those before it.
Unedited(evs) ==
  \A i \in DOMAIN evs : evs[i].intact /\ \A j \in DOMAIN evs[i].covers : evs[i].covers[j].intact

ASSUME StartAssumption ==
  \A s \in Starts :
    /\ {s.exists, s.enrolled} \subseteq BOOLEAN
    /\ s.rootless \subseteq Procs
    /\ IsSequence(s.file) /\ Readable(s.file) /\ OneAnchor(s.file)
    /\ IsPin(s.pin) /\ (s.pin.set => s.enrolled)
    /\ s.pin.pending # <<>> => IsPrefix(s.pin.hist, s.pin.pending)
    /\ Unedited(s.file) /\ Unedited(s.pin.hist) /\ Unedited(s.pin.pending)

\* The events of evs up to a history's last are that history.
Upholds(evs, hist) ==
  /\ Len(hist) <= LastSeq(evs)
  /\ Len(hist) <= Len(evs)
  /\ \A i \in DOMAIN evs : evs[i].seq <= Len(hist) <=> i <= Len(hist)
  /\ SubSeq(evs, 1, Len(hist)) = hist

\* try_load_record raises.
RecordBlocked(p) == enrolled /\ (p \in rootless \/ ~pin.set)

\* evaluate_trust, and the enrollment that a historical bootstrap requires.
Trusted(p, evs) ==
  /\ ~RecordBlocked(p)
  /\ Active(evs) =>
       /\ enrolled
       /\ pin.pending # <<>> => Upholds(evs, pin.pending)
       /\ pin.boot # 0 => pin.boot \in Of(evs, "boot")
  /\ ~Active(evs) => pin.boot = 0 /\ pin.pending = <<>>
  /\ pin.set => Upholds(evs, pin.hist)

Parses(p, evs) == Readable(evs) /\ Trusted(p, evs)

-----------------------------------------------------------------------------
\* A command, the n-th one given: what it has read and is going to append.
Job(op, n, seen, batch) == [op |-> op, n |-> n, seen |-> seen, batch |-> batch, step |-> 0]
NoJob == Job("none", 0, <<>>, <<>>)

\* Phases in which a command has decided what to append.
Committing == {"intend", "append", "confirm", "checkpoint", "unlock"}
Phases == Committing \cup {"idle", "create", "plan", "truncate", "startOver", "ready", "locked", "read", "advance", "import", "pin"}

Init ==
  /\ \E s \in Starts :
       /\ exists = s.exists
       /\ file = s.file
       /\ enrolled = s.enrolled
       /\ pin = s.pin
       /\ rootless = s.rootless
       /\ acked = Ids(s.file)
  /\ ended = TRUE
  /\ recorder = NoHolder
  /\ pc = [p \in Procs |-> "idle"]
  /\ job = [p \in Procs |-> NoJob]
  /\ backup = {}
  /\ raced = FALSE
  /\ damage = "none"
  /\ issued = 0
  /\ MutexInit

At(p, phase) == p \notin dead /\ pc[p] = phase
Goto(p, phase) == pc' = [pc EXCEPT ![p] = phase]

\* The command returns or raises.
Finish(p) ==
  /\ Goto(p, "idle")
  /\ job' = [job EXCEPT ![p] = NoJob]

FinishAnd(p, release) ==
  /\ Finish(p)
  /\ IF release THEN Release(p) ELSE UNCHANGED mutexVars

\* Where a command goes once the file is there.
First(op) ==
  CASE op = "verify" -> "read"
    [] op = "clear"  -> "plan"
    [] op = "init"   -> "startOver"
    [] op \in {"import", "recovery"} -> "import"
    [] OTHER -> "ready"

-----------------------------------------------------------------------------
\* A command starts; ensure_event_store tests for the file.  init, without
\* --force, is refused when there is anything in it.
Begin(p, op) ==
  /\ At(p, "idle")
  /\ issued < MaxCommands
  /\ op = "init" => file = <<>>
  /\ issued' = issued + 1
  /\ job' = [job EXCEPT ![p] = Job(op, issued + 1, <<>>, <<>>)]
  /\ Goto(p, IF ~exists /\ op \notin {"init", "import", "recovery"} THEN "create" ELSE First(op))
  /\ UNCHANGED <<fileVars, trustVars, backup, acked, raced, damage, mutexVars>>

\* The file is emptied: events that were committed in the meantime are gone,
\* and a command under the lock has numbered its batch for what was there.
Empty(seen) ==
  /\ exists' = TRUE
  /\ file' = <<>>
  /\ ended' = TRUE
  /\ raced' = (raced \/ file # seen \/ (file # <<>> /\ \E q \in Procs \ dead : pc[q] \in Committing))

\* ensure_event_store found no file and writes an empty one.
Create(p) ==
  /\ At(p, "create")
  /\ Empty(<<>>)
  /\ Goto(p, First(job[p].op))
  /\ UNCHANGED <<trustVars, job, backup, acked, damage, issued, mutexVars>>

\* plan_activity_clear reads the file, whatever is in it.
Plan(p) ==
  /\ At(p, "plan")
  /\ job' = [job EXCEPT ![p].seen = file]
  /\ Goto(p, "truncate")
  /\ UNCHANGED <<fileVars, trustVars, pastVars, mutexVars>>

\* Mutant of Truncate: no backup.
TruncateUnsaved(p) ==
  /\ At(p, "truncate")
  /\ Empty(job[p].seen)
  /\ job' = [job EXCEPT ![p].seen = <<>>]
  /\ Goto(p, "ready")
  /\ UNCHANGED <<trustVars, backup, acked, damage, issued, mutexVars>>

\* apply_activity_clear writes what was read to the backup, empties the file and
\* calls append_events.
Truncate(p) ==
  /\ At(p, "truncate")
  /\ backup' = backup \cup Ids(job[p].seen)
  /\ Empty(job[p].seen)
  /\ job' = [job EXCEPT ![p].seen = <<>>]
  /\ Goto(p, "ready")
  /\ UNCHANGED <<trustVars, acked, damage, issued, mutexVars>>

\* init empties the file it found empty and calls append_events.
StartOver(p) ==
  /\ At(p, "startOver")
  /\ Empty(<<>>)
  /\ Goto(p, "ready")
  /\ UNCHANGED <<trustVars, job, backup, acked, damage, issued, mutexVars>>

-----------------------------------------------------------------------------
\* append_transactional and append_events.

Lock(p) ==
  /\ At(p, "ready")
  /\ Acquire(p)
  /\ Goto(p, "locked")
  /\ UNCHANGED <<fileVars, trustVars, job, pastVars>>

\* STORE_LOCK_TIMEOUT.
TimeOut(p) ==
  /\ At(p, "ready")
  /\ holder # NoHolder
  /\ Finish(p)
  /\ UNCHANGED <<fileVars, trustVars, pastVars, mutexVars>>

Kind(op, k) ==
  IF k = 1 /\ op \in {"bootstrap", "anchor"} THEN (IF op = "anchor" THEN "anchor" ELSE "boot") ELSE "plain"

\* The events of a batch on top of evs, numbered and chained
\* (_prepare_events_for_append).  Only the reset commands bring numbers of
\* their own, from 1.
Build(op, n, evs) ==
  LET base == IF op \in Resets THEN 0 ELSE Len(evs)
      a == AnchorAt(evs)
      anchor == IF op = "anchor" THEN base + 1 ELSE a
      prev(k) == IF k > 1 THEN <<n, k - 1>> ELSE Last(evs).id IN
  [k \in 1..Size[op] |->
     Line(<<n, k>>, base + k, Kind(op, k),
          IF anchor # 0 /\ base + k > anchor THEN prev(k) ELSE NoId,
          IF Kind(op, k) = "anchor" THEN evs ELSE <<>>)]

\* What the builders of the events refuse: a second bootstrap, one without an
\* enrolled pin, a second anchor.
Buildable(p, op, evs) ==
  /\ op = "bootstrap" => ~Active(evs) /\ enrolled /\ ~RecordBlocked(p)
  /\ op = "anchor" => AnchorAt(evs) = 0

Admissible(p) ==
  /\ Parses(p, file)
  /\ Buildable(p, job[p].op, file)
  /\ Trusted(p, file \o Build(job[p].op, job[p].n, file))

\* Mutant of Validate: a log that the trust pin does not vouch for will do.
ValidateUntrusted(p) ==
  /\ At(p, "locked")
  /\ Readable(file)
  /\ Buildable(p, job[p].op, file)
  /\ job' = [job EXCEPT ![p] = Job(@.op, @.n, file, Build(@.op, @.n, file))]
  /\ Goto(p, IF job[p].op = "bootstrap" THEN "intend" ELSE "append")
  /\ raced' = (raced \/ (job[p].op \in Resets /\ file # <<>>))
  /\ UNCHANGED <<fileVars, trustVars, backup, acked, damage, issued, mutexVars>>

Validate(p) ==
  /\ At(p, "locked")
  /\ Admissible(p)
  /\ job' = [job EXCEPT ![p] = Job(@.op, @.n, file, Build(@.op, @.n, file))]
  /\ Goto(p, IF job[p].op = "bootstrap" THEN "intend" ELSE "append")
  /\ raced' = (raced \/ (job[p].op \in Resets /\ file # <<>>))
  /\ UNCHANGED <<fileVars, trustVars, backup, acked, damage, issued, mutexVars>>

Refuse(p) ==
  /\ At(p, "locked")
  /\ ~Admissible(p)
  /\ FinishAnd(p, TRUE)
  /\ UNCHANGED <<fileVars, trustVars, pastVars>>

Planned(p) == job[p].seen \o job[p].batch

-----------------------------------------------------------------------------
\* prepare_activation: under the record's lock, the planned history is written
\* to the pin before the first line of it reaches the log.
Intend(p) ==
  /\ At(p, "intend")
  /\ recorder = NoHolder
  /\ ~RecordBlocked(p)
  /\ pin.pending \in {<<>>, Planned(p)}
  /\ pin' = [pin EXCEPT !.pending = Planned(p)]
  /\ Goto(p, "append")
  /\ UNCHANGED <<fileVars, enrolled, recorder, rootless, job, pastVars, mutexVars>>

\* The record cannot be read, another activation is pending, or the record's
\* lock is not to be had.
IntendFails(p) ==
  /\ At(p, "intend")
  /\ recorder # NoHolder \/ RecordBlocked(p) \/ pin.pending \notin {<<>>, Planned(p)}
  /\ FinishAnd(p, TRUE)
  /\ UNCHANGED <<fileVars, trustVars, pastVars>>

NextStep(p, phase) ==
  IF job[p].step + 1 < Len(job[p].batch)
  THEN job' = [job EXCEPT ![p].step = @ + 1] /\ UNCHANGED pc
  ELSE job' = [job EXCEPT ![p].step = 0] /\ Goto(p, phase)

\* Mutant of AppendLine: no newline in front of the batch, whatever the file
\* ends with.
AppendLineGlued(p) ==
  /\ At(p, "append")
  /\ file' = IF ended THEN Append(file, job[p].batch[job[p].step + 1]) ELSE Append(Front(file), Torn)
  /\ ended' = TRUE
  /\ NextStep(p, "confirm")
  /\ UNCHANGED <<exists, trustVars, pastVars, mutexVars>>

\* One line of the batch reaches the end of the file.
AppendLine(p) ==
  /\ At(p, "append")
  /\ file' = Append(file, job[p].batch[job[p].step + 1])
  /\ ended' = TRUE
  /\ NextStep(p, "confirm")
  /\ UNCHANGED <<exists, trustVars, pastVars, mutexVars>>

IsAtEnd(batch) == IsSuffix(batch, file)

\* _verify_appended_lines.  append_events ends here.
Confirm(p) ==
  /\ At(p, "confirm")
  /\ IsAtEnd(job[p].batch)
  /\ Goto(p, IF job[p].op \in Resets THEN "unlock" ELSE "checkpoint")
  /\ UNCHANGED <<fileVars, trustVars, job, pastVars, mutexVars>>

\* APPEND_VERIFY_FAILED.
ConfirmFails(p) ==
  /\ At(p, "confirm")
  /\ ~IsAtEnd(job[p].batch)
  /\ FinishAnd(p, TRUE)
  /\ UNCHANGED <<fileVars, trustVars, pastVars>>

\* advance_checkpoint, under the record's lock, for a history evs.
Advances(p, evs) ==
  /\ recorder = NoHolder
  /\ Trusted(p, evs)
  /\ pin.set
  /\ pin' = Pin(evs, IF Active(evs) THEN CHOOSE i \in Of(evs, "boot") : \A j \in Of(evs, "boot") : i <= j ELSE 0, <<>>)

NothingToAdvance(p) == ~RecordBlocked(p) /\ ~pin.set

AdvanceFails(p, evs) == ~NothingToAdvance(p) /\ (recorder # NoHolder \/ ~Trusted(p, evs))

CheckpointLog(p) ==
  /\ At(p, "checkpoint")
  /\ Advances(p, Planned(p)) \/ (NothingToAdvance(p) /\ UNCHANGED pin)
  /\ Goto(p, "unlock")
  /\ UNCHANGED <<fileVars, enrolled, recorder, rootless, job, pastVars, mutexVars>>

\* The command raises, and its events stay.
CheckpointFails(p) ==
  /\ At(p, "checkpoint")
  /\ AdvanceFails(p, Planned(p))
  /\ FinishAnd(p, TRUE)
  /\ UNCHANGED <<fileVars, trustVars, pastVars>>

Unlock(p) ==
  /\ At(p, "unlock")
  /\ acked' = acked \cup Ids(job[p].batch)
  /\ FinishAnd(p, TRUE)
  /\ UNCHANGED <<fileVars, trustVars, backup, raced, damage, issued>>

-----------------------------------------------------------------------------
\* verify.

\* What a reader may find: with a command in the middle of its append, also
\* the beginning of a line.
Seen ==
  {file} \cup (IF \E q \in Procs \ dead : pc[q] = "append" THEN {Append(file, Torn)} ELSE {})

\* verify parses the file; what fails here is reported as `corrupted`.
ReadLog(p) ==
  /\ At(p, "read")
  /\ Parses(p, file)
  /\ job' = [job EXCEPT ![p].seen = file]
  /\ Goto(p, "advance")
  /\ UNCHANGED <<fileVars, trustVars, pastVars, mutexVars>>

ReadFails(p) ==
  /\ At(p, "read")
  /\ \E seen \in Seen : ~Parses(p, seen)
  /\ Finish(p)
  /\ UNCHANGED <<fileVars, trustVars, pastVars, mutexVars>>

\* Mutant of CatchUp: the trust was evaluated when the log was read.
CatchUpUnchecked(p) ==
  /\ At(p, "advance")
  /\ pin.set
  /\ pin' = [pin EXCEPT !.hist = job[p].seen]
  /\ Finish(p)
  /\ UNCHANGED <<fileVars, enrolled, recorder, rootless, pastVars, mutexVars>>

\* catch_up_checkpoint, with the events that were read.
CatchUp(p) ==
  /\ At(p, "advance")
  /\ Advances(p, job[p].seen) \/ (NothingToAdvance(p) /\ UNCHANGED pin)
  /\ raced' = (raced \/ (pin' # pin /\ ~IsPrefix(job[p].seen, file)))
  /\ Finish(p)
  /\ UNCHANGED <<fileVars, enrolled, recorder, rootless, backup, acked, damage, issued, mutexVars>>

CatchUpFails(p) ==
  /\ At(p, "advance")
  /\ AdvanceFails(p, job[p].seen)
  /\ Finish(p)
  /\ UNCHANGED <<fileVars, trustVars, pastVars, mutexVars>>

-----------------------------------------------------------------------------
\* import_trust_pin: the owner imports a fresh pin ("import"), or, to get out
\* of an interrupted activation, one that vouches for the planned history
\* ("recovery").  Pins for a history of the owner's own making are left out.

ImportedHist(op) == IF op = "recovery" THEN pin.pending ELSE <<>>

\* Refused is a pin that is shorter than the one that is there or drops the
\* pending activation; the histories themselves are not compared.
Importable(op) ==
  /\ op = "recovery" => pin.pending # <<>>
  /\ pin.set =>
       /\ Len(pin.hist) <= Len(ImportedHist(op))
       /\ pin.pending # <<>> => ImportedHist(op) = pin.pending

\* Mutant of Enroll: the enrollment is left for later.
EnrollLater(p) ==
  /\ At(p, "import")
  /\ recorder = NoHolder
  /\ p \notin rootless
  /\ Importable(job[p].op)
  /\ recorder' = p
  /\ Goto(p, "pin")
  /\ UNCHANGED <<fileVars, enrolled, pin, rootless, job, pastVars, mutexVars>>

\* Under the record's lock, the enrollment first.
Enroll(p) ==
  /\ At(p, "import")
  /\ recorder = NoHolder
  /\ p \notin rootless
  /\ Importable(job[p].op)
  /\ recorder' = p
  /\ enrolled' = TRUE
  /\ Goto(p, "pin")
  /\ UNCHANGED <<fileVars, pin, rootless, job, pastVars, mutexVars>>

ImportFails(p) ==
  /\ At(p, "import")
  /\ recorder # NoHolder \/ p \in rootless \/ ~Importable(job[p].op)
  /\ Finish(p)
  /\ UNCHANGED <<fileVars, trustVars, pastVars, mutexVars>>

WritePin(p) ==
  /\ At(p, "pin")
  /\ pin' = Pin(ImportedHist(job[p].op), 0, <<>>)
  /\ recorder' = NoHolder
  /\ Finish(p)
  /\ UNCHANGED <<fileVars, enrolled, rootless, pastVars, mutexVars>>

-----------------------------------------------------------------------------
\* A process is killed.  In the middle of an append, any part of the line it
\* was writing may be in the file, the whole of it without the newline too.
Crash(p) ==
  /\ pc[p] # "idle"
  /\ Cardinality(dead) < MaxDeaths
  /\ Die(p)
  /\ \/ UNCHANGED fileVars
     \/ /\ pc[p] = "append"
        /\ \E line \in {Torn, job[p].batch[job[p].step + 1]} : file' = Append(file, line)
        /\ ended' = FALSE
        /\ UNCHANGED exists
  /\ UNCHANGED <<trustVars, pc, job, pastVars>>

LockReclaimed ==
  /\ Reclaim
  /\ UNCHANGED <<fileVars, trustVars, pc, job, pastVars>>

RecordReclaimed ==
  /\ recorder \in dead
  /\ recorder' = NoHolder
  /\ UNCHANGED <<fileVars, enrolled, pin, rootless, pc, job, pastVars, mutexVars>>

\* While nobody runs a command, an older copy of the file is put back.
Restore ==
  /\ damage = "none"
  /\ \A p \in Procs \ dead : pc[p] = "idle"
  /\ \E k \in 0..Len(file) - 1 : file' = SubSeq(file, 1, k)
  /\ ended' = TRUE
  /\ damage' = "restored"
  /\ UNCHANGED <<exists, trustVars, pc, job, backup, acked, raced, issued, mutexVars>>

Edited(line) == [Line(line.id, line.seq, line.kind, line.prev, line.covers) EXCEPT !.intact = FALSE]

\* The same for a line that the chain or the pin vouches for: it is edited.
\* Nothing vouches for the others, nor for the words of an anchor.
Alter ==
  /\ damage = "none"
  /\ \A p \in Procs \ dead : pc[p] = "idle"
  /\ \E i \in DOMAIN file :
       /\ AnchorAt(file) # 0 \/ i <= Len(pin.hist)
       /\ file[i].kind \notin {"anchor", "torn"}
       /\ file' = [file EXCEPT ![i] = Edited(@)]
  /\ damage' = "altered"
  /\ UNCHANGED <<exists, ended, trustVars, pc, job, backup, acked, raced, issued, mutexVars>>

Proceed(p) ==
  \/ Create(p) \/ Plan(p) \/ Truncate(p) \/ StartOver(p)
  \/ Lock(p) \/ TimeOut(p) \/ Validate(p) \/ Refuse(p)
  \/ Intend(p) \/ IntendFails(p)
  \/ AppendLine(p) \/ Confirm(p) \/ ConfirmFails(p)
  \/ CheckpointLog(p) \/ CheckpointFails(p) \/ Unlock(p)
  \/ ReadLog(p) \/ ReadFails(p) \/ CatchUp(p) \/ CatchUpFails(p)
  \/ Enroll(p) \/ ImportFails(p) \/ WritePin(p)

Next ==
  \/ \E p \in Procs, op \in Ops : Begin(p, op)
  \/ \E p \in Procs : Proceed(p) \/ Crash(p)
  \/ LockReclaimed \/ RecordReclaimed
  \/ Restore \/ Alter

Spec == Init /\ [][Next]_vars

-----------------------------------------------------------------------------
TypeOK ==
  /\ MutexTypeOK
  /\ exists \in BOOLEAN /\ ended \in BOOLEAN
  /\ enrolled \in BOOLEAN
  /\ IsPin(pin) /\ (pin.set => enrolled)
  /\ recorder \in Procs \cup {NoHolder}
  /\ rootless \subseteq Procs
  /\ pc \in [Procs -> Phases]
  /\ DOMAIN job = Procs
  /\ raced \in BOOLEAN
  /\ damage \in {"none", "restored", "altered"}
  /\ issued \in 0..MaxCommands

\* Readers find the log whole, whoever was killed and whatever ran at the same
\* time: numbers without a gap, and an unbroken chain.  A kill may tear
\* the last line, which then stays the last; what else can go wrong is damage
\* done by hand, and a reset or a first use that raced with a command.
Whole(evs) == IF ~ended /\ evs # <<>> /\ Last(evs) = Torn THEN Front(evs) ELSE evs

StaysReadable == ~raced /\ damage # "altered" => Readable(Whole(file))

\* No event of a command that succeeded disappears, except into a backup.
AckedKept ==
  ~raced /\ damage # "restored" => acked \subseteq Ids(file) \cup backup

\* The checkpoint outside the repository never vouches for less than it did,
\* nor for something else, whatever is done to the log ("Concurrent checkpoint
\* regression", docs/security/threat-model.en.md).  An activation planned while
\* the pin was moved to an outdated reading is the exception: who recovers it
\* may replace what the pin vouches for.
Vouched == INSTANCE Checkpoint WITH
  vouched <- pin.hist,
  recovering <- raced /\ \E p \in Procs \ dead : pc[p] = "pin"

CheckpointOnlyExtends == Vouched!CheckpointSpec

Comparable(s, t) == IsPrefix(s, t) \/ IsPrefix(t, s)

\* What the pin vouches for, or what an activation has bound itself to, is not
\* built over: a log that was put back to an older copy, or lacks the planned
\* events of an interrupted activation, gets no further event.
AppendsHonourPin ==
  [][\A p \in Procs : AppendLine(p) /\ ~raced =>
       Comparable(file', pin.hist) /\ Comparable(file', pin.pending)]_vars

\* No event is appended to a log one of whose protected lines was edited.
AlteredNotBuiltOn ==
  [][\A p \in Procs : AppendLine(p) => \A i \in DOMAIN file : file[i].intact]_vars

-----------------------------------------------------------------------------
\* What the documents say and the code does not do.

\* "`corrupted` means invalid history" (docs/guides/esaa-cli-reference.en.md):
\* when verify says so because of the checkpoint, the log is not one that can
\* be read and trusted.
CorruptedMeansInvalid ==
  [][\A p \in Procs : CatchUpFails(p) /\ recorder = NoHolder => ~Parses(p, file)]_vars

=============================================================================
