--------------------------- MODULE EventFileProofs ---------------------------
(***************************************************************************)
(* What is proved of EventFile: type correctness, that the checkpoint of   *)
(* the owner's pin is only ever extended, that no event of a command that  *)
(* succeeded gets lost, that readers find the log whole, that what the pin *)
(* vouches for is not built over and that an edited log is not built on.   *)
(* The invariant says what a process in the middle of an operation relies  *)
(* on: what it has read and built are sequences, its operation is one that *)
(* appends, the pin it is about to write is not shorter than the one that  *)
(* is there and nobody else can write one.  The other results strengthen   *)
(* it: Kept for the events, Guarded for the log and the pin.               *)
(***************************************************************************)
EXTENDS EventFile, SequenceLemmas

JobOK(p) ==
  /\ job[p] = [op |-> job[p].op, n |-> job[p].n, seen |-> job[p].seen, batch |-> job[p].batch, step |-> job[p].step]
  /\ IsSequence(job[p].seen) /\ IsSequence(job[p].batch)
  /\ pc[p] \in {"plan", "truncate", "startOver", "ready", "locked"} => job[p].op \in Appends
  /\ pc[p] = "create" => job[p].op \in Appends \cup {"verify"}
  /\ pc[p] = "intend" => enrolled

Jobs ==
  /\ pc \in [Procs -> Phases]
  /\ job = [p \in Procs |-> job[p]]
  /\ \A p \in Procs : JobOK(p)

\* Whoever is about to write a pin holds its lock, and the pin may be written.
Enrolling ==
  \A p \in Procs \ dead : pc[p] = "pin" => recorder = p /\ enrolled /\ Importable(job[p].op)

IInv == TypeOK /\ IsSequence(file) /\ Jobs /\ Enrolling

-----------------------------------------------------------------------------
\* An idle process.
LEMMA NoJobIsSound ==
  /\ NoJob = [op |-> NoJob.op, n |-> NoJob.n, seen |-> NoJob.seen, batch |-> NoJob.batch, step |-> NoJob.step]
  /\ IsSequence(NoJob.seen) /\ IsSequence(NoJob.batch)
  BY EmptySequence DEF NoJob, Job

\* What a pin is.
LEMMA PinParts ==
  ASSUME NEW q, IsPin(q)
  PROVE  /\ q = [set |-> q.set, hist |-> q.hist, boot |-> q.boot, pending |-> q.pending]
         /\ IsSequence(q.hist) /\ IsSequence(q.pending)
         /\ q.set \in BOOLEAN
         /\ ~q.set => q.hist = <<>> /\ q.pending = <<>>
<1>1. CASE q = NoPin
  BY <1>1, EmptySequence DEF NoPin
<1>2. CASE q = Pin(q.hist, q.boot, q.pending) /\ IsSequence(q.hist) /\ IsSequence(q.pending)
  <2>1. q = [set |-> TRUE, hist |-> q.hist, boot |-> q.boot, pending |-> q.pending]
    BY <1>2 DEF Pin
  <2>2. q.set = TRUE
    BY <2>1
  <2> QED BY <1>2, <2>1, <2>2
<1> QED BY <1>1, <1>2 DEF IsPin

LEMMA PinOf ==
  ASSUME NEW hist, NEW boot, NEW pending, IsSequence(hist), IsSequence(pending)
  PROVE  IsPin(Pin(hist, boot, pending)) /\ Pin(hist, boot, pending).set
         /\ Pin(hist, boot, pending).hist = hist /\ Pin(hist, boot, pending).pending = pending
  BY DEF IsPin, Pin

\* What an operation starts with.
LEMMA FirstPhase ==
  ASSUME NEW op \in Ops
  PROVE  /\ First(op) \in Phases \ {"create", "intend", "pin"}
         /\ First(op) \in {"plan", "truncate", "startOver", "ready", "locked"} => op \in Appends
  BY DEF First, Phases, Ops, Appends, Resets, Committing

\* What is appended for an operation.
LEMMA BatchIsSequence ==
  ASSUME NEW op \in Appends, NEW n, NEW evs
  PROVE  IsSequence(Build(op, n, evs)) /\ Len(Build(op, n, evs)) = Size[op]
<1>1. Size[op] \in Nat
  BY SizeAssumption
<1> DEFINE b == Build(op, n, evs)
           S == {b[i] : i \in 1..Size[op]}
<1>2. DOMAIN b = 1..Size[op] /\ b = [i \in 1..Size[op] |-> b[i]]
  BY Zenon DEF Build
<1> HIDE DEF b
<1>3. b \in Seq(S)
  BY <1>1, <1>2
<1>4. Len(b) = Size[op]
  BY <1>1, <1>2, <1>3, LenProperties
<1> QED BY <1>3, <1>4, IsSequenceOf DEF b

-----------------------------------------------------------------------------
LEMMA InitInv == Init => IInv
<1> SUFFICES ASSUME Init PROVE IInv
  OBVIOUS
<1>1. PICK s \in Starts : exists = s.exists /\ file = s.file /\ enrolled = s.enrolled /\ pin = s.pin /\ rootless = s.rootless
  BY DEF Init
<1>2. /\ exists \in BOOLEAN /\ enrolled \in BOOLEAN /\ rootless \subseteq Procs /\ IsSequence(file)
      /\ IsPin(pin) /\ (pin.set => enrolled)
  BY <1>1, StartAssumption
<1>3. Jobs
  <2>1. \A p \in Procs : pc[p] = "idle" /\ job[p] = NoJob
    BY DEF Init
  <2>2. \A p \in Procs : JobOK(p)
    BY <2>1, NoJobIsSound DEF JobOK
  <2> QED BY <2>2 DEF Init, Jobs, Phases
<1>4. Enrolling
  BY DEF Init, Enrolling
<1>5. TypeOK
  <2>1. MutexTypeOK /\ issued \in 0..MaxCommands
    BY FileBoundAssumption DEF Init, MutexInit, MutexTypeOK
  <2>2. pc \in [Procs -> Phases] /\ DOMAIN job = Procs
    BY <1>3 DEF Jobs, Init
  <2> QED BY <1>2, <2>1, <2>2 DEF Init, TypeOK
<1> QED BY <1>2, <1>3, <1>4, <1>5 DEF IInv

-----------------------------------------------------------------------------
\* The job of one process changes, or where it is.
LEMMA OneMoves ==
  ASSUME IInv, NEW p \in Procs, NEW phase \in Phases, NEW j,
         pc' = [pc EXCEPT ![p] = phase], job' = [job EXCEPT ![p] = j], enrolled => enrolled',
         j = [op |-> j.op, n |-> j.n, seen |-> j.seen, batch |-> j.batch, step |-> j.step],
         IsSequence(j.seen), IsSequence(j.batch),
         phase \in {"plan", "truncate", "startOver", "ready", "locked"} => j.op \in Appends,
         phase = "create" => j.op \in Appends \cup {"verify"},
         phase = "intend" => enrolled'
  PROVE  /\ Jobs'
         /\ pc'[p] = phase /\ job'[p] = j
         /\ \A q \in Procs \ {p} : pc'[q] = pc[q] /\ job'[q] = job[q]
<1>1. pc \in [Procs -> Phases] /\ job = [q \in Procs |-> job[q]] /\ \A q \in Procs : JobOK(q)
  BY DEF IInv, Jobs
<1>2. pc' \in [Procs -> Phases] /\ pc'[p] = phase /\ \A q \in Procs \ {p} : pc'[q] = pc[q]
  BY <1>1
<1>3. job' = [q \in Procs |-> IF q = p THEN j ELSE job[q]]
  BY <1>1
<1>4. job' = [q \in Procs |-> job'[q]] /\ job'[p] = j /\ \A q \in Procs \ {p} : job'[q] = job[q]
  BY <1>3
<1>5. JobOK(p)'
  BY <1>2, <1>4 DEF JobOK
<1>6. \A q \in Procs \ {p} : JobOK(q)'
  BY <1>1, <1>2, <1>4 DEF JobOK
<1> QED BY <1>2, <1>4, <1>5, <1>6 DEF Jobs

\* A job stays as it is and goes on.
LEMMA GoesOn ==
  ASSUME IInv, NEW p \in Procs, NEW phase \in Phases, Goto(p, phase), job' = job, enrolled => enrolled',
         phase \in {"plan", "truncate", "startOver", "ready", "locked"} => job[p].op \in Appends,
         phase \notin {"create", "intend"}
  PROVE  /\ Jobs'
         /\ pc'[p] = phase /\ job'[p] = job[p]
         /\ \A q \in Procs \ {p} : pc'[q] = pc[q] /\ job'[q] = job[q]
<1>1. job' = [job EXCEPT ![p] = job[p]] /\ JobOK(p)
  BY DEF IInv, Jobs
<1>2. pc' = [pc EXCEPT ![p] = phase]
  BY DEF Goto
<1> QED BY <1>1, <1>2, OneMoves DEF JobOK

\* A job ends.
LEMMA Finishes ==
  ASSUME IInv, NEW p \in Procs, Finish(p), enrolled => enrolled'
  PROVE  /\ Jobs'
         /\ pc'[p] = "idle" /\ job'[p] = NoJob
         /\ \A q \in Procs \ {p} : pc'[q] = pc[q] /\ job'[q] = job[q]
<1>1. pc' = [pc EXCEPT ![p] = "idle"] /\ job' = [job EXCEPT ![p] = NoJob]
  BY DEF Finish, Goto
<1>2. "idle" \in Phases
  BY DEF Phases
<1> QED BY <1>1, <1>2, NoJobIsSound, OneMoves

\* Nobody else can come to write a pin.
LEMMA EnrollingKept ==
  ASSUME IInv, NEW p \in Procs, UNCHANGED <<enrolled, pin, recorder>>, dead \subseteq dead', pc'[p] # "pin",
         \A q \in Procs \ {p} : pc'[q] = pc[q] /\ job'[q] = job[q]
  PROVE  Enrolling'
<1>1. \A q \in Procs \ {p} : Importable(job[q].op) => Importable(job[q].op)'
  BY DEF Importable, ImportedHist
<1> SUFFICES ASSUME NEW q \in Procs \ dead', pc'[q] = "pin"
             PROVE  recorder' = q /\ enrolled' /\ Importable(job[q].op)'
  BY DEF Enrolling
<1>2. q # p /\ q \in Procs \ dead /\ pc[q] = "pin"
  OBVIOUS
<1>3. recorder = q /\ enrolled /\ Importable(job[q].op)
  BY <1>2 DEF IInv, Enrolling
<1>4. job'[q].op = job[q].op
  BY <1>2
<1> QED BY <1>2, <1>3, <1>4 DEF Importable, ImportedHist

\* While the record's lock is free, nobody is about to write a pin.
LEMMA NobodyEnrolls ==
  ASSUME IInv, recorder = NoHolder
  PROVE  \A p \in Procs \ dead : pc[p] # "pin"
  BY NoHolderAssumption DEF IInv, Enrolling

-----------------------------------------------------------------------------
\* A step of one process that leaves the pin, the enrollment and their lock alone.
LEMMA TrustStays ==
  ASSUME IInv, NEW p \in Procs, UNCHANGED <<enrolled, pin, recorder, rootless>>,
         exists' \in BOOLEAN, ended' \in BOOLEAN, IsSequence(file'),
         raced' \in BOOLEAN, damage' = damage, issued' \in 0..MaxCommands, MutexTypeOK', dead \subseteq dead',
         Jobs', pc'[p] # "pin", \A q \in Procs \ {p} : pc'[q] = pc[q] /\ job'[q] = job[q]
  PROVE  IInv'
<1>1. Enrolling'
  BY EnrollingKept
<1>2. DOMAIN job' = Procs /\ pc' \in [Procs -> Phases]
  BY DEF Jobs
<1>3. IsPin(pin)' /\ (pin.set => enrolled)' /\ recorder' \in Procs \cup {NoHolder} /\ rootless' \subseteq Procs /\ enrolled' \in BOOLEAN
  BY DEF IInv, TypeOK
<1>4. damage' \in {"none", "restored", "altered"}
  BY DEF IInv, TypeOK
<1>5. TypeOK'
  BY <1>2, <1>3, <1>4 DEF TypeOK
<1> QED BY <1>1, <1>5 DEF IInv

\* A step of one process that does nothing but end.
LEMMA EndKeeps ==
  ASSUME IInv, NEW p \in Procs, Finish(p), UNCHANGED <<fileVars, trustVars>>,
         raced' \in BOOLEAN, UNCHANGED <<damage, issued>>, UNCHANGED mutexVars \/ Release(p)
  PROVE  IInv'
<1>1. /\ Jobs' /\ pc'[p] = "idle"
      /\ \A q \in Procs \ {p} : pc'[q] = pc[q] /\ job'[q] = job[q]
  BY Finishes DEF trustVars
<1>2. MutexTypeOK' /\ dead \subseteq dead'
  BY DEF mutexVars, Release, MutexTypeOK, IInv, TypeOK
<1>3. exists' \in BOOLEAN /\ ended' \in BOOLEAN /\ IsSequence(file') /\ issued' \in 0..MaxCommands
  BY DEF fileVars, IInv, TypeOK
<1> QED BY <1>1, <1>2, <1>3, TrustStays DEF trustVars

\* A step of one process that writes the pin under its lock and leaves the file alone.
LEMMA PinWritten ==
  ASSUME IInv, NEW p \in Procs, \A q \in Procs \ dead : pc[q] = "pin" => q = p,
         UNCHANGED <<fileVars, enrolled, rootless, damage, issued, mutexVars>>, raced' \in BOOLEAN,
         recorder' = NoHolder, IsPin(pin'), pin'.set => enrolled,
         Jobs', pc'[p] # "pin", \A q \in Procs \ {p} : pc'[q] = pc[q] /\ job'[q] = job[q]
  PROVE  IInv'
<1>1. Enrolling'
  BY DEF Enrolling, mutexVars
<1>2. DOMAIN job' = Procs /\ pc' \in [Procs -> Phases]
  BY DEF Jobs
<1>3. MutexTypeOK' /\ exists' \in BOOLEAN /\ ended' \in BOOLEAN /\ enrolled' \in BOOLEAN /\ rootless' \subseteq Procs
  BY DEF IInv, TypeOK, MutexTypeOK, fileVars, mutexVars
<1>4. damage' \in {"none", "restored", "altered"} /\ issued' \in 0..MaxCommands /\ recorder' \in Procs \cup {NoHolder}
  BY DEF IInv, TypeOK
<1>5. IsPin(pin)' /\ (pin.set => enrolled)'
  OBVIOUS
<1>6. TypeOK'
  BY <1>2, <1>3, <1>4, <1>5 DEF TypeOK
<1> QED BY <1>1, <1>6 DEF IInv, fileVars

-----------------------------------------------------------------------------
\* A command begins.
LEMMA BeginKeeps ==
  ASSUME IInv, NEW p \in Procs, NEW op \in Ops, Begin(p, op)
  PROVE  IInv'
<1> DEFINE phase == IF ~exists /\ op \notin {"init", "import", "recovery"} THEN "create" ELSE First(op)
           j == Job(op, issued + 1, <<>>, <<>>)
<1>1. j = [op |-> op, n |-> issued + 1, seen |-> <<>>, batch |-> <<>>, step |-> 0]
  BY DEF Job
<1>2. phase \in Phases \ {"intend", "pin"}
  BY FirstPhase DEF Phases
<1>3. phase \in {"plan", "truncate", "startOver", "ready", "locked"} => op \in Appends
  BY FirstPhase
<1>4. phase = "create" => op \in Appends \cup {"verify"}
  BY FirstPhase DEF Ops, Appends, Resets
<1>5. pc' = [pc EXCEPT ![p] = phase] /\ job' = [job EXCEPT ![p] = j] /\ enrolled' = enrolled
  BY DEF Begin, Goto, trustVars
<1> HIDE DEF j, phase
<1>6. /\ j = [op |-> j.op, n |-> j.n, seen |-> j.seen, batch |-> j.batch, step |-> j.step]
      /\ IsSequence(j.seen) /\ IsSequence(j.batch) /\ j.op = op
  BY <1>1, EmptySequence
<1>7. /\ Jobs' /\ pc'[p] = phase
      /\ \A q \in Procs \ {p} : pc'[q] = pc[q] /\ job'[q] = job[q]
  BY <1>2, <1>3, <1>4, <1>5, <1>6, OneMoves
<1>8. /\ UNCHANGED <<enrolled, pin, recorder, rootless>> /\ issued' \in 0..MaxCommands /\ damage' = damage /\ MutexTypeOK'
      /\ exists' \in BOOLEAN /\ ended' \in BOOLEAN /\ IsSequence(file') /\ raced' \in BOOLEAN /\ dead' = dead
  BY FileBoundAssumption DEF Begin, trustVars, fileVars, mutexVars, MutexTypeOK, IInv, TypeOK
<1> QED BY <1>2, <1>7, <1>8, TrustStays

\* The file is emptied by a command that goes on with its job, or with one that
\* has forgotten what it read.
LEMMA EmptyKeeps ==
  ASSUME IInv, NEW p \in Procs, NEW seen, Empty(seen),
         UNCHANGED <<trustVars, damage, issued, mutexVars>>,
         Jobs', pc'[p] # "pin", \A q \in Procs \ {p} : pc'[q] = pc[q] /\ job'[q] = job[q]
  PROVE  IInv'
<1>1. exists' \in BOOLEAN /\ ended' \in BOOLEAN /\ IsSequence(file')
  BY EmptySequence DEF Empty
<1>2. raced' \in BOOLEAN
  <2>1. raced \in BOOLEAN
    BY DEF IInv, TypeOK
  <2> QED BY <2>1 DEF Empty
<1>3. MutexTypeOK' /\ dead' = dead /\ issued' \in 0..MaxCommands
  BY DEF IInv, TypeOK, MutexTypeOK, mutexVars
<1> QED BY <1>1, <1>2, <1>3, TrustStays DEF trustVars

LEMMA ResetKeeps ==
  ASSUME IInv, NEW p \in Procs, Create(p) \/ Truncate(p) \/ StartOver(p)
  PROVE  IInv'
<1>1. JobOK(p) /\ pc \in [Procs -> Phases]
  BY DEF IInv, Jobs
<1>2. CASE Create(p)
  <2>1. job[p].op \in Ops
    BY <1>1, <1>2 DEF JobOK, Create, At, Ops
  <2>2. /\ First(job[p].op) \in Phases \ {"create", "intend", "pin"}
        /\ First(job[p].op) \in {"plan", "truncate", "startOver", "ready", "locked"} => job[p].op \in Appends
    BY <2>1, FirstPhase
  <2>3. Goto(p, First(job[p].op)) /\ job' = job /\ enrolled' = enrolled
    BY <1>2 DEF Create, trustVars
  <2>4. Jobs' /\ pc'[p] # "pin" /\ \A q \in Procs \ {p} : pc'[q] = pc[q] /\ job'[q] = job[q]
    BY <2>2, <2>3, GoesOn
  <2> QED BY <1>2, <2>4, EmptyKeeps DEF Create
<1>3. CASE Truncate(p)
  <2> DEFINE j == [job[p] EXCEPT !.seen = <<>>]
  <2>1. j = [op |-> job[p].op, n |-> job[p].n, seen |-> <<>>, batch |-> job[p].batch, step |-> job[p].step]
    BY <1>1 DEF JobOK
  <2>2. job' = [job EXCEPT ![p] = j] /\ pc' = [pc EXCEPT ![p] = "ready"] /\ enrolled' = enrolled
    BY <1>3 DEF Truncate, Goto, trustVars
  <2>3. job[p].op \in Appends /\ IsSequence(job[p].batch)
    BY <1>1, <1>3 DEF JobOK, Truncate, At
  <2> HIDE DEF j
  <2>4. /\ j = [op |-> j.op, n |-> j.n, seen |-> j.seen, batch |-> j.batch, step |-> j.step]
        /\ IsSequence(j.seen) /\ IsSequence(j.batch) /\ j.op \in Appends
    BY <2>1, <2>3, EmptySequence
  <2>5. "ready" \in Phases
    BY DEF Phases
  <2>6. Jobs' /\ pc'[p] = "ready" /\ \A q \in Procs \ {p} : pc'[q] = pc[q] /\ job'[q] = job[q]
    BY <2>2, <2>4, <2>5, OneMoves
  <2> QED BY <1>3, <2>6, EmptyKeeps DEF Truncate
<1>4. CASE StartOver(p)
  <2>1. job[p].op \in Appends /\ "ready" \in Phases
    BY <1>1, <1>4 DEF JobOK, StartOver, At, Phases
  <2>2. Goto(p, "ready") /\ job' = job /\ enrolled' = enrolled
    BY <1>4 DEF StartOver, trustVars
  <2>3. Jobs' /\ pc'[p] = "ready" /\ \A q \in Procs \ {p} : pc'[q] = pc[q] /\ job'[q] = job[q]
    BY <2>1, <2>2, GoesOn
  <2> QED BY <1>4, <2>3, EmptyKeeps DEF StartOver
<1> QED BY <1>2, <1>3, <1>4

\* The log is read, by clear or by verify.
LEMMA ReadKeeps ==
  ASSUME IInv, NEW p \in Procs, Plan(p) \/ ReadLog(p)
  PROVE  IInv'
<1> DEFINE j == [job[p] EXCEPT !.seen = file]
<1>1. PICK phase \in {"truncate", "advance"} :
        /\ pc' = [pc EXCEPT ![p] = phase] /\ job' = [job EXCEPT ![p] = j]
        /\ phase = "truncate" => pc[p] = "plan"
        /\ UNCHANGED <<fileVars, trustVars, pastVars, mutexVars>>
  BY DEF Plan, ReadLog, Goto, At
<1>2. JobOK(p) /\ IsSequence(file)
  BY DEF IInv, Jobs
<1>3. j = [op |-> job[p].op, n |-> job[p].n, seen |-> file, batch |-> job[p].batch, step |-> job[p].step]
  BY <1>2 DEF JobOK
<1> HIDE DEF j
<1>4. /\ j = [op |-> j.op, n |-> j.n, seen |-> j.seen, batch |-> j.batch, step |-> j.step]
      /\ IsSequence(j.seen) /\ IsSequence(j.batch)
      /\ phase = "truncate" => j.op \in Appends
  BY <1>1, <1>2, <1>3 DEF JobOK
<1>5. phase \in Phases /\ enrolled' = enrolled
  BY <1>1 DEF Phases, trustVars
<1>6. Jobs' /\ pc'[p] = phase /\ \A q \in Procs \ {p} : pc'[q] = pc[q] /\ job'[q] = job[q]
  BY <1>1, <1>4, <1>5, OneMoves
<1>7. /\ UNCHANGED <<enrolled, pin, recorder, rootless>> /\ issued' \in 0..MaxCommands /\ damage' = damage /\ MutexTypeOK'
      /\ exists' \in BOOLEAN /\ ended' \in BOOLEAN /\ IsSequence(file') /\ raced' \in BOOLEAN /\ dead' = dead
  BY <1>1 DEF trustVars, fileVars, pastVars, mutexVars, MutexTypeOK, IInv, TypeOK
<1> QED BY <1>6, <1>7, TrustStays

\* The batch is built.
LEMMA ValidateKeeps ==
  ASSUME IInv, NEW p \in Procs, Validate(p)
  PROVE  IInv'
<1> DEFINE batch == Build(job[p].op, job[p].n, file)
           j == Job(job[p].op, job[p].n, file, batch)
           phase == IF job[p].op = "bootstrap" THEN "intend" ELSE "append"
<1>1. JobOK(p) /\ pc \in [Procs -> Phases] /\ job = [q \in Procs |-> job[q]] /\ IsSequence(file)
  BY DEF IInv, Jobs
<1>2. job[p].op \in Appends
  BY <1>1 DEF JobOK, Validate, At
<1>3. IsSequence(batch)
  BY <1>2, BatchIsSequence
<1>4. /\ pc' = [pc EXCEPT ![p] = phase]
      /\ job' = [job EXCEPT ![p] = j]
      /\ enrolled' = enrolled
      /\ job[p].op = "bootstrap" => enrolled
  BY DEF Validate, Goto, Admissible, Buildable, trustVars
<1> HIDE DEF batch
<1>5. j = [op |-> job[p].op, n |-> job[p].n, seen |-> file, batch |-> batch, step |-> 0]
  BY DEF Job
<1> HIDE DEF j
<1>7. /\ j = [op |-> j.op, n |-> j.n, seen |-> j.seen, batch |-> j.batch, step |-> j.step]
      /\ IsSequence(j.seen) /\ IsSequence(j.batch)
  BY <1>1, <1>3, <1>5
<1>8. phase \in {"intend", "append"} /\ phase \in Phases /\ (phase = "intend" => enrolled')
  BY <1>4 DEF Phases, Committing
<1> HIDE DEF phase
<1>9. Jobs' /\ pc'[p] = phase /\ \A q \in Procs \ {p} : pc'[q] = pc[q] /\ job'[q] = job[q]
  BY <1>4, <1>7, <1>8, OneMoves
<1>10. /\ UNCHANGED <<fileVars, trustVars, damage, issued, mutexVars>>
       /\ raced' = (raced \/ (job[p].op \in Resets /\ file # <<>>))
  BY DEF Validate
<1>11. raced' \in BOOLEAN
  <2>1. raced \in BOOLEAN
    BY DEF IInv, TypeOK
  <2> QED BY <1>10, <2>1
<1>12. /\ UNCHANGED <<enrolled, pin, recorder, rootless>> /\ issued' \in 0..MaxCommands /\ damage' = damage /\ MutexTypeOK'
       /\ exists' \in BOOLEAN /\ ended' \in BOOLEAN /\ IsSequence(file') /\ dead' = dead
  BY <1>10 DEF trustVars, fileVars, mutexVars, MutexTypeOK, IInv, TypeOK
<1> QED BY <1>8, <1>9, <1>11, <1>12, TrustStays

\* A line is appended.
LEMMA AppendKeeps ==
  ASSUME IInv, NEW p \in Procs, AppendLine(p)
  PROVE  IInv'
<1>1. JobOK(p) /\ pc \in [Procs -> Phases] /\ job = [q \in Procs |-> job[q]] /\ IsSequence(file)
  BY DEF IInv, Jobs
<1>2. PICK phase \in {"append", "confirm"} :
        \E step : pc' = [pc EXCEPT ![p] = phase] /\ job' = [job EXCEPT ![p] = [job[p] EXCEPT !.step = step]]
  <2>1. pc[p] = "append"
    BY DEF AppendLine, At
  <2>2. CASE job[p].step + 1 < Len(job[p].batch)
    <3>1. pc' = [pc EXCEPT ![p] = "append"]
      BY <1>1, <2>1, <2>2 DEF AppendLine, NextStep
    <3>2. job' = [job EXCEPT ![p] = [job[p] EXCEPT !.step = job[p].step + 1]]
      BY <1>1, <2>2 DEF AppendLine, NextStep
    <3> QED BY <3>1, <3>2
  <2>3. CASE ~(job[p].step + 1 < Len(job[p].batch))
    BY <2>3 DEF AppendLine, NextStep, Goto
  <2> QED BY <2>2, <2>3
<1>3. PICK step : pc' = [pc EXCEPT ![p] = phase] /\ job' = [job EXCEPT ![p] = [job[p] EXCEPT !.step = step]]
  BY <1>2
<1> DEFINE j == [job[p] EXCEPT !.step = step]
<1>4. j = [op |-> job[p].op, n |-> job[p].n, seen |-> job[p].seen, batch |-> job[p].batch, step |-> step]
  BY <1>1 DEF JobOK
<1>5. job' = [job EXCEPT ![p] = j]
  BY <1>3
<1> HIDE DEF j
<1>6. /\ j = [op |-> j.op, n |-> j.n, seen |-> j.seen, batch |-> j.batch, step |-> j.step]
      /\ IsSequence(j.seen) /\ IsSequence(j.batch)
  BY <1>1, <1>4 DEF JobOK
<1>7. phase \in Phases /\ enrolled' = enrolled
  BY DEF Phases, Committing, AppendLine, trustVars
<1>8. Jobs' /\ pc'[p] = phase /\ \A q \in Procs \ {p} : pc'[q] = pc[q] /\ job'[q] = job[q]
  BY <1>3, <1>5, <1>6, <1>7, OneMoves
<1>9. IsSequence(file')
  BY <1>1, AppendSequence DEF AppendLine
<1>10. /\ UNCHANGED <<enrolled, pin, recorder, rootless>> /\ issued' \in 0..MaxCommands /\ damage' = damage /\ MutexTypeOK'
      /\ exists' \in BOOLEAN /\ ended' \in BOOLEAN /\ raced' \in BOOLEAN /\ dead' = dead
  BY DEF AppendLine, trustVars, pastVars, mutexVars, MutexTypeOK, IInv, TypeOK
<1> QED BY <1>8, <1>9, <1>10, TrustStays

\* A process takes the lock, or finds its lines at the end of the file.
LEMMA LockKeeps ==
  ASSUME IInv, NEW p \in Procs, Lock(p) \/ Confirm(p)
  PROVE  IInv'
<1>1. PICK phase \in {"locked", "unlock", "checkpoint"} :
        /\ Goto(p, phase) /\ job' = job /\ UNCHANGED <<fileVars, trustVars, pastVars>>
        /\ phase = "locked" => pc[p] = "ready"
        /\ Acquire(p) \/ UNCHANGED mutexVars
  BY DEF Lock, Confirm, At
<1>2. JobOK(p) /\ pc \in [Procs -> Phases]
  BY DEF IInv, Jobs
<1>3. phase \in Phases /\ (phase = "locked" => job[p].op \in Appends) /\ enrolled' = enrolled
  BY <1>1, <1>2 DEF JobOK, Phases, Committing, trustVars
<1>4. Jobs' /\ pc'[p] = phase /\ \A q \in Procs \ {p} : pc'[q] = pc[q] /\ job'[q] = job[q]
  BY <1>1, <1>3, GoesOn
<1>5. MutexTypeOK' /\ dead' = dead
  BY <1>1 DEF IInv, TypeOK, MutexTypeOK, Acquire, mutexVars
<1>6. /\ UNCHANGED <<enrolled, pin, recorder, rootless>> /\ issued' \in 0..MaxCommands /\ damage' = damage
      /\ exists' \in BOOLEAN /\ ended' \in BOOLEAN /\ IsSequence(file') /\ raced' \in BOOLEAN
  BY <1>1 DEF trustVars, fileVars, pastVars, IInv, TypeOK
<1> QED BY <1>1, <1>4, <1>5, <1>6, TrustStays

\* The ends that change nothing but the lock.
LEMMA EndsKeep ==
  ASSUME IInv, NEW p \in Procs,
         \/ TimeOut(p) \/ Refuse(p) \/ IntendFails(p) \/ ConfirmFails(p) \/ CheckpointFails(p)
         \/ Unlock(p) \/ ReadFails(p) \/ CatchUpFails(p) \/ ImportFails(p)
  PROVE  IInv'
<1>1. /\ Finish(p) /\ UNCHANGED <<fileVars, trustVars, raced, damage, issued>>
      /\ UNCHANGED mutexVars \/ Release(p)
  <2>1. CASE TimeOut(p) \/ ReadFails(p) \/ CatchUpFails(p) \/ ImportFails(p)
    BY <2>1 DEF TimeOut, ReadFails, CatchUpFails, ImportFails, pastVars
  <2>2. CASE Refuse(p) \/ IntendFails(p) \/ ConfirmFails(p) \/ CheckpointFails(p)
    BY <2>2 DEF Refuse, IntendFails, ConfirmFails, CheckpointFails, FinishAnd, pastVars
  <2>3. CASE Unlock(p)
    BY <2>3 DEF Unlock, FinishAnd
  <2> QED BY <2>1, <2>2, <2>3
<1>2. raced' \in BOOLEAN
  BY <1>1 DEF IInv, TypeOK
<1> QED BY <1>1, <1>2, EndKeeps

-----------------------------------------------------------------------------
\* Prefixes.
LEMMA PrefixOf ==
  ASSUME NEW s, NEW t, IsSequence(s), Len(s) <= Len(t), SubSeq(t, 1, Len(s)) = s
  PROVE  IsPrefix(s, t)
  BY WholeSequence DEF IsPrefix

LEMMA EmptyPrefix ==
  ASSUME NEW t, IsSequence(t)
  PROVE  IsPrefix(<<>>, t)
<1>1. IsSequence(SubSeq(t, 1, 0)) /\ Len(SubSeq(t, 1, 0)) = 0
  BY PrefixSequence DEF IsSequence
<1>2. SubSeq(t, 1, 0) = <<>>
  BY <1>1, EmptySequence, SameSequence
<1>3. 0 <= Len(t)
  BY DEF IsSequence
<1> QED BY <1>2, <1>3, EmptySequence, PrefixOf

\* Advancing the checkpoint extends it, and makes a pin.
LEMMA AdvanceExtends ==
  ASSUME IInv, NEW p \in Procs, NEW evs, IsSequence(evs), Advances(p, evs)
  PROVE  IsPin(pin') /\ enrolled /\ IsPrefix(pin.hist, pin'.hist)
<1>1. IsSequence(pin.hist) /\ enrolled
  BY PinParts DEF IInv, TypeOK, Advances
<1>2. Upholds(evs, pin.hist) /\ \E boot : pin' = Pin(evs, boot, <<>>)
  BY DEF Advances, Trusted
<1>3. IsPin(pin') /\ pin'.hist = evs
  BY <1>2, EmptySequence, PinOf
<1> QED BY <1>1, <1>2, <1>3, PrefixOf DEF Upholds

LEMMA IntendKeeps ==
  ASSUME IInv, NEW p \in Procs, Intend(p)
  PROVE  IInv' /\ pin'.hist = pin.hist
<1>1. JobOK(p) /\ enrolled /\ recorder = NoHolder
  BY DEF IInv, Jobs, JobOK, Intend, At
<1>2. pin.set /\ IsSequence(pin.hist) /\ pin = Pin(pin.hist, pin.boot, pin.pending)
  <2>1. pin.set
    BY <1>1, PinParts DEF Intend, RecordBlocked, IInv, TypeOK
  <2>2. pin # NoPin
    BY <2>1 DEF NoPin
  <2> QED BY <2>1, <2>2 DEF IInv, TypeOK, IsPin
<1>3. IsSequence(Planned(p))
  BY <1>1, ConcatSequences DEF Planned, JobOK
<1>4. pin' = Pin(pin.hist, pin.boot, Planned(p))
  BY <1>2 DEF Intend, Pin
<1>5. IsPin(pin') /\ pin'.hist = pin.hist
  BY <1>2, <1>3, <1>4, PinOf
<1>6. Goto(p, "append") /\ job' = job /\ enrolled' = enrolled /\ "append" \in Phases
  BY DEF Intend, Phases, Committing
<1>7. Jobs' /\ pc'[p] = "append" /\ \A q \in Procs \ {p} : pc'[q] = pc[q] /\ job'[q] = job[q]
  BY <1>6, GoesOn
<1>8. /\ UNCHANGED <<fileVars, enrolled, rootless, damage, issued, mutexVars>> /\ raced' \in BOOLEAN
      /\ recorder' = NoHolder
  BY <1>1 DEF Intend, pastVars, IInv, TypeOK
<1>9. \A q \in Procs \ dead : pc[q] # "pin"
  BY <1>1, NobodyEnrolls
<1>10. IInv'
  BY <1>1, <1>5, <1>7, <1>8, <1>9, PinWritten
<1> QED BY <1>5, <1>10

\* The checkpoint moves with a commit or with verify, or there is nothing to move.
LEMMA CheckpointKeeps ==
  ASSUME IInv, NEW p \in Procs, CheckpointLog(p) \/ CatchUp(p)
  PROVE  IInv' /\ (pin' = pin \/ IsPrefix(pin.hist, pin'.hist))
<1>1. JobOK(p) /\ pc \in [Procs -> Phases]
  BY DEF IInv, Jobs
<1>2. PICK evs :
        /\ IsSequence(evs) /\ (Advances(p, evs) \/ UNCHANGED pin)
        /\ UNCHANGED <<fileVars, enrolled, recorder, rootless, damage, issued, mutexVars>>
        /\ raced' \in BOOLEAN
        /\ Jobs' /\ pc'[p] # "pin" /\ \A q \in Procs \ {p} : pc'[q] = pc[q] /\ job'[q] = job[q]
  <2>1. CASE CheckpointLog(p)
    <3>1. IsSequence(Planned(p))
      BY <1>1, ConcatSequences DEF Planned, JobOK
    <3>2. Goto(p, "unlock") /\ job' = job /\ enrolled' = enrolled /\ "unlock" \in Phases
      BY <2>1 DEF CheckpointLog, Phases, Committing
    <3>3. Jobs' /\ pc'[p] = "unlock" /\ \A q \in Procs \ {p} : pc'[q] = pc[q] /\ job'[q] = job[q]
      BY <3>2, GoesOn
    <3>4. Advances(p, Planned(p)) \/ UNCHANGED pin
      BY <2>1 DEF CheckpointLog
    <3>5. UNCHANGED <<fileVars, enrolled, recorder, rootless, damage, issued, mutexVars>> /\ raced' \in BOOLEAN
      BY <2>1 DEF CheckpointLog, pastVars, IInv, TypeOK
    <3>6. pc'[p] # "pin"
      BY <3>3
    <3> QED BY <3>1, <3>3, <3>4, <3>5, <3>6
  <2>2. CASE CatchUp(p)
    <3>1. IsSequence(job[p].seen)
      BY <1>1 DEF JobOK
    <3>2. Finish(p) /\ enrolled' = enrolled
      BY <2>2 DEF CatchUp
    <3>3. Jobs' /\ pc'[p] = "idle" /\ \A q \in Procs \ {p} : pc'[q] = pc[q] /\ job'[q] = job[q]
      BY <3>2, Finishes
    <3>4. Advances(p, job[p].seen) \/ UNCHANGED pin
      BY <2>2 DEF CatchUp
    <3>5. UNCHANGED <<fileVars, enrolled, recorder, rootless, damage, issued, mutexVars>>
      BY <2>2 DEF CatchUp
    <3>6. raced' \in BOOLEAN
      <4>1. raced \in BOOLEAN
        BY DEF IInv, TypeOK
      <4> QED BY <2>2, <4>1 DEF CatchUp
    <3>7. pc'[p] # "pin"
      BY <3>3
    <3> QED BY <3>1, <3>3, <3>4, <3>5, <3>6, <3>7
  <2> QED BY <2>1, <2>2
<1>3. CASE Advances(p, evs)
  <2>1. IsPin(pin') /\ enrolled /\ IsPrefix(pin.hist, pin'.hist)
    BY <1>2, <1>3, AdvanceExtends
  <2>2. recorder = NoHolder
    BY <1>3 DEF Advances
  <2>3. \A q \in Procs \ dead : pc[q] # "pin"
    BY <2>2, NobodyEnrolls
  <2>4. recorder' = NoHolder
    BY <1>2, <2>2
  <2> QED BY <1>2, <2>1, <2>3, <2>4, PinWritten
<1>4. CASE UNCHANGED pin
  <2>1. /\ exists' \in BOOLEAN /\ ended' \in BOOLEAN /\ IsSequence(file') /\ issued' \in 0..MaxCommands
        /\ MutexTypeOK' /\ dead' = dead
    BY <1>2 DEF fileVars, mutexVars, MutexTypeOK, IInv, TypeOK
  <2> QED BY <1>2, <1>4, <2>1, TrustStays
<1> QED BY <1>2, <1>3, <1>4

\* An import takes the lock of the record, and leaves the pin for the next step.
LEMMA EnrollKeeps ==
  ASSUME IInv, NEW p \in Procs, Enroll(p)
  PROVE  IInv'
<1>1. Goto(p, "pin") /\ job' = job /\ enrolled' = TRUE /\ "pin" \in Phases
  BY DEF Enroll, Phases
<1>2. Jobs' /\ pc'[p] = "pin" /\ \A q \in Procs \ {p} : pc'[q] = pc[q] /\ job'[q] = job[q]
  BY <1>1, GoesOn
<1>3. \A q \in Procs \ dead : pc[q] # "pin"
  BY NobodyEnrolls DEF Enroll
<1>4. Importable(job[p].op)'
  BY <1>1 DEF Enroll, Importable, ImportedHist
<1>5. Enrolling'
  BY <1>1, <1>2, <1>3, <1>4 DEF Enroll, Enrolling, mutexVars
<1>6. DOMAIN job' = Procs /\ pc' \in [Procs -> Phases]
  BY <1>2 DEF Jobs
<1>7. IsPin(pin)' /\ (pin.set => enrolled)' /\ rootless' \subseteq Procs /\ recorder' \in Procs \cup {NoHolder} /\ enrolled' \in BOOLEAN
  BY <1>1 DEF Enroll, IInv, TypeOK
<1>8. /\ MutexTypeOK' /\ exists' \in BOOLEAN /\ ended' \in BOOLEAN /\ raced' \in BOOLEAN
      /\ damage' \in {"none", "restored", "altered"} /\ issued' \in 0..MaxCommands /\ IsSequence(file')
  BY DEF Enroll, fileVars, pastVars, mutexVars, MutexTypeOK, IInv, TypeOK
<1>9. TypeOK'
  BY <1>6, <1>7, <1>8 DEF TypeOK
<1> QED BY <1>2, <1>5, <1>8, <1>9 DEF IInv

\* The owner's pin takes the place of one whose activation it recovers.
Recovers ==
  /\ \E p \in Procs : WritePin(p)
  /\ pin.pending # <<>> /\ pin'.hist = pin.pending
  /\ Len(pin.hist) <= Len(pin'.hist)

Extends == pin'.hist = pin.hist \/ IsPrefix(pin.hist, pin'.hist) \/ Recovers

\* What an import writes extends what is there, or is what was pending.
LEMMA WriteKeeps ==
  ASSUME IInv, NEW p \in Procs, WritePin(p)
  PROVE  IInv' /\ Extends
<1>1. recorder = p /\ enrolled /\ Importable(job[p].op)
  BY DEF IInv, Enrolling, WritePin, At
<1>2. IsSequence(pin.hist) /\ IsSequence(pin.pending) /\ (~pin.set => pin.hist = <<>>) /\ pin.set \in BOOLEAN
  BY PinParts DEF IInv, TypeOK
<1>3. IsSequence(ImportedHist(job[p].op))
  BY <1>2, EmptySequence DEF ImportedHist
<1>4. pin' = Pin(ImportedHist(job[p].op), 0, <<>>)
  BY DEF WritePin
<1>5. IsPin(pin') /\ pin'.hist = ImportedHist(job[p].op)
  BY <1>3, <1>4, EmptySequence, PinOf
<1>6. Extends
  <2>1. CASE job[p].op = "recovery"
    <3>1. pin.pending # <<>> /\ pin'.hist = pin.pending
      BY <1>1, <1>5, <2>1 DEF Importable, ImportedHist
    <3>2. pin.set
      BY <3>1, PinParts DEF IInv, TypeOK
    <3>3. Len(pin.hist) <= Len(pin'.hist)
      BY <1>1, <1>5, <3>2 DEF Importable
    <3> QED BY <3>1, <3>3 DEF Extends, Recovers
  <2>2. CASE job[p].op # "recovery"
    <3>1. ImportedHist(job[p].op) = <<>>
      BY <2>2 DEF ImportedHist
    <3>2. pin.hist = <<>>
      <4>1. CASE ~pin.set
        BY <1>2, <4>1
      <4>2. CASE pin.set
        <5>1. Len(pin.hist) = 0
          BY <1>1, <1>2, <3>1, <4>2, EmptySequence DEF Importable, IsSequence
        <5> QED BY <1>2, <5>1, EmptySequence, SameSequence
      <4> QED BY <4>1, <4>2
    <3> QED BY <1>5, <3>1, <3>2 DEF Extends
  <2> QED BY <2>1, <2>2
<1>7. Finish(p) /\ enrolled' = enrolled
  BY DEF WritePin
<1>8. Jobs' /\ pc'[p] = "idle" /\ \A q \in Procs \ {p} : pc'[q] = pc[q] /\ job'[q] = job[q]
  BY <1>7, Finishes
<1>9. /\ UNCHANGED <<fileVars, enrolled, rootless, damage, issued, mutexVars>> /\ raced' \in BOOLEAN
      /\ recorder' = NoHolder
  BY DEF WritePin, pastVars, IInv, TypeOK
<1>10. \A q \in Procs \ dead : pc[q] = "pin" => q = p
  BY <1>1 DEF IInv, Enrolling
<1>11. pc'[p] # "pin"
  BY <1>8
<1>12. IInv'
  BY <1>1, <1>5, <1>8, <1>9, <1>10, <1>11, PinWritten
<1> QED BY <1>6, <1>12

-----------------------------------------------------------------------------
\* Steps of nobody, and deaths: what processes do stays.
LEMMA JobsStay ==
  ASSUME IInv, UNCHANGED <<pc, job, enrolled, pin, rootless, issued>>,
         dead \subseteq dead', MutexTypeOK', recorder' = recorder \/ recorder \in dead,
         recorder' \in Procs \cup {NoHolder},
         exists' \in BOOLEAN, ended' \in BOOLEAN, IsSequence(file'), raced' \in BOOLEAN,
         damage' \in {"none", "restored", "altered"}
  PROVE  IInv'
<1>1. Jobs'
  BY DEF IInv, Jobs, JobOK
<1>2. Enrolling'
  BY DEF IInv, Enrolling, Importable, ImportedHist
<1>3. TypeOK'
  BY DEF IInv, TypeOK
<1> QED BY <1>1, <1>2, <1>3 DEF IInv

LEMMA AccidentKeeps ==
  ASSUME IInv, (\E p \in Procs : Crash(p)) \/ LockReclaimed \/ RecordReclaimed
  PROVE  IInv' /\ pin' = pin
<1>1. /\ exists \in BOOLEAN /\ ended \in BOOLEAN /\ IsSequence(file) /\ raced \in BOOLEAN
      /\ damage \in {"none", "restored", "altered"} /\ recorder \in Procs \cup {NoHolder}
      /\ holder \in Procs \cup {NoHolder} /\ dead \subseteq Procs
  BY DEF IInv, TypeOK, MutexTypeOK
<1>2. ASSUME NEW p \in Procs, Crash(p)
      PROVE  IInv' /\ pin' = pin
  <2>1. IsSequence(file') /\ exists' = exists /\ ended' \in BOOLEAN
    <3>1. CASE UNCHANGED fileVars
      BY <1>1, <3>1 DEF fileVars
    <3>2. CASE ~UNCHANGED fileVars
      <4>1. PICK line : file' = Append(file, line) /\ ended' = FALSE /\ UNCHANGED exists
        BY <1>2, <3>2 DEF Crash
      <4> QED BY <1>1, <4>1, AppendSequence
    <3> QED BY <3>1, <3>2
  <2>2. /\ UNCHANGED <<pc, job, enrolled, pin, recorder, rootless, issued, raced, damage>>
        /\ dead \subseteq dead' /\ MutexTypeOK'
    BY <1>1, <1>2 DEF Crash, Die, MutexTypeOK, trustVars, pastVars
  <2> QED BY <1>1, <2>1, <2>2, JobsStay
<1>3. CASE LockReclaimed
  <2>1. /\ UNCHANGED <<pc, job, enrolled, pin, recorder, rootless, issued, raced, damage, exists, ended, file>>
        /\ dead' = dead /\ MutexTypeOK'
    BY <1>1, <1>3 DEF LockReclaimed, Reclaim, MutexTypeOK, trustVars, pastVars, fileVars
  <2> QED BY <1>1, <2>1, JobsStay
<1>4. CASE RecordReclaimed
  <2>1. /\ UNCHANGED <<pc, job, enrolled, pin, rootless, issued, raced, damage, exists, ended, file>>
        /\ dead' = dead /\ MutexTypeOK' /\ recorder \in dead /\ recorder' = NoHolder
    BY <1>1, <1>4 DEF RecordReclaimed, mutexVars, MutexTypeOK, pastVars, fileVars
  <2> QED BY <1>1, <2>1, JobsStay
<1> QED BY <1>2, <1>3, <1>4

LEMMA DamageKeeps ==
  ASSUME IInv, Restore \/ Alter
  PROVE  IInv' /\ pin' = pin
<1>1. /\ exists \in BOOLEAN /\ ended \in BOOLEAN /\ IsSequence(file) /\ raced \in BOOLEAN
      /\ recorder \in Procs \cup {NoHolder} /\ MutexTypeOK
  BY DEF IInv, TypeOK
<1>2. IsSequence(file')
  <2>1. CASE Restore
    <3>1. PICK k \in 0..Len(file) - 1 : file' = SubSeq(file, 1, k)
      BY <2>1 DEF Restore
    <3>2. k \in Nat /\ k <= Len(file)
      BY <1>1, <3>1 DEF IsSequence
    <3> QED BY <1>1, <3>1, <3>2, PrefixSequence
  <2>2. CASE Alter
    <3>1. PICK i \in DOMAIN file : file' = [file EXCEPT ![i] = Edited(file[i])]
      BY <2>2 DEF Alter
    <3> QED BY <1>1, <3>1, ExceptSequence
  <2> QED BY <2>1, <2>2
<1>3. /\ UNCHANGED <<pc, job, enrolled, pin, recorder, rootless, issued, raced, exists, mutexVars>>
      /\ ended' \in BOOLEAN /\ damage' \in {"none", "restored", "altered"}
  BY <1>1 DEF Restore, Alter, trustVars
<1>4. MutexTypeOK' /\ dead' = dead
  BY <1>1, <1>3 DEF MutexTypeOK, mutexVars
<1> QED BY <1>1, <1>2, <1>3, <1>4, JobsStay

-----------------------------------------------------------------------------
\* The invariant is one, and no step takes back what the checkpoint vouches
\* for, but for a recovery.
LEMMA StepKeeps ==
  ASSUME IInv, Next
  PROVE  IInv' /\ Extends
<1>1. ASSUME NEW p \in Procs, NEW op \in Ops, Begin(p, op)
      PROVE  IInv' /\ pin' = pin
  BY <1>1, BeginKeeps DEF Begin, trustVars
<1>2. ASSUME NEW p \in Procs, Create(p) \/ Truncate(p) \/ StartOver(p)
      PROVE  IInv' /\ pin' = pin
  BY <1>2, ResetKeeps DEF Create, Truncate, StartOver, trustVars
<1>3. ASSUME NEW p \in Procs, Plan(p) \/ ReadLog(p)
      PROVE  IInv' /\ pin' = pin
  BY <1>3, ReadKeeps DEF Plan, ReadLog, trustVars
<1>4. ASSUME NEW p \in Procs, Validate(p)
      PROVE  IInv' /\ pin' = pin
  BY <1>4, ValidateKeeps DEF Validate, trustVars
<1>5. ASSUME NEW p \in Procs, AppendLine(p)
      PROVE  IInv' /\ pin' = pin
  BY <1>5, AppendKeeps DEF AppendLine, trustVars
<1>6. ASSUME NEW p \in Procs, Lock(p) \/ Confirm(p)
      PROVE  IInv' /\ pin' = pin
  BY <1>6, LockKeeps DEF Lock, Confirm, trustVars
<1>7. ASSUME NEW p \in Procs,
             \/ TimeOut(p) \/ Refuse(p) \/ IntendFails(p) \/ ConfirmFails(p) \/ CheckpointFails(p)
             \/ Unlock(p) \/ ReadFails(p) \/ CatchUpFails(p) \/ ImportFails(p)
      PROVE  IInv' /\ pin' = pin
  <2>1. IInv'
    BY <1>7, EndsKeep
  <2>2. pin' = pin
    BY <1>7 DEF TimeOut, Refuse, IntendFails, ConfirmFails, CheckpointFails, Unlock, ReadFails, CatchUpFails,
                ImportFails, trustVars
  <2> QED BY <2>1, <2>2
<1>8. ASSUME NEW p \in Procs, Enroll(p)
      PROVE  IInv' /\ pin' = pin
  BY <1>8, EnrollKeeps DEF Enroll
<1> QED
  BY <1>1, <1>2, <1>3, <1>4, <1>5, <1>6, <1>7, <1>8, IntendKeeps, CheckpointKeeps, WriteKeeps, AccidentKeeps,
     DamageKeeps, Zenon DEF Next, Proceed, Extends

LEMMA StutterKeeps ==
  ASSUME IInv, UNCHANGED vars
  PROVE  IInv'
  BY DEF vars, fileVars, trustVars, pastVars, mutexVars, IInv, TypeOK, MutexTypeOK, Jobs, JobOK, Enrolling,
         Importable, ImportedHist

LEMMA FileInvariance == Spec => []IInv
<1>1. IInv /\ [Next]_vars => IInv'
  BY StepKeeps, StutterKeeps
<1> QED BY <1>1, InitInv, PTL DEF Spec

\* The state is what TypeOK says: whatever is written to the pin is a pin, of
\* an enrolled workspace.
THEOREM FileTypeCorrect == Spec => []TypeOK
<1>1. IInv => TypeOK
  BY DEF IInv
<1> QED BY <1>1, FileInvariance, PTL

-----------------------------------------------------------------------------
\* Where the events of commands are that have succeeded, or only have to move
\* the checkpoint and give back the lock.
Stored(ids) == ids \subseteq Ids(file) \cup backup

Closing == {"checkpoint", "unlock"}

Kept ==
  ~raced /\ damage # "restored" =>
    /\ Stored(acked)
    /\ \A p \in Procs \ dead : pc[p] \in Closing => Stored(Ids(job[p].batch))

\* The elements of a suffix are elements.
LEMMA SuffixElements ==
  ASSUME NEW s, NEW t, IsSequence(s), IsSequence(t), IsSuffix(s, t), NEW i \in 1..Len(s)
  PROVE  \E j \in 1..Len(t) : t[j] = s[i]
<1>1. Len(s) \in Nat /\ Len(t) \in Nat
  BY DEF IsSequence
<1>2. /\ IsSequence(Reverse(s)) /\ Len(Reverse(s)) = Len(s)
      /\ IsSequence(Reverse(t)) /\ Len(Reverse(t)) = Len(t)
  <2>1. ASSUME NEW u, IsSequence(u)
        PROVE  IsSequence(Reverse(u)) /\ Len(Reverse(u)) = Len(u)
    <3> DEFINE r == Reverse(u)
    <3>1. r \in Seq({r[k] : k \in 1..Len(u)}) /\ DOMAIN r = 1..Len(u) /\ Len(u) \in Nat
      <4>1. DOMAIN r = 1..Len(u) /\ r = [k \in 1..Len(u) |-> r[k]]
        BY Zenon DEF Reverse
      <4>2. Len(u) \in Nat
        BY <2>1 DEF IsSequence
      <4> HIDE DEF r
      <4> QED BY <4>1, <4>2
    <3> HIDE DEF r
    <3>2. Len(r) = Len(u)
      BY <3>1, LenProperties
    <3> QED BY <3>1, <3>2, IsSequenceOf DEF r
  <2> QED BY <2>1
<1>3. Len(s) <= Len(t) /\ SubSeq(Reverse(s), 1, Len(s)) = SubSeq(Reverse(t), 1, Len(s))
  BY <1>2 DEF IsSuffix, IsPrefix
<1> DEFINE k == Len(s) - i + 1
<1>4. k \in 1..Len(s) /\ k \in 1..Len(t) /\ Len(s) - k + 1 = i /\ Len(t) - k + 1 \in 1..Len(t)
  BY <1>1, <1>3
<1>5. Reverse(s)[k] = SubSeq(Reverse(s), 1, Len(s))[k] /\ Reverse(t)[k] = SubSeq(Reverse(t), 1, Len(s))[k]
  BY <1>1, <1>2, <1>3, <1>4, PrefixSequence
<1>6. Reverse(s)[k] = s[Len(s) - k + 1] /\ Reverse(t)[k] = t[Len(t) - k + 1]
  BY <1>4 DEF Reverse
<1> QED BY <1>3, <1>4, <1>5, <1>6

\* Ids stay when a line is appended or edited.
LEMMA AppendIds ==
  ASSUME NEW s, IsSequence(s), NEW x
  PROVE  Ids(s) \subseteq Ids(Append(s, x))
<1>1. /\ IsSequence(Append(s, x)) /\ Len(Append(s, x)) = Len(s) + 1 /\ Len(s) \in Nat
      /\ \A i \in 1..Len(s) : Append(s, x)[i] = s[i]
  BY AppendSequence DEF IsSequence
<1>2. DOMAIN s = 1..Len(s) /\ DOMAIN Append(s, x) = 1..Len(s) + 1
  BY <1>1, DomainOfSequence
<1> QED BY <1>1, <1>2 DEF Ids

LEMMA EditIds ==
  ASSUME NEW s, NEW i \in DOMAIN s
  PROVE  Ids([s EXCEPT ![i] = Edited(s[i])]) = Ids(s)
<1>1. Edited(s[i]).id = s[i].id
  BY DEF Edited, Line
<1> DEFINE t == [s EXCEPT ![i] = Edited(s[i])]
<1>2. DOMAIN t = DOMAIN s /\ \A j \in DOMAIN s : t[j] = IF j = i THEN Edited(s[i]) ELSE s[j]
  BY Zenon
<1>3. \A j \in DOMAIN s : t[j].id = s[j].id
  BY <1>1, <1>2
<1> HIDE DEF t
<1>4. Ids(t) = Ids(s)
  BY <1>2, <1>3 DEF Ids
<1> QED BY <1>4 DEF t

\* A step that takes no event out of file and backup, and after which no more
\* commands are closing, but with events that are stored.
LEMMA MoreStored ==
  ASSUME Kept, ~raced' => ~raced, damage' # "restored" => damage # "restored",
         Ids(file) \cup backup \subseteq Ids(file') \cup backup', acked' = acked, dead \subseteq dead',
         \A p \in Procs \ dead' : pc'[p] \in Closing =>
           \/ pc[p] \in Closing /\ job'[p].batch = job[p].batch
           \/ Stored(Ids(job[p].batch))'
  PROVE  Kept'
<1> SUFFICES ASSUME ~raced', damage' # "restored"
             PROVE  /\ Stored(acked)'
                    /\ \A p \in Procs \ dead' : pc'[p] \in Closing => Stored(Ids(job[p].batch))'
  BY DEF Kept
<1>1. /\ Stored(acked)
      /\ \A p \in Procs \ dead : pc[p] \in Closing => Stored(Ids(job[p].batch))
  BY DEF Kept
<1>2. Stored(acked)'
  BY <1>1 DEF Stored
<1>3. ASSUME NEW p \in Procs \ dead', pc'[p] \in Closing
      PROVE  Stored(Ids(job[p].batch))'
  <2>1. CASE pc[p] \in Closing /\ job'[p].batch = job[p].batch
    <3>1. Stored(Ids(job[p].batch))
      BY <1>1, <2>1
    <3> QED BY <2>1, <3>1 DEF Stored
  <2> QED BY <1>3, <2>1
<1> QED BY <1>2, <1>3

\* The file is emptied.  Without a race nothing was in it that had not been
\* read, and nobody is closing.
LEMMA EmptyStored ==
  ASSUME Kept, NEW seen, Empty(seen), damage' = damage, acked' = acked, dead' = dead,
         Ids(seen) \cup backup \subseteq backup',
         \A p \in Procs : pc'[p] \in Closing => pc[p] \in Closing /\ job'[p].batch = job[p].batch
  PROVE  Kept'
<1> SUFFICES ASSUME ~raced', damage' # "restored"
             PROVE  /\ Stored(acked)'
                    /\ \A p \in Procs \ dead' : pc'[p] \in Closing => Stored(Ids(job[p].batch))'
  BY DEF Kept
<1>1. ~raced /\ file = seen /\ (file = <<>> \/ \A p \in Procs \ dead : pc[p] \notin Committing)
  BY DEF Empty
<1>2. /\ Stored(acked)
      /\ \A p \in Procs \ dead : pc[p] \in Closing => Stored(Ids(job[p].batch))
  BY <1>1 DEF Kept
<1>3. Ids(file) \cup backup \subseteq backup'
  BY <1>1
<1> QED BY <1>2, <1>3 DEF Stored

-----------------------------------------------------------------------------
\* The process that takes the step is not closing after it.
LEMMA NotClosing ==
  ASSUME IInv, NEW p \in Procs, NEW phase, Goto(p, phase), phase \notin Closing,
         \A q \in Procs \ {p} : job'[q] = job[q]
  PROVE  \A q \in Procs : pc'[q] \in Closing => pc[q] \in Closing /\ job'[q].batch = job[q].batch
<1>1. pc \in [Procs -> Phases]
  BY DEF IInv, Jobs
<1> QED BY <1>1 DEF Goto

\* What a job update leaves alone.
LEMMA OtherJobs ==
  ASSUME IInv, NEW p \in Procs, NEW j, job' = [job EXCEPT ![p] = j]
  PROVE  \A q \in Procs \ {p} : job'[q] = job[q]
<1>1. job = [q \in Procs |-> job[q]]
  BY DEF IInv, Jobs
<1> QED BY <1>1

LEMMA FinishesUnclosed ==
  ASSUME IInv, NEW p \in Procs, Finish(p)
  PROVE  \A q \in Procs : pc'[q] \in Closing => pc[q] \in Closing /\ job'[q].batch = job[q].batch
<1>1. Goto(p, "idle") /\ job' = [job EXCEPT ![p] = NoJob] /\ "idle" \notin Closing
  BY DEF Finish, Closing
<1> QED BY <1>1, OtherJobs, NotClosing

LEMMA ResetStored ==
  ASSUME IInv, Kept, NEW p \in Procs, Create(p) \/ Truncate(p) \/ StartOver(p)
  PROVE  Kept'
<1>1. JobOK(p) /\ pc \in [Procs -> Phases]
  BY DEF IInv, Jobs
<1>2. Ids(<<>>) = {}
  BY EmptySequence, DomainOfSequence DEF Ids
<1>3. CASE Create(p)
  <2>1. job[p].op \in Ops
    BY <1>1, <1>3 DEF JobOK, Create, At, Ops
  <2>2. First(job[p].op) \notin Closing
    BY <2>1 DEF First, Closing
  <2>3. \A q \in Procs : pc'[q] \in Closing => pc[q] \in Closing /\ job'[q].batch = job[q].batch
    BY <1>3, <2>2, NotClosing DEF Create
  <2>4. Empty(<<>>) /\ damage' = damage /\ acked' = acked /\ dead' = dead /\ backup' = backup
    BY <1>3 DEF Create, mutexVars
  <2> QED BY <1>2, <2>3, <2>4, EmptyStored
<1>4. CASE Truncate(p)
  <2>1. Goto(p, "ready") /\ "ready" \notin Closing /\ job' = [job EXCEPT ![p] = [job[p] EXCEPT !.seen = <<>>]]
    BY <1>4 DEF Truncate, Closing
  <2>2. \A q \in Procs : pc'[q] \in Closing => pc[q] \in Closing /\ job'[q].batch = job[q].batch
    BY <2>1, OtherJobs, NotClosing
  <2>3. Empty(job[p].seen) /\ damage' = damage /\ acked' = acked /\ dead' = dead /\ backup' = backup \cup Ids(job[p].seen)
    BY <1>4 DEF Truncate, mutexVars
  <2> QED BY <2>2, <2>3, EmptyStored
<1>5. CASE StartOver(p)
  <2>1. Goto(p, "ready") /\ "ready" \notin Closing /\ job' = job
    BY <1>5 DEF StartOver, Closing
  <2>2. \A q \in Procs : pc'[q] \in Closing => pc[q] \in Closing /\ job'[q].batch = job[q].batch
    BY <2>1, NotClosing
  <2>3. Empty(<<>>) /\ damage' = damage /\ acked' = acked /\ dead' = dead /\ backup' = backup
    BY <1>5 DEF StartOver, mutexVars
  <2> QED BY <1>2, <2>2, <2>3, EmptyStored
<1> QED BY <1>3, <1>4, <1>5

\* Steps that leave the file and the acknowledged events alone, and nobody
\* closing who was not.
LEMMA QuietStored ==
  ASSUME IInv, Kept, NEW p \in Procs, UNCHANGED <<fileVars, acked, backup, damage>>, raced => raced', dead' = dead,
         \A q \in Procs : pc'[q] \in Closing => pc[q] \in Closing /\ job'[q].batch = job[q].batch
  PROVE  Kept'
<1>1. Ids(file) \cup backup \subseteq Ids(file') \cup backup' /\ dead \subseteq dead'
  BY DEF fileVars
<1> QED BY <1>1, MoreStored

LEMMA EndStored ==
  ASSUME IInv, Kept, NEW p \in Procs,
         \/ TimeOut(p) \/ Refuse(p) \/ IntendFails(p) \/ ConfirmFails(p) \/ CheckpointFails(p)
         \/ ReadFails(p) \/ CatchUp(p) \/ CatchUpFails(p) \/ ImportFails(p) \/ WritePin(p)
  PROVE  Kept'
<1>1. Finish(p) /\ UNCHANGED <<fileVars, acked, backup, damage>> /\ (raced => raced') /\ dead' = dead
  <2>1. CASE TimeOut(p) \/ ReadFails(p) \/ CatchUpFails(p) \/ ImportFails(p) \/ WritePin(p)
    BY <2>1 DEF TimeOut, ReadFails, CatchUpFails, ImportFails, WritePin, pastVars, mutexVars
  <2>2. CASE Refuse(p) \/ IntendFails(p) \/ ConfirmFails(p) \/ CheckpointFails(p)
    BY <2>2 DEF Refuse, IntendFails, ConfirmFails, CheckpointFails, FinishAnd, Release, pastVars
  <2>3. CASE CatchUp(p)
    <3>1. raced => raced'
      BY <2>3, Zenon DEF CatchUp
    <3> QED BY <2>3, <3>1 DEF CatchUp, mutexVars
  <2> QED BY <2>1, <2>2, <2>3
<1> QED BY <1>1, FinishesUnclosed, QuietStored

\* The other steps before the append.
LEMMA PreparationStored ==
  ASSUME IInv, Kept, NEW p \in Procs,
         \/ \E op \in Ops : Begin(p, op)
         \/ Plan(p) \/ ReadLog(p) \/ Lock(p) \/ Validate(p) \/ Intend(p) \/ Enroll(p)
  PROVE  Kept'
<1>1. PICK phase : Goto(p, phase) /\ phase \notin Closing
  <2>1. CASE \E op \in Ops : Begin(p, op)
    BY <2>1 DEF Begin, First, Ops, Appends, Resets, Closing
  <2>2. CASE Plan(p) \/ ReadLog(p) \/ Lock(p) \/ Validate(p) \/ Intend(p) \/ Enroll(p)
    BY <2>2 DEF Plan, ReadLog, Lock, Validate, Intend, Enroll, Closing
  <2> QED BY <2>1, <2>2
<1>2. (\E j : job' = [job EXCEPT ![p] = j]) \/ job' = job
  BY DEF Begin, Plan, ReadLog, Lock, Validate, Intend, Enroll
<1>3. \A q \in Procs \ {p} : job'[q] = job[q]
  BY <1>2, OtherJobs
<1>4. UNCHANGED <<fileVars, acked, backup, damage>> /\ (raced => raced') /\ dead' = dead
  <2>1. CASE Validate(p)
    <3>1. raced => raced'
      BY <2>1, Zenon DEF Validate
    <3> QED BY <2>1, <3>1 DEF Validate, mutexVars
  <2>2. CASE ~Validate(p)
    BY <2>2 DEF Begin, Plan, ReadLog, Lock, Intend, Enroll, Acquire, pastVars, mutexVars
  <2> QED BY <2>1, <2>2
<1> QED BY <1>1, <1>3, <1>4, NotClosing, QuietStored

\* The steps from the append to the end of a commit.
LEMMA CommitStored ==
  ASSUME IInv, Kept, NEW p \in Procs, AppendLine(p) \/ Confirm(p) \/ CheckpointLog(p)
  PROVE  Kept'
<1>1. JobOK(p) /\ pc \in [Procs -> Phases] /\ job = [q \in Procs |-> job[q]] /\ IsSequence(file)
  BY DEF IInv, Jobs
<1>2. CASE AppendLine(p)
  <2>1. Ids(file) \cup backup \subseteq Ids(file') \cup backup'
    BY <1>1, <1>2, AppendIds DEF AppendLine, pastVars
  <2>2. UNCHANGED <<raced, damage, acked, dead>>
    BY <1>2 DEF AppendLine, pastVars, mutexVars
  <2>3. pc[p] = "append" /\ pc'[p] \in {"append", "confirm"} /\ \A q \in Procs \ {p} : pc'[q] = pc[q]
    BY <1>1, <1>2 DEF AppendLine, At, NextStep, Goto
  <2>4. \A q \in Procs \ {p} : job'[q] = job[q]
    <3>1. \E step : job' = [job EXCEPT ![p] = [job[p] EXCEPT !.step = step]]
      <4>1. CASE job[p].step + 1 < Len(job[p].batch)
        BY <1>2, <4>1 DEF AppendLine, NextStep
      <4>2. CASE ~(job[p].step + 1 < Len(job[p].batch))
        BY <1>2, <4>2 DEF AppendLine, NextStep
      <4> QED BY <4>1, <4>2
    <3> QED BY <3>1, OtherJobs
  <2>5. \A q \in Procs \ dead' : pc'[q] \in Closing => pc[q] \in Closing /\ job'[q].batch = job[q].batch
    BY <2>3, <2>4 DEF Closing
  <2> QED BY <2>1, <2>2, <2>5, MoreStored
<1>3. CASE Confirm(p)
  <2>1. UNCHANGED <<file, backup, raced, damage, acked, dead, job>>
    BY <1>3 DEF Confirm, fileVars, pastVars, mutexVars
  <2>2. \A q \in Procs \ {p} : pc'[q] = pc[q]
    BY <1>1, <1>3 DEF Confirm, Goto
  <2>3. Ids(job[p].batch) \subseteq Ids(file)
    <3>1. IsSequence(job[p].batch) /\ IsSuffix(job[p].batch, file)
      BY <1>1, <1>3 DEF JobOK, Confirm, IsAtEnd
    <3>2. DOMAIN job[p].batch = 1..Len(job[p].batch) /\ DOMAIN file = 1..Len(file)
      BY <1>1, <3>1, DomainOfSequence
    <3>3. \A i \in DOMAIN job[p].batch : \E j \in DOMAIN file : file[j] = job[p].batch[i]
      BY <1>1, <3>1, <3>2, SuffixElements
    <3> QED BY <3>3 DEF Ids
  <2>4. Stored(Ids(job[p].batch))'
    BY <2>1, <2>3 DEF Stored
  <2>5. \A q \in Procs \ dead' : pc'[q] \in Closing =>
          (pc[q] \in Closing /\ job'[q].batch = job[q].batch) \/ Stored(Ids(job[q].batch))'
    BY <2>1, <2>2, <2>4
  <2>6. Ids(file) \cup backup \subseteq Ids(file') \cup backup'
    BY <2>1
  <2> QED BY <2>1, <2>5, <2>6, MoreStored
<1>4. CASE CheckpointLog(p)
  <2>1. UNCHANGED <<fileVars, raced, backup, damage, acked, dead, job>>
    BY <1>4 DEF CheckpointLog, pastVars, mutexVars
  <2>2. pc[p] = "checkpoint" /\ \A q \in Procs \ {p} : pc'[q] = pc[q]
    BY <1>1, <1>4 DEF CheckpointLog, At, Goto
  <2>3. \A q \in Procs : pc'[q] \in Closing => pc[q] \in Closing /\ job'[q].batch = job[q].batch
    BY <2>1, <2>2 DEF Closing
  <2> QED BY <2>1, <2>3, QuietStored
<1> QED BY <1>2, <1>3, <1>4

\* A command succeeds.
LEMMA UnlockStored ==
  ASSUME IInv, Kept, NEW p \in Procs, Unlock(p)
  PROVE  Kept'
<1>1. Finish(p) /\ UNCHANGED <<fileVars, backup, raced, damage, dead>> /\ acked' = acked \cup Ids(job[p].batch)
  BY DEF Unlock, FinishAnd, Release
<1>2. \A q \in Procs : pc'[q] \in Closing => pc[q] \in Closing /\ job'[q].batch = job[q].batch
  BY <1>1, FinishesUnclosed
<1>3. p \in Procs \ dead /\ pc[p] \in Closing
  BY DEF Unlock, At, Closing
<1>4. file' = file
  BY <1>1 DEF fileVars
<1> QED BY <1>1, <1>2, <1>3, <1>4 DEF Kept, Stored

LEMMA AccidentStored ==
  ASSUME IInv, Kept, (\E p \in Procs : Crash(p)) \/ LockReclaimed \/ RecordReclaimed \/ Alter \/ Restore
  PROVE  Kept'
<1>1. CASE \E p \in Procs : Crash(p)
  <2>1. PICK p \in Procs : Crash(p)
    BY <1>1
  <2>2. Ids(file) \subseteq Ids(file')
    <3>1. CASE file' = file
      BY <3>1
    <3>2. CASE file' # file
      <4>1. \E line : file' = Append(file, line)
        BY <2>1, <3>2 DEF Crash, fileVars
      <4> QED BY <4>1, AppendIds DEF IInv
    <3> QED BY <3>1, <3>2
  <2>3. UNCHANGED <<pc, job, backup, acked, raced, damage>> /\ dead \subseteq dead'
    BY <2>1 DEF Crash, Die, pastVars
  <2> QED BY <2>2, <2>3, MoreStored
<1>2. CASE LockReclaimed \/ RecordReclaimed
  <2>1. UNCHANGED <<file, pc, job, backup, acked, raced, damage, dead>>
    BY <1>2 DEF LockReclaimed, RecordReclaimed, Reclaim, fileVars, pastVars, mutexVars
  <2> QED BY <2>1, MoreStored
<1>3. CASE Alter
  <2>1. UNCHANGED <<pc, job, backup, acked, raced, dead>> /\ damage = "none"
    BY <1>3 DEF Alter, mutexVars
  <2>2. PICK i \in DOMAIN file : file' = [file EXCEPT ![i] = Edited(file[i])]
    BY <1>3 DEF Alter
  <2>3. Ids(file') = Ids(file)
    BY <2>2, EditIds
  <2> QED BY <2>1, <2>3, MoreStored
<1>4. CASE Restore
  BY <1>4 DEF Restore, Kept
<1> QED BY <1>1, <1>2, <1>3, <1>4

\* What was acknowledged stays in the log, or in a backup of activity clear, as
\* long as nobody puts an older copy back and no reset runs next to a command.
THEOREM AcknowledgedStay == Spec => []AckedKept
<1>1. Init => Kept
  BY DEF Init, Kept, Stored, Closing
<1>2. IInv /\ Kept /\ [Next]_vars => Kept'
  <2> SUFFICES ASSUME IInv, Kept, [Next]_vars PROVE Kept'
    OBVIOUS
  <2>1. CASE Next
    BY <2>1, ResetStored, EndStored, PreparationStored, CommitStored, UnlockStored, AccidentStored, Zenon
       DEF Next, Proceed
  <2>2. CASE UNCHANGED vars
    BY <2>2 DEF vars, fileVars, pastVars, mutexVars, Kept, Stored
  <2> QED BY <2>1, <2>2
<1>3. Kept => AckedKept
  BY DEF Kept, Stored, AckedKept
<1> QED BY <1>1, <1>2, <1>3, FileInvariance, PTL DEF Spec

-----------------------------------------------------------------------------
(***************************************************************************)
(* That readers find the log whole.  A log is sound if it can be read and  *)
(* has one anchor at most; what is built on a sound log makes a longer one *)
(* that is, and so is whatever part of it a kill leaves.                   *)
(***************************************************************************)
Sound(evs) == IsSequence(evs) /\ Readable(evs) /\ OneAnchor(evs)

\* What the chain asks of an anchor at a.
Covered(evs, a) ==
  /\ a = Len(evs[a].covers) + 1
  /\ SubSeq(evs, 1, a - 1) = evs[a].covers
  /\ \A i \in DOMAIN evs : i > a => evs[i].prev = evs[i - 1].id /\ evs[i].intact

LEMMA AnchorIs ==
  ASSUME NEW evs, IsSequence(evs), OneAnchor(evs)
  PROVE  /\ Of(evs, "anchor") = {} => AnchorAt(evs) = 0
         /\ \A a \in Of(evs, "anchor") : AnchorAt(evs) = a /\ a # 0
<1>1. DOMAIN evs = 1..Len(evs) /\ Len(evs) \in Nat
  BY DomainOfSequence DEF IsSequence
<1>2. ASSUME NEW a \in Of(evs, "anchor")
      PROVE  AnchorAt(evs) = a /\ a # 0
  <2>1. \A j \in Of(evs, "anchor") : j <= a
    BY <1>1, <1>2 DEF OneAnchor, Of
  <2>2. \A i \in Of(evs, "anchor") : i = a
    BY <1>2 DEF OneAnchor
  <2>3. AnchorAt(evs) \in Of(evs, "anchor")
    BY <1>2, <2>1 DEF AnchorAt
  <2>4. a # 0
    BY <1>1, <1>2 DEF Of
  <2> QED BY <2>2, <2>3, <2>4
<1> QED BY <1>2 DEF AnchorAt

LEMMA ChainIs ==
  ASSUME NEW evs, IsSequence(evs), OneAnchor(evs)
  PROVE  ChainHolds(evs) <=> \A a \in Of(evs, "anchor") : Covered(evs, a)
<1>1. CASE Of(evs, "anchor") = {}
  BY <1>1, AnchorIs DEF ChainHolds
<1>2. CASE Of(evs, "anchor") # {}
  <2>1. PICK a \in Of(evs, "anchor") : TRUE
    BY <1>2
  <2>2. AnchorAt(evs) = a /\ a # 0 /\ \A b \in Of(evs, "anchor") : b = a
    BY <2>1, AnchorIs DEF OneAnchor
  <2> QED BY <2>1, <2>2 DEF ChainHolds, Covered
<1> QED BY <1>1, <1>2

\* The beginning of a sound log.
LEMMA PrefixSound ==
  ASSUME NEW evs, Sound(evs), NEW k \in Nat, k <= Len(evs)
  PROVE  Sound(SubSeq(evs, 1, k))
<1> DEFINE t == SubSeq(evs, 1, k)
<1>1. /\ IsSequence(evs) /\ Len(evs) \in Nat /\ DOMAIN evs = 1..Len(evs)
      /\ Of(evs, "torn") = {} /\ (\A i \in DOMAIN evs : evs[i].seq = i) /\ OneAnchor(evs)
      /\ \A a \in Of(evs, "anchor") : Covered(evs, a)
  BY DomainOfSequence, ChainIs DEF Sound, Readable, IsSequence
<1>2. IsSequence(t) /\ Len(t) = k /\ DOMAIN t = 1..k /\ \A i \in 1..k : t[i] = evs[i]
  BY <1>1, PrefixSequence, DomainOfSequence
<1> HIDE DEF t
<1>3. \A kind : Of(t, kind) = Of(evs, kind) \cap (1..k)
  BY <1>1, <1>2 DEF Of
<1>4. OneAnchor(t) /\ Of(t, "torn") = {} /\ \A i \in DOMAIN t : t[i].seq = i
  BY <1>1, <1>2, <1>3 DEF OneAnchor
<1>5. ASSUME NEW a \in Of(t, "anchor")
      PROVE  Covered(t, a)
  <2>1. a \in Of(evs, "anchor") /\ a \in 1..k /\ t[a] = evs[a]
    BY <1>2, <1>3, <1>5
  <2>2. Covered(evs, a)
    BY <1>1, <2>1
  <2>3. SubSeq(t, 1, a - 1) = SubSeq(evs, 1, a - 1)
    <3>1. a - 1 \in Nat /\ a - 1 <= k /\ a - 1 <= Len(evs)
      BY <1>1, <2>1
    <3>2. \A i \in 1..a - 1 : SubSeq(t, 1, a - 1)[i] = SubSeq(evs, 1, a - 1)[i]
      BY <1>1, <1>2, <3>1, PrefixSequence
    <3> QED BY <1>1, <1>2, <3>1, <3>2, PrefixSequence, SameSequence
  <2>4. \A i \in DOMAIN t : i > a => t[i].prev = t[i - 1].id /\ t[i].intact
    <3> SUFFICES ASSUME NEW i \in 1..k, i > a PROVE t[i].prev = t[i - 1].id /\ t[i].intact
      BY <1>2
    <3>1. i - 1 \in 1..k /\ i \in DOMAIN evs
      BY <1>1, <2>1
    <3>2. t[i] = evs[i] /\ t[i - 1] = evs[i - 1]
      BY <1>2, <3>1
    <3> QED BY <2>2, <3>1, <3>2 DEF Covered
  <2> QED BY <2>1, <2>2, <2>3, <2>4 DEF Covered
<1>6. ChainHolds(t)
  BY <1>2, <1>4, <1>5, ChainIs
<1> QED BY <1>2, <1>4, <1>6 DEF Sound, Readable, t

\* The lines of a batch.
LEMMA BatchLines ==
  ASSUME NEW op \in Appends, NEW n, NEW evs, IsSequence(evs), op \in Resets => evs = <<>>, NEW k \in 1..Size[op]
  PROVE  LET line == Build(op, n, evs)[k]
             anchor == IF op = "anchor" THEN Len(evs) + 1 ELSE AnchorAt(evs) IN
         /\ line.id = <<n, k>> /\ line.seq = Len(evs) + k /\ line.kind = Kind(op, k) /\ line.intact
         /\ line.kind = "anchor" => line.covers = evs
         /\ anchor # 0 /\ Len(evs) + k > anchor => line.prev = IF k > 1 THEN <<n, k - 1>> ELSE Last(evs).id
<1> DEFINE base == IF op \in Resets THEN 0 ELSE Len(evs)
           anchor == IF op = "anchor" THEN base + 1 ELSE AnchorAt(evs)
           prev(m) == IF m > 1 THEN <<n, m - 1>> ELSE Last(evs).id
<1>1. base = Len(evs)
  BY EmptySequence
<1>2. Build(op, n, evs)[k] =
        Line(<<n, k>>, base + k, Kind(op, k),
             IF anchor # 0 /\ base + k > anchor THEN prev(k) ELSE NoId,
             IF Kind(op, k) = "anchor" THEN evs ELSE <<>>)
  BY Zenon DEF Build
<1> HIDE DEF base
<1> QED BY <1>1, <1>2 DEF Line

\* A batch on top of a sound log.
LEMMA BuildSound ==
  ASSUME NEW evs, Sound(evs), NEW op \in Appends, NEW n,
         op \in Resets => evs = <<>>, op = "anchor" => AnchorAt(evs) = 0
  PROVE  Sound(evs \o Build(op, n, evs))
<1> DEFINE b == Build(op, n, evs)
           t == evs \o b
           N == Len(evs)
           L == Size[op]
<1>1. /\ IsSequence(evs) /\ N \in Nat /\ DOMAIN evs = 1..N
      /\ Of(evs, "torn") = {} /\ (\A i \in DOMAIN evs : evs[i].seq = i) /\ OneAnchor(evs)
      /\ \A a \in Of(evs, "anchor") : Covered(evs, a)
  BY DomainOfSequence, ChainIs DEF Sound, Readable, IsSequence
<1>2. IsSequence(b) /\ Len(b) = L /\ L \in Nat
  BY BatchIsSequence, SizeAssumption
<1>3. /\ IsSequence(t) /\ Len(t) = N + L /\ DOMAIN t = 1..N + L
      /\ \A i \in 1..N : t[i] = evs[i]
      /\ \A k \in 1..L : t[N + k] = b[k]
  <2>1. IsSequence(t) /\ Len(t) = N + L
    BY <1>1, <1>2, ConcatSequences
  <2> QED BY <1>1, <1>2, <2>1, ConcatElements, DomainOfSequence
<1>4. \A k \in 1..L :
        /\ b[k].id = <<n, k>> /\ b[k].seq = N + k /\ b[k].kind = Kind(op, k) /\ b[k].intact
        /\ b[k].kind = "anchor" => b[k].covers = evs
        /\ op = "anchor" /\ k > 1 => b[k].prev = <<n, k - 1>>
        /\ op # "anchor" /\ AnchorAt(evs) # 0 /\ N + k > AnchorAt(evs) =>
             b[k].prev = IF k > 1 THEN <<n, k - 1>> ELSE Last(evs).id
  <2> TAKE k \in 1..L
  <2> HIDE DEF b
  <2>1. LET line == b[k]
            anchor == IF op = "anchor" THEN Len(evs) + 1 ELSE AnchorAt(evs) IN
        /\ line.id = <<n, k>> /\ line.seq = Len(evs) + k /\ line.kind = Kind(op, k) /\ line.intact
        /\ line.kind = "anchor" => line.covers = evs
        /\ anchor # 0 /\ Len(evs) + k > anchor => line.prev = IF k > 1 THEN <<n, k - 1>> ELSE Last(evs).id
    BY <1>1, BatchLines DEF b
  <2>2. op = "anchor" /\ k > 1 => N + 1 # 0 /\ N + k > N + 1
    BY <1>1
  <2> QED BY <2>1, <2>2
<1> HIDE DEF b, t, L
<1>5. \A i \in 1..N + L : i \in 1..N \/ \E k \in 1..L : i = N + k
  <2> TAKE i \in 1..N + L
  <2>1. CASE i <= N
    BY <1>1, <1>2, <2>1
  <2>2. CASE ~(i <= N)
    <3>1. i - N \in 1..L /\ i = N + (i - N)
      BY <1>1, <1>2, <2>2
    <3> QED BY <3>1
  <2> QED BY <2>1, <2>2
<1>6. Of(t, "torn") = {} /\ \A i \in DOMAIN t : t[i].seq = i
  <2> SUFFICES ASSUME NEW i \in 1..N + L PROVE t[i].kind # "torn" /\ t[i].seq = i
    BY <1>3 DEF Of
  <2>1. CASE i \in 1..N
    BY <1>1, <1>3, <2>1 DEF Of
  <2>2. CASE \E k \in 1..L : i = N + k
    <3>1. PICK k \in 1..L : i = N + k
      BY <2>2
    <3>2. t[i] = b[k] /\ b[k].seq = i /\ b[k].kind = Kind(op, k)
      BY <1>3, <1>4, <3>1
    <3>3. Kind(op, k) # "torn"
      BY DEF Kind
    <3> QED BY <3>2, <3>3
  <2> QED BY <1>5, <2>1, <2>2
<1>7. \A a \in Of(t, "anchor") :
        \/ a \in Of(evs, "anchor") /\ op # "anchor"
        \/ a = N + 1 /\ op = "anchor" /\ Of(evs, "anchor") = {} /\ t[a] = b[1] /\ 1 \in 1..L
  <2> TAKE a \in Of(t, "anchor")
  <2>1. op = "anchor" => Of(evs, "anchor") = {}
    BY <1>1, AnchorIs
  <2>2. a \in 1..N + L /\ t[a].kind = "anchor"
    BY <1>3 DEF Of
  <2>3. CASE a \in 1..N
    BY <1>1, <1>3, <2>1, <2>2, <2>3 DEF Of
  <2>4. CASE \E k \in 1..L : a = N + k
    <3>1. PICK k \in 1..L : a = N + k
      BY <2>4
    <3>2. Kind(op, k) = "anchor"
      BY <1>3, <1>4, <2>2, <3>1
    <3>3. k = 1 /\ op = "anchor"
      BY <3>2 DEF Kind
    <3> QED BY <1>3, <2>1, <3>1, <3>3
  <2> QED BY <1>5, <2>2, <2>3, <2>4
<1>8. OneAnchor(t)
  BY <1>1, <1>7 DEF OneAnchor
<1>9. ASSUME NEW a \in Of(t, "anchor")
      PROVE  Covered(t, a)
  <2>1. CASE a \in Of(evs, "anchor") /\ op # "anchor"
    <3>1. Covered(evs, a) /\ AnchorAt(evs) = a /\ a # 0 /\ a \in 1..N /\ t[a] = evs[a]
      BY <1>1, <1>3, <2>1, AnchorIs DEF Of
    <3>2. SubSeq(t, 1, a - 1) = SubSeq(evs, 1, a - 1)
      <4>1. a - 1 \in Nat /\ a - 1 <= N /\ a - 1 <= N + L
        BY <1>1, <1>2, <3>1
      <4>2. \A i \in 1..a - 1 : SubSeq(t, 1, a - 1)[i] = SubSeq(evs, 1, a - 1)[i]
        BY <1>1, <1>3, <4>1, PrefixSequence
      <4> QED BY <1>1, <1>3, <4>1, <4>2, PrefixSequence, SameSequence
    <3>3. \A i \in 1..N : i > a => t[i].prev = t[i - 1].id /\ t[i].intact
      <4> SUFFICES ASSUME NEW i \in 1..N, i > a PROVE t[i].prev = t[i - 1].id /\ t[i].intact
        OBVIOUS
      <4>1. i - 1 \in 1..N /\ t[i] = evs[i] /\ t[i - 1] = evs[i - 1]
        BY <1>1, <1>3, <3>1
      <4> QED BY <1>1, <3>1, <4>1 DEF Covered
    <3>4. \A k \in 1..L : t[N + k].prev = t[N + k - 1].id /\ t[N + k].intact
      <4> SUFFICES ASSUME NEW k \in 1..L PROVE t[N + k].prev = t[N + k - 1].id /\ t[N + k].intact
        OBVIOUS
      <4>1. t[N + k] = b[k] /\ b[k].intact /\ b[k].prev = IF k > 1 THEN <<n, k - 1>> ELSE Last(evs).id
        BY <1>1, <1>2, <1>3, <1>4, <2>1, <3>1
      <4>2. CASE k > 1
        <5>1. k - 1 \in 1..L /\ N + k - 1 = N + (k - 1)
          BY <1>1, <1>2, <4>2
        <5>2. t[N + k - 1] = b[k - 1] /\ b[k - 1].id = <<n, k - 1>>
          BY <1>3, <1>4, <5>1
        <5> QED BY <4>1, <4>2, <5>2
      <4>3. CASE ~(k > 1)
        <5>1. k = 1 /\ N + k - 1 = N /\ N \in 1..N
          BY <1>1, <1>2, <3>1, <4>3
        <5>2. Last(evs) = t[N]
          BY <1>3, <5>1 DEF Last
        <5> QED BY <4>1, <4>3, <5>1, <5>2
      <4> QED BY <4>2, <4>3
    <3>5. \A i \in DOMAIN t : i > a => t[i].prev = t[i - 1].id /\ t[i].intact
      <4> SUFFICES ASSUME NEW i \in 1..N + L, i > a PROVE t[i].prev = t[i - 1].id /\ t[i].intact
        BY <1>3
      <4>1. CASE i \in 1..N
        BY <3>3, <4>1
      <4>2. CASE \E k \in 1..L : i = N + k
        <5>1. PICK k \in 1..L : i = N + k
          BY <4>2
        <5>2. t[N + k].prev = t[N + k - 1].id /\ t[N + k].intact
          BY <3>4
        <5> QED BY <5>1, <5>2
      <4> QED BY <1>5, <4>1, <4>2
    <3>6. a = Len(t[a].covers) + 1 /\ SubSeq(t, 1, a - 1) = t[a].covers
      BY <3>1, <3>2 DEF Covered
    <3> QED BY <3>5, <3>6 DEF Covered
  <2>2. CASE a = N + 1 /\ op = "anchor" /\ Of(evs, "anchor") = {} /\ t[a] = b[1] /\ 1 \in 1..L
    <3>1. t[a].covers = evs
      BY <1>4, <2>2 DEF Kind
    <3>2. SubSeq(t, 1, a - 1) = evs
      <4>1. a - 1 = N /\ N <= N + L
        BY <1>1, <1>2, <2>2
      <4>2. /\ IsSequence(SubSeq(t, 1, N)) /\ Len(SubSeq(t, 1, N)) = N
            /\ \A i \in 1..N : SubSeq(t, 1, N)[i] = t[i]
        BY <1>1, <1>3, <4>1, PrefixSequence
      <4> QED BY <1>1, <1>3, <4>1, <4>2, SameSequence
    <3>3. ASSUME NEW i \in DOMAIN t, i > a
          PROVE  t[i].prev = t[i - 1].id /\ t[i].intact
      <4>1. PICK k \in 1..L : i = N + k
        BY <1>1, <1>3, <1>5, <2>2, <3>3
      <4>2. k > 1 /\ k - 1 \in 1..L /\ i - 1 = N + (k - 1)
        BY <1>1, <1>2, <2>2, <3>3, <4>1
      <4>3. t[i] = b[k] /\ t[i - 1] = b[k - 1]
        BY <1>3, <4>1, <4>2
      <4>4. b[k].intact /\ b[k].prev = <<n, k - 1>>
        BY <1>4, <2>2, <4>2
      <4>5. b[k - 1].id = <<n, k - 1>>
        BY <1>4, <4>2
      <4> QED BY <4>3, <4>4, <4>5
    <3>4. a = Len(t[a].covers) + 1 /\ SubSeq(t, 1, a - 1) = t[a].covers
      BY <2>2, <3>1, <3>2
    <3> QED BY <3>3, <3>4 DEF Covered
  <2> QED BY <1>7, <2>1, <2>2
<1>10. ChainHolds(t)
  BY <1>3, <1>8, <1>9, ChainIs
<1> QED BY <1>3, <1>6, <1>8, <1>10 DEF Sound, Readable, t, b

-----------------------------------------------------------------------------
Appending == {"intend", "append"}

\* Whoever is between the lock and the end of a commit holds the lock; while it
\* appends, there is a line left to append.
WritingOK(p) ==
  /\ pc[p] \in Committing \cup {"locked"} => holder = p
  /\ pc[p] = "intend" => job[p].step = 0
  /\ pc[p] \in Appending => job[p].step \in Nat /\ job[p].step + 1 <= Len(job[p].batch)

Writing == \A p \in Procs \ dead : WritingOK(p)

\* The log is sound but for a torn line at its end; while a process appends,
\* the log is as much of what was planned as it has written.
OnPlan(p) == file = SubSeq(Planned(p), 1, Len(job[p].seen) + job[p].step)

Planning(p) == Sound(Planned(p)) /\ OnPlan(p)

Course ==
  ~raced /\ damage # "altered" =>
    /\ Sound(Whole(file))
    /\ \A p \in Procs \ dead : pc[p] \in Appending => Planning(p)

LEMMA WholeUntorn ==
  ASSUME NEW evs, IsSequence(evs), Of(evs, "torn") = {}
  PROVE  Whole(evs) = evs
<1>1. SUFFICES ASSUME evs # <<>>, Last(evs) = Torn PROVE FALSE
  BY DEF Whole
<1>2. Len(evs) # 0
  BY <1>1, EmptySequence, SameSequence
<1>3. Len(evs) \in DOMAIN evs
  BY <1>2, DomainOfSequence DEF IsSequence
<1>4. evs[Len(evs)].kind = "torn"
  BY <1>1 DEF Last, Torn, Line
<1> QED BY <1>3, <1>4 DEF Of

LEMMA EmptySound == Sound(<<>>)
<1>1. DOMAIN <<>> = {}
  BY EmptySequence, DomainOfSequence
<1>2. \A kind : Of(<<>>, kind) = {}
  BY <1>1 DEF Of
<1> QED BY <1>1, <1>2, EmptySequence DEF Sound, Readable, OneAnchor, ChainHolds, AnchorAt

\* Where a step of one process leads.
LEMMA Moves ==
  ASSUME IInv, NEW p \in Procs, NEW phase, Goto(p, phase)
  PROVE  pc'[p] = phase /\ \A q \in Procs \ {p} : pc'[q] = pc[q]
<1>1. pc \in [Procs -> Phases]
  BY DEF IInv, Jobs
<1> QED BY <1>1 DEF Goto

LEMMA OwnJob ==
  ASSUME IInv, NEW p \in Procs, NEW j, job' = [job EXCEPT ![p] = j]
  PROVE  job'[p] = j
<1>1. job = [q \in Procs |-> job[q]]
  BY DEF IInv, Jobs
<1> QED BY <1>1

\* A live process that writes keeps everybody else from writing.
LEMMA OneWrites ==
  ASSUME Writing, NEW p \in Procs \ dead, holder = p
  PROVE  \A q \in Procs \ dead : q # p => pc[q] \notin Committing \cup {"locked"}
  BY DEF Writing, WritingOK

LEMMA WritingKept ==
  ASSUME IInv, Writing, NEW p \in Procs, dead \subseteq dead',
         \A q \in Procs \ {p} : pc'[q] = pc[q] /\ job'[q] = job[q],
         holder' = holder \/ holder = NoHolder \/ holder = p \/ holder \in dead,
         p \notin dead' => WritingOK(p)'
  PROVE  Writing'
<1> SUFFICES ASSUME NEW q \in Procs \ dead', q # p PROVE WritingOK(q)'
  BY DEF Writing
<1>1. WritingOK(q) /\ pc'[q] = pc[q] /\ job'[q] = job[q]
  BY DEF Writing
<1>2. pc[q] \in Committing \cup {"locked"} => holder' = q
  BY <1>1, NoHolderAssumption DEF WritingOK
<1> QED BY <1>1, <1>2 DEF WritingOK

\* A step of p that leaves the file alone.
LEMMA CourseKept ==
  ASSUME IInv, Course, NEW p \in Procs, dead \subseteq dead', UNCHANGED <<file, ended>>,
         ~raced' => ~raced, damage' # "altered" => damage # "altered",
         \A q \in Procs \ {p} : pc'[q] = pc[q] /\ job'[q] = job[q],
         p \notin dead' /\ pc'[p] \in Appending => pc[p] \in Appending /\ job'[p] = job[p]
  PROVE  Course'
<1> SUFFICES ASSUME ~raced', damage' # "altered"
             PROVE  /\ Sound(Whole(file))'
                    /\ \A q \in Procs \ dead' : pc'[q] \in Appending => Planning(q)'
  BY DEF Course
<1>1. Sound(Whole(file)) /\ \A q \in Procs \ dead : pc[q] \in Appending => Planning(q)
  BY DEF Course
<1>2. Sound(Whole(file))'
  BY <1>1 DEF Whole
<1>3. ASSUME NEW q \in Procs \ dead', pc'[q] \in Appending
      PROVE  Planning(q)'
  <2>1. pc[q] \in Appending /\ job'[q] = job[q]
    BY <1>3
  <2>2. Planning(q)
    BY <1>1, <2>1
  <2> QED BY <2>1, <2>2 DEF Planning, OnPlan, Planned
<1> QED BY <1>2, <1>3

-----------------------------------------------------------------------------
\* The steps after which p is not writing, and that leave the file alone.
LEMMA AsideCourse ==
  ASSUME IInv, Writing, Course, NEW p \in Procs, NEW phase, Goto(p, phase), phase \notin Committing \cup {"locked"},
         \A q \in Procs \ {p} : job'[q] = job[q],
         UNCHANGED <<file, ended, damage>>, raced => raced', UNCHANGED mutexVars \/ Release(p)
  PROVE  Writing' /\ Course'
<1>1. pc'[p] = phase /\ \A q \in Procs \ {p} : pc'[q] = pc[q]
  BY Moves
<1>2. dead' = dead /\ (holder' = holder \/ holder = p)
  BY DEF Release, mutexVars
<1>3. phase \notin Appending
  BY DEF Appending, Committing
<1>4. WritingOK(p)'
  BY <1>1, <1>3 DEF WritingOK, Appending, Committing
<1>5. Writing'
  BY <1>1, <1>2, <1>4, WritingKept
<1>6. Course'
  BY <1>1, <1>2, <1>3, CourseKept
<1> QED BY <1>5, <1>6

LEMMA FinishCourse ==
  ASSUME IInv, Writing, Course, NEW p \in Procs,
         \/ TimeOut(p) \/ Refuse(p) \/ IntendFails(p) \/ ConfirmFails(p) \/ CheckpointFails(p)
         \/ Unlock(p) \/ ReadFails(p) \/ CatchUp(p) \/ CatchUpFails(p) \/ ImportFails(p) \/ WritePin(p)
  PROVE  Writing' /\ Course'
<1>1. Finish(p) /\ UNCHANGED <<file, ended, damage>> /\ (raced => raced') /\ (UNCHANGED mutexVars \/ Release(p))
  <2>1. CASE TimeOut(p) \/ ReadFails(p) \/ CatchUpFails(p) \/ ImportFails(p) \/ WritePin(p)
    BY <2>1 DEF TimeOut, ReadFails, CatchUpFails, ImportFails, WritePin, pastVars, fileVars
  <2>2. CASE Refuse(p) \/ IntendFails(p) \/ ConfirmFails(p) \/ CheckpointFails(p) \/ Unlock(p)
    BY <2>2 DEF Refuse, IntendFails, ConfirmFails, CheckpointFails, Unlock, FinishAnd, pastVars, fileVars
  <2>3. CASE CatchUp(p)
    <3>1. raced => raced'
      BY <2>3, Zenon DEF CatchUp
    <3> QED BY <2>3, <3>1 DEF CatchUp, fileVars
  <2> QED BY <2>1, <2>2, <2>3
<1>2. Goto(p, "idle") /\ "idle" \notin Committing \cup {"locked"} /\ job' = [job EXCEPT ![p] = NoJob]
  BY <1>1 DEF Finish, Committing
<1> QED BY <1>1, <1>2, OtherJobs, AsideCourse

LEMMA EarlyCourse ==
  ASSUME IInv, Writing, Course, NEW p \in Procs,
         \/ \E op \in Ops : Begin(p, op)
         \/ Plan(p) \/ ReadLog(p) \/ Enroll(p)
  PROVE  Writing' /\ Course'
<1>1. PICK phase : Goto(p, phase) /\ phase \notin Committing \cup {"locked"}
  <2>1. CASE \E op \in Ops : Begin(p, op)
    BY <2>1 DEF Begin, First, Ops, Appends, Resets, Committing
  <2>2. CASE Plan(p) \/ ReadLog(p) \/ Enroll(p)
    BY <2>2 DEF Plan, ReadLog, Enroll, Committing
  <2> QED BY <2>1, <2>2
<1>2. (\E j : job' = [job EXCEPT ![p] = j]) \/ job' = job
  BY DEF Begin, Plan, ReadLog, Enroll
<1>3. \A q \in Procs \ {p} : job'[q] = job[q]
  BY <1>2, OtherJobs
<1>4. UNCHANGED <<file, ended, damage>> /\ (raced => raced') /\ UNCHANGED mutexVars
  BY DEF Begin, Plan, ReadLog, Enroll, pastVars, fileVars
<1> QED BY <1>1, <1>3, <1>4, AsideCourse

\* The lock is taken, and later a commit goes on after its append.
LEMMA LockCourse ==
  ASSUME IInv, Writing, Course, NEW p \in Procs, Lock(p) \/ Confirm(p) \/ CheckpointLog(p)
  PROVE  Writing' /\ Course'
<1>1. PICK phase \in {"locked", "unlock", "checkpoint"} :
        /\ Goto(p, phase) /\ job' = job /\ UNCHANGED <<file, ended, damage, raced>>
        /\ Acquire(p) \/ (UNCHANGED mutexVars /\ p \notin dead /\ pc[p] \in Committing)
  BY DEF Lock, Confirm, CheckpointLog, At, Committing, pastVars, fileVars
<1>2. pc'[p] = phase /\ \A q \in Procs \ {p} : pc'[q] = pc[q] /\ job'[q] = job[q]
  BY <1>1, Moves
<1>3. dead' = dead /\ holder' = p /\ (holder = p \/ holder = NoHolder)
  BY <1>1 DEF Acquire, mutexVars, Writing, WritingOK
<1>4. phase \notin Appending
  BY DEF Appending
<1>5. WritingOK(p)'
  BY <1>2, <1>3, <1>4 DEF WritingOK, Appending
<1>6. Writing'
  BY <1>2, <1>3, <1>5, WritingKept
<1>7. Course'
  BY <1>1, <1>2, <1>3, <1>4, CourseKept
<1> QED BY <1>6, <1>7

\* A batch is planned on a log that can be read.
LEMMA ValidateCourse ==
  ASSUME IInv, Writing, Course, NEW p \in Procs, Validate(p)
  PROVE  Writing' /\ Course'
<1> DEFINE batch == Build(job[p].op, job[p].n, file)
           phase == IF job[p].op = "bootstrap" THEN "intend" ELSE "append"
<1>1. JobOK(p) /\ IsSequence(file) /\ p \notin dead /\ pc[p] = "locked" /\ job[p].op \in Appends
  BY DEF IInv, Jobs, JobOK, Validate, At
<1>2. IsSequence(batch) /\ Len(batch) = Size[job[p].op] /\ Size[job[p].op] \in Nat \ {0}
  BY <1>1, BatchIsSequence, SizeAssumption
<1>3. /\ Goto(p, phase) /\ job' = [job EXCEPT ![p] = Job(job[p].op, job[p].n, file, batch)]
      /\ UNCHANGED <<file, ended, damage, holder, dead>>
  BY DEF Validate, fileVars, mutexVars
<1>4. raced' = (raced \/ (job[p].op \in Resets /\ file # <<>>))
  BY DEF Validate
<1>5. Readable(file) /\ (job[p].op = "anchor" => AnchorAt(file) = 0)
  BY DEF Validate, Admissible, Parses, Buildable
<1> HIDE DEF batch
<1>6. phase \in Appending /\ phase \in Committing
  BY DEF Appending, Committing
<1> HIDE DEF phase
<1>7. pc'[p] = phase /\ \A q \in Procs \ {p} : pc'[q] = pc[q] /\ job'[q] = job[q]
  BY <1>3, Moves, OtherJobs
<1>8. job'[p].seen = file /\ job'[p].batch = batch /\ job'[p].step = 0
  <2>1. job'[p] = Job(job[p].op, job[p].n, file, batch)
    BY <1>3, OwnJob
  <2> QED BY <2>1 DEF Job
<1>9. holder = p
  BY <1>1 DEF Writing, WritingOK
<1>10. WritingOK(p)'
  BY <1>2, <1>3, <1>7, <1>8, <1>9 DEF WritingOK
<1>11. Writing'
  BY <1>3, <1>7, <1>10, WritingKept
<1>12. Course'
  <2> SUFFICES ASSUME ~raced', damage' # "altered"
               PROVE  /\ Sound(Whole(file))'
                      /\ \A q \in Procs \ dead' : pc'[q] \in Appending => Planning(q)'
    BY DEF Course
  <2>1. ~raced /\ (job[p].op \in Resets => file = <<>>)
    BY <1>4, Zenon
  <2>2. Sound(Whole(file))
    BY <1>3, <2>1 DEF Course
  <2>3. Sound(Whole(file))'
    BY <1>3, <2>2 DEF Whole
  <2>4. Sound(file)
    <3>1. Of(file, "torn") = {}
      BY <1>5 DEF Readable
    <3>2. Whole(file) = file
      BY <1>1, <3>1, WholeUntorn
    <3> QED BY <2>2, <3>2
  <2>5. Sound(file \o batch)
    BY <1>1, <1>5, <2>1, <2>4, BuildSound DEF batch
  <2>6. SubSeq(file \o batch, 1, Len(file) + 0) = file
    <3>1. Len(file) \in Nat /\ Len(file) <= Len(file \o batch) /\ IsSequence(file \o batch)
      BY <1>1, <1>2, ConcatSequences DEF IsSequence
    <3>2. /\ IsSequence(SubSeq(file \o batch, 1, Len(file))) /\ Len(SubSeq(file \o batch, 1, Len(file))) = Len(file)
          /\ \A i \in 1..Len(file) : SubSeq(file \o batch, 1, Len(file))[i] = (file \o batch)[i]
      BY <3>1, PrefixSequence
    <3>3. \A i \in 1..Len(file) : (file \o batch)[i] = file[i]
      BY <1>1, <1>2, ConcatElements
    <3>4. SubSeq(file \o batch, 1, Len(file)) = file
      BY <1>1, <3>2, <3>3, SameSequence
    <3> QED BY <3>1, <3>4
  <2>7. Planning(p)'
    BY <1>3, <1>8, <2>5, <2>6 DEF Planning, OnPlan, Planned
  <2>8. \A q \in Procs \ dead' : pc'[q] \in Appending => q = p
    BY <1>1, <1>3, <1>7, <1>9, OneWrites DEF Appending, Committing
  <2> QED BY <2>3, <2>7, <2>8
<1> QED BY <1>11, <1>12

\* The planned history is in the pin, the append begins.
LEMMA IntendCourse ==
  ASSUME IInv, Writing, Course, NEW p \in Procs, Intend(p)
  PROVE  Writing' /\ Course'
<1>1. /\ Goto(p, "append") /\ job' = job /\ UNCHANGED <<file, ended, damage, raced, holder, dead>>
      /\ p \notin dead /\ pc[p] = "intend"
  BY DEF Intend, At, pastVars, fileVars, mutexVars
<1>2. pc'[p] = "append" /\ \A q \in Procs \ {p} : pc'[q] = pc[q] /\ job'[q] = job[q]
  BY <1>1, Moves
<1>3. WritingOK(p)'
  BY <1>1, <1>2 DEF Writing, WritingOK, Appending, Committing
<1>4. Writing'
  BY <1>1, <1>2, <1>3, WritingKept
<1>5. Course'
  BY <1>1, <1>2, CourseKept DEF Appending
<1> QED BY <1>4, <1>5

\* The beginning of a sequence grows by its next element.
LEMMA OneMore ==
  ASSUME NEW t, IsSequence(t), NEW m \in Nat, m + 1 <= Len(t)
  PROVE  Append(SubSeq(t, 1, m), t[m + 1]) = SubSeq(t, 1, m + 1)
<1> DEFINE s == SubSeq(t, 1, m)
           r == SubSeq(t, 1, m + 1)
           more == Append(s, t[m + 1])
<1>1. Len(t) \in Nat /\ m <= Len(t) /\ m + 1 \in Nat
  BY DEF IsSequence
<1>2. IsSequence(s) /\ Len(s) = m /\ \A i \in 1..m : s[i] = t[i]
  BY <1>1, PrefixSequence
<1>3. IsSequence(r) /\ Len(r) = m + 1 /\ \A i \in 1..m + 1 : r[i] = t[i]
  BY <1>1, PrefixSequence
<1> HIDE DEF s, r
<1>4. IsSequence(more) /\ Len(more) = m + 1 /\ (\A i \in 1..m : more[i] = s[i]) /\ more[m + 1] = t[m + 1]
  BY <1>2, AppendSequence
<1> HIDE DEF more
<1>5. \A i \in 1..m + 1 : more[i] = r[i]
  <2> TAKE i \in 1..m + 1
  <2>1. CASE i = m + 1
    BY <1>1, <1>3, <1>4, <2>1
  <2>2. CASE i # m + 1
    <3>1. i \in 1..m
      BY <2>2
    <3> QED BY <1>2, <1>3, <1>4, <3>1
  <2> QED BY <2>1, <2>2
<1>6. more = r
  BY <1>3, <1>4, <1>5, SameSequence
<1> QED BY <1>6 DEF more, r, s

\* A prefix, by its elements.
LEMMA PrefixElements ==
  ASSUME NEW s, NEW t, IsSequence(s), IsSequence(t)
  PROVE  IsPrefix(s, t) <=> Len(s) <= Len(t) /\ \A i \in 1..Len(s) : s[i] = t[i]
<1>1. Len(s) \in Nat /\ Len(t) \in Nat /\ SubSeq(s, 1, Len(s)) = s
  BY WholeSequence DEF IsSequence
<1>2. SUFFICES ASSUME Len(s) <= Len(t)
               PROVE  SubSeq(t, 1, Len(s)) = s <=> \A i \in 1..Len(s) : s[i] = t[i]
  BY <1>1 DEF IsPrefix
<1>3. PICK r : r = SubSeq(t, 1, Len(s))
  OBVIOUS
<1>4. IsSequence(r) /\ Len(r) = Len(s) /\ \A i \in 1..Len(s) : r[i] = t[i]
  BY <1>1, <1>2, <1>3, PrefixSequence
<1>5. r = s <=> \A i \in 1..Len(s) : s[i] = t[i]
  BY <1>4, SameSequence
<1> QED BY <1>3, <1>5

\* The beginning of a sequence is a prefix of it.
LEMMA BeginningIsPrefix ==
  ASSUME NEW t, IsSequence(t), NEW m \in Nat, m <= Len(t)
  PROVE  IsSequence(SubSeq(t, 1, m)) /\ IsPrefix(SubSeq(t, 1, m), t)
<1>1. PICK r : r = SubSeq(t, 1, m)
  OBVIOUS
<1>2. IsSequence(r) /\ Len(r) = m /\ \A i \in 1..m : r[i] = t[i]
  BY <1>1, PrefixSequence
<1>3. IsPrefix(r, t)
  BY <1>2, PrefixElements
<1> QED BY <1>1, <1>2, <1>3

\* What one more line makes of a log that is on the plan.
LEMMA LineOfPlan ==
  ASSUME IInv, NEW p \in Procs, WritingOK(p), pc[p] \in Appending, OnPlan(p)
  PROVE  /\ IsSequence(Planned(p)) /\ IsPrefix(file, Planned(p))
         /\ Append(file, job[p].batch[job[p].step + 1])
              = SubSeq(Planned(p), 1, Len(job[p].seen) + (job[p].step + 1))
         /\ IsPrefix(Append(file, job[p].batch[job[p].step + 1]), Planned(p))
<1>1. PICK seen, batch, step : seen = job[p].seen /\ batch = job[p].batch /\ step = job[p].step
  OBVIOUS
<1>2. IsSequence(seen) /\ IsSequence(batch)
  BY <1>1 DEF IInv, Jobs, JobOK
<1>3. Len(seen) \in Nat /\ Len(batch) \in Nat /\ step \in Nat /\ step + 1 \in 1..Len(batch)
  BY <1>1, <1>2 DEF IsSequence, WritingOK
<1>4. PICK m \in Nat : m = Len(seen) + step
  BY <1>3
<1>5. m + 1 = Len(seen) + (step + 1) /\ m + 1 <= Len(seen) + Len(batch) /\ m <= Len(seen) + Len(batch) /\ m + 1 \in Nat
  BY <1>3, <1>4
<1>6. PICK t : t = seen \o batch
  OBVIOUS
<1>7. IsSequence(t) /\ Len(t) = Len(seen) + Len(batch)
  BY <1>2, <1>6, ConcatSequences
<1>8. t[Len(seen) + (step + 1)] = batch[step + 1]
  BY <1>2, <1>3, <1>6, ConcatElements
<1>9. t = Planned(p) /\ file = SubSeq(t, 1, m)
  BY <1>1, <1>4, <1>6 DEF OnPlan, Planned
<1>10. Append(file, batch[step + 1]) = SubSeq(t, 1, m + 1)
  BY <1>5, <1>7, <1>8, <1>9, OneMore
<1>11. IsPrefix(SubSeq(t, 1, m), t) /\ IsPrefix(SubSeq(t, 1, m + 1), t)
  BY <1>5, <1>7, BeginningIsPrefix
<1> QED BY <1>1, <1>5, <1>7, <1>9, <1>10, <1>11

\* And the log stays sound.
LEMMA NextLine ==
  ASSUME IInv, NEW p \in Procs, WritingOK(p), pc[p] \in Appending, Planning(p)
  PROVE  /\ Append(file, job[p].batch[job[p].step + 1])
              = SubSeq(Planned(p), 1, Len(job[p].seen) + (job[p].step + 1))
         /\ Sound(Append(file, job[p].batch[job[p].step + 1])) /\ Sound(file)
<1>1. PICK t, more : t = Planned(p) /\ more = Append(file, job[p].batch[job[p].step + 1])
  OBVIOUS
<1>2. /\ IsSequence(file) /\ IsSequence(more) /\ IsSequence(t) /\ Sound(t)
      /\ IsPrefix(file, t) /\ IsPrefix(more, t)
      /\ more = SubSeq(t, 1, Len(job[p].seen) + (job[p].step + 1))
  BY <1>1, LineOfPlan, AppendSequence DEF Planning, OnPlan, IInv
<1>3. ASSUME NEW s, IsSequence(s), IsPrefix(s, t)
      PROVE  Sound(s)
  <2>1. Len(s) \in Nat /\ Len(s) <= Len(t) /\ s = SubSeq(t, 1, Len(s))
    BY <1>3, WholeSequence DEF IsSequence, IsPrefix
  <2>2. Sound(SubSeq(t, 1, Len(s)))
    BY <1>2, <2>1, PrefixSound
  <2> QED BY <2>1, <2>2
<1> QED BY <1>1, <1>2, <1>3

\* A line is appended.
LEMMA AppendCourse ==
  ASSUME IInv, Writing, Course, NEW p \in Procs, AppendLine(p)
  PROVE  Writing' /\ Course'
<1> DEFINE step == job[p].step
           more == Append(file, job[p].batch[step + 1])
<1>1. /\ p \notin dead /\ pc[p] = "append" /\ pc[p] \in Appending /\ pc[p] \in Committing
      /\ file' = more /\ ended' = TRUE /\ UNCHANGED <<damage, raced, holder, dead>>
  BY DEF AppendLine, At, Appending, Committing, pastVars, mutexVars
<1>2. holder = p /\ WritingOK(p) /\ step \in Nat /\ step + 1 <= Len(job[p].batch)
  BY <1>1 DEF Writing, WritingOK
<1>3. /\ \A q \in Procs \ {p} : pc'[q] = pc[q] /\ job'[q] = job[q]
      /\ \/ /\ pc'[p] = "append" /\ step + 1 < Len(job[p].batch)
            /\ job'[p] = [job[p] EXCEPT !.step = step + 1]
         \/ pc'[p] = "confirm"
  <2>1. CASE step + 1 < Len(job[p].batch)
    <3>1. pc' = pc /\ job' = [job EXCEPT ![p] = [job[p] EXCEPT !.step = step + 1]]
      BY <2>1 DEF AppendLine, NextStep
    <3>2. job'[p] = [job[p] EXCEPT !.step = step + 1]
      BY <3>1, OwnJob
    <3> QED BY <1>1, <2>1, <3>1, <3>2, OtherJobs
  <2>2. CASE ~(step + 1 < Len(job[p].batch))
    <3>1. Goto(p, "confirm") /\ job' = [job EXCEPT ![p] = [job[p] EXCEPT !.step = 0]]
      BY <2>2 DEF AppendLine, NextStep
    <3> QED BY <3>1, Moves, OtherJobs
  <2> QED BY <2>1, <2>2
<1>4. pc'[p] = "append" =>
        /\ job'[p].seen = job[p].seen /\ job'[p].batch = job[p].batch /\ job'[p].step = step + 1
        /\ step + 1 + 1 <= Len(job[p].batch)
  <2> SUFFICES ASSUME pc'[p] = "append"
               PROVE  /\ job'[p].seen = job[p].seen /\ job'[p].batch = job[p].batch /\ job'[p].step = step + 1
                      /\ step + 1 + 1 <= Len(job[p].batch)
    OBVIOUS
  <2>1. step + 1 < Len(job[p].batch) /\ job'[p] = [job[p] EXCEPT !.step = step + 1]
    BY <1>3
  <2>2. JobOK(p) /\ Len(job[p].batch) \in Nat
    BY DEF IInv, Jobs, JobOK, IsSequence
  <2>3. job'[p] = [op |-> job[p].op, n |-> job[p].n, seen |-> job[p].seen, batch |-> job[p].batch, step |-> step + 1]
    BY <2>1, <2>2 DEF JobOK
  <2> QED BY <1>2, <2>1, <2>2, <2>3
<1>5. WritingOK(p)'
  BY <1>1, <1>2, <1>3, <1>4 DEF WritingOK, Appending, Committing
<1>6. Writing'
  BY <1>1, <1>3, <1>5, WritingKept
<1>7. Course'
  <2> SUFFICES ASSUME ~raced', damage' # "altered"
               PROVE  /\ Sound(Whole(file))'
                      /\ \A q \in Procs \ dead' : pc'[q] \in Appending => Planning(q)'
    BY DEF Course
  <2>1. Planning(p)
    BY <1>1 DEF Course
  <2>2. more = SubSeq(Planned(p), 1, Len(job[p].seen) + (step + 1)) /\ Sound(more)
    BY <1>1, <1>2, <2>1, NextLine
  <2> HIDE DEF more
  <2>3. Sound(Whole(file))'
    BY <1>1, <2>2 DEF Whole
  <2>4. \A q \in Procs \ dead' : pc'[q] \in Appending => q = p
    BY <1>1, <1>2, <1>3, OneWrites DEF Appending, Committing
  <2>5. pc'[p] \in Appending => Planning(p)'
    <3> SUFFICES ASSUME pc'[p] \in Appending PROVE Planning(p)'
      OBVIOUS
    <3>1. pc'[p] = "append"
      BY <1>3 DEF Appending
    <3>2. Planned(p)' = Planned(p) /\ Len(job'[p].seen) + job'[p].step = Len(job[p].seen) + (step + 1)
      BY <1>4, <3>1 DEF Planned
    <3> QED BY <1>1, <2>1, <2>2, <3>2 DEF Planning, OnPlan
  <2> QED BY <2>3, <2>4, <2>5
<1> QED BY <1>6, <1>7

\* The file is emptied: if that does no harm, nobody is in the middle of a
\* commit, or the file was empty.
LEMMA ResetCourse ==
  ASSUME IInv, Writing, Course, NEW p \in Procs, Create(p) \/ Truncate(p) \/ StartOver(p)
  PROVE  Writing' /\ Course'
<1>1. PICK phase : Goto(p, phase) /\ phase \notin Committing \cup {"locked"}
  <2>1. CASE Create(p)
    <3>1. job[p].op \in Ops
      BY <2>1 DEF IInv, Jobs, JobOK, Create, At, Ops
    <3> QED BY <2>1, <3>1 DEF Create, First, Ops, Appends, Resets, Committing
  <2>2. CASE Truncate(p) \/ StartOver(p)
    BY <2>2 DEF Truncate, StartOver, Committing
  <2> QED BY <2>1, <2>2
<1>2. (\E j : job' = [job EXCEPT ![p] = j]) \/ job' = job
  BY DEF Create, Truncate, StartOver
<1>3. pc'[p] = phase /\ \A q \in Procs \ {p} : pc'[q] = pc[q] /\ job'[q] = job[q]
  BY <1>1, <1>2, Moves, OtherJobs
<1>4. /\ file' = <<>> /\ UNCHANGED <<damage, holder, dead>>
      /\ ~raced' => ~raced /\ (file # <<>> => \A q \in Procs \ dead : pc[q] \notin Committing)
  <2>1. PICK seen : Empty(seen) /\ UNCHANGED <<damage, mutexVars>>
    BY DEF Create, Truncate, StartOver
  <2>2. raced' = (raced \/ file # seen \/ (file # <<>> /\ \E q \in Procs \ dead : pc[q] \in Committing))
    BY <2>1 DEF Empty
  <2>3. ~raced' => ~raced /\ (file # <<>> => \A q \in Procs \ dead : pc[q] \notin Committing)
    BY <2>2, Zenon
  <2> QED BY <2>1, <2>3 DEF Empty, mutexVars
<1>5. WritingOK(p)'
  BY <1>1, <1>3 DEF WritingOK, Appending, Committing
<1>6. Writing'
  BY <1>3, <1>4, <1>5, WritingKept
<1>7. Course'
  <2> SUFFICES ASSUME ~raced', damage' # "altered"
               PROVE  /\ Sound(Whole(file))'
                      /\ \A q \in Procs \ dead' : pc'[q] \in Appending => Planning(q)'
    BY DEF Course
  <2>1. Sound(Whole(file))'
    BY <1>4, EmptySound DEF Whole
  <2>2. ASSUME NEW q \in Procs \ dead', pc'[q] \in Appending
        PROVE  Planning(q)'
    <3>1. q \in Procs \ dead /\ pc[q] \in Appending /\ job'[q] = job[q] /\ pc[q] \in Committing
      BY <1>1, <1>3, <1>4, <2>2 DEF Appending, Committing
    <3>2. file = <<>>
      BY <1>4, <3>1
    <3>3. Planning(q)
      BY <1>4, <3>1 DEF Course
    <3> QED BY <1>4, <3>1, <3>2, <3>3 DEF Planning, OnPlan, Planned
  <2> QED BY <2>1, <2>2
<1> QED BY <1>6, <1>7

-----------------------------------------------------------------------------
\* A line torn off by a kill is left out.
LEMMA TornLeftOut ==
  ASSUME NEW evs, IsSequence(evs)
  PROVE  Append(evs, Torn) # <<>> /\ Last(Append(evs, Torn)) = Torn /\ Front(Append(evs, Torn)) = evs
<1> DEFINE more == Append(evs, Torn)
<1>1. IsSequence(more) /\ Len(more) = Len(evs) + 1 /\ more[Len(evs) + 1] = Torn /\ Len(evs) \in Nat
  BY AppendSequence DEF IsSequence
<1>2. SubSeq(more, 1, Len(evs)) = evs
  BY <1>1, PrefixOfAppend, WholeSequence
<1> HIDE DEF more
<1>3. more # <<>>
  BY <1>1, EmptySequence
<1>4. Last(more) = Torn
  BY <1>1 DEF Last
<1>5. Len(more) - 1 = Len(evs)
  BY <1>1
<1>6. Front(more) = evs
  BY <1>2, <1>5 DEF Front
<1> QED BY <1>3, <1>4, <1>6 DEF more

\* A process is killed, in the middle of a line or at the end of it.
LEMMA CrashCourse ==
  ASSUME IInv, Writing, Course, NEW p \in Procs, Crash(p)
  PROVE  Writing' /\ Course'
<1>1. /\ p \notin dead /\ p \in dead' /\ dead \subseteq dead' /\ holder' = holder
      /\ UNCHANGED <<pc, job, raced, damage>>
  BY DEF Crash, Die, pastVars
<1>2. Writing'
  BY <1>1, WritingKept
<1>3. CASE UNCHANGED fileVars
  <2>1. Course'
    BY <1>1, <1>3, CourseKept DEF fileVars
  <2> QED BY <1>2, <2>1
<1>4. CASE ~UNCHANGED fileVars
  <2>1. PICK line \in {Torn, job[p].batch[job[p].step + 1]} :
          file' = Append(file, line) /\ ended' = FALSE /\ pc[p] = "append"
    BY <1>4 DEF Crash
  <2>2. holder = p /\ WritingOK(p) /\ pc[p] \in Appending
    BY <1>1, <2>1 DEF Writing, WritingOK, Appending, Committing
  <2>3. Course'
    <3> SUFFICES ASSUME ~raced', damage' # "altered"
                 PROVE  /\ Sound(Whole(file))'
                        /\ \A q \in Procs \ dead' : pc'[q] \in Appending => Planning(q)'
      BY DEF Course
    <3>1. Planning(p)
      BY <1>1, <2>2 DEF Course
    <3>2. Sound(file) /\ Sound(Append(file, job[p].batch[job[p].step + 1]))
      BY <2>2, <3>1, NextLine
    <3>3. Sound(Whole(file))'
      <4>1. CASE line = Torn
        <5>1. file' # <<>> /\ Last(file') = Torn /\ Front(file') = file
          BY <2>1, <3>2, <4>1, TornLeftOut DEF Sound
        <5>2. Whole(file)' = file
          BY <2>1, <5>1 DEF Whole
        <5> QED BY <3>2, <5>2
      <4>2. CASE line = job[p].batch[job[p].step + 1]
        <5>1. Sound(file') /\ IsSequence(file') /\ Of(file', "torn") = {}
          BY <2>1, <3>2, <4>2 DEF Sound, Readable
        <5>2. file' = <<>> \/ Last(file') # Torn
          <6> SUFFICES ASSUME file' # <<>>, Last(file') = Torn PROVE FALSE
            OBVIOUS
          <6>1. Len(file') # 0
            BY <5>1, EmptySequence, SameSequence
          <6>2. Len(file') \in DOMAIN file' /\ file'[Len(file')].kind = "torn"
            BY <5>1, <6>1, DomainOfSequence DEF Last, Torn, Line, IsSequence
          <6> QED BY <5>1, <6>2 DEF Of
        <5>3. Whole(file)' = file'
          BY <5>2 DEF Whole
        <5> QED BY <5>1, <5>3
      <4> QED BY <2>1, <4>1, <4>2
    <3>4. \A q \in Procs \ dead' : pc'[q] \notin Appending
      BY <1>1, <2>2, OneWrites DEF Appending, Committing
    <3> QED BY <3>3, <3>4
  <2> QED BY <1>2, <2>3
<1> QED BY <1>3, <1>4

LEMMA ReclaimCourse ==
  ASSUME IInv, Writing, Course, LockReclaimed \/ RecordReclaimed
  PROVE  Writing' /\ Course'
<1>1. UNCHANGED <<file, ended, pc, job, raced, damage, dead>> /\ (holder' = holder \/ holder \in dead)
  BY DEF LockReclaimed, RecordReclaimed, Reclaim, fileVars, pastVars, mutexVars
<1>2. \A q \in Procs \ dead : WritingOK(q) => WritingOK(q)'
  BY <1>1 DEF WritingOK
<1>3. Writing'
  BY <1>1, <1>2 DEF Writing
<1>4. Course'
  BY <1>1 DEF Course, Whole, Planning, OnPlan, Planned
<1> QED BY <1>3, <1>4

\* An older copy of the log is a beginning of it.
LEMMA DamageCourse ==
  ASSUME IInv, Writing, Course, Restore \/ Alter
  PROVE  Writing' /\ Course'
<1>1. UNCHANGED <<pc, job, raced, dead, holder>> /\ damage = "none" /\ \A q \in Procs \ dead : pc[q] = "idle"
  BY DEF Restore, Alter, mutexVars
<1>2. Writing'
  BY <1>1 DEF Writing, WritingOK
<1>3. CASE Alter
  BY <1>2, <1>3 DEF Alter, Course
<1>4. CASE Restore
  <2>1. PICK k \in 0..Len(file) - 1 : file' = SubSeq(file, 1, k) /\ ended' = TRUE
    BY <1>4 DEF Restore
  <2>2. IsSequence(file) /\ Len(file) \in Nat /\ k \in Nat /\ k <= Len(file) - 1 /\ Len(file) - 1 \in Nat
    BY <2>1 DEF IInv, IsSequence
  <2>3. Course'
    <3> SUFFICES ASSUME ~raced', damage' # "altered"
                 PROVE  /\ Sound(Whole(file))'
                        /\ \A q \in Procs \ dead' : pc'[q] \in Appending => Planning(q)'
      BY DEF Course
    <3>1. Sound(Whole(file))
      BY <1>1 DEF Course
    <3>2. k <= Len(Whole(file)) /\ SubSeq(Whole(file), 1, k) = SubSeq(file, 1, k)
      <4>1. CASE Whole(file) = file
        BY <2>2, <4>1
      <4>2. CASE Whole(file) = SubSeq(file, 1, Len(file) - 1)
        <5>1. PICK m : m = Len(file) - 1
          OBVIOUS
        <5>2. m \in Nat /\ m <= Len(file) /\ k <= m
          BY <2>2, <5>1
        <5>3. PICK whole : whole = SubSeq(file, 1, m)
          OBVIOUS
        <5>4. IsSequence(whole) /\ Len(whole) = m /\ \A i \in 1..m : whole[i] = file[i]
          BY <2>2, <5>2, <5>3, PrefixSequence
        <5>5. /\ IsSequence(SubSeq(whole, 1, k)) /\ Len(SubSeq(whole, 1, k)) = k
              /\ \A i \in 1..k : SubSeq(whole, 1, k)[i] = whole[i]
          BY <2>2, <5>2, <5>4, PrefixSequence
        <5>6. /\ IsSequence(SubSeq(file, 1, k)) /\ Len(SubSeq(file, 1, k)) = k
              /\ \A i \in 1..k : SubSeq(file, 1, k)[i] = file[i]
          BY <2>2, PrefixSequence
        <5>7. SubSeq(whole, 1, k) = SubSeq(file, 1, k)
          BY <2>2, <5>2, <5>4, <5>5, <5>6, SameSequence
        <5> QED BY <4>2, <5>1, <5>2, <5>3, <5>4, <5>7
      <4> QED BY <4>1, <4>2 DEF Whole, Front
    <3>3. Sound(SubSeq(file, 1, k))
      BY <2>2, <3>1, <3>2, PrefixSound
    <3>4. Sound(Whole(file))'
      BY <2>1, <3>3 DEF Whole
    <3> QED BY <1>1, <3>4 DEF Appending
  <2> QED BY <1>2, <2>3
<1> QED BY <1>3, <1>4

-----------------------------------------------------------------------------
(***************************************************************************)
(* That the pin is not built over.  While a process appends, the log is as *)
(* much of the plan as it has written, and the pin vouches for and binds   *)
(* itself to beginnings of the plan, whatever others have made of it since *)
(* the plan was checked.                                                   *)
(***************************************************************************)
Pinned(p) == IsPrefix(pin.hist, Planned(p)) /\ IsPrefix(pin.pending, Planned(p))

Honouring == ~raced => \A p \in Procs \ dead : pc[p] \in Appending => OnPlan(p) /\ Pinned(p)

\* Two beginnings of the same sequence.
LEMMA BothPrefixes ==
  ASSUME NEW s, NEW r, NEW t, IsSequence(s), IsSequence(r), IsSequence(t), IsPrefix(s, t), IsPrefix(r, t)
  PROVE  Comparable(s, r)
<1>1. /\ Len(s) \in Nat /\ Len(r) \in Nat
      /\ \A i \in 1..Len(s) : s[i] = t[i]
      /\ \A i \in 1..Len(r) : r[i] = t[i]
  BY PrefixElements DEF IsSequence
<1>2. CASE Len(s) <= Len(r)
  BY <1>1, <1>2, PrefixElements DEF Comparable
<1>3. CASE Len(r) <= Len(s)
  BY <1>1, <1>3, PrefixElements DEF Comparable
<1> QED BY <1>1, <1>2, <1>3

LEMMA PrefixOfPrefix ==
  ASSUME NEW s, NEW r, NEW t, IsSequence(s), IsSequence(r), IsSequence(t), IsPrefix(s, r), IsPrefix(r, t)
  PROVE  IsPrefix(s, t)
<1>1. /\ Len(s) \in Nat /\ Len(r) \in Nat /\ Len(t) \in Nat /\ Len(s) <= Len(r) /\ Len(r) <= Len(t)
      /\ \A i \in 1..Len(s) : s[i] = r[i]
      /\ \A i \in 1..Len(r) : r[i] = t[i]
  BY PrefixElements DEF IsSequence
<1>2. \A i \in 1..Len(s) : s[i] = t[i]
  BY <1>1
<1> QED BY <1>1, <1>2, PrefixElements

\* What the pin may become without doing harm: it vouches for part of what it
\* did, or had bound itself to, or for a beginning of the log; it is bound as
\* it was or no more.
Harmless ==
  /\ IsPrefix(pin'.hist, pin.hist) \/ IsPrefix(pin'.hist, pin.pending) \/ IsPrefix(pin'.hist, file)
  /\ pin'.pending \in {pin.pending, <<>>}

LEMMA SamePin == ASSUME IInv, pin' = pin PROVE Harmless
<1>1. IsSequence(pin.hist)
  BY PinParts DEF IInv, TypeOK
<1>2. IsPrefix(pin.hist, pin.hist)
  BY <1>1, PrefixElements DEF IsSequence
<1> QED BY <1>2 DEF Harmless

\* A step of p that leaves the file alone.
LEMMA HonouringKept ==
  ASSUME IInv, IInv', Writing, Honouring, NEW p \in Procs, dead \subseteq dead', file' = file,
         ~raced' => ~raced /\ Harmless,
         \A q \in Procs \ {p} : pc'[q] = pc[q] /\ job'[q] = job[q],
         p \notin dead' /\ pc'[p] \in Appending => pc[p] \in Appending /\ job'[p] = job[p]
  PROVE  Honouring'
<1> SUFFICES ASSUME ~raced', NEW q \in Procs \ dead', pc'[q] \in Appending
             PROVE  OnPlan(q)' /\ Pinned(q)'
  BY DEF Honouring
<1>1. q \notin dead /\ pc[q] \in Appending /\ job'[q] = job[q]
  OBVIOUS
<1>2. OnPlan(q) /\ Pinned(q) /\ Harmless /\ WritingOK(q)
  BY <1>1 DEF Honouring, Writing
<1>3. Planned(q)' = Planned(q)
  BY <1>1 DEF Planned
<1>4. OnPlan(q)'
  BY <1>1, <1>2, <1>3 DEF OnPlan
<1>5. IsSequence(Planned(q)) /\ IsPrefix(file, Planned(q)) /\ IsSequence(file)
  BY <1>1, <1>2, LineOfPlan DEF IInv
<1>6. IsSequence(pin.hist) /\ IsSequence(pin.pending) /\ IsSequence(pin'.hist) /\ IsSequence(pin'.pending)
  BY PinParts DEF IInv, TypeOK
<1>7. IsPrefix(pin'.hist, Planned(q))
  BY <1>2, <1>5, <1>6, PrefixOfPrefix DEF Harmless, Pinned
<1>8. IsPrefix(pin'.pending, Planned(q))
  BY <1>2, <1>5, EmptyPrefix DEF Harmless, Pinned
<1> QED BY <1>3, <1>4, <1>7, <1>8 DEF Pinned

\* A step of the process that writes is a step of no other that does.
LEMMA HonouringAlone ==
  ASSUME Writing, NEW p \in Procs \ dead, pc[p] \in Committing \cup {"locked"}, dead \subseteq dead',
         \A q \in Procs \ {p} : pc'[q] = pc[q],
         ~raced' /\ p \notin dead' /\ pc'[p] \in Appending => OnPlan(p)' /\ Pinned(p)'
  PROVE  Honouring'
<1>1. holder = p
  BY DEF Writing, WritingOK
<1>2. \A q \in Procs \ dead' : q # p => pc'[q] \notin Appending
  BY <1>1, OneWrites DEF Appending, Committing
<1> QED BY <1>2 DEF Honouring

-----------------------------------------------------------------------------
LEMMA EarlyHonours ==
  ASSUME IInv, IInv', Writing, Honouring, NEW p \in Procs,
         \/ \E op \in Ops : Begin(p, op)
         \/ Plan(p) \/ ReadLog(p) \/ Enroll(p) \/ Lock(p) \/ Confirm(p)
  PROVE  Honouring'
<1>1. PICK phase : Goto(p, phase) /\ phase \notin Appending
  <2>1. CASE \E op \in Ops : Begin(p, op)
    BY <2>1 DEF Begin, First, Ops, Appends, Resets, Appending
  <2>2. CASE Plan(p) \/ ReadLog(p) \/ Enroll(p) \/ Lock(p) \/ Confirm(p)
    BY <2>2 DEF Plan, ReadLog, Enroll, Lock, Confirm, Appending
  <2> QED BY <2>1, <2>2
<1>2. (\E j : job' = [job EXCEPT ![p] = j]) \/ job' = job
  BY DEF Begin, Plan, ReadLog, Enroll, Lock, Confirm
<1>3. pc'[p] = phase /\ \A q \in Procs \ {p} : pc'[q] = pc[q] /\ job'[q] = job[q]
  BY <1>1, <1>2, Moves, OtherJobs
<1>4. file' = file /\ pin' = pin /\ raced' = raced /\ dead' = dead
  BY DEF Begin, Plan, ReadLog, Enroll, Lock, Confirm, Acquire, pastVars, fileVars, trustVars, mutexVars
<1> QED BY <1>1, <1>3, <1>4, SamePin, HonouringKept

LEMMA EndHonours ==
  ASSUME IInv, IInv', Writing, Honouring, NEW p \in Procs,
         \/ TimeOut(p) \/ Refuse(p) \/ IntendFails(p) \/ ConfirmFails(p) \/ CheckpointFails(p)
         \/ Unlock(p) \/ ReadFails(p) \/ CatchUp(p) \/ CatchUpFails(p) \/ ImportFails(p) \/ WritePin(p)
  PROVE  Honouring'
<1>1. Finish(p) /\ file' = file /\ dead' = dead /\ (~raced' => ~raced /\ Harmless)
  <2>1. CASE \/ TimeOut(p) \/ ReadFails(p) \/ CatchUpFails(p) \/ ImportFails(p)
             \/ Refuse(p) \/ IntendFails(p) \/ ConfirmFails(p) \/ CheckpointFails(p) \/ Unlock(p)
    <3>1. Finish(p) /\ file' = file /\ dead' = dead /\ raced' = raced /\ pin' = pin
      BY <2>1 DEF TimeOut, ReadFails, CatchUpFails, ImportFails, Refuse, IntendFails, ConfirmFails,
                  CheckpointFails, Unlock, FinishAnd, Release, pastVars, fileVars, trustVars, mutexVars
    <3> QED BY <3>1, SamePin
  <2>2. CASE CatchUp(p)
    <3>1. Finish(p) /\ file' = file /\ dead' = dead
      BY <2>2 DEF CatchUp, fileVars, mutexVars
    <3>2. raced' = (raced \/ (pin' # pin /\ ~IsPrefix(job[p].seen, file)))
      BY <2>2 DEF CatchUp
    <3>3. CASE pin' = pin
      BY <3>1, <3>2, <3>3, SamePin
    <3>4. CASE pin' # pin
      <4>1. \E boot : pin' = Pin(job[p].seen, boot, <<>>)
        BY <2>2, <3>4 DEF CatchUp, Advances
      <4>2. pin'.hist = job[p].seen /\ pin'.pending = <<>>
        BY <4>1 DEF Pin
      <4>3. ~raced' => ~raced /\ IsPrefix(job[p].seen, file)
        BY <3>2, <3>4, Zenon
      <4> QED BY <3>1, <4>2, <4>3 DEF Harmless
    <3> QED BY <3>3, <3>4
  <2>3. CASE WritePin(p)
    <3>1. Finish(p) /\ file' = file /\ dead' = dead /\ raced' = raced
      BY <2>3 DEF WritePin, fileVars, mutexVars, pastVars
    <3>2. pin'.hist = ImportedHist(job[p].op) /\ pin'.pending = <<>>
      BY <2>3 DEF WritePin, Pin
    <3>3. IsSequence(pin.hist) /\ IsSequence(pin.pending)
      BY PinParts DEF IInv, TypeOK
    <3>4. IsPrefix(pin.pending, pin.pending) /\ IsPrefix(<<>>, pin.pending)
      BY <3>3, PrefixElements, EmptyPrefix DEF IsSequence
    <3> QED BY <3>1, <3>2, <3>4 DEF Harmless, ImportedHist
  <2> QED BY <2>1, <2>2, <2>3
<1>2. pc'[p] = "idle" /\ \A q \in Procs \ {p} : pc'[q] = pc[q] /\ job'[q] = job[q]
  BY <1>1, Moves, OtherJobs DEF Finish
<1> QED BY <1>1, <1>2, HonouringKept DEF Appending

\* The file is emptied: if that does no harm, nobody is in the middle of a
\* commit, or the file was empty.
LEMMA ResetHonours ==
  ASSUME IInv, IInv', Writing, Honouring, NEW p \in Procs, Create(p) \/ Truncate(p) \/ StartOver(p)
  PROVE  Honouring'
<1>1. PICK phase : Goto(p, phase) /\ phase \notin Committing
  <2>1. CASE Create(p)
    <3>1. job[p].op \in Ops
      BY <2>1 DEF IInv, Jobs, JobOK, Create, At, Ops
    <3> QED BY <2>1, <3>1 DEF Create, First, Ops, Appends, Resets, Committing
  <2>2. CASE Truncate(p) \/ StartOver(p)
    BY <2>2 DEF Truncate, StartOver, Committing
  <2> QED BY <2>1, <2>2
<1>2. (\E j : job' = [job EXCEPT ![p] = j]) \/ job' = job
  BY DEF Create, Truncate, StartOver
<1>3. pc'[p] = phase /\ \A q \in Procs \ {p} : pc'[q] = pc[q] /\ job'[q] = job[q]
  BY <1>1, <1>2, Moves, OtherJobs
<1>4. PICK seen : Empty(seen) /\ pin' = pin /\ dead' = dead
  BY DEF Create, Truncate, StartOver, trustVars, mutexVars
<1>5. raced' = (raced \/ file # seen \/ (file # <<>> /\ \E q \in Procs \ dead : pc[q] \in Committing))
  BY <1>4 DEF Empty
<1>6. CASE file = <<>>
  <2>1. file' = file /\ (~raced' => ~raced)
    BY <1>4, <1>5, <1>6 DEF Empty
  <2> QED BY <1>1, <1>3, <1>4, <2>1, SamePin, HonouringKept DEF Appending, Committing
<1>7. CASE file # <<>>
  <2>1. ~raced' => \A q \in Procs \ dead : pc[q] \notin Committing
    BY <1>5, <1>7, Zenon
  <2> QED BY <1>1, <1>3, <1>4, <2>1 DEF Honouring, Appending, Committing
<1> QED BY <1>6, <1>7

\* What is planned on a log that the pin vouches for.
LEMMA ValidateHonours ==
  ASSUME IInv, Writing, NEW p \in Procs, Validate(p)
  PROVE  Honouring'
<1>1. JobOK(p) /\ IsSequence(file) /\ p \notin dead /\ pc[p] = "locked" /\ job[p].op \in Appends
  BY DEF IInv, Jobs, JobOK, Validate, At
<1>2. PICK batch, plan : batch = Build(job[p].op, job[p].n, file) /\ plan = file \o batch
  OBVIOUS
<1>3. IsSequence(batch) /\ IsSequence(plan) /\ Len(plan) = Len(file) + Len(batch)
  BY <1>1, <1>2, BatchIsSequence, ConcatSequences
<1>4. /\ \E phase : Goto(p, phase)
      /\ job' = [job EXCEPT ![p] = Job(job[p].op, job[p].n, file, batch)]
      /\ file' = file /\ pin' = pin /\ dead' = dead
  BY <1>2 DEF Validate, fileVars, trustVars, mutexVars
<1>5. \A q \in Procs \ {p} : pc'[q] = pc[q]
  BY <1>4, Moves
<1>6. job'[p].seen = file /\ job'[p].batch = batch /\ job'[p].step = 0
  <2>1. job'[p] = Job(job[p].op, job[p].n, file, batch)
    BY <1>4, OwnJob
  <2> QED BY <2>1 DEF Job
<1>7. Planned(p)' = plan
  BY <1>2, <1>6 DEF Planned
<1>8. OnPlan(p)'
  <2>1. Len(file) \in Nat /\ Len(batch) \in Nat
    BY <1>1, <1>3 DEF IsSequence
  <2>2. PICK r : r = SubSeq(plan, 1, Len(file))
    OBVIOUS
  <2>3. IsSequence(r) /\ Len(r) = Len(file) /\ \A i \in 1..Len(file) : r[i] = plan[i]
    BY <1>3, <2>1, <2>2, PrefixSequence
  <2>4. \A i \in 1..Len(file) : plan[i] = file[i]
    BY <1>1, <1>2, <1>3, ConcatElements
  <2>5. r = file
    BY <1>1, <2>3, <2>4, SameSequence
  <2>6. Len(file) + 0 = Len(file)
    BY <2>1
  <2> QED BY <1>4, <1>6, <1>7, <2>2, <2>5, <2>6 DEF OnPlan
<1>9. Pinned(p)'
  <2>1. /\ pin.set => Upholds(plan, pin.hist)
        /\ Active(plan) /\ pin.pending # <<>> => Upholds(plan, pin.pending)
        /\ ~Active(plan) => pin.pending = <<>>
    BY <1>2 DEF Validate, Admissible, Trusted
  <2>2. IsSequence(pin.hist) /\ IsSequence(pin.pending) /\ (~pin.set => pin.hist = <<>>)
    BY PinParts DEF IInv, TypeOK
  <2>3. IsPrefix(pin.hist, plan)
    BY <1>3, <2>1, <2>2, PrefixOf, EmptyPrefix DEF Upholds
  <2>4. IsPrefix(pin.pending, plan)
    BY <1>3, <2>1, <2>2, PrefixOf, EmptyPrefix DEF Upholds
  <2> QED BY <1>4, <1>7, <2>3, <2>4 DEF Pinned
<1>10. dead' = dead /\ pc[p] \in Committing \cup {"locked"}
  BY <1>1, <1>4
<1> QED BY <1>1, <1>5, <1>8, <1>9, <1>10, HonouringAlone

LEMMA CommitHonours ==
  ASSUME IInv, IInv', Writing, Honouring, NEW p \in Procs, Intend(p) \/ CheckpointLog(p)
  PROVE  Honouring'
<1>1. p \in Procs \ dead /\ pc[p] \in Committing \cup {"locked"} /\ dead' = dead /\ file' = file /\ raced' = raced
  BY DEF Intend, CheckpointLog, At, Committing, mutexVars, pastVars, fileVars
<1>2. (\E phase : Goto(p, phase)) /\ job' = job
  BY DEF Intend, CheckpointLog
<1>3. \A q \in Procs \ {p} : pc'[q] = pc[q]
  BY <1>2, Moves
<1>4. CASE CheckpointLog(p)
  <2>1. pc'[p] = "unlock"
    BY <1>4, Moves DEF CheckpointLog
  <2> QED BY <1>1, <1>3, <2>1, HonouringAlone DEF Appending
<1>5. CASE Intend(p)
  <2>1. SUFFICES ASSUME ~raced PROVE OnPlan(p)' /\ Pinned(p)'
    BY <1>1, <1>3, HonouringAlone
  <2>2. pc[p] \in Appending /\ WritingOK(p)
    BY <1>1, <1>5 DEF Intend, At, Appending, Writing
  <2>3. OnPlan(p) /\ Pinned(p)
    BY <1>1, <2>1, <2>2 DEF Honouring
  <2>4. Planned(p)' = Planned(p) /\ OnPlan(p)'
    BY <1>1, <1>2, <2>3 DEF OnPlan, Planned
  <2>5. IsSequence(Planned(p))
    BY <2>2, <2>3, LineOfPlan
  <2>6. pin'.hist = pin.hist
    BY <1>5, IntendKeeps
  <2>7. pin'.pending = Planned(p)
    <3>1. pin = [set |-> pin.set, hist |-> pin.hist, boot |-> pin.boot, pending |-> pin.pending]
      BY PinParts DEF IInv, TypeOK
    <3>2. pin' = [pin EXCEPT !.pending = Planned(p)]
      BY <1>5 DEF Intend
    <3> QED BY <3>1, <3>2
  <2>8. IsPrefix(Planned(p), Planned(p))
    BY <2>5, PrefixElements DEF IsSequence
  <2> QED BY <2>3, <2>4, <2>6, <2>7, <2>8 DEF Pinned
<1> QED BY <1>4, <1>5

\* A line is appended: it is the next one of the plan.
LEMMA AppendHonours ==
  ASSUME IInv, Writing, Honouring, NEW p \in Procs, AppendLine(p)
  PROVE  /\ Honouring'
         /\ ~raced => Comparable(file', pin.hist) /\ Comparable(file', pin.pending)
<1>1. /\ p \in Procs \ dead /\ pc[p] = "append" /\ pc[p] \in Appending
      /\ file' = Append(file, job[p].batch[job[p].step + 1]) /\ UNCHANGED <<pin, raced, dead>>
  BY DEF AppendLine, At, Appending, pastVars, trustVars, mutexVars
<1>2. WritingOK(p) /\ pc[p] \in Committing \cup {"locked"}
  BY <1>1 DEF Writing, Committing
<1>3. ~raced => OnPlan(p) /\ Pinned(p)
  BY <1>1 DEF Honouring
<1>4. ~raced => /\ IsSequence(Planned(p)) /\ IsPrefix(file', Planned(p))
                /\ file' = SubSeq(Planned(p), 1, Len(job[p].seen) + (job[p].step + 1))
  BY <1>1, <1>2, <1>3, LineOfPlan
<1>5. /\ (\E phase : Goto(p, phase)) \/ pc' = pc
      /\ \E step : job' = [job EXCEPT ![p].step = step]
      /\ pc'[p] = "append" => job' = [job EXCEPT ![p].step = job[p].step + 1]
  <2>1. CASE job[p].step + 1 < Len(job[p].batch)
    BY <2>1 DEF AppendLine, NextStep
  <2>2. CASE ~(job[p].step + 1 < Len(job[p].batch))
    <3>1. Goto(p, "confirm") /\ job' = [job EXCEPT ![p].step = 0]
      BY <2>2 DEF AppendLine, NextStep
    <3> QED BY <3>1, Moves
  <2> QED BY <2>1, <2>2
<1>6. \A q \in Procs \ {p} : pc'[q] = pc[q]
  BY <1>5, Moves
<1>7. ASSUME ~raced', pc'[p] \in Appending
      PROVE  OnPlan(p)' /\ Pinned(p)'
  <2>1. pc'[p] = "append"
    <3>1. CASE job[p].step + 1 < Len(job[p].batch)
      BY <1>1, <3>1 DEF AppendLine, NextStep
    <3>2. CASE ~(job[p].step + 1 < Len(job[p].batch))
      <4>1. pc'[p] = "confirm"
        BY <3>2, Moves DEF AppendLine, NextStep
      <4> QED BY <1>7, <4>1 DEF Appending
    <3> QED BY <3>1, <3>2
  <2>2. JobOK(p) /\ job = [q \in Procs |-> job[q]]
    BY DEF IInv, Jobs
  <2>3. job'[p].seen = job[p].seen /\ job'[p].batch = job[p].batch /\ job'[p].step = job[p].step + 1
    <3>1. job'[p] = [job[p] EXCEPT !.step = job[p].step + 1]
      BY <1>5, <2>1, <2>2
    <3> QED BY <2>2, <3>1 DEF JobOK
  <2>4. Planned(p)' = Planned(p)
    BY <2>3 DEF Planned
  <2> QED BY <1>1, <1>3, <1>4, <1>7, <2>3, <2>4 DEF OnPlan, Pinned
<1>8. Honouring'
  BY <1>1, <1>2, <1>6, <1>7, HonouringAlone
<1>9. ASSUME ~raced PROVE Comparable(file', pin.hist) /\ Comparable(file', pin.pending)
  <2>1. IsSequence(pin.hist) /\ IsSequence(pin.pending) /\ IsSequence(file')
    BY <1>1, PinParts, AppendSequence DEF IInv, TypeOK
  <2> QED BY <1>3, <1>4, <1>9, <2>1, BothPrefixes DEF Pinned
<1> QED BY <1>8, <1>9

LEMMA AccidentHonours ==
  ASSUME IInv, Writing, Honouring, (\E p \in Procs : Crash(p)) \/ LockReclaimed \/ RecordReclaimed \/ Restore \/ Alter
  PROVE  Honouring'
<1>1. ASSUME NEW p \in Procs, Crash(p)
      PROVE  Honouring'
  <2>1. p \notin dead /\ p \in dead' /\ dead \subseteq dead' /\ UNCHANGED <<pc, job, raced, pin>>
    BY <1>1 DEF Crash, Die, pastVars, trustVars
  <2>2. CASE file' = file
    BY <2>1, <2>2 DEF Honouring, OnPlan, Pinned, Planned
  <2>3. CASE file' # file
    <3>1. pc[p] \in Committing
      BY <1>1, <2>3 DEF Crash, fileVars, Committing
    <3> QED BY <2>1, <3>1, HonouringAlone
  <2> QED BY <2>2, <2>3
<1>2. CASE LockReclaimed \/ RecordReclaimed
  <2>1. UNCHANGED <<file, pc, job, raced, dead, pin>>
    BY <1>2 DEF LockReclaimed, RecordReclaimed, Reclaim, fileVars, pastVars, mutexVars, trustVars
  <2> QED BY <2>1 DEF Honouring, OnPlan, Pinned, Planned
<1>3. CASE Restore \/ Alter
  <2>1. UNCHANGED <<pc, dead>> /\ \A q \in Procs \ dead : pc[q] = "idle"
    BY <1>3 DEF Restore, Alter, mutexVars
  <2> QED BY <2>1 DEF Honouring, Appending
<1> QED BY <1>1, <1>2, <1>3

-----------------------------------------------------------------------------
\* An activation is planned on what the pin vouches for.
Bound == ~raced /\ pin.pending # <<>> => IsPrefix(pin.hist, pin.pending)

\* A pin is written with nothing pending, but for an intention.
LEMMA StepBinds ==
  ASSUME IInv, IInv', Writing, Honouring, Bound, Next
  PROVE  Bound'
<1>1. \/ pin' = pin /\ (~raced' => ~raced)
      \/ pin'.pending = <<>>
      \/ \E p \in Procs : Intend(p)
  <2>1. ASSUME NEW p \in Procs, Advances(p, job[p].seen) \/ Advances(p, Planned(p)) \/ WritePin(p)
        PROVE  pin'.pending = <<>>
    BY <2>1 DEF Advances, WritePin, Pin
  <2>2. ASSUME NEW p \in Procs, CheckpointLog(p) \/ CatchUp(p)
        PROVE  pin'.pending = <<>> \/ (pin' = pin /\ (~raced' => ~raced))
    BY <2>1, <2>2 DEF CheckpointLog, CatchUp, pastVars
  <2>3. ASSUME NEW p \in Procs, NEW op \in Ops, Begin(p, op)
        PROVE  pin' = pin /\ raced' = raced
    BY <2>3 DEF Begin, pastVars, trustVars
  <2>4. ASSUME NEW p \in Procs, Create(p) \/ Truncate(p) \/ StartOver(p)
        PROVE  pin' = pin /\ (~raced' => ~raced)
    BY <2>4, Zenon DEF Create, Truncate, StartOver, Empty, trustVars
  <2>5. ASSUME NEW p \in Procs, Plan(p) \/ ReadLog(p) \/ AppendLine(p) \/ Lock(p) \/ Confirm(p) \/ Enroll(p)
        PROVE  pin' = pin /\ raced' = raced
    BY <2>5 DEF Plan, ReadLog, AppendLine, Lock, Confirm, Enroll, pastVars, trustVars
  <2>6. ASSUME NEW p \in Procs, Validate(p)
        PROVE  pin' = pin /\ (~raced' => ~raced)
    BY <2>6, Zenon DEF Validate, trustVars
  <2>7. ASSUME NEW p \in Procs,
               \/ TimeOut(p) \/ Refuse(p) \/ IntendFails(p) \/ ConfirmFails(p) \/ CheckpointFails(p)
               \/ Unlock(p) \/ ReadFails(p) \/ CatchUpFails(p) \/ ImportFails(p)
        PROVE  pin' = pin /\ raced' = raced
    BY <2>7 DEF TimeOut, Refuse, IntendFails, ConfirmFails, CheckpointFails, Unlock, ReadFails, CatchUpFails,
                ImportFails, pastVars, trustVars
  <2>8. ASSUME (\E p \in Procs : Crash(p)) \/ LockReclaimed \/ RecordReclaimed \/ Restore \/ Alter
        PROVE  pin' = pin /\ raced' = raced
    BY <2>8 DEF Crash, LockReclaimed, RecordReclaimed, Restore, Alter, pastVars, trustVars
  <2> QED BY <2>1, <2>2, <2>3, <2>4, <2>5, <2>6, <2>7, <2>8, Zenon DEF Next, Proceed
<1>2. ASSUME NEW p \in Procs, Intend(p), ~raced'
      PROVE  IsPrefix(pin'.hist, pin'.pending)
  <2>1. ~raced /\ p \in Procs \ dead /\ pc[p] \in Appending
    BY <1>2 DEF Intend, At, Appending, pastVars
  <2>2. IsPrefix(pin.hist, Planned(p))
    BY <2>1 DEF Honouring, Pinned
  <2>3. pin = [set |-> pin.set, hist |-> pin.hist, boot |-> pin.boot, pending |-> pin.pending]
    BY PinParts DEF IInv, TypeOK
  <2>4. pin'.hist = pin.hist /\ pin'.pending = Planned(p)
    BY <1>2, <2>3 DEF Intend
  <2> QED BY <2>2, <2>4
<1> QED BY <1>1, <1>2 DEF Bound

-----------------------------------------------------------------------------
(***************************************************************************)
(* That an edited log is not built on.  What the pin vouches for, and what *)
(* a process has read and planned, is free of edits.  The log is too, or   *)
(* else there is an edited line that the chain or the pin vouches for, and *)
(* then the log is not read and nobody is appending to it.                 *)
(***************************************************************************)
Knowing == Committing \cup {"advance"}

Caught(i) ==
  /\ i \in DOMAIN file /\ ~file[i].intact /\ file[i].kind # "anchor"
  /\ AnchorAt(file) # 0 \/ i <= Len(pin.hist)

Marked ==
  /\ \E i \in DOMAIN file : Caught(i)
  /\ \A i \in DOMAIN file : \A j \in DOMAIN file[i].covers : file[i].covers[j].intact

UneditedJob(p) == Unedited(job[p].batch) /\ (pc[p] \in Knowing => Unedited(job[p].seen))

Trustworthy ==
  /\ Unedited(pin.hist) /\ Unedited(pin.pending)
  /\ \A p \in Procs : UneditedJob(p)
  /\ damage # "altered" => Unedited(file)
  /\ Unedited(file) \/ (Marked /\ \A p \in Procs \ dead : pc[p] \notin Appending)

LEMMA EmptyUnedited == Unedited(<<>>)
<1>1. DOMAIN <<>> = {}
  BY EmptySequence, DomainOfSequence
<1> QED BY <1>1 DEF Unedited

LEMMA ConcatUnedited ==
  ASSUME NEW s, NEW t, IsSequence(s), IsSequence(t), Unedited(s), Unedited(t)
  PROVE  Unedited(s \o t)
<1>1. PICK r : r = s \o t
  OBVIOUS
<1>2. /\ IsSequence(r) /\ DOMAIN r = 1..Len(r) /\ Len(r) = Len(s) + Len(t) /\ Len(s) \in Nat /\ Len(t) \in Nat
      /\ DOMAIN s = 1..Len(s) /\ DOMAIN t = 1..Len(t)
      /\ \A i \in 1..Len(s) : r[i] = s[i]
      /\ \A i \in 1..Len(t) : r[Len(s) + i] = t[i]
  BY <1>1, ConcatSequences, ConcatElements, DomainOfSequence DEF IsSequence
<1>3. \A i \in 1..Len(r) : i \in 1..Len(s) \/ \E k \in 1..Len(t) : i = Len(s) + k
  <2> TAKE i \in 1..Len(r)
  <2>1. CASE i <= Len(s)
    BY <1>2, <2>1
  <2>2. CASE ~(i <= Len(s))
    <3>1. i - Len(s) \in 1..Len(t) /\ i = Len(s) + (i - Len(s))
      BY <1>2, <2>2
    <3> QED BY <3>1
  <2> QED BY <2>1, <2>2
<1>4. Unedited(r)
  <2> SUFFICES ASSUME NEW i \in 1..Len(r)
               PROVE  r[i].intact /\ \A j \in DOMAIN r[i].covers : r[i].covers[j].intact
    BY <1>2 DEF Unedited
  <2>1. CASE i \in 1..Len(s)
    BY <1>2, <2>1 DEF Unedited
  <2>2. CASE \E k \in 1..Len(t) : i = Len(s) + k
    BY <1>2, <2>2 DEF Unedited
  <2> QED BY <1>3, <2>1, <2>2
<1> QED BY <1>1, <1>4

LEMMA PrefixUnedited ==
  ASSUME NEW s, IsSequence(s), Unedited(s), NEW k \in Nat, k <= Len(s)
  PROVE  Unedited(SubSeq(s, 1, k))
<1>1. PICK r : r = SubSeq(s, 1, k)
  OBVIOUS
<1>2. IsSequence(r) /\ DOMAIN r = 1..k /\ DOMAIN s = 1..Len(s) /\ Len(s) \in Nat /\ \A i \in 1..k : r[i] = s[i]
  BY <1>1, PrefixSequence, DomainOfSequence DEF IsSequence
<1>3. Unedited(r)
  BY <1>2 DEF Unedited
<1> QED BY <1>1, <1>3

LEMMA AppendUnedited ==
  ASSUME NEW s, IsSequence(s), Unedited(s), NEW line, line.intact, \A j \in DOMAIN line.covers : line.covers[j].intact
  PROVE  Unedited(Append(s, line))
<1>1. PICK r : r = Append(s, line)
  OBVIOUS
<1>2. /\ IsSequence(r) /\ DOMAIN r = 1..Len(s) + 1 /\ DOMAIN s = 1..Len(s) /\ Len(s) \in Nat
      /\ \A i \in 1..Len(s) : r[i] = s[i]
      /\ r[Len(s) + 1] = line
  BY <1>1, AppendSequence, DomainOfSequence DEF IsSequence
<1>3. \A i \in 1..Len(s) + 1 : i \in 1..Len(s) \/ i = Len(s) + 1
  BY <1>2
<1>4. Unedited(r)
  BY <1>2, <1>3 DEF Unedited
<1> QED BY <1>1, <1>4

LEMMA BuildUnedited ==
  ASSUME NEW op \in Appends, NEW n, NEW evs, IsSequence(evs), Unedited(evs)
  PROVE  Unedited(Build(op, n, evs))
<1>1. PICK b : b = Build(op, n, evs)
  OBVIOUS
<1>2. IsSequence(b) /\ DOMAIN b = 1..Size[op]
  BY <1>1, BatchIsSequence, DomainOfSequence
<1>3. ASSUME NEW k \in 1..Size[op]
      PROVE  b[k].intact /\ \A j \in DOMAIN b[k].covers : b[k].covers[j].intact
  <2>1. \E id, seq, prev : b[k] = Line(id, seq, Kind(op, k), prev, IF Kind(op, k) = "anchor" THEN evs ELSE <<>>)
    BY <1>1, Zenon DEF Build
  <2>2. b[k].intact = TRUE /\ b[k].covers \in {evs, <<>>}
    BY <2>1 DEF Line
  <2>3. \A seq \in {evs, <<>>} : \A j \in DOMAIN seq : seq[j].intact
    <3>1. DOMAIN <<>> = {}
      BY EmptySequence, DomainOfSequence
    <3> QED BY <3>1 DEF Unedited
  <2> QED BY <2>2, <2>3
<1> QED BY <1>1, <1>2, <1>3 DEF Unedited

\* The last anchor of a log that has one.
LEMMA LastAnchor ==
  ASSUME NEW evs, IsSequence(evs), Of(evs, "anchor") # {}
  PROVE  AnchorAt(evs) \in Of(evs, "anchor") /\ AnchorAt(evs) # 0
<1>1. Len(evs) \in Nat /\ Of(evs, "anchor") \in SUBSET (1..Len(evs))
  BY DomainOfSequence DEF IsSequence, Of
<1>2. \E x \in Of(evs, "anchor") : \A y \in Of(evs, "anchor") : y <= x
  BY <1>1, Greatest
<1>3. AnchorAt(evs) \in Of(evs, "anchor")
  BY <1>2 DEF AnchorAt
<1> QED BY <1>1, <1>3

\* The code does not read a log with an edited line that something vouches for.
LEMMA MarkedNotRead ==
  ASSUME IInv, NEW p, Parses(p, file), Marked, Unedited(pin.hist)
  PROVE  FALSE
<1>1. PICK i \in DOMAIN file : Caught(i)
  BY DEF Marked
<1>2. IsSequence(file) /\ DOMAIN file = 1..Len(file) /\ Len(file) \in Nat
  BY DomainOfSequence DEF IInv, IsSequence
<1>3. IsSequence(pin.hist) /\ DOMAIN pin.hist = 1..Len(pin.hist) /\ Len(pin.hist) \in Nat /\ (~pin.set => pin.hist = <<>>)
  BY PinParts, DomainOfSequence DEF IInv, TypeOK, IsSequence
<1>4. CASE i <= Len(pin.hist)
  <2>1. pin.set
    BY <1>2, <1>3, <1>4, EmptySequence
  <2>2. Len(pin.hist) <= Len(file) /\ SubSeq(file, 1, Len(pin.hist)) = pin.hist
    BY <2>1 DEF Parses, Trusted, Upholds
  <2>3. i \in 1..Len(pin.hist) /\ file[i] = pin.hist[i]
    BY <1>2, <1>3, <1>4, <2>2, PrefixSequence
  <2> QED BY <1>1, <1>3, <2>3 DEF Caught, Unedited
<1>5. CASE AnchorAt(file) # 0
  <2>1. PICK a : a = AnchorAt(file)
    OBVIOUS
  <2>2. a \in 1..Len(file) /\ file[a].kind = "anchor" /\ i # a
    <3>1. Of(file, "anchor") # {}
      BY <1>5 DEF AnchorAt
    <3> QED BY <1>1, <1>2, <2>1, <3>1, LastAnchor DEF Of, Caught
  <2>3. /\ a = Len(file[a].covers) + 1
        /\ SubSeq(file, 1, a - 1) = file[a].covers
        /\ \A k \in DOMAIN file : k > a => file[k].intact
    BY <1>5, <2>1 DEF Parses, Readable, ChainHolds
  <2>4. CASE i > a
    BY <1>1, <2>3, <2>4 DEF Caught
  <2>5. CASE i < a
    <3>1. a - 1 \in Nat /\ a - 1 <= Len(file) /\ i \in 1..a - 1
      BY <1>2, <2>2, <2>5
    <3>2. PICK r : r = SubSeq(file, 1, a - 1)
      OBVIOUS
    <3>3. IsSequence(r) /\ Len(r) = a - 1 /\ r[i] = file[i]
      BY <1>2, <3>1, <3>2, PrefixSequence
    <3>4. i \in DOMAIN file[a].covers /\ file[a].covers[i] = file[i]
      BY <2>3, <3>1, <3>2, <3>3, DomainOfSequence
    <3>5. file[a].covers[i].intact
      BY <1>2, <2>2, <3>4 DEF Marked
    <3> QED BY <1>1, <3>4, <3>5 DEF Caught
  <2> QED BY <1>2, <2>2, <2>4, <2>5
<1> QED BY <1>1, <1>4, <1>5 DEF Caught

\* What is read is free of edits.
LEMMA ReadUnedited ==
  ASSUME IInv, Trustworthy, NEW p, Parses(p, file)
  PROVE  Unedited(file)
  BY MarkedNotRead DEF Trustworthy

\* A mark stays while the pin is not cut short.
LEMMA MarkStays ==
  ASSUME IInv, IInv', Marked, file' = file, Extends
  PROVE  Marked'
<1>1. Len(pin.hist) <= Len(pin'.hist) /\ Len(pin.hist) \in Nat /\ Len(pin'.hist) \in Nat
  BY PinParts DEF IInv, TypeOK, IsSequence, IsPrefix, Extends, Recovers
<1>2. DOMAIN file = 1..Len(file) /\ Len(file) \in Nat
  BY DomainOfSequence DEF IInv, IsSequence
<1>3. \A i \in DOMAIN file : Caught(i) => Caught(i)'
  BY <1>1, <1>2 DEF Caught
<1> QED BY <1>3 DEF Marked

\* A step that leaves the log alone.
LEMMA TrustworthyKept ==
  ASSUME IInv, IInv', Trustworthy, file' = file, damage' = damage, dead \subseteq dead',
         Extends,
         Unedited(pin'.hist), Unedited(pin'.pending),
         NEW p \in Procs, UneditedJob(p)', \A q \in Procs \ {p} : pc'[q] = pc[q] /\ job'[q] = job[q],
         pc'[p] \in Appending /\ p \notin dead' => pc[p] \in Appending \/ Unedited(file)
  PROVE  Trustworthy'
<1>1. \A q \in Procs \ {p} : UneditedJob(q)'
  BY DEF Trustworthy, UneditedJob
<1>2. Unedited(file) => Unedited(file)'
  OBVIOUS
<1>3. ~Unedited(file) => Marked' /\ \A q \in Procs \ dead' : pc'[q] \notin Appending
  BY MarkStays DEF Trustworthy
<1>4. damage' # "altered" => Unedited(file)'
  BY <1>2 DEF Trustworthy
<1> QED BY <1>1, <1>2, <1>3, <1>4 DEF Trustworthy

-----------------------------------------------------------------------------
\* Steps that leave the log and the pin alone, and after which p has not read it.
LEMMA AsideTrustworthy ==
  ASSUME IInv, IInv', Trustworthy, NEW p \in Procs,
         \/ \E op \in Ops : Begin(p, op)
         \/ Plan(p) \/ Enroll(p) \/ Lock(p) \/ Confirm(p)
         \/ TimeOut(p) \/ Refuse(p) \/ IntendFails(p) \/ ConfirmFails(p) \/ CheckpointFails(p)
         \/ Unlock(p) \/ ReadFails(p) \/ CatchUpFails(p) \/ ImportFails(p)
  PROVE  Trustworthy'
<1>1. file' = file /\ damage' = damage /\ dead' = dead /\ pin' = pin
  <2>1. CASE (\E op \in Ops : Begin(p, op)) \/ Plan(p) \/ Enroll(p) \/ Lock(p) \/ Confirm(p)
    BY <2>1 DEF Begin, Plan, Enroll, Lock, Confirm, Acquire, pastVars, fileVars, trustVars, mutexVars
  <2>2. CASE \/ TimeOut(p) \/ Refuse(p) \/ IntendFails(p) \/ ConfirmFails(p) \/ CheckpointFails(p)
             \/ Unlock(p) \/ ReadFails(p) \/ CatchUpFails(p) \/ ImportFails(p)
    BY <2>2 DEF TimeOut, Refuse, IntendFails, ConfirmFails, CheckpointFails, Unlock, ReadFails, CatchUpFails,
                ImportFails, FinishAnd, Release, pastVars, fileVars, trustVars, mutexVars
  <2> QED BY <2>1, <2>2
<1>2. PICK phase, j :
        /\ Goto(p, phase) /\ job' = [job EXCEPT ![p] = j] /\ j.batch \in {<<>>, job[p].batch}
        /\ \/ phase \notin Knowing
           \/ phase \notin Appending /\ pc[p] \in Knowing /\ j.seen = job[p].seen
  <2>1. job' = job => job' = [job EXCEPT ![p] = job[p]]
    BY DEF IInv, Jobs
  <2>2. CASE \E op \in Ops : Begin(p, op)
    <3>1. PICK op \in Ops : Begin(p, op)
      BY <2>2
    <3>2. job' = [job EXCEPT ![p] = Job(op, issued + 1, <<>>, <<>>)] /\ Job(op, issued + 1, <<>>, <<>>).batch = <<>>
      BY <3>1 DEF Begin, Job
    <3>3. \E phase : Goto(p, phase) /\ phase \notin Knowing
      BY <3>1 DEF Begin, First, Ops, Appends, Resets, Knowing, Committing
    <3> QED BY <3>2, <3>3
  <2>3. CASE Plan(p)
    <3>1. JobOK(p) /\ job' = [job EXCEPT ![p] = [job[p] EXCEPT !.seen = file]] /\ Goto(p, "truncate")
      BY <2>3 DEF Plan, IInv, Jobs
    <3>2. PICK j : j = [job[p] EXCEPT !.seen = file]
      OBVIOUS
    <3>3. j.batch = job[p].batch
      BY <3>1, <3>2 DEF JobOK
    <3>4. "truncate" \notin Knowing
      BY DEF Knowing, Committing
    <3> QED BY <3>1, <3>2, <3>3, <3>4
  <2>4. CASE Enroll(p) \/ Lock(p)
    BY <2>1, <2>4 DEF Enroll, Lock, Knowing, Committing
  <2>5. CASE Confirm(p)
    BY <2>1, <2>5 DEF Confirm, At, Knowing, Committing, Appending
  <2>6. CASE \/ TimeOut(p) \/ Refuse(p) \/ IntendFails(p) \/ ConfirmFails(p) \/ CheckpointFails(p)
             \/ Unlock(p) \/ ReadFails(p) \/ CatchUpFails(p) \/ ImportFails(p)
    <3>1. Finish(p)
      BY <2>6 DEF TimeOut, Refuse, IntendFails, ConfirmFails, CheckpointFails, Unlock, ReadFails, CatchUpFails,
                  ImportFails, FinishAnd
    <3>2. NoJob.batch = <<>>
      BY DEF NoJob, Job
    <3>3. Goto(p, "idle") /\ job' = [job EXCEPT ![p] = NoJob] /\ "idle" \notin Knowing
      BY <3>1 DEF Finish, Knowing, Committing
    <3> QED BY <3>2, <3>3
  <2> QED BY <2>2, <2>3, <2>4, <2>5, <2>6
<1>3. pc'[p] = phase /\ job'[p] = j /\ \A q \in Procs \ {p} : pc'[q] = pc[q] /\ job'[q] = job[q]
  BY <1>2, Moves, OwnJob, OtherJobs
<1>4. UneditedJob(p)'
  BY <1>2, <1>3, EmptyUnedited DEF Trustworthy, UneditedJob
<1>5. phase \notin Appending
  BY <1>2 DEF Knowing, Committing, Appending
<1>6. Unedited(pin'.hist) /\ Unedited(pin'.pending)
  BY <1>1 DEF Trustworthy
<1> QED BY <1>1, <1>3, <1>4, <1>5, <1>6, TrustworthyKept DEF Extends

\* The log is emptied.
LEMMA ResetTrustworthy ==
  ASSUME IInv, IInv', Trustworthy, NEW p \in Procs, Create(p) \/ Truncate(p) \/ StartOver(p)
  PROVE  Trustworthy'
<1>1. PICK phase : Goto(p, phase) /\ phase \notin Knowing
  <2>1. CASE Create(p)
    <3>1. job[p].op \in Ops
      BY <2>1 DEF IInv, Jobs, JobOK, Create, At, Ops
    <3> QED BY <2>1, <3>1 DEF Create, First, Ops, Appends, Resets, Committing, Knowing
  <2>2. CASE Truncate(p) \/ StartOver(p)
    BY <2>2 DEF Truncate, StartOver, Committing, Knowing
  <2> QED BY <2>1, <2>2
<1>2. PICK j : job' = [job EXCEPT ![p] = j] /\ j.batch = job[p].batch
  <2>1. job' = job => job' = [job EXCEPT ![p] = job[p]]
    BY DEF IInv, Jobs
  <2>2. [job[p] EXCEPT !.seen = <<>>].batch = job[p].batch
    BY DEF IInv, Jobs, JobOK
  <2> QED BY <2>1, <2>2 DEF Create, Truncate, StartOver
<1>3. pc'[p] = phase /\ job'[p] = j /\ \A q \in Procs \ {p} : pc'[q] = pc[q] /\ job'[q] = job[q]
  BY <1>1, <1>2, Moves, OwnJob, OtherJobs
<1>4. \A q \in Procs : UneditedJob(q)'
  BY <1>1, <1>2, <1>3 DEF Trustworthy, UneditedJob
<1>5. file' = <<>> /\ pin' = pin
  BY DEF Create, Truncate, StartOver, Empty, trustVars
<1> QED BY <1>4, <1>5, EmptyUnedited DEF Trustworthy

\* A log is read, or planned on.
LEMMA ReadTrustworthy ==
  ASSUME IInv, IInv', Trustworthy, NEW p \in Procs, Validate(p) \/ ReadLog(p)
  PROVE  Trustworthy'
<1>1. Unedited(file) /\ IsSequence(file) /\ JobOK(p)
  BY ReadUnedited DEF Validate, Admissible, ReadLog, IInv, Jobs
<1>2. file' = file /\ damage' = damage /\ dead' = dead /\ pin' = pin
  BY DEF Validate, ReadLog, pastVars, fileVars, trustVars, mutexVars
<1>3. PICK phase, j : Goto(p, phase) /\ job' = [job EXCEPT ![p] = j] /\ Unedited(j.seen) /\ Unedited(j.batch)
  <2>1. CASE Validate(p)
    <3>1. job[p].op \in Appends
      BY <1>1, <2>1 DEF Validate, At, JobOK
    <3>2. PICK batch : batch = Build(job[p].op, job[p].n, file)
      OBVIOUS
    <3>3. Unedited(batch)
      BY <1>1, <3>1, <3>2, BuildUnedited
    <3>4. PICK j : j = Job(job[p].op, job[p].n, file, batch)
      OBVIOUS
    <3>5. j.seen = file /\ j.batch = batch
      BY <3>4 DEF Job
    <3>6. (\E phase : Goto(p, phase)) /\ job' = [job EXCEPT ![p] = j]
      BY <2>1, <3>2, <3>4 DEF Validate
    <3> QED BY <1>1, <3>3, <3>5, <3>6
  <2>2. CASE ReadLog(p)
    <3>1. job' = [job EXCEPT ![p] = [job[p] EXCEPT !.seen = file]] /\ Goto(p, "advance")
      BY <2>2 DEF ReadLog
    <3>2. [job[p] EXCEPT !.seen = file].batch = job[p].batch /\ [job[p] EXCEPT !.seen = file].seen = file
      BY <1>1 DEF JobOK
    <3> QED BY <1>1, <3>1, <3>2 DEF Trustworthy, UneditedJob
  <2> QED BY <2>1, <2>2
<1>4. pc'[p] = phase /\ job'[p] = j /\ \A q \in Procs \ {p} : pc'[q] = pc[q] /\ job'[q] = job[q]
  BY <1>3, Moves, OwnJob, OtherJobs
<1>5. UneditedJob(p)'
  BY <1>3, <1>4 DEF UneditedJob
<1>6. Unedited(pin'.hist) /\ Unedited(pin'.pending)
  BY <1>2 DEF Trustworthy
<1> QED BY <1>1, <1>2, <1>4, <1>5, <1>6, TrustworthyKept DEF Extends

\* What the pin is told is free of edits.
LEMMA PinTrustworthy ==
  ASSUME IInv, IInv', Trustworthy, NEW p \in Procs, Intend(p) \/ CheckpointLog(p) \/ CatchUp(p) \/ WritePin(p), Extends
  PROVE  Trustworthy'
<1>1. file' = file /\ damage' = damage /\ dead' = dead
  BY DEF Intend, CheckpointLog, CatchUp, WritePin, pastVars, fileVars, mutexVars
<1>2. JobOK(p) /\ UneditedJob(p) /\ Unedited(pin.hist) /\ Unedited(pin.pending)
  BY DEF IInv, Jobs, Trustworthy
<1>3. pc[p] \in Committing => Unedited(Planned(p))
  BY <1>2, ConcatUnedited DEF JobOK, UneditedJob, Knowing, Planned
<1>4. Unedited(pin'.hist) /\ Unedited(pin'.pending)
  <2>1. CASE Intend(p)
    <3>1. pin' = [pin EXCEPT !.pending = Planned(p)] /\ Unedited(Planned(p))
      BY <1>3, <2>1 DEF Intend, At, Committing
    <3>2. pin = [set |-> pin.set, hist |-> pin.hist, boot |-> pin.boot, pending |-> pin.pending]
      BY PinParts DEF IInv, TypeOK
    <3>3. pin'.hist = pin.hist /\ pin'.pending = Planned(p)
      BY <3>1, <3>2
    <3> QED BY <1>2, <3>1, <3>3
  <2>2. CASE CheckpointLog(p)
    <3>1. Unedited(Planned(p))
      BY <1>3, <2>2 DEF CheckpointLog, At, Committing
    <3>2. pin' = pin \/ \E boot : pin' = Pin(Planned(p), boot, <<>>)
      BY <2>2 DEF CheckpointLog, Advances
    <3>3. pin' = pin \/ (pin'.hist = Planned(p) /\ pin'.pending = <<>>)
      BY <3>2 DEF Pin
    <3> QED BY <1>2, <3>1, <3>3, EmptyUnedited
  <2>3. CASE CatchUp(p)
    <3>1. Unedited(job[p].seen)
      BY <1>2, <2>3 DEF CatchUp, At, UneditedJob, Knowing
    <3>2. pin' = pin \/ \E boot : pin' = Pin(job[p].seen, boot, <<>>)
      BY <2>3 DEF CatchUp, Advances
    <3>3. pin' = pin \/ (pin'.hist = job[p].seen /\ pin'.pending = <<>>)
      BY <3>2 DEF Pin
    <3> QED BY <1>2, <3>1, <3>3, EmptyUnedited
  <2>4. CASE WritePin(p)
    <3>1. pin'.hist = ImportedHist(job[p].op) /\ pin'.pending = <<>>
      BY <2>4 DEF WritePin, Pin
    <3> QED BY <1>2, <3>1, EmptyUnedited DEF ImportedHist
  <2> QED BY <2>1, <2>2, <2>3, <2>4
<1>5. PICK phase, j :
        /\ Goto(p, phase) /\ job' = [job EXCEPT ![p] = j]
        /\ \/ phase = "idle" /\ j.batch = <<>>
           \/ j = job[p] /\ pc[p] \in Committing /\ (phase \in Appending => pc[p] \in Appending)
  <2>1. job' = job => job' = [job EXCEPT ![p] = job[p]]
    BY DEF IInv, Jobs
  <2>2. CASE Intend(p)
    BY <2>1, <2>2 DEF Intend, At, Committing, Appending
  <2>3. CASE CheckpointLog(p)
    <3>1. Goto(p, "unlock") /\ pc[p] \in Committing /\ "unlock" \notin Appending /\ job' = [job EXCEPT ![p] = job[p]]
      BY <2>1, <2>3 DEF CheckpointLog, At, Committing, Appending
    <3> QED BY <3>1
  <2>4. CASE CatchUp(p) \/ WritePin(p)
    <3>1. NoJob.batch = <<>>
      BY DEF NoJob, Job
    <3> QED BY <2>4, <3>1 DEF CatchUp, WritePin, Finish
  <2> QED BY <2>2, <2>3, <2>4
<1>6. pc'[p] = phase /\ job'[p] = j /\ \A q \in Procs \ {p} : pc'[q] = pc[q] /\ job'[q] = job[q]
  BY <1>5, Moves, OwnJob, OtherJobs
<1>7. UneditedJob(p)'
  BY <1>2, <1>5, <1>6, EmptyUnedited DEF UneditedJob, Knowing, Committing
<1>8. pc'[p] \in Appending => pc[p] \in Appending
  BY <1>5, <1>6 DEF Appending
<1> QED BY <1>1, <1>4, <1>6, <1>7, <1>8, TrustworthyKept

\* The line that comes next is free of edits, and so is the log it comes to.
LEMMA NextUnedited ==
  ASSUME IInv, Writing, Trustworthy, NEW p \in Procs \ dead, pc[p] = "append"
  PROVE  LET line == job[p].batch[job[p].step + 1] IN
         /\ Unedited(file) /\ Unedited(Append(file, line))
<1>1. pc[p] \in Appending /\ pc[p] \in Knowing
  BY DEF Appending, Knowing, Committing
<1>2. Unedited(file) /\ IsSequence(file)
  BY <1>1 DEF Trustworthy, IInv
<1>3. IsSequence(job[p].batch) /\ Unedited(job[p].batch) /\ job[p].step \in Nat /\ job[p].step + 1 <= Len(job[p].batch)
  BY <1>1 DEF IInv, Jobs, JobOK, Trustworthy, UneditedJob, Writing, WritingOK
<1>4. job[p].step + 1 \in DOMAIN job[p].batch
  BY <1>3, DomainOfSequence DEF IsSequence
<1>5. PICK line : line = job[p].batch[job[p].step + 1]
  OBVIOUS
<1>6. line.intact /\ \A j \in DOMAIN line.covers : line.covers[j].intact
  BY <1>3, <1>4, <1>5 DEF Unedited
<1>7. Unedited(Append(file, line))
  BY <1>2, <1>6, AppendUnedited
<1> QED BY <1>2, <1>5, <1>7

LEMMA AppendTrustworthy ==
  ASSUME IInv, IInv', Writing, Trustworthy, NEW p \in Procs, AppendLine(p)
  PROVE  Trustworthy'
<1>1. p \in Procs \ dead /\ pc[p] = "append" /\ file' = Append(file, job[p].batch[job[p].step + 1]) /\ pin' = pin
  BY DEF AppendLine, At, trustVars
<1>2. Unedited(file')
  BY <1>1, NextUnedited
<1>3. PICK phase, step : pc' = [pc EXCEPT ![p] = phase] /\ job' = [job EXCEPT ![p] = [job[p] EXCEPT !.step = step]]
  <2>1. CASE job[p].step + 1 < Len(job[p].batch)
    <3>1. pc' = pc /\ job' = [job EXCEPT ![p] = [job[p] EXCEPT !.step = job[p].step + 1]]
      BY <2>1 DEF AppendLine, NextStep
    <3>2. pc' = [pc EXCEPT ![p] = pc[p]]
      BY <3>1 DEF IInv, Jobs
    <3> QED BY <3>1, <3>2
  <2>2. CASE ~(job[p].step + 1 < Len(job[p].batch))
    BY <2>2 DEF AppendLine, NextStep, Goto
  <2> QED BY <2>1, <2>2
<1>4. /\ job'[p] = [job[p] EXCEPT !.step = step]
      /\ \A q \in Procs \ {p} : pc'[q] = pc[q] /\ job'[q] = job[q]
  BY <1>3, Moves, OwnJob, OtherJobs DEF Goto
<1>5. job'[p].batch = job[p].batch /\ job'[p].seen = job[p].seen
  BY <1>4 DEF IInv, Jobs, JobOK
<1>6. UneditedJob(p)'
  BY <1>1, <1>5 DEF Trustworthy, UneditedJob, Knowing, Committing
<1>7. \A q \in Procs : UneditedJob(q)'
  BY <1>4, <1>6 DEF Trustworthy, UneditedJob
<1> QED BY <1>1, <1>2, <1>7 DEF Trustworthy

LEMMA CrashTrustworthy ==
  ASSUME IInv, IInv', Writing, Trustworthy, NEW p \in Procs, Crash(p)
  PROVE  Trustworthy'
<1>1. p \notin dead /\ dead \subseteq dead' /\ UNCHANGED <<pc, job, pin, damage>>
  BY DEF Crash, Die, pastVars, trustVars
<1>2. \A q \in Procs : UneditedJob(q)'
  BY <1>1 DEF Trustworthy, UneditedJob
<1>3. CASE UNCHANGED fileVars
  <2>1. file' = file
    BY <1>3 DEF fileVars
  <2>2. Marked => Marked'
    BY <1>1, <2>1, MarkStays DEF Extends
  <2> QED BY <1>1, <1>2, <2>1, <2>2 DEF Trustworthy
<1>4. CASE ~UNCHANGED fileVars
  <2>1. PICK line \in {Torn, job[p].batch[job[p].step + 1]} : file' = Append(file, line) /\ pc[p] = "append"
    BY <1>4 DEF Crash
  <2>2. Unedited(file) /\ Unedited(Append(file, job[p].batch[job[p].step + 1])) /\ IsSequence(file)
    BY <1>1, <2>1, NextUnedited DEF IInv
  <2>3. Unedited(Append(file, Torn))
    <3>1. Torn.intact = TRUE /\ Torn.covers = <<>> /\ DOMAIN <<>> = {}
      BY EmptySequence, DomainOfSequence DEF Torn, Line
    <3> QED BY <2>2, <3>1, AppendUnedited
  <2> QED BY <1>1, <1>2, <2>1, <2>2, <2>3 DEF Trustworthy
<1> QED BY <1>3, <1>4

LEMMA ReclaimTrustworthy ==
  ASSUME IInv, IInv', Trustworthy, LockReclaimed \/ RecordReclaimed
  PROVE  Trustworthy'
<1>1. UNCHANGED <<file, pc, job, damage, dead, pin>>
  BY DEF LockReclaimed, RecordReclaimed, Reclaim, fileVars, pastVars, mutexVars, trustVars
<1>2. Marked => Marked'
  BY <1>1, MarkStays DEF Extends
<1> QED BY <1>1, <1>2 DEF Trustworthy, UneditedJob

\* The damage done by hand: an older copy is free of edits, an edited line is
\* one that something vouches for.
LEMMA DamageTrustworthy ==
  ASSUME IInv, IInv', Trustworthy, Restore \/ Alter
  PROVE  Trustworthy'
<1>1. UNCHANGED <<pc, job, pin, dead>> /\ damage = "none" /\ \A q \in Procs \ dead : pc[q] = "idle"
  BY DEF Restore, Alter, mutexVars, trustVars
<1>2. \A q \in Procs : UneditedJob(q)'
  BY <1>1 DEF Trustworthy, UneditedJob
<1>3. Unedited(file) /\ IsSequence(file) /\ DOMAIN file = 1..Len(file) /\ Len(file) \in Nat
  BY <1>1, DomainOfSequence DEF Trustworthy, IInv, IsSequence
<1>4. CASE Restore
  <2>1. PICK k \in 0..Len(file) - 1 : file' = SubSeq(file, 1, k)
    BY <1>4 DEF Restore
  <2>2. k \in Nat /\ k <= Len(file)
    BY <1>3, <2>1
  <2>3. Unedited(file')
    BY <1>3, <2>1, <2>2, PrefixUnedited
  <2> QED BY <1>1, <1>2, <2>3 DEF Trustworthy
<1>5. CASE Alter
  <2>1. PICK i \in DOMAIN file :
          /\ AnchorAt(file) # 0 \/ i <= Len(pin.hist)
          /\ file[i].kind # "anchor"
          /\ file' = [file EXCEPT ![i] = Edited(file[i])]
    BY <1>5 DEF Alter
  <2>2. damage' = "altered"
    BY <1>5 DEF Alter
  <2>3. /\ DOMAIN file' = DOMAIN file
        /\ file'[i] = Edited(file[i])
        /\ \A k \in DOMAIN file : k # i => file'[k] = file[k]
    BY <1>3, <2>1 DEF IsSequence
  <2>4. Edited(file[i]).intact = FALSE /\ Edited(file[i]).kind = file[i].kind /\ Edited(file[i]).covers = file[i].covers
    BY DEF Edited, Line
  <2>5. \A k \in DOMAIN file : file'[k].kind = file[k].kind /\ file'[k].covers = file[k].covers
    BY <2>3, <2>4
  <2>6. Of(file', "anchor") = Of(file, "anchor")
    BY <2>3, <2>5 DEF Of
  <2>7. AnchorAt(file) # 0 => AnchorAt(file') # 0
    <3>1. AnchorAt(file) # 0 => Of(file', "anchor") # {}
      BY <2>6 DEF AnchorAt
    <3> QED BY <3>1, LastAnchor DEF IInv
  <2>8. Caught(i)'
    BY <1>1, <2>1, <2>3, <2>4, <2>7 DEF Caught
  <2>9. \A k \in DOMAIN file' : \A j \in DOMAIN file'[k].covers : file'[k].covers[j].intact
    BY <1>3, <2>3, <2>5 DEF Unedited
  <2>10. Marked'
    BY <2>3, <2>8, <2>9 DEF Marked
  <2>11. \A q \in Procs \ dead' : pc'[q] \notin Appending
    BY <1>1 DEF Appending
  <2> QED BY <1>1, <1>2, <2>2, <2>10, <2>11 DEF Trustworthy
<1> QED BY <1>4, <1>5

-----------------------------------------------------------------------------
\* What the last four results rest on.
Guarded == Writing /\ Course /\ Honouring /\ Bound /\ Trustworthy

LEMMA StepGuards ==
  ASSUME IInv, Guarded, Next
  PROVE  Guarded'
<1>1. Writing /\ Course /\ Honouring /\ Bound /\ Trustworthy
  BY DEF Guarded
<1>2. IInv' /\ Extends
  BY StepKeeps
<1>3. Writing' /\ Course'
  BY <1>1, EarlyCourse, ResetCourse, LockCourse, FinishCourse, ValidateCourse, IntendCourse, AppendCourse,
     CrashCourse, ReclaimCourse, DamageCourse, Zenon DEF Next, Proceed
<1>4. Honouring'
  BY <1>1, <1>2, EarlyHonours, EndHonours, ResetHonours, ValidateHonours, CommitHonours, AppendHonours,
     AccidentHonours, Zenon DEF Next, Proceed
<1>5. Trustworthy'
  BY <1>1, <1>2, AsideTrustworthy, ResetTrustworthy, ReadTrustworthy, PinTrustworthy, AppendTrustworthy,
     CrashTrustworthy, ReclaimTrustworthy, DamageTrustworthy, Zenon DEF Next, Proceed
<1>6. Bound'
  BY <1>1, <1>2, StepBinds
<1> QED BY <1>3, <1>4, <1>5, <1>6 DEF Guarded

LEMMA StutterGuards ==
  ASSUME IInv, Guarded, UNCHANGED vars
  PROVE  Guarded'
<1>1. UNCHANGED <<file, ended, pc, job, raced, damage, dead, holder, pin>>
  BY DEF vars, fileVars, pastVars, mutexVars, trustVars
<1>2. Writing'
  BY <1>1 DEF Guarded, Writing, WritingOK
<1>3. Course'
  BY <1>1 DEF Guarded, Course, Whole, Planning, OnPlan, Planned
<1>4. Honouring'
  BY <1>1 DEF Guarded, Honouring, OnPlan, Pinned, Planned
<1>5. Trustworthy'
  BY <1>1 DEF Guarded, Trustworthy, UneditedJob, Marked, Caught
<1>6. Bound'
  BY <1>1 DEF Guarded, Bound
<1> QED BY <1>2, <1>3, <1>4, <1>5, <1>6 DEF Guarded

LEMMA GuardedInvariance == Spec => []Guarded
<1>1. Init => Guarded
  <2> SUFFICES ASSUME Init PROVE Guarded
    OBVIOUS
  <2>1. \A p \in Procs : pc[p] = "idle" /\ job[p] = NoJob
    BY DEF Init
  <2>2. Sound(file) /\ ended = TRUE /\ Unedited(file) /\ Unedited(pin.hist) /\ Unedited(pin.pending)
    BY StartAssumption DEF Init, Sound
  <2>3. Writing
    BY <2>1 DEF Writing, WritingOK, Appending, Committing
  <2>4. Course /\ Honouring
    BY <2>1, <2>2 DEF Course, Honouring, Whole, Appending
  <2>7. Bound
    BY StartAssumption DEF Init, Bound
  <2>5. NoJob.batch = <<>>
    BY DEF NoJob, Job
  <2>6. \A p \in Procs : UneditedJob(p)
    BY <2>1, <2>5, EmptyUnedited DEF UneditedJob, Knowing, Committing
  <2> QED BY <2>2, <2>3, <2>4, <2>6, <2>7 DEF Guarded, Trustworthy
<1>2. IInv /\ Guarded /\ [Next]_vars => Guarded'
  BY StepGuards, StutterGuards
<1> QED BY <1>1, <1>2, FileInvariance, PTL DEF Spec

\* Readers find the log whole, but for a torn last line: whoever is killed
\* while writing, whatever older copy is put back, as long as no line is edited
\* and no reset runs next to a command.
THEOREM LogStaysReadable == Spec => []StaysReadable
<1>1. Guarded => StaysReadable
  BY DEF Guarded, Course, Sound, StaysReadable
<1> QED BY <1>1, GuardedInvariance, PTL

\* What the pin vouches for, or an activation has bound itself to, is not built
\* over, as long as no reset and no verify acts on an outdated reading.
THEOREM PinIsHonoured == Spec => AppendsHonourPin
<1>1. IInv /\ Guarded /\ [Next]_vars =>
        [\A p \in Procs : AppendLine(p) /\ ~raced =>
             Comparable(file', pin.hist) /\ Comparable(file', pin.pending)]_vars
  BY AppendHonours DEF Guarded
<1> QED BY <1>1, FileInvariance, GuardedInvariance, PTL DEF Spec, AppendsHonourPin

\* Commits, verify and imports only ever extend what the checkpoint vouches
\* for, whatever is damaged, restored or emptied and whoever dies; at worst, a
\* recovery after an outdated reading replaces it by something as long.
THEOREM CheckpointExtends == Spec => CheckpointOnlyExtends
<1>1. IInv /\ Guarded /\ [Next]_vars => [Vouched!Vouch \/ Vouched!Replace]_(pin.hist)
  <2> SUFFICES ASSUME IInv, Guarded, [Next]_vars, pin'.hist # pin.hist
               PROVE  IsPrefix(pin.hist, pin'.hist) \/ Vouched!Replace
    BY DEF Vouched!Vouch, Vouched!IsPrefix, IsPrefix
  <2>1. IsPrefix(pin.hist, pin'.hist) \/ Recovers
    <3>1. CASE Next
      BY <3>1, StepKeeps DEF Extends
    <3>2. CASE UNCHANGED vars
      BY <3>2 DEF vars, trustVars
    <3> QED BY <3>1, <3>2
  <2>2. CASE Recovers /\ ~raced
    BY <2>2 DEF Recovers, Guarded, Bound
  <2>3. CASE Recovers /\ raced
    <3>1. \E p \in Procs \ dead : pc[p] = "pin"
      BY <2>3 DEF Recovers, WritePin, At
    <3> QED BY <2>3, <3>1 DEF Recovers, Vouched!Replace
  <2> QED BY <2>1, <2>2, <2>3
<1> QED BY <1>1, FileInvariance, GuardedInvariance, PTL DEF Spec, CheckpointOnlyExtends, Vouched!CheckpointSpec

\* Nothing is appended to a log with an edited line that the chain or the pin
\* vouches for, whatever resets and verifies run at the same time.
THEOREM EditsAreNotBuiltOn == Spec => AlteredNotBuiltOn
<1>1. IInv /\ Guarded /\ [Next]_vars =>
        [\A p \in Procs : AppendLine(p) => \A i \in DOMAIN file : file[i].intact]_vars
  <2> SUFFICES ASSUME IInv, Guarded, NEW p \in Procs, AppendLine(p)
               PROVE  \A i \in DOMAIN file : file[i].intact
    OBVIOUS
  <2>1. p \in Procs \ dead /\ pc[p] = "append"
    BY DEF AppendLine, At
  <2>2. Unedited(file)
    BY <2>1, NextUnedited DEF Guarded
  <2> QED BY <2>2 DEF Unedited
<1> QED BY <1>1, FileInvariance, GuardedInvariance, PTL DEF Spec, AlteredNotBuiltOn

=============================================================================
