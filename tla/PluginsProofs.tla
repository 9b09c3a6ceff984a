--------------------------- MODULE PluginsProofs ---------------------------
(***************************************************************************)
(* What is proved of Plugins for any packages, executions, commands and    *)
(* processes.  Three invariants, each resting on the one before: what the  *)
(* files and the jobs hold; that a process which is alone really is, and   *)
(* what its removal has come to; and, until the first disturbance, how far *)
(* the one command that runs has got, which relates both files.            *)
(***************************************************************************)
EXTENDS Plugins, TLAPS

-----------------------------------------------------------------------------
\* What files and jobs hold.

InstalledOK(f) ==
  /\ f \in SUBSET Installations
  /\ \A i \in f : i.id = Package[i.dir].id /\ DirsOf(f, i.id) = {i.dir}

EntriesOK(f) ==
  /\ f \in SUBSET Entries
  /\ \A e \in f : f \ Others(f, e) = {e}

\* The command a process is at, with what it found and will write, in a phase.
Fits(c, dir, write, phase) ==
  /\ phase # "idle" => c \in Commands
  /\ phase \in {"openPlugins", "writePlugins"} => c.op \in {"install", "remove"} /\ InstalledOK(write)
  /\ phase = "copyInput" => c.op = "activate" /\ dir \in DOMAIN Package
  /\ phase = "readRoadmaps" => c.op \in {"remove", "activate"} /\ (c.op = "activate" => dir \in DOMAIN Package)
  /\ phase \in {"openRoadmaps", "writeRoadmaps"} =>
       c.op \in {"remove", "activate", "status", "deactivate"} /\ EntriesOK(write)

JobShape(j) ==
  /\ j = [cmd |-> j.cmd, dir |-> j.dir, read |-> j.read, write |-> j.write, alone |-> j.alone]
  /\ j.alone \in BOOLEAN

JobOK(j, phase) == JobShape(j) /\ Fits(j.cmd, j.dir, j.write, phase)

TInv ==
  /\ plugins = Torn \/ InstalledOK(plugins)
  /\ roadmaps = Torn \/ EntriesOK(roadmaps)
  /\ inputs \in [Slots -> [form : Forms \cup {"none"}, edited : BOOLEAN]]
  /\ pc \in [Procs -> Phases]
  /\ job = [p \in Procs |-> job[p]]
  /\ \A p \in Procs : JobOK(job[p], pc[p])
  /\ disturbed \in BOOLEAN
  /\ issued \in 0..MaxCommands
  /\ deaths \in 0..MaxDeaths

-----------------------------------------------------------------------------
\* Who is alone, and what a removal has come to.

Removing(p) == job[p].cmd.op = "remove" /\ job[p].alone

RemovalOK(p) ==
  LET id == job[p].cmd.plugin IN
  Removing(p) =>
    /\ pc[p] \in {"openPlugins", "writePlugins"} => DirsOf(job[p].write, id) = {}
    /\ pc[p] = "writePlugins" => plugins = Torn
    /\ pc[p] \in {"readRoadmaps", "openRoadmaps", "writeRoadmaps"} => DirsOf(plugins, id) = {}
    /\ pc[p] \in {"openRoadmaps", "writeRoadmaps"} => \A e \in job[p].write : e.plugin # id
    /\ pc[p] = "writeRoadmaps" => roadmaps = Torn

AInv ==
  /\ \A p, q \in Procs : Busy(p) /\ job[p].alone /\ Busy(q) => q = p
  /\ \A p \in Procs : Busy(p) => RemovalOK(p)

-----------------------------------------------------------------------------
\* Until the first disturbance.

Ids(f) == {i.id : i \in f}

\* What install and remove write, given what they read.
Reinstalled(c, f) ==
  IF c.op = "install"
  THEN {i \in f : i.id # Package[c.dir].id} \cup {[id |-> Package[c.dir].id, dir |-> c.dir]}
  ELSE {i \in f : i.id # c.plugin}

\* Every execution has its plugin; while a plugin is being removed, all others do.
Covered(f, entries) == \A e \in entries : e.plugin \in Ids(f)
CoveredFor(c, f, entries) ==
  IF c.op = "remove"
  THEN c.plugin \notin Ids(f) /\ \A e \in entries : e.plugin # c.plugin => e.plugin \in Ids(f)
  ELSE Covered(f, entries)

\* The files between commands.
Settled(f, entries) == InstalledOK(f) /\ EntriesOK(entries) /\ Covered(f, entries)

Progress(p) ==
  LET j == job[p] IN
  /\ j.alone
  /\ pc[p] = "openPlugins" =>
       Settled(plugins, roadmaps) /\ j.read = plugins /\ j.write = Reinstalled(j.cmd, j.read)
  /\ pc[p] = "writePlugins" =>
       plugins = Torn /\ Settled(j.read, roadmaps) /\ j.write = Reinstalled(j.cmd, j.read)
  /\ pc[p] = "copyInput" => Settled(plugins, roadmaps) /\ j.cmd.plugin \in Ids(plugins)
  /\ pc[p] = "readRoadmaps" =>
       /\ InstalledOK(plugins) /\ EntriesOK(roadmaps) /\ CoveredFor(j.cmd, plugins, roadmaps)
       /\ j.cmd.op = "activate" => j.cmd.plugin \in Ids(plugins)
  /\ pc[p] \in {"openRoadmaps", "writeRoadmaps"} =>
       /\ InstalledOK(plugins) /\ EntriesOK(j.read) /\ CoveredFor(j.cmd, plugins, j.read)
       /\ roadmaps = IF pc[p] = "openRoadmaps" THEN j.read ELSE Torn
       /\ j.write = Revised(j.cmd, j.read)
       /\ j.cmd.op = "activate" => j.cmd.plugin \in Ids(plugins)
       /\ j.cmd.op = "status" => Others(j.read, j.cmd) # j.read

RInv ==
  ~disturbed =>
    /\ \A p \in Procs : Busy(p) => Progress(p)
    /\ (\A p \in Procs : ~Busy(p)) => Settled(plugins, roadmaps)

PInv == TInv /\ AInv /\ RInv

-----------------------------------------------------------------------------
\* What commands make of the files they read.

LEMMA Removed ==
  ASSUME NEW f, InstalledOK(f), NEW id, NEW g, \A i : i \in g <=> i \in f /\ i.id # id
  PROVE  InstalledOK(g) /\ DirsOf(g, id) = {}
<1>1. ASSUME NEW i \in g
      PROVE  i \in f /\ i.id # id /\ DirsOf(g, i.id) = DirsOf(f, i.id)
  BY DEF DirsOf
<1>2. DirsOf(g, id) = {}
  BY DEF DirsOf
<1> QED BY <1>1, <1>2 DEF InstalledOK

LEMMA Replaced ==
  ASSUME NEW f, InstalledOK(f), NEW dir \in DOMAIN Package
  PROVE  InstalledOK({i \in f : i.id # Package[dir].id} \cup {[id |-> Package[dir].id, dir |-> dir]})
<1> DEFINE id == Package[dir].id
           new == [id |-> id, dir |-> dir]
           kept == {i \in f : i.id # id}
<1>1. new \in Installations /\ new.id = id /\ new.dir = dir
  BY DEF Installations, PluginIds
<1>2. InstalledOK(kept) /\ DirsOf(kept, id) = {} /\ \A i \in kept : i.id # id
  <2>1. \A i \in kept : i.id # id
    OBVIOUS
  <2> HIDE DEF id
  <2>2. InstalledOK(kept) /\ DirsOf(kept, id) = {}
    BY Removed
  <2> QED BY <2>1, <2>2
<1> HIDE DEF new, kept
<1>3. DirsOf(kept \cup {new}, id) = {dir}
  BY <1>1, <1>2 DEF DirsOf
<1>4. \A i \in kept : DirsOf(kept \cup {new}, i.id) = DirsOf(kept, i.id)
  BY <1>1, <1>2 DEF DirsOf
<1>5. kept \cup {new} \in SUBSET Installations
  BY <1>1, <1>2 DEF InstalledOK
<1>6. ASSUME NEW i \in kept \cup {new}
      PROVE  i.id = Package[i.dir].id /\ DirsOf(kept \cup {new}, i.id) = {i.dir}
  <2>1. CASE i \in kept
    BY <1>2, <1>4, <2>1 DEF InstalledOK
  <2>2. CASE i = new
    BY <1>1, <1>3, <2>2
  <2> QED BY <2>1, <2>2
<1>7. InstalledOK(kept \cup {new})
  BY <1>5, <1>6 DEF InstalledOK
<1> QED BY <1>7 DEF kept, new

\* An entry, and the entries with others.
LEMMA EntriesOfOthers ==
  ASSUME NEW f, EntriesOK(f), NEW g \in SUBSET f
  PROVE  EntriesOK(g)
<1>1. ASSUME NEW e \in g
      PROVE  g \ Others(g, e) = {e}
  <2>1. f \ Others(f, e) = {e}
    BY <1>1 DEF EntriesOK
  <2> QED BY <1>1, <2>1 DEF Others
<1> QED BY <1>1 DEF EntriesOK

LEMMA EntryAdded ==
  ASSUME NEW f, EntriesOK(f), NEW c, c.plugin \in PluginIds, c.execution \in Executions,
         NEW status \in {"active", "paused"}
  PROVE  EntriesOK(Others(f, c) \cup {Entry(c, status)})
<1> DEFINE new == Entry(c, status)
           kept == Others(f, c)
           all == kept \cup {new}
<1>1. new \in Entries /\ new.plugin = c.plugin /\ new.execution = c.execution
  BY DEF Entry, Entries
<1>2. kept \in SUBSET f /\ \A e \in kept : ~(e.plugin = c.plugin /\ e.execution = c.execution)
  BY DEF Others
<1>3. EntriesOK(kept)
  BY <1>2, EntriesOfOthers
<1> HIDE DEF new, kept
<1>4. all \in SUBSET Entries
  BY <1>1, <1>3 DEF EntriesOK
<1>5. ASSUME NEW e \in all
      PROVE  all \ Others(all, e) = {e}
  <2>1. CASE e \in kept
    <3>1. kept \ Others(kept, e) = {e}
      BY <1>3, <2>1 DEF EntriesOK
    <3>2. new \in Others(all, e)
      BY <1>1, <1>2, <2>1 DEF Others
    <3> QED BY <3>1, <3>2 DEF Others
  <2>2. CASE e = new
    BY <1>1, <1>2, <2>2 DEF Others
  <2> QED BY <2>1, <2>2
<1>6. EntriesOK(all)
  BY <1>4, <1>5 DEF EntriesOK
<1> QED BY <1>6 DEF new, kept

LEMMA RevisedOK ==
  ASSUME NEW f, EntriesOK(f), NEW c \in Commands, c.op \in {"remove", "activate", "status", "deactivate"}
  PROVE  EntriesOK(Revised(c, f))
<1>1. CASE c.op = "remove"
  <2>1. Revised(c, f) \in SUBSET f
    BY <1>1 DEF Revised
  <2> QED BY <2>1, EntriesOfOthers
<1>2. CASE c.op = "deactivate"
  <2>1. Revised(c, f) \in SUBSET f
    BY <1>2 DEF Revised, Others
  <2> QED BY <2>1, EntriesOfOthers
<1>3. CASE c.op = "activate"
  <2>1. c.plugin \in PluginIds /\ c.execution \in Executions
    BY <1>3, PluginCommandAssumption
  <2>2. Revised(c, f) = Others(f, c) \cup {Entry(c, "active")}
    BY <1>3 DEF Revised
  <2>3. EntriesOK(Others(f, c) \cup {Entry(c, "active")})
    BY <2>1, EntryAdded
  <2> QED BY <2>2, <2>3
<1>4. CASE c.op = "status"
  <2>1. c.plugin \in PluginIds /\ c.execution \in Executions /\ c.status \in {"active", "paused"}
    BY <1>4, PluginCommandAssumption
  <2>2. Revised(c, f) = Others(f, c) \cup {Entry(c, c.status)}
    BY <1>4 DEF Revised
  <2>3. EntriesOK(Others(f, c) \cup {Entry(c, c.status)})
    BY <2>1, EntryAdded
  <2> QED BY <2>2, <2>3
<1> QED BY <1>1, <1>2, <1>3, <1>4

\* Sets of installations, and of entries, are not a torn file.
LEMMA NotTorn ==
  /\ \A f : InstalledOK(f) => f # Torn
  /\ \A f : EntriesOK(f) => f # Torn
  BY TornAssumption DEF InstalledOK, EntriesOK

-----------------------------------------------------------------------------
\* The first invariant.

\* What Give changes: p has the command, and nobody who is at work is alone.
GiveOutcome(p, c, phase, dir, read, write) ==
  /\ ~Busy(p)
  /\ job' = [q \in Procs |-> job'[q]]
  /\ job'[p] = [cmd |-> c, dir |-> dir, read |-> read, write |-> write, alone |-> job'[p].alone]
  /\ job'[p].alone \in BOOLEAN
  /\ job'[p].alone <=> \A q \in Procs : ~Busy(q)
  /\ pc' \in [Procs -> Phases] /\ pc'[p] = phase
  /\ \A q \in Procs \ {p} :
       /\ pc'[q] = pc[q]
       /\ JobShape(job'[q])
       /\ job'[q].cmd = job[q].cmd /\ job'[q].dir = job[q].dir
       /\ job'[q].read = job[q].read /\ job'[q].write = job[q].write
       /\ Busy(q) => job'[q].alone = FALSE
       /\ ~Busy(q) => job'[q].alone = job[q].alone
  /\ disturbed' = (disturbed \/ \E q \in Procs : Busy(q))
  /\ issued < MaxCommands /\ issued' = issued + 1
  /\ UNCHANGED <<plugins, roadmaps, inputs, deaths>>

LEMMA Given ==
  ASSUME TInv, NEW p \in Procs, NEW c, NEW phase \in Phases, NEW dir, NEW read, NEW write,
         Give(p, c, phase, dir, read, write)
  PROVE  GiveOutcome(p, c, phase, dir, read, write)
<1> DEFINE overlap == \E q \in Procs : Busy(q)
<1>1. /\ ~Busy(p)
      /\ job' = [q \in Procs |->
           IF q = p THEN [cmd |-> c, dir |-> dir, read |-> read, write |-> write, alone |-> ~overlap]
           ELSE IF Busy(q) THEN [job[q] EXCEPT !.alone = FALSE] ELSE job[q]]
      /\ disturbed' = (disturbed \/ overlap)
      /\ pc' = [pc EXCEPT ![p] = phase]
      /\ issued < MaxCommands /\ issued' = issued + 1
      /\ UNCHANGED <<plugins, roadmaps, inputs, deaths>>
  BY DEF Give, Goto
<1>2. pc' \in [Procs -> Phases] /\ pc'[p] = phase /\ \A q \in Procs \ {p} : pc'[q] = pc[q]
  BY <1>1 DEF TInv
<1>3. ASSUME NEW q \in Procs \ {p}
      PROVE  /\ JobShape(job'[q])
             /\ job'[q].cmd = job[q].cmd /\ job'[q].dir = job[q].dir
             /\ job'[q].read = job[q].read /\ job'[q].write = job[q].write
             /\ Busy(q) => job'[q].alone = FALSE
             /\ ~Busy(q) => job'[q].alone = job[q].alone
  <2>1. JobShape(job[q])
    BY DEF TInv, JobOK
  <2>2. CASE Busy(q)
    <3>1. job'[q] = [job[q] EXCEPT !.alone = FALSE]
      BY <1>1, <2>2
    <3>2. job'[q] = [cmd |-> job[q].cmd, dir |-> job[q].dir, read |-> job[q].read, write |-> job[q].write, alone |-> FALSE]
      BY <2>1, <3>1 DEF JobShape
    <3> QED BY <2>2, <3>2 DEF JobShape
  <2>3. CASE ~Busy(q)
    <3>1. job'[q] = job[q]
      BY <1>1, <2>3
    <3> QED BY <2>1, <2>3, <3>1
  <2> QED BY <2>2, <2>3
<1>4. job'[p] = [cmd |-> c, dir |-> dir, read |-> read, write |-> write, alone |-> ~overlap]
  BY <1>1
<1>5. job' = [q \in Procs |-> job'[q]]
  BY <1>1
<1>6. /\ job'[p] = [cmd |-> c, dir |-> dir, read |-> read, write |-> write, alone |-> job'[p].alone]
      /\ job'[p].alone \in BOOLEAN
      /\ job'[p].alone <=> \A q \in Procs : ~Busy(q)
  <2> HIDE DEF overlap
  <2>1. CASE overlap
    <3>1. job'[p] = [cmd |-> c, dir |-> dir, read |-> read, write |-> write, alone |-> FALSE]
      BY <1>4, <2>1
    <3>2. ~\A q \in Procs : ~Busy(q)
      BY <2>1 DEF overlap
    <3> QED BY <3>1, <3>2
  <2>2. CASE ~overlap
    <3>1. job'[p] = [cmd |-> c, dir |-> dir, read |-> read, write |-> write, alone |-> TRUE]
      BY <1>4, <2>2
    <3>2. \A q \in Procs : ~Busy(q)
      BY <2>2 DEF overlap
    <3> QED BY <3>1, <3>2
  <2> QED BY <2>1, <2>2
<1> QED BY <1>1, <1>2, <1>3, <1>5, <1>6 DEF GiveOutcome

LEMMA GivenTyped ==
  ASSUME TInv, NEW p \in Procs, NEW c \in Commands, NEW phase \in Phases \ {"idle"}, NEW dir, NEW read, NEW write,
         Give(p, c, phase, dir, read, write), Fits(c, dir, write, phase)
  PROVE  TInv'
<1>0. GiveOutcome(p, c, phase, dir, read, write)
  BY Given
<1>1. /\ job' = [q \in Procs |-> job'[q]]
      /\ job'[p] = [cmd |-> c, dir |-> dir, read |-> read, write |-> write, alone |-> job'[p].alone]
      /\ job'[p].alone \in BOOLEAN
      /\ pc' \in [Procs -> Phases] /\ pc'[p] = phase
      /\ disturbed' = (disturbed \/ \E q \in Procs : Busy(q))
      /\ issued < MaxCommands /\ issued' = issued + 1
      /\ UNCHANGED <<plugins, roadmaps, inputs, deaths>>
  BY <1>0 DEF GiveOutcome
<1>2. ASSUME NEW q \in Procs
      PROVE  JobOK(job'[q], pc'[q])
  <2>1. CASE q = p
    <3>1. JobShape(job'[p]) /\ job'[p].cmd = c /\ job'[p].dir = dir /\ job'[p].write = write
      BY <1>1 DEF JobShape
    <3> QED BY <1>1, <2>1, <3>1 DEF JobOK
  <2>2. CASE q # p
    <3>1. /\ pc'[q] = pc[q] /\ JobShape(job'[q])
          /\ job'[q].cmd = job[q].cmd /\ job'[q].dir = job[q].dir /\ job'[q].write = job[q].write
      BY <1>0, <2>2 DEF GiveOutcome
    <3> QED BY <3>1 DEF TInv, JobOK
  <2> QED BY <2>1, <2>2
<1>5. issued' \in 0..MaxCommands
  BY <1>1, PluginBoundAssumption DEF TInv
<1>6. disturbed' \in BOOLEAN
  BY <1>1
<1> QED BY <1>1, <1>2, <1>5, <1>6 DEF TInv

\* A process that goes on with, or ends, its job.
LEMMA ProceedTyped ==
  ASSUME TInv, NEW p \in Procs, NEW phase \in Phases, NEW j, Goto(p, phase),
         job' = [job EXCEPT ![p] = j], JobOK(j, phase)
  PROVE  /\ pc' \in [Procs -> Phases]
         /\ job' = [q \in Procs |-> job'[q]]
         /\ \A q \in Procs : JobOK(job'[q], pc'[q])
<1>1. pc' = [pc EXCEPT ![p] = phase] /\ pc \in [Procs -> Phases] /\ job = [q \in Procs |-> job[q]]
  BY DEF Goto, TInv
<1>2. pc' \in [Procs -> Phases] /\ pc'[p] = phase /\ \A q \in Procs \ {p} : pc'[q] = pc[q]
  BY <1>1
<1>3. job' = [q \in Procs |-> IF q = p THEN j ELSE job[q]]
  BY <1>1
<1>4. ASSUME NEW q \in Procs PROVE JobOK(job'[q], pc'[q])
  BY <1>2, <1>3 DEF TInv
<1> QED BY <1>2, <1>3, <1>4

LEMMA IdleOK == JobOK(Idle, "idle") /\ Idle.cmd.op = "none"
<1>1. JobShape(Idle) /\ Idle.cmd.op = "none"
  BY DEF JobShape, Idle
<1>2. Fits(Idle.cmd, Idle.dir, Idle.write, "idle")
  BY DEF Fits
<1> QED BY <1>1, <1>2 DEF JobOK

LEMMA InitTyped == Init => TInv
<1> SUFFICES ASSUME Init PROVE TInv
  OBVIOUS
<1>1. InstalledOK({}) /\ EntriesOK({})
  BY DEF InstalledOK, EntriesOK
<1>2. inputs \in [Slots -> [form : Forms \cup {"none"}, edited : BOOLEAN]]
  BY DEF Init, NoInput
<1>3. pc \in [Procs -> Phases] /\ job = [p \in Procs |-> job[p]] /\ \A p \in Procs : JobOK(job[p], pc[p])
  BY IdleOK DEF Init, Phases
<1>4. plugins = {} /\ roadmaps = {} /\ disturbed \in BOOLEAN
  BY DEF Init
<1>5. issued \in 0..MaxCommands /\ deaths \in 0..MaxDeaths
  BY PluginBoundAssumption DEF Init
<1> QED BY <1>1, <1>2, <1>3, <1>4, <1>5 DEF TInv

\* A job that has read something and decided what to write.
LEMMA JobRevised ==
  ASSUME NEW j, JobShape(j), NEW read, NEW write
  PROVE  [[j EXCEPT !.read = read] EXCEPT !.write = write]
           = [cmd |-> j.cmd, dir |-> j.dir, read |-> read, write |-> write, alone |-> j.alone]
<1> DEFINE k == [cmd |-> j.cmd, dir |-> j.dir, read |-> read, write |-> j.write, alone |-> j.alone]
<1>1. [j EXCEPT !.read = read] = k
  BY DEF JobShape
<1>2. [k EXCEPT !.write = write] = [cmd |-> j.cmd, dir |-> j.dir, read |-> read, write |-> write, alone |-> j.alone]
  OBVIOUS
<1> QED BY <1>1, <1>2

\* What is written to a file is what is in it then, or the file is torn.
LEMMA Overwriting ==
  ASSUME NEW f, NEW content, NEW g \in Overwritten(f, content)
  PROVE  /\ g = content \/ g = Torn
         /\ f = Torn => g = content
  BY DEF Overwritten

LEMMA StepTyped == TInv /\ [Next]_vars => TInv'
<1> SUFFICES ASSUME TInv, [Next]_vars PROVE TInv'
  OBVIOUS
<1>1. ASSUME NEW p \in Procs, NEW c \in Commands, InstallPlugin(p, c) PROVE TInv'
  <2> DEFINE id == Package[c.dir].id
             write == {i \in plugins : i.id # id} \cup {[id |-> id, dir |-> c.dir]}
  <2>1. c.op = "install" /\ plugins # Torn /\ Give(p, c, "openPlugins", c.dir, plugins, write)
    BY <1>1 DEF InstallPlugin
  <2>2. c.dir \in DOMAIN Package
    BY <2>1, PluginCommandAssumption
  <2>3. InstalledOK(write)
    BY <2>1, <2>2, Replaced DEF TInv
  <2> HIDE DEF write
  <2>4. Fits(c, c.dir, write, "openPlugins") /\ "openPlugins" \in Phases \ {"idle"}
    BY <2>1, <2>3 DEF Fits, Phases
  <2> QED BY <2>1, <2>4, GivenTyped
<1>2. ASSUME NEW p \in Procs, NEW c \in Commands, RemovePlugin(p, c) PROVE TInv'
  <2> DEFINE write == {i \in plugins : i.id # c.plugin}
  <2>1. c.op = "remove" /\ plugins # Torn /\ Give(p, c, "openPlugins", "none", plugins, write)
    BY <1>2 DEF RemovePlugin
  <2>2. InstalledOK(write)
    <3>1. InstalledOK(plugins)
      BY <2>1 DEF TInv
    <3>2. \A i : i \in write <=> i \in plugins /\ i.id # c.plugin
      OBVIOUS
    <3> HIDE DEF write
    <3> QED BY <3>1, <3>2, Removed
  <2> HIDE DEF write
  <2>3. Fits(c, "none", write, "openPlugins") /\ "openPlugins" \in Phases \ {"idle"}
    BY <2>1, <2>2 DEF Fits, Phases
  <2> QED BY <2>1, <2>3, GivenTyped
<1>3. ASSUME NEW p \in Procs, NEW c \in Commands, ActivateRoadmap(p, c) PROVE TInv'
  <2>1. PICK dir \in DirsOf(plugins, c.plugin), phase \in {"copyInput", "readRoadmaps"} :
          c.op = "activate" /\ plugins # Torn /\ Give(p, c, phase, dir, {}, {})
    BY <1>3 DEF ActivateRoadmap
  <2>2. dir \in DOMAIN Package
    BY <2>1 DEF TInv, InstalledOK, DirsOf, Installations
  <2>3. Fits(c, dir, {}, phase) /\ phase \in Phases \ {"idle"}
    BY <2>1, <2>2 DEF Fits, Phases
  <2> QED BY <2>1, <2>3, GivenTyped
<1>4. ASSUME NEW p \in Procs, NEW c \in Commands, ChangeRoadmap(p, c) PROVE TInv'
  <2>1. /\ c.op \in {"status", "deactivate"} /\ roadmaps # Torn
        /\ Give(p, c, "openRoadmaps", "none", roadmaps, Revised(c, roadmaps))
    BY <1>4 DEF ChangeRoadmap
  <2>2. EntriesOK(Revised(c, roadmaps))
    BY <2>1, RevisedOK DEF TInv
  <2>3. Fits(c, "none", Revised(c, roadmaps), "openRoadmaps") /\ "openRoadmaps" \in Phases \ {"idle"}
    BY <2>1, <2>2 DEF Fits, Phases
  <2> QED BY <2>1, <2>3, GivenTyped
<1>5. ASSUME NEW p \in Procs, CopyInput(p) PROVE TInv'
  <2>1. /\ pc[p] = "copyInput" /\ Goto(p, "readRoadmaps")
        /\ inputs' = [inputs EXCEPT ![<<job[p].cmd.plugin, job[p].cmd.execution>>] = Example(job[p].dir)]
        /\ UNCHANGED <<plugins, roadmaps, job, disturbed, issued, deaths>>
    BY <1>5 DEF CopyInput
  <2>2. JobOK(job[p], "copyInput")
    BY <2>1 DEF TInv
  <2>3. JobOK(job[p], "readRoadmaps") /\ job[p].dir \in DOMAIN Package
    BY <2>2 DEF JobOK, Fits
  <2>4. job' = [job EXCEPT ![p] = job[p]] /\ "readRoadmaps" \in Phases
    BY <2>1 DEF TInv, Phases
  <2>5. /\ pc' \in [Procs -> Phases]
        /\ job' = [q \in Procs |-> job'[q]]
        /\ \A q \in Procs : JobOK(job'[q], pc'[q])
    BY <2>1, <2>3, <2>4, ProceedTyped
  <2>6. Example(job[p].dir) \in [form : Forms \cup {"none"}, edited : BOOLEAN]
    BY <2>3 DEF Example, Forms
  <2>7. inputs' \in [Slots -> [form : Forms \cup {"none"}, edited : BOOLEAN]]
    BY <2>1, <2>6 DEF TInv
  <2> QED BY <2>1, <2>5, <2>7 DEF TInv
<1>6. ASSUME NEW p \in Procs, ReadRoadmaps(p) PROVE TInv'
  <2> DEFINE c == job[p].cmd
  <2>1. pc[p] = "readRoadmaps" /\ UNCHANGED <<plugins, roadmaps, inputs, disturbed, issued, deaths>>
    BY <1>6 DEF ReadRoadmaps
  <2>2. JobOK(job[p], "readRoadmaps")
    BY <2>1 DEF TInv
  <2>3. /\ pc' \in [Procs -> Phases]
        /\ job' = [q \in Procs |-> job'[q]]
        /\ \A q \in Procs : JobOK(job'[q], pc'[q])
    <3>1. CASE /\ roadmaps # Torn /\ Goto(p, "openRoadmaps")
               /\ job' = [job EXCEPT ![p].read = roadmaps, ![p].write = Revised(c, roadmaps)]
      <4> DEFINE j == [cmd |-> c, dir |-> job[p].dir, read |-> roadmaps, write |-> Revised(c, roadmaps), alone |-> job[p].alone]
      <4>1. job' = [job EXCEPT ![p] = j]
        <5>1. [[job[p] EXCEPT !.read = roadmaps] EXCEPT !.write = Revised(c, roadmaps)] = j
          BY <2>2, JobRevised DEF JobOK
        <5>2. job' = [job EXCEPT ![p] = [[job[p] EXCEPT !.read = roadmaps] EXCEPT !.write = Revised(c, roadmaps)]]
          <6> HIDE DEF c
          <6>1. job = [q \in Procs |-> job[q]]
            BY DEF TInv
          <6> QED BY <3>1, <6>1
        <5> QED BY <5>1, <5>2
      <4>2. EntriesOK(Revised(c, roadmaps))
        BY <2>2, <3>1, RevisedOK DEF TInv, JobOK, Fits
      <4>3. Fits(c, job[p].dir, Revised(c, roadmaps), "openRoadmaps")
        BY <2>2, <4>2 DEF JobOK, Fits
      <4>4. JobShape(j) /\ j.cmd = c /\ j.dir = job[p].dir /\ j.write = Revised(c, roadmaps)
        BY <2>2 DEF JobShape, JobOK
      <4>5. JobOK(j, "openRoadmaps")
        BY <4>3, <4>4 DEF JobOK
      <4> HIDE DEF j
      <4>6. "openRoadmaps" \in Phases
        BY DEF Phases
      <4> QED BY <3>1, <4>1, <4>5, <4>6, ProceedTyped
    <3>2. CASE Goto(p, "idle") /\ job' = [job EXCEPT ![p] = Idle]
      <4>1. "idle" \in Phases
        BY DEF Phases
      <4> QED BY <3>2, <4>1, IdleOK, ProceedTyped
    <3> QED BY <1>6, <3>1, <3>2 DEF ReadRoadmaps
  <2> QED BY <2>1, <2>3 DEF TInv
<1>7. ASSUME NEW p \in Procs, OpenPlugins(p) PROVE TInv'
  <2>1. /\ pc[p] = "openPlugins" /\ plugins' = Torn /\ Goto(p, "writePlugins")
        /\ UNCHANGED <<roadmaps, inputs, job, disturbed, issued, deaths>>
    BY <1>7 DEF OpenPlugins
  <2>2. JobOK(job[p], "openPlugins")
    BY <2>1 DEF TInv
  <2>3. JobOK(job[p], "writePlugins")
    BY <2>2 DEF JobOK, Fits
  <2>4. job' = [job EXCEPT ![p] = job[p]] /\ "writePlugins" \in Phases
    BY <2>1 DEF TInv, Phases
  <2>5. /\ pc' \in [Procs -> Phases]
        /\ job' = [q \in Procs |-> job'[q]]
        /\ \A q \in Procs : JobOK(job'[q], pc'[q])
    BY <2>1, <2>3, <2>4, ProceedTyped
  <2> QED BY <2>1, <2>5 DEF TInv
<1>8. ASSUME NEW p \in Procs, WritePlugins(p) PROVE TInv'
  <2>1. /\ pc[p] = "writePlugins" /\ plugins' \in Overwritten(plugins, job[p].write)
        /\ UNCHANGED <<roadmaps, inputs, disturbed, issued, deaths>>
    BY <1>8 DEF WritePlugins
  <2>2. JobOK(job[p], "writePlugins")
    BY <2>1 DEF TInv
  <2>3. plugins' = Torn \/ InstalledOK(plugins')
    BY <2>1, <2>2, Overwriting DEF JobOK, Fits
  <2>4. /\ pc' \in [Procs -> Phases]
        /\ job' = [q \in Procs |-> job'[q]]
        /\ \A q \in Procs : JobOK(job'[q], pc'[q])
    <3>1. CASE job[p].cmd.op = "remove"
      <4>1. Goto(p, "readRoadmaps") /\ job' = job
        BY <1>8, <3>1 DEF WritePlugins
      <4>2. JobOK(job[p], "readRoadmaps")
        BY <2>2, <3>1 DEF JobOK, Fits
      <4>3. job' = [job EXCEPT ![p] = job[p]] /\ "readRoadmaps" \in Phases
        BY <4>1 DEF TInv, Phases
      <4> QED BY <4>1, <4>2, <4>3, ProceedTyped
    <3>2. CASE job[p].cmd.op # "remove"
      <4>1. Goto(p, "idle") /\ job' = [job EXCEPT ![p] = Idle] /\ "idle" \in Phases
        BY <1>8, <3>2 DEF WritePlugins, Phases
      <4> QED BY <4>1, IdleOK, ProceedTyped
    <3> QED BY <3>1, <3>2
  <2> QED BY <2>1, <2>3, <2>4 DEF TInv
<1>9. ASSUME NEW p \in Procs, OpenRoadmaps(p) PROVE TInv'
  <2>1. /\ pc[p] = "openRoadmaps" /\ roadmaps' = Torn /\ Goto(p, "writeRoadmaps")
        /\ UNCHANGED <<plugins, inputs, job, disturbed, issued, deaths>>
    BY <1>9 DEF OpenRoadmaps
  <2>2. JobOK(job[p], "openRoadmaps")
    BY <2>1 DEF TInv
  <2>3. JobOK(job[p], "writeRoadmaps")
    BY <2>2 DEF JobOK, Fits
  <2>4. job' = [job EXCEPT ![p] = job[p]] /\ "writeRoadmaps" \in Phases
    BY <2>1 DEF TInv, Phases
  <2>5. /\ pc' \in [Procs -> Phases]
        /\ job' = [q \in Procs |-> job'[q]]
        /\ \A q \in Procs : JobOK(job'[q], pc'[q])
    BY <2>1, <2>3, <2>4, ProceedTyped
  <2> QED BY <2>1, <2>5 DEF TInv
<1>10. ASSUME NEW p \in Procs, WriteRoadmaps(p) PROVE TInv'
  <2>1. /\ pc[p] = "writeRoadmaps" /\ roadmaps' \in Overwritten(roadmaps, job[p].write)
        /\ Goto(p, "idle") /\ job' = [job EXCEPT ![p] = Idle]
        /\ UNCHANGED <<plugins, inputs, disturbed, issued, deaths>>
    BY <1>10 DEF WriteRoadmaps
  <2>2. JobOK(job[p], "writeRoadmaps")
    BY <2>1 DEF TInv
  <2>3. roadmaps' = Torn \/ EntriesOK(roadmaps')
    BY <2>1, <2>2, Overwriting DEF JobOK, Fits
  <2>4. "idle" \in Phases
    BY DEF Phases
  <2>5. /\ pc' \in [Procs -> Phases]
        /\ job' = [q \in Procs |-> job'[q]]
        /\ \A q \in Procs : JobOK(job'[q], pc'[q])
    BY <2>1, <2>4, IdleOK, ProceedTyped
  <2> QED BY <2>1, <2>3, <2>5 DEF TInv
<1>11. ASSUME NEW p \in Procs, Crash(p) PROVE TInv'
  <2>1. /\ Goto(p, "idle") /\ job' = [job EXCEPT ![p] = Idle]
        /\ deaths < MaxDeaths /\ deaths' = deaths + 1 /\ disturbed' = TRUE
        /\ UNCHANGED <<plugins, roadmaps, inputs, issued>>
    BY <1>11 DEF Crash
  <2>2. "idle" \in Phases
    BY DEF Phases
  <2>3. /\ pc' \in [Procs -> Phases]
        /\ job' = [q \in Procs |-> job'[q]]
        /\ \A q \in Procs : JobOK(job'[q], pc'[q])
    BY <2>1, <2>2, IdleOK, ProceedTyped
  <2>4. deaths' \in 0..MaxDeaths
    BY <2>1, PluginBoundAssumption DEF TInv
  <2> QED BY <2>1, <2>3, <2>4 DEF TInv
<1>12. ASSUME NEW slot \in Slots, EditInput(slot) PROVE TInv'
  <2>1. /\ inputs' = [inputs EXCEPT ![slot].edited = TRUE]
        /\ UNCHANGED <<plugins, roadmaps, pc, job, disturbed, issued, deaths>>
    BY <1>12 DEF EditInput
  <2>2. inputs' \in [Slots -> [form : Forms \cup {"none"}, edited : BOOLEAN]]
    BY <2>1 DEF TInv
  <2> QED BY <2>1, <2>2 DEF TInv
<1>13. CASE UNCHANGED vars
  BY <1>13 DEF TInv, vars
<1> QED BY <1>1, <1>2, <1>3, <1>4, <1>5, <1>6, <1>7, <1>8, <1>9, <1>10, <1>11, <1>12, <1>13 DEF Next

-----------------------------------------------------------------------------
\* The second invariant.

\* A command that is given: whoever is at work is alone no longer, and only p can be.
LEMMA GivenAlone ==
  ASSUME TInv, AInv, NEW p \in Procs, NEW c \in Commands, NEW phase \in Phases, NEW dir, NEW read, NEW write,
         Give(p, c, phase, dir, read, write),
         c.op = "remove" => phase = "openPlugins" /\ DirsOf(write, c.plugin) = {}
  PROVE  AInv'
<1>1. GiveOutcome(p, c, phase, dir, read, write)
  BY Given
<1>2. ASSUME NEW q \in Procs, Busy(q)', job'[q].alone
      PROVE  q = p /\ \A r \in Procs : ~Busy(r)
  <2>1. q = p
    BY <1>1, <1>2 DEF GiveOutcome, Busy, AInv
  <2> QED BY <1>1, <1>2, <2>1 DEF GiveOutcome
<1>3. \A q, r \in Procs : Busy(q)' /\ job'[q].alone /\ Busy(r)' => r = q
  BY <1>1, <1>2 DEF GiveOutcome, Busy
<1>4. ASSUME NEW q \in Procs, Busy(q)'
      PROVE  RemovalOK(q)'
  <2> SUFFICES ASSUME Removing(q)' PROVE RemovalOK(q)'
    BY DEF RemovalOK
  <2>1. q = p
    BY <1>2, <1>4 DEF Removing
  <2>2. job'[q].cmd = c /\ job'[q].write = write /\ pc'[q] = phase
    BY <1>1, <2>1 DEF GiveOutcome
  <2> QED BY <2>2 DEF Removing, RemovalOK
<1> QED BY <1>3, <1>4 DEF AInv

\* A process that goes on with, or ends, its job.
LEMMA ProceedAlone ==
  ASSUME TInv, AInv, NEW p \in Procs, Busy(p), NEW phase \in Phases, NEW j, Goto(p, phase),
         job' = [job EXCEPT ![p] = j],
         phase # "idle" => j.alone = job[p].alone /\ RemovalOK(p)'
  PROVE  AInv'
<1>1. /\ pc'[p] = phase /\ job'[p] = j
      /\ \A q \in Procs \ {p} : pc'[q] = pc[q] /\ job'[q] = job[q]
  <2>1. pc' = [pc EXCEPT ![p] = phase] /\ pc \in [Procs -> Phases] /\ job = [q \in Procs |-> job[q]]
    BY DEF Goto, TInv
  <2> QED BY <2>1
<1>2. \A q \in Procs : Busy(q)' => Busy(q) /\ job'[q].alone = job[q].alone
  BY <1>1 DEF Busy
<1>3. \A q, r \in Procs : Busy(q)' /\ job'[q].alone /\ Busy(r)' => r = q
  BY <1>2 DEF AInv
<1>4. ASSUME NEW q \in Procs, Busy(q)'
      PROVE  RemovalOK(q)'
  <2>1. CASE q = p
    BY <1>1, <1>4, <2>1 DEF Busy
  <2>2. CASE q # p
    <3>1. ~job[q].alone
      BY <1>2, <1>4, <2>2 DEF AInv
    <3>2. ~Removing(q)'
      BY <1>1, <2>2, <3>1 DEF Removing
    <3> QED BY <3>2 DEF RemovalOK
  <2> QED BY <2>1, <2>2
<1> QED BY <1>3, <1>4 DEF AInv

LEMMA InitAlone == Init => AInv
  BY DEF Init, AInv, Busy

LEMMA StepAlone == TInv /\ AInv /\ [Next]_vars => AInv'
<1> SUFFICES ASSUME TInv, AInv, [Next]_vars PROVE AInv'
  OBVIOUS
<1> USE DEF Phases
<1>1. ASSUME NEW p \in Procs, NEW c \in Commands, InstallPlugin(p, c) PROVE AInv'
  BY <1>1, GivenAlone DEF InstallPlugin
<1>2. ASSUME NEW p \in Procs, NEW c \in Commands, RemovePlugin(p, c) PROVE AInv'
  <2>1. c.op = "remove" /\ Give(p, c, "openPlugins", "none", plugins, {i \in plugins : i.id # c.plugin})
    BY <1>2 DEF RemovePlugin
  <2>2. DirsOf({i \in plugins : i.id # c.plugin}, c.plugin) = {}
    BY DEF DirsOf
  <2> QED BY <2>1, <2>2, GivenAlone
<1>3. ASSUME NEW p \in Procs, NEW c \in Commands, ActivateRoadmap(p, c) PROVE AInv'
  <2>1. PICK dir \in DirsOf(plugins, c.plugin), phase \in {"copyInput", "readRoadmaps"} :
          c.op = "activate" /\ Give(p, c, phase, dir, {}, {})
    BY <1>3 DEF ActivateRoadmap
  <2> QED BY <2>1, GivenAlone
<1>4. ASSUME NEW p \in Procs, NEW c \in Commands, ChangeRoadmap(p, c) PROVE AInv'
  BY <1>4, GivenAlone DEF ChangeRoadmap
<1>5. ASSUME NEW p \in Procs, CopyInput(p) PROVE AInv'
  <2>1. /\ pc[p] = "copyInput" /\ Goto(p, "readRoadmaps")
        /\ UNCHANGED <<plugins, roadmaps, job>>
    BY <1>5 DEF CopyInput
  <2>2. job[p].cmd.op = "activate"
    BY <2>1 DEF TInv, JobOK, Fits
  <2>3. RemovalOK(p)'
    BY <2>1, <2>2 DEF RemovalOK, Removing
  <2>4. job' = [job EXCEPT ![p] = job[p]]
    BY <2>1 DEF TInv
  <2> QED BY <2>1, <2>3, <2>4, ProceedAlone DEF Busy
<1>6. ASSUME NEW p \in Procs, ReadRoadmaps(p) PROVE AInv'
  <2> DEFINE c == job[p].cmd
  <2>1. pc[p] = "readRoadmaps" /\ UNCHANGED <<plugins, roadmaps>> /\ JobOK(job[p], "readRoadmaps")
    BY <1>6 DEF ReadRoadmaps, TInv
  <2>2. CASE /\ Goto(p, "openRoadmaps")
             /\ job' = [job EXCEPT ![p].read = roadmaps, ![p].write = Revised(c, roadmaps)]
    <3> DEFINE j == [cmd |-> c, dir |-> job[p].dir, read |-> roadmaps, write |-> Revised(c, roadmaps), alone |-> job[p].alone]
    <3>1. job' = [job EXCEPT ![p] = j]
      <4>1. [[job[p] EXCEPT !.read = roadmaps] EXCEPT !.write = Revised(c, roadmaps)] = j
        BY <2>1, JobRevised DEF JobOK
      <4>2. job' = [job EXCEPT ![p] = [[job[p] EXCEPT !.read = roadmaps] EXCEPT !.write = Revised(c, roadmaps)]]
        <5> HIDE DEF c
        <5>1. job = [q \in Procs |-> job[q]]
          BY DEF TInv
        <5> QED BY <2>2, <5>1
      <4> QED BY <4>1, <4>2
    <3>2. j.cmd = c /\ j.write = Revised(c, roadmaps) /\ j.alone = job[p].alone
      OBVIOUS
    <3>3. job'[p] = j /\ pc'[p] = "openRoadmaps"
      BY <2>2, <3>1 DEF TInv, Goto
    <3> HIDE DEF j
    <3>4. RemovalOK(p)'
      <4> SUFFICES ASSUME Removing(p)'
                   PROVE  DirsOf(plugins', c.plugin) = {} /\ \A e \in job'[p].write : e.plugin # c.plugin
        BY <3>2, <3>3 DEF RemovalOK
      <4>1. Removing(p) /\ c.op = "remove"
        BY <3>2, <3>3 DEF Removing
      <4>2. DirsOf(plugins, c.plugin) = {}
        BY <2>1, <4>1 DEF AInv, RemovalOK, Busy
      <4>3. \A e \in Revised(c, roadmaps) : e.plugin # c.plugin
        BY <4>1 DEF Revised
      <4> QED BY <2>1, <3>2, <3>3, <4>2, <4>3
    <3> QED BY <2>1, <2>2, <3>1, <3>2, <3>4, ProceedAlone DEF Busy
  <2>3. CASE Goto(p, "idle") /\ job' = [job EXCEPT ![p] = Idle]
    BY <2>1, <2>3, ProceedAlone DEF Busy
  <2> QED BY <1>6, <2>2, <2>3 DEF ReadRoadmaps
<1>7. ASSUME NEW p \in Procs, OpenPlugins(p) PROVE AInv'
  <2>1. /\ pc[p] = "openPlugins" /\ plugins' = Torn /\ Goto(p, "writePlugins") /\ UNCHANGED <<roadmaps, job>>
    BY <1>7 DEF OpenPlugins
  <2>2. pc'[p] = "writePlugins"
    BY <2>1 DEF Goto, TInv
  <2>3. RemovalOK(p)'
    BY <2>1, <2>2 DEF AInv, RemovalOK, Removing, Busy
  <2>4. job' = [job EXCEPT ![p] = job[p]]
    BY <2>1 DEF TInv
  <2> QED BY <2>1, <2>3, <2>4, ProceedAlone DEF Busy
<1>8. ASSUME NEW p \in Procs, WritePlugins(p) PROVE AInv'
  <2>1. pc[p] = "writePlugins" /\ plugins' \in Overwritten(plugins, job[p].write) /\ roadmaps' = roadmaps
    BY <1>8 DEF WritePlugins
  <2>2. CASE job[p].cmd.op = "remove"
    <3>1. Goto(p, "readRoadmaps") /\ job' = job
      BY <1>8, <2>2 DEF WritePlugins
    <3>2. pc'[p] = "readRoadmaps"
      BY <3>1 DEF Goto, TInv
    <3>3. RemovalOK(p)'
      <4> SUFFICES ASSUME Removing(p) PROVE DirsOf(plugins', job[p].cmd.plugin) = {}
        BY <3>1, <3>2 DEF RemovalOK, Removing
      <4>1. plugins = Torn /\ DirsOf(job[p].write, job[p].cmd.plugin) = {}
        BY <2>1 DEF AInv, RemovalOK, Busy
      <4>2. plugins' = job[p].write
        BY <2>1, <4>1, Overwriting
      <4> QED BY <4>1, <4>2
    <3>4. job' = [job EXCEPT ![p] = job[p]]
      BY <3>1 DEF TInv
    <3> QED BY <2>1, <3>1, <3>3, <3>4, ProceedAlone DEF Busy
  <2>3. CASE job[p].cmd.op # "remove"
    <3>1. Goto(p, "idle") /\ job' = [job EXCEPT ![p] = Idle]
      BY <1>8, <2>3 DEF WritePlugins
    <3> QED BY <2>1, <3>1, ProceedAlone DEF Busy
  <2> QED BY <2>2, <2>3
<1>9. ASSUME NEW p \in Procs, OpenRoadmaps(p) PROVE AInv'
  <2>1. /\ pc[p] = "openRoadmaps" /\ roadmaps' = Torn /\ Goto(p, "writeRoadmaps") /\ UNCHANGED <<plugins, job>>
    BY <1>9 DEF OpenRoadmaps
  <2>2. pc'[p] = "writeRoadmaps"
    BY <2>1 DEF Goto, TInv
  <2>3. RemovalOK(p)'
    BY <2>1, <2>2 DEF AInv, RemovalOK, Removing, Busy
  <2>4. job' = [job EXCEPT ![p] = job[p]]
    BY <2>1 DEF TInv
  <2> QED BY <2>1, <2>3, <2>4, ProceedAlone DEF Busy
<1>10. ASSUME NEW p \in Procs, WriteRoadmaps(p) PROVE AInv'
  BY <1>10, ProceedAlone DEF WriteRoadmaps, Busy
<1>11. ASSUME NEW p \in Procs, Crash(p) PROVE AInv'
  BY <1>11, ProceedAlone DEF Crash
<1>12. ASSUME NEW slot \in Slots, EditInput(slot) PROVE AInv'
  <2>1. UNCHANGED <<plugins, roadmaps, pc, job>>
    BY <1>12 DEF EditInput
  <2> QED BY <2>1 DEF AInv, RemovalOK, Removing, Busy
<1>13. CASE UNCHANGED vars
  BY <1>13 DEF vars, AInv, RemovalOK, Removing, Busy
<1> QED BY <1>1, <1>2, <1>3, <1>4, <1>5, <1>6, <1>7, <1>8, <1>9, <1>10, <1>11, <1>12, <1>13 DEF Next

-----------------------------------------------------------------------------
\* What holds whatever the processes do to each other.

\* Type correctness: the two lock files never hold an installation, or an
\* execution, twice (plugins.py, install_plugin and activate_roadmap).
THEOREM PluginTypeCorrect == Spec => []TypeOK
<1>1. TInv => TypeOK
  <2> SUFFICES ASSUME TInv PROVE TypeOK
    OBVIOUS
  <2>1. plugins = Torn \/ \A i \in plugins :
          i.dir \in DOMAIN Package /\ i.id = Package[i.dir].id /\ DirsOf(plugins, i.id) = {i.dir}
    BY DEF TInv, InstalledOK, Installations
  <2>2. roadmaps = Torn \/ \A e \in roadmaps :
          /\ e.plugin \in PluginIds /\ e.execution \in Executions /\ e.status \in {"active", "paused"}
          /\ roadmaps \ Others(roadmaps, e) = {e}
    BY DEF TInv, EntriesOK, Entries
  <2>3. \A slot \in Slots : inputs[slot].form \in Forms \cup {"none"} /\ inputs[slot].edited \in BOOLEAN
    BY DEF TInv
  <2> QED BY <2>1, <2>2, <2>3 DEF TInv, TypeOK
<1> QED BY <1>1, InitTyped, StepTyped, PTL DEF Spec

\* The repair: a remove that runs on its own leaves neither the plugin nor an
\* execution of it, whatever was killed before it (remove_plugin).
THEOREM RemovalRepairs == Spec => RemoveRepairs
<1>1. ASSUME TInv, AInv, NEW p \in Procs, job[p].cmd.op = "remove", job[p].alone, WriteRoadmaps(p)
      PROVE  LET id == job[p].cmd.plugin IN
             DirsOf(plugins', id) = {} /\ \A e \in roadmaps' : e.plugin # id
  <2> DEFINE id == job[p].cmd.plugin
  <2>1. pc[p] = "writeRoadmaps" /\ roadmaps' \in Overwritten(roadmaps, job[p].write) /\ plugins' = plugins
    BY <1>1 DEF WriteRoadmaps
  <2>2. DirsOf(plugins, id) = {} /\ roadmaps = Torn /\ \A e \in job[p].write : e.plugin # id
    BY <1>1, <2>1 DEF AInv, Busy, RemovalOK, Removing
  <2>3. roadmaps' = job[p].write
    BY <2>1, <2>2, Overwriting
  <2> QED BY <2>1, <2>2, <2>3
<1> DEFINE A == \A p \in Procs : job[p].cmd.op = "remove" /\ job[p].alone /\ WriteRoadmaps(p) =>
                  LET id == job[p].cmd.plugin IN
                  DirsOf(plugins', id) = {} /\ \A e \in roadmaps' : e.plugin # id
<1>2. TInv /\ AInv => A
  BY <1>1
<1> HIDE DEF A
<1>3. Spec => [][A]_vars
  BY <1>2, InitTyped, InitAlone, StepTyped, StepAlone, PTL DEF Spec
<1> QED BY <1>3 DEF A, RemoveRepairs

-----------------------------------------------------------------------------
\* The third invariant.

LEMMA IdsReinstalled ==
  ASSUME NEW c, NEW f
  PROVE  /\ c.op = "install" => Ids(Reinstalled(c, f)) = Ids(f) \cup {Package[c.dir].id}
         /\ c.op = "remove" => Ids(Reinstalled(c, f)) = Ids(f) \ {c.plugin}
<1>1. ASSUME c.op = "install"
      PROVE  Ids(Reinstalled(c, f)) = Ids(f) \cup {Package[c.dir].id}
  <2> DEFINE new == [id |-> Package[c.dir].id, dir |-> c.dir]
  <2>1. new.id = Package[c.dir].id
    OBVIOUS
  <2>2. Reinstalled(c, f) = {i \in f : i.id # Package[c.dir].id} \cup {new}
    BY <1>1 DEF Reinstalled
  <2> HIDE DEF new
  <2> QED BY <2>1, <2>2 DEF Ids
<1>2. ASSUME c.op = "remove"
      PROVE  Ids(Reinstalled(c, f)) = Ids(f) \ {c.plugin}
  <2>1. Reinstalled(c, f) = {i \in f : i.id # c.plugin}
    BY <1>2 DEF Reinstalled
  <2> QED BY <2>1 DEF Ids
<1> QED BY <1>1, <1>2

\* The executions a command leaves have their plugins.
LEMMA RevisedCovered ==
  ASSUME NEW c, c.op \in {"remove", "activate", "status", "deactivate"}, NEW f, NEW entries,
         CoveredFor(c, f, entries),
         c.op = "activate" => c.plugin \in Ids(f),
         c.op = "status" => Others(entries, c) # entries
  PROVE  Covered(f, Revised(c, entries))
<1>1. CASE c.op = "remove"
  BY <1>1 DEF CoveredFor, Covered, Revised
<1>2. CASE c.op = "activate"
  <2>1. Entry(c, "active").plugin = c.plugin
    BY DEF Entry
  <2> QED BY <1>2, <2>1 DEF CoveredFor, Covered, Revised, Others
<1>3. CASE c.op = "status"
  <2>1. Entry(c, c.status).plugin = c.plugin
    BY DEF Entry
  <2>2. c.plugin \in Ids(f)
    BY <1>3 DEF CoveredFor, Covered, Others
  <2> QED BY <1>3, <2>1, <2>2 DEF CoveredFor, Covered, Revised, Others
<1>4. CASE c.op = "deactivate"
  BY <1>4 DEF CoveredFor, Covered, Revised, Others
<1> QED BY <1>1, <1>2, <1>3, <1>4

\* A command that is given, and is not a disturbance, finds the files settled.
LEMMA GivenProgress ==
  ASSUME TInv, RInv, NEW p \in Procs, NEW c, NEW phase \in Phases \ {"idle"}, NEW dir, NEW read, NEW write,
         Give(p, c, phase, dir, read, write),
         Settled(plugins, roadmaps) /\ job'[p].alone => Progress(p)'
  PROVE  RInv'
<1>1. GiveOutcome(p, c, phase, dir, read, write)
  BY Given
<1> SUFFICES ASSUME ~disturbed'
             PROVE  /\ \A q \in Procs : Busy(q)' => Progress(q)'
                    /\ (\A q \in Procs : ~Busy(q)') => Settled(plugins, roadmaps)'
  BY DEF RInv
<1>2. ~disturbed /\ \A q \in Procs : ~Busy(q)
  BY <1>1 DEF GiveOutcome
<1>3. Settled(plugins, roadmaps)
  BY <1>2 DEF RInv
<1>4. job'[p].alone
  BY <1>1, <1>2 DEF GiveOutcome
<1>5. Progress(p)'
  BY <1>3, <1>4
<1>6. Busy(p)' /\ \A q \in Procs \ {p} : ~Busy(q)'
  BY <1>1, <1>2 DEF GiveOutcome, Busy
<1> QED BY <1>5, <1>6

\* Otherwise only the process that is alone takes steps.
LEMMA ProceedProgress ==
  ASSUME TInv, AInv, RInv, NEW p \in Procs, Busy(p), NEW phase \in Phases, Goto(p, phase), disturbed' = disturbed,
         Progress(p) => IF phase = "idle" THEN Settled(plugins, roadmaps)' ELSE Progress(p)'
  PROVE  RInv'
<1> SUFFICES ASSUME ~disturbed'
             PROVE  /\ \A q \in Procs : Busy(q)' => Progress(q)'
                    /\ (\A q \in Procs : ~Busy(q)') => Settled(plugins, roadmaps)'
  BY DEF RInv
<1>1. Progress(p)
  BY DEF RInv
<1>2. job[p].alone
  BY <1>1 DEF Progress
<1>3. \A q \in Procs \ {p} : ~Busy(q)
  BY <1>2 DEF AInv
<1>4. pc'[p] = phase /\ \A q \in Procs \ {p} : pc'[q] = pc[q]
  BY DEF Goto, TInv
<1>5. \A q \in Procs \ {p} : ~Busy(q)'
  BY <1>3, <1>4 DEF Busy
<1>6. CASE phase = "idle"
  BY <1>1, <1>4, <1>5, <1>6 DEF Busy
<1>7. CASE phase # "idle"
  BY <1>1, <1>4, <1>5, <1>7 DEF Busy
<1> QED BY <1>6, <1>7

LEMMA InitProgress == Init => RInv
<1> SUFFICES ASSUME Init PROVE RInv
  OBVIOUS
<1>1. plugins = {} /\ roadmaps = {} /\ \A p \in Procs : ~Busy(p)
  BY DEF Init, Busy
<1>2. Settled({}, {})
  BY DEF Settled, InstalledOK, EntriesOK, Covered
<1> QED BY <1>1, <1>2 DEF RInv

LEMMA StepProgress == TInv /\ AInv /\ RInv /\ [Next]_vars => RInv'
<1> SUFFICES ASSUME TInv, AInv, RInv, [Next]_vars PROVE RInv'
  OBVIOUS
<1>1. ASSUME NEW p \in Procs, NEW c \in Commands, InstallPlugin(p, c) PROVE RInv'
  <2> DEFINE id == Package[c.dir].id
             write == {i \in plugins : i.id # id} \cup {[id |-> id, dir |-> c.dir]}
  <2>1. c.op = "install" /\ Give(p, c, "openPlugins", c.dir, plugins, write)
    BY <1>1 DEF InstallPlugin
  <2>2. write = Reinstalled(c, plugins)
    BY <2>1 DEF Reinstalled
  <2> HIDE DEF write
  <2>3. "openPlugins" \in Phases \ {"idle"}
    BY DEF Phases
  <2>4. GiveOutcome(p, c, "openPlugins", c.dir, plugins, write)
    BY <2>1, <2>3, Given
  <2>5. /\ pc'[p] = "openPlugins" /\ UNCHANGED <<plugins, roadmaps>>
        /\ job'[p].cmd = c /\ job'[p].read = plugins /\ job'[p].write = write
    BY <2>4 DEF GiveOutcome
  <2>6. Settled(plugins, roadmaps) /\ job'[p].alone => Progress(p)'
    BY <2>2, <2>5 DEF Progress
  <2> QED BY <2>1, <2>3, <2>6, GivenProgress
<1>2. ASSUME NEW p \in Procs, NEW c \in Commands, RemovePlugin(p, c) PROVE RInv'
  <2> DEFINE write == {i \in plugins : i.id # c.plugin}
  <2>1. c.op = "remove" /\ Give(p, c, "openPlugins", "none", plugins, write)
    BY <1>2 DEF RemovePlugin
  <2>2. write = Reinstalled(c, plugins)
    BY <2>1 DEF Reinstalled
  <2> HIDE DEF write
  <2>3. "openPlugins" \in Phases \ {"idle"}
    BY DEF Phases
  <2>4. GiveOutcome(p, c, "openPlugins", "none", plugins, write)
    BY <2>1, <2>3, Given
  <2>5. /\ pc'[p] = "openPlugins" /\ UNCHANGED <<plugins, roadmaps>>
        /\ job'[p].cmd = c /\ job'[p].read = plugins /\ job'[p].write = write
    BY <2>4 DEF GiveOutcome
  <2>6. Settled(plugins, roadmaps) /\ job'[p].alone => Progress(p)'
    BY <2>2, <2>5 DEF Progress
  <2> QED BY <2>1, <2>3, <2>6, GivenProgress
<1>3. ASSUME NEW p \in Procs, NEW c \in Commands, ActivateRoadmap(p, c) PROVE RInv'
  <2>1. PICK dir \in DirsOf(plugins, c.plugin), phase \in {"copyInput", "readRoadmaps"} :
          c.op = "activate" /\ Give(p, c, phase, dir, {}, {})
    BY <1>3 DEF ActivateRoadmap
  <2>2. c.plugin \in Ids(plugins)
    BY <2>1 DEF DirsOf, Ids
  <2>3. phase \in Phases \ {"idle"}
    BY <2>1 DEF Phases
  <2>4. GiveOutcome(p, c, phase, dir, {}, {})
    BY <2>1, <2>3, Given
  <2>5. pc'[p] = phase /\ UNCHANGED <<plugins, roadmaps>> /\ job'[p].cmd = c
    BY <2>4 DEF GiveOutcome
  <2>6. Settled(plugins, roadmaps) /\ job'[p].alone => Progress(p)'
    BY <2>1, <2>2, <2>5 DEF Progress, Settled, CoveredFor
  <2> QED BY <2>1, <2>3, <2>6, GivenProgress
<1>4. ASSUME NEW p \in Procs, NEW c \in Commands, ChangeRoadmap(p, c) PROVE RInv'
  <2>1. /\ c.op \in {"status", "deactivate"} /\ (c.op = "status" => Others(roadmaps, c) # roadmaps)
        /\ Give(p, c, "openRoadmaps", "none", roadmaps, Revised(c, roadmaps))
    BY <1>4 DEF ChangeRoadmap
  <2>2. "openRoadmaps" \in Phases \ {"idle"}
    BY DEF Phases
  <2>3. GiveOutcome(p, c, "openRoadmaps", "none", roadmaps, Revised(c, roadmaps))
    BY <2>1, <2>2, Given
  <2>4. /\ pc'[p] = "openRoadmaps" /\ UNCHANGED <<plugins, roadmaps>>
        /\ job'[p].cmd = c /\ job'[p].read = roadmaps /\ job'[p].write = Revised(c, roadmaps)
    BY <2>3 DEF GiveOutcome
  <2>5. Settled(plugins, roadmaps) /\ job'[p].alone => Progress(p)'
    BY <2>1, <2>4 DEF Progress, Settled, CoveredFor
  <2> QED BY <2>1, <2>2, <2>5, GivenProgress
<1>5. ASSUME NEW p \in Procs, CopyInput(p) PROVE RInv'
  <2>1. /\ pc[p] = "copyInput" /\ Goto(p, "readRoadmaps") /\ job[p].cmd.op = "activate"
        /\ UNCHANGED <<plugins, roadmaps, job, disturbed>>
    BY <1>5 DEF CopyInput, TInv, JobOK, Fits
  <2>2. pc'[p] = "readRoadmaps" /\ "readRoadmaps" \in Phases /\ Busy(p)
    BY <2>1 DEF Goto, TInv, Phases, Busy
  <2>3. Progress(p) => Progress(p)'
    BY <2>1, <2>2 DEF Progress, Settled, CoveredFor
  <2> QED BY <2>1, <2>2, <2>3, ProceedProgress
<1>6. ASSUME NEW p \in Procs, ReadRoadmaps(p) PROVE RInv'
  <2> DEFINE c == job[p].cmd
  <2>1. /\ pc[p] = "readRoadmaps" /\ UNCHANGED <<plugins, roadmaps, disturbed>>
        /\ JobOK(job[p], "readRoadmaps") /\ Busy(p)
    BY <1>6 DEF ReadRoadmaps, TInv, Busy
  <2>2. c.op \in {"remove", "activate"}
    BY <2>1 DEF JobOK, Fits
  <2>3. CASE /\ Goto(p, "openRoadmaps")
             /\ job' = [job EXCEPT ![p].read = roadmaps, ![p].write = Revised(c, roadmaps)]
    <3>1. /\ job'[p].cmd = c /\ job'[p].read = roadmaps /\ job'[p].write = Revised(c, roadmaps)
          /\ job'[p].alone = job[p].alone
      <4> DEFINE r == Revised(c, roadmaps)
      <4>1. job' = [job EXCEPT ![p].read = roadmaps, ![p].write = r] /\ job = [q \in Procs |-> job[q]]
        BY <2>3 DEF TInv
      <4> HIDE DEF r, c
      <4>2. job'[p] = [[job[p] EXCEPT !.read = roadmaps] EXCEPT !.write = r]
        BY <4>1
      <4>3. [[job[p] EXCEPT !.read = roadmaps] EXCEPT !.write = r]
              = [cmd |-> job[p].cmd, dir |-> job[p].dir, read |-> roadmaps, write |-> r, alone |-> job[p].alone]
        BY <2>1, JobRevised DEF JobOK
      <4> QED BY <4>2, <4>3 DEF r, c
    <3>2. pc'[p] = "openRoadmaps" /\ "openRoadmaps" \in Phases
      BY <2>3 DEF Goto, TInv, Phases
    <3>3. Progress(p) => Progress(p)'
      <4> HIDE DEF c
      <4>1. c = job[p].cmd
        BY DEF c
      <4> QED BY <2>1, <2>2, <3>1, <3>2, <4>1 DEF Progress
    <3> QED BY <2>1, <2>3, <3>2, <3>3, ProceedProgress
  <2>4. CASE Goto(p, "idle") /\ ~(roadmaps # Torn /\ (c.op = "activate" => Form(p) = Package[job[p].dir].form))
    <3>1. Progress(p) => Settled(plugins, roadmaps)
      BY <2>1, <2>2, <2>4, NotTorn DEF Progress, Settled, CoveredFor
    <3>2. Progress(p) => Settled(plugins, roadmaps)'
      BY <2>1, <3>1
    <3>3. "idle" \in Phases
      BY DEF Phases
    <3> QED BY <2>1, <2>4, <3>2, <3>3, ProceedProgress
  <2> QED BY <1>6, <2>3, <2>4 DEF ReadRoadmaps
<1>7. ASSUME NEW p \in Procs, OpenPlugins(p) PROVE RInv'
  <2>1. /\ pc[p] = "openPlugins" /\ plugins' = Torn /\ Goto(p, "writePlugins")
        /\ UNCHANGED <<roadmaps, job, disturbed>>
    BY <1>7 DEF OpenPlugins
  <2>2. pc'[p] = "writePlugins" /\ "writePlugins" \in Phases /\ Busy(p)
    BY <2>1 DEF Goto, TInv, Phases, Busy
  <2>3. Progress(p) => Progress(p)'
    BY <2>1, <2>2 DEF Progress
  <2> QED BY <2>1, <2>2, <2>3, ProceedProgress
<1>8. ASSUME NEW p \in Procs, WritePlugins(p) PROVE RInv'
  <2> DEFINE c == job[p].cmd
  <2>1. /\ pc[p] = "writePlugins" /\ plugins' \in Overwritten(plugins, job[p].write)
        /\ UNCHANGED <<roadmaps, disturbed>> /\ Busy(p)
    BY <1>8 DEF WritePlugins, Busy
  <2>2. c.op \in {"install", "remove"} /\ InstalledOK(job[p].write)
    BY <2>1 DEF TInv, JobOK, Fits
  <2>3. Progress(p) => /\ plugins' = job[p].write
                       /\ Settled(job[p].read, roadmaps)
                       /\ job[p].write = Reinstalled(c, job[p].read)
    BY <2>1, Overwriting DEF Progress
  <2>4. CASE c.op = "remove"
    <3>1. Goto(p, "readRoadmaps") /\ job' = job
      BY <1>8, <2>4 DEF WritePlugins
    <3>2. pc'[p] = "readRoadmaps" /\ "readRoadmaps" \in Phases
      BY <3>1 DEF Goto, TInv, Phases
    <3>3. Progress(p) => Ids(plugins') = Ids(job[p].read) \ {c.plugin}
      BY <2>3, <2>4, IdsReinstalled
    <3>4. Progress(p) => InstalledOK(plugins') /\ EntriesOK(roadmaps) /\ CoveredFor(c, plugins', roadmaps)
      BY <2>2, <2>3, <2>4, <3>3 DEF Settled, Covered, CoveredFor
    <3>5. Progress(p) => Progress(p)'
      BY <2>1, <2>4, <3>1, <3>2, <3>4 DEF Progress
    <3> QED BY <2>1, <3>1, <3>2, <3>5, ProceedProgress
  <2>5. CASE c.op = "install"
    <3>1. Goto(p, "idle") /\ "idle" \in Phases
      BY <1>8, <2>5 DEF WritePlugins, Phases
    <3>2. Progress(p) => Ids(job[p].read) \subseteq Ids(plugins')
      BY <2>3, <2>5, IdsReinstalled
    <3>3. Progress(p) => Settled(plugins, roadmaps)'
      BY <2>1, <2>2, <2>3, <3>2 DEF Settled, Covered
    <3> QED BY <2>1, <3>1, <3>3, ProceedProgress
  <2> QED BY <2>2, <2>4, <2>5
<1>9. ASSUME NEW p \in Procs, OpenRoadmaps(p) PROVE RInv'
  <2>1. /\ pc[p] = "openRoadmaps" /\ roadmaps' = Torn /\ Goto(p, "writeRoadmaps")
        /\ UNCHANGED <<plugins, job, disturbed>>
    BY <1>9 DEF OpenRoadmaps
  <2>2. pc'[p] = "writeRoadmaps" /\ "writeRoadmaps" \in Phases /\ Busy(p)
    BY <2>1 DEF Goto, TInv, Phases, Busy
  <2>3. Progress(p) => Progress(p)'
    BY <2>1, <2>2 DEF Progress
  <2> QED BY <2>1, <2>2, <2>3, ProceedProgress
<1>10. ASSUME NEW p \in Procs, WriteRoadmaps(p) PROVE RInv'
  <2> DEFINE c == job[p].cmd
  <2>1. /\ pc[p] = "writeRoadmaps" /\ roadmaps' \in Overwritten(roadmaps, job[p].write)
        /\ Goto(p, "idle") /\ UNCHANGED <<plugins, disturbed>> /\ Busy(p) /\ "idle" \in Phases
    BY <1>10 DEF WriteRoadmaps, Busy, Phases
  <2>2. c.op \in {"remove", "activate", "status", "deactivate"} /\ EntriesOK(job[p].write)
    BY <2>1 DEF TInv, JobOK, Fits
  <2>3. Progress(p) => /\ InstalledOK(plugins) /\ CoveredFor(c, plugins, job[p].read)
                       /\ roadmaps' = Revised(c, job[p].read) /\ roadmaps' = job[p].write
                       /\ c.op = "activate" => c.plugin \in Ids(plugins)
                       /\ c.op = "status" => Others(job[p].read, c) # job[p].read
    BY <2>1, Overwriting DEF Progress
  <2> HIDE DEF c
  <2>4. Progress(p) => Covered(plugins, Revised(c, job[p].read))
    BY <2>2, <2>3, RevisedCovered
  <2>5. Progress(p) => Settled(plugins, roadmaps)'
    BY <2>1, <2>2, <2>3, <2>4 DEF Settled
  <2> QED BY <2>1, <2>5, ProceedProgress
<1>11. ASSUME NEW p \in Procs, Crash(p) PROVE RInv'
  BY <1>11 DEF Crash, RInv
<1>12. ASSUME NEW slot \in Slots, EditInput(slot) PROVE RInv'
  <2>1. UNCHANGED <<plugins, roadmaps, pc, job, disturbed>>
    BY <1>12 DEF EditInput
  <2> QED BY <2>1 DEF RInv, Progress, Busy
<1>13. CASE UNCHANGED vars
  BY <1>13 DEF vars, RInv, Progress, Busy
<1> QED BY <1>1, <1>2, <1>3, <1>4, <1>5, <1>6, <1>7, <1>8, <1>9, <1>10, <1>11, <1>12, <1>13 DEF Next

LEMMA PluginInvariance == Spec => []PInv
  BY InitTyped, InitAlone, InitProgress, StepTyped, StepAlone, StepProgress, PTL DEF Spec, PInv

\* Commands that run to their end, one after the other, leave files that can be
\* planned from (load_active_roadmap_tasks).
THEOREM PlansLoad == Spec => []PlanLoads
<1>1. PInv => PlanLoads
  <2> SUFFICES ASSUME PInv, ~disturbed, \A p \in Procs : ~Busy(p)
               PROVE  Loadable(plugins, roadmaps)
    BY DEF PlanLoads
  <2>1. Settled(plugins, roadmaps)
    BY DEF PInv, RInv
  <2>2. plugins # Torn /\ roadmaps # Torn
    BY <2>1, NotTorn DEF Settled
  <2>3. \A e \in roadmaps : DirsOf(plugins, e.plugin) # {}
    BY <2>1 DEF Settled, Covered, Ids, DirsOf
  <2> QED BY <2>2, <2>3 DEF Loadable
<1> QED BY <1>1, PluginInvariance, PTL

-----------------------------------------------------------------------------
\* The registry.

\* A file that is being written by one process counts as what it read.
Shown ==
  /\ \A p \in Procs : pc[p] # "writePlugins" /\ Busy(p) => Steady(plugins, "writePlugins") = plugins /\ plugins # Torn
  /\ \A p \in Procs : pc[p] = "writePlugins" => Steady(plugins, "writePlugins") = job[p].read
  /\ \A p \in Procs : pc[p] # "writeRoadmaps" /\ Busy(p) => Steady(roadmaps, "writeRoadmaps") = roadmaps /\ roadmaps # Torn
  /\ \A p \in Procs : pc[p] = "writeRoadmaps" => Steady(roadmaps, "writeRoadmaps") = job[p].read
  /\ (\A p \in Procs : ~Busy(p)) =>
       /\ Steady(plugins, "writePlugins") = plugins /\ plugins # Torn
       /\ Steady(roadmaps, "writeRoadmaps") = roadmaps /\ roadmaps # Torn

LEMMA SteadyFiles == PInv /\ ~disturbed => Shown
<1> SUFFICES ASSUME PInv, ~disturbed PROVE Shown
  OBVIOUS
<1>1. /\ \A p \in Procs : Busy(p) => Progress(p)
      /\ (\A p \in Procs : ~Busy(p)) => Settled(plugins, roadmaps)
  BY DEF PInv, RInv
<1>2. ASSUME NEW p \in Procs, Busy(p)
      PROVE  \A q \in Procs : Busy(q) => q = p
  BY <1>1, <1>2 DEF Progress, PInv, AInv
<1>3. ASSUME NEW p \in Procs, Busy(p), pc[p] # "writePlugins"
      PROVE  Steady(plugins, "writePlugins") = plugins /\ plugins # Torn
  <2>1. pc[p] \in Phases
    BY DEF PInv, TInv
  <2>2. InstalledOK(plugins)
    BY <1>1, <1>3, <2>1 DEF Progress, Settled, Phases, Busy
  <2> QED BY <2>2, NotTorn DEF Steady
<1>4. ASSUME NEW p \in Procs, Busy(p), pc[p] # "writeRoadmaps"
      PROVE  Steady(roadmaps, "writeRoadmaps") = roadmaps /\ roadmaps # Torn
  <2>1. pc[p] \in Phases
    BY DEF PInv, TInv
  <2>2. EntriesOK(roadmaps)
    BY <1>1, <1>4, <2>1 DEF Progress, Settled, Phases, Busy
  <2> QED BY <2>2, NotTorn DEF Steady
<1>5. ASSUME NEW p \in Procs, pc[p] = "writePlugins"
      PROVE  Steady(plugins, "writePlugins") = job[p].read
  <2>1. plugins = Torn /\ Busy(p)
    BY <1>1, <1>5 DEF Progress, Busy
  <2>2. {q \in Procs : pc[q] = "writePlugins"} = {p}
    BY <1>2, <1>5, <2>1 DEF Busy
  <2>3. {job[q].read : q \in {p}} = {job[p].read}
    OBVIOUS
  <2>4. UNION {job[p].read} = job[p].read
    OBVIOUS
  <2> QED BY <2>1, <2>2, <2>3, <2>4 DEF Steady
<1>6. ASSUME NEW p \in Procs, pc[p] = "writeRoadmaps"
      PROVE  Steady(roadmaps, "writeRoadmaps") = job[p].read
  <2>1. roadmaps = Torn /\ Busy(p)
    BY <1>1, <1>6 DEF Progress, Busy
  <2>2. {q \in Procs : pc[q] = "writeRoadmaps"} = {p}
    BY <1>2, <1>6, <2>1 DEF Busy
  <2>3. {job[q].read : q \in {p}} = {job[p].read}
    OBVIOUS
  <2>4. UNION {job[p].read} = job[p].read
    OBVIOUS
  <2> QED BY <2>1, <2>2, <2>3, <2>4 DEF Steady
<1>7. ASSUME \A p \in Procs : ~Busy(p)
      PROVE  /\ Steady(plugins, "writePlugins") = plugins /\ plugins # Torn
             /\ Steady(roadmaps, "writeRoadmaps") = roadmaps /\ roadmaps # Torn
  BY <1>1, <1>7, NotTorn DEF Settled, Steady
<1> QED BY <1>3, <1>4, <1>5, <1>6, <1>7 DEF Shown

\* Steps that leave both files, or what their writers read, as they are.
LEMMA RegistryStutters ==
  ASSUME Steady(plugins, "writePlugins")' = Steady(plugins, "writePlugins"),
         Steady(roadmaps, "writeRoadmaps")' = Steady(roadmaps, "writeRoadmaps")
  PROVE  UNCHANGED <<InstalledNow, RunningNow>>
  BY DEF InstalledNow, RunningNow

LEMMA NothingTorn ==
  ASSUME Steady(plugins, "writePlugins") = plugins, plugins # Torn,
         Steady(roadmaps, "writeRoadmaps") = roadmaps, roadmaps # Torn,
         plugins' = plugins, roadmaps' = roadmaps
  PROVE  UNCHANGED <<InstalledNow, RunningNow>>
<1>1. Steady(plugins, "writePlugins")' = plugins /\ Steady(roadmaps, "writeRoadmaps")' = roadmaps
  BY DEF Steady
<1> QED BY <1>1, RegistryStutters

LEMMA GivenStutters ==
  ASSUME PInv, NEW p \in Procs, NEW c, NEW phase \in Phases, NEW dir, NEW read, NEW write,
         Give(p, c, phase, dir, read, write)
  PROVE  disturbed' \/ UNCHANGED <<InstalledNow, RunningNow>>
<1>1. GiveOutcome(p, c, phase, dir, read, write)
  BY Given DEF PInv
<1> SUFFICES ASSUME ~disturbed' PROVE UNCHANGED <<InstalledNow, RunningNow>>
  OBVIOUS
<1>2. ~disturbed /\ (\A q \in Procs : ~Busy(q)) /\ plugins' = plugins /\ roadmaps' = roadmaps
  BY <1>1 DEF GiveOutcome
<1> QED BY <1>2, SteadyFiles, NothingTorn DEF Shown

\* Writing plugins.lock.json installs or removes a plugin.
LEMMA PluginsWritten ==
  ASSUME PInv, ~disturbed, NEW p \in Procs, WritePlugins(p)
  PROVE  Registry!RegistryNext
<1> DEFINE c == job[p].cmd
           old == job[p].read
<1>1. pc[p] = "writePlugins" /\ plugins' \in Overwritten(plugins, job[p].write) /\ roadmaps' = roadmaps /\ Busy(p)
  BY DEF WritePlugins, Busy
<1>2. Progress(p) /\ Shown
  BY <1>1, SteadyFiles DEF PInv, RInv
<1>3. /\ plugins' = job[p].write /\ Settled(old, roadmaps) /\ job[p].write = Reinstalled(c, old)
  BY <1>1, <1>2, Overwriting DEF Progress
<1>4. c \in Commands /\ c.op \in {"install", "remove"} /\ InstalledOK(job[p].write)
  BY <1>1 DEF PInv, TInv, JobOK, Fits
<1>5. /\ Steady(plugins, "writePlugins") = old
      /\ Steady(roadmaps, "writeRoadmaps") = roadmaps /\ roadmaps # Torn
  BY <1>1, <1>2 DEF Shown
<1>6. Steady(plugins, "writePlugins")' = Reinstalled(c, old) /\ Steady(roadmaps, "writeRoadmaps")' = roadmaps
  BY <1>1, <1>3, <1>4, <1>5, NotTorn DEF Steady
<1> HIDE DEF c, old
<1>7. /\ InstalledNow = Ids(old) /\ InstalledNow' = Ids(Reinstalled(c, old))
      /\ RunningNow = {e \in roadmaps : e.plugin \in Ids(old)}
      /\ RunningNow' = {e \in roadmaps : e.plugin \in Ids(Reinstalled(c, old))}
  BY <1>5, <1>6 DEF InstalledNow, RunningNow, Ids
<1>8. RunningNow = roadmaps
  BY <1>3, <1>7 DEF Settled, Covered
<1>9. CASE c.op = "install"
  <2> DEFINE id == Package[c.dir].id
  <2>1. id \in PluginIds
    BY <1>4, <1>9, PluginCommandAssumption DEF PluginIds
  <2>2. InstalledNow' = InstalledNow \cup {id}
    BY <1>7, <1>9, IdsReinstalled
  <2>3. RunningNow' = RunningNow
    BY <1>3, <1>7, <1>8, <2>2 DEF Settled, Covered
  <2>4. Registry!Install(id)
    BY <2>2, <2>3 DEF Registry!Install
  <2> QED BY <2>1, <2>4 DEF Registry!RegistryNext
<1>10. CASE c.op = "remove"
  <2>1. c.plugin \in PluginIds
    BY <1>4, <1>10, PluginCommandAssumption
  <2>2. InstalledNow' = InstalledNow \ {c.plugin}
    BY <1>7, <1>10, IdsReinstalled
  <2>3. RunningNow' = {e \in RunningNow : e.plugin # c.plugin}
    BY <1>3, <1>7, <1>8, <2>2 DEF Settled, Covered
  <2>4. Registry!Remove(c.plugin)
    BY <2>2, <2>3 DEF Registry!Remove
  <2> QED BY <2>1, <2>4 DEF Registry!RegistryNext
<1> QED BY <1>4, <1>9, <1>10

\* Writing roadmaps.lock.json changes an execution, or ends a removal.
LEMMA RoadmapsWritten ==
  ASSUME PInv, ~disturbed, NEW p \in Procs, WriteRoadmaps(p)
  PROVE  Registry!RegistryNext \/ UNCHANGED <<InstalledNow, RunningNow>>
<1> DEFINE c == job[p].cmd
           old == job[p].read
<1>1. pc[p] = "writeRoadmaps" /\ roadmaps' \in Overwritten(roadmaps, job[p].write) /\ plugins' = plugins /\ Busy(p)
  BY DEF WriteRoadmaps, Busy
<1>2. Progress(p) /\ Shown
  BY <1>1, SteadyFiles DEF PInv, RInv
<1>3. /\ InstalledOK(plugins) /\ CoveredFor(c, plugins, old)
      /\ roadmaps' = Revised(c, old) /\ roadmaps' = job[p].write
      /\ c.op = "activate" => c.plugin \in Ids(plugins)
      /\ c.op = "status" => Others(old, c) # old
  BY <1>1, <1>2, Overwriting DEF Progress
<1>4. c \in Commands /\ c.op \in {"remove", "activate", "status", "deactivate"} /\ EntriesOK(job[p].write)
  BY <1>1 DEF PInv, TInv, JobOK, Fits
<1>5. /\ Steady(plugins, "writePlugins") = plugins /\ plugins # Torn
      /\ Steady(roadmaps, "writeRoadmaps") = old
  BY <1>1, <1>2 DEF Shown
<1>6. Steady(plugins, "writePlugins")' = plugins /\ Steady(roadmaps, "writeRoadmaps")' = Revised(c, old)
  BY <1>1, <1>3, <1>4, <1>5, NotTorn DEF Steady
<1> HIDE DEF c, old
<1>7. /\ InstalledNow = Ids(plugins) /\ InstalledNow' = InstalledNow
      /\ RunningNow = {e \in old : e.plugin \in Ids(plugins)}
      /\ RunningNow' = {e \in Revised(c, old) : e.plugin \in Ids(plugins)}
  BY <1>5, <1>6 DEF InstalledNow, RunningNow, Ids
<1>8. RunningNow' = Revised(c, old)
  <2>1. CoveredFor(c, plugins, old) /\ c.op \in {"remove", "activate", "status", "deactivate"}
    BY <1>3, <1>4
  <2>2. c.op = "activate" => c.plugin \in Ids(plugins)
    BY <1>3
  <2>3. c.op = "status" => Others(old, c) # old
    BY <1>3
  <2>4. Covered(plugins, Revised(c, old))
    BY <2>1, <2>2, <2>3, RevisedCovered
  <2> QED BY <1>7, <2>4 DEF Covered
<1>9. c.op # "remove" => RunningNow = old
  BY <1>3, <1>7 DEF CoveredFor, Covered
<1>10. CASE c.op = "remove"
  <2>1. RunningNow' = RunningNow
    BY <1>3, <1>7, <1>8, <1>10 DEF CoveredFor, Revised
  <2> QED BY <1>7, <2>1
<1>11. CASE c.op = "activate"
  <2>1. c.plugin \in PluginIds /\ c.execution \in Executions
    BY <1>4, <1>11, PluginCommandAssumption
  <2>2. Registry!Activate(c.plugin, c.execution)
    BY <1>3, <1>7, <1>8, <1>9, <1>11
    DEF Registry!Activate, Registry!Others, Registry!Entry, Revised, Others, Entry
  <2> QED BY <2>1, <2>2 DEF Registry!RegistryNext
<1>12. CASE c.op = "status"
  <2>1. c.plugin \in PluginIds /\ c.execution \in Executions /\ c.status \in {"active", "paused"}
    BY <1>4, <1>12, PluginCommandAssumption
  <2>2. Registry!SetStatus(c.plugin, c.execution, c.status)
    BY <1>3, <1>7, <1>8, <1>9, <1>12
    DEF Registry!SetStatus, Registry!Others, Registry!Entry, Revised, Others, Entry
  <2> QED BY <2>1, <2>2 DEF Registry!RegistryNext
<1>13. CASE c.op = "deactivate"
  <2>1. c.plugin \in PluginIds /\ c.execution \in Executions
    BY <1>4, <1>13, PluginCommandAssumption
  <2>2. Registry!Deactivate(c.plugin, c.execution)
    BY <1>7, <1>8, <1>9, <1>13 DEF Registry!Deactivate, Registry!Others, Revised, Others
  <2> QED BY <2>1, <2>2 DEF Registry!RegistryNext
<1> QED BY <1>4, <1>10, <1>11, <1>12, <1>13

LEMMA StepRegistered ==
  PInv /\ PInv' /\ [Next]_vars => [disturbed' \/ Registry!RegistryNext]_<<InstalledNow, RunningNow>>
<1> SUFFICES ASSUME PInv, PInv', [Next]_vars, ~disturbed'
             PROVE  Registry!RegistryNext \/ UNCHANGED <<InstalledNow, RunningNow>>
  OBVIOUS
<1> DEFINE Same == UNCHANGED <<InstalledNow, RunningNow>>
<1> USE DEF Phases
<1>0. Shown'
  BY SteadyFiles, PTL
<1>1. ASSUME NEW p \in Procs, NEW c \in Commands, InstallPlugin(p, c) PROVE Same
  BY <1>1, GivenStutters DEF InstallPlugin
<1>2. ASSUME NEW p \in Procs, NEW c \in Commands, RemovePlugin(p, c) PROVE Same
  BY <1>2, GivenStutters DEF RemovePlugin
<1>3. ASSUME NEW p \in Procs, NEW c \in Commands, ActivateRoadmap(p, c) PROVE Same
  <2>1. PICK dir \in DirsOf(plugins, c.plugin), phase \in {"copyInput", "readRoadmaps"} : Give(p, c, phase, dir, {}, {})
    BY <1>3 DEF ActivateRoadmap
  <2> QED BY <2>1, GivenStutters
<1>4. ASSUME NEW p \in Procs, NEW c \in Commands, ChangeRoadmap(p, c) PROVE Same
  BY <1>4, GivenStutters DEF ChangeRoadmap
<1>5. ASSUME NEW p \in Procs, CopyInput(p) \/ ReadRoadmaps(p) PROVE Same
  <2>1. pc[p] \in {"copyInput", "readRoadmaps"} /\ UNCHANGED <<plugins, roadmaps, disturbed>>
    BY <1>5 DEF CopyInput, ReadRoadmaps
  <2> QED BY <2>1, SteadyFiles, NothingTorn DEF Shown, Busy
<1>6. ASSUME NEW p \in Procs, OpenPlugins(p) PROVE Same
  <2>1. /\ pc[p] = "openPlugins" /\ pc'[p] = "writePlugins" /\ Busy(p)
        /\ UNCHANGED <<roadmaps, job, disturbed>>
    BY <1>6 DEF OpenPlugins, Goto, Busy, PInv, TInv
  <2>2. Progress(p) /\ Shown
    BY <2>1, SteadyFiles DEF PInv, RInv
  <2>3. job[p].read = plugins
    BY <2>1, <2>2 DEF Progress
  <2>4. Steady(plugins, "writePlugins") = job[p].read /\ Steady(plugins, "writePlugins")' = job[p].read
    BY <1>0, <2>1, <2>2, <2>3 DEF Shown
  <2>5. Steady(roadmaps, "writeRoadmaps")' = Steady(roadmaps, "writeRoadmaps")
    BY <2>1, <2>2 DEF Shown, Steady
  <2> QED BY <2>4, <2>5, RegistryStutters
<1>7. ASSUME NEW p \in Procs, WritePlugins(p) PROVE Registry!RegistryNext
  BY <1>7, PluginsWritten DEF WritePlugins
<1>8. ASSUME NEW p \in Procs, OpenRoadmaps(p) PROVE Same
  <2>1. /\ pc[p] = "openRoadmaps" /\ pc'[p] = "writeRoadmaps" /\ Busy(p)
        /\ UNCHANGED <<plugins, job, disturbed>>
    BY <1>8 DEF OpenRoadmaps, Goto, Busy, PInv, TInv
  <2>2. Progress(p) /\ Shown
    BY <2>1, SteadyFiles DEF PInv, RInv
  <2>3. job[p].read = roadmaps
    BY <2>1, <2>2 DEF Progress
  <2>4. Steady(roadmaps, "writeRoadmaps") = job[p].read /\ Steady(roadmaps, "writeRoadmaps")' = job[p].read
    BY <1>0, <2>1, <2>2, <2>3 DEF Shown
  <2>5. Steady(plugins, "writePlugins")' = Steady(plugins, "writePlugins")
    BY <2>1, <2>2 DEF Shown, Steady
  <2> QED BY <2>4, <2>5, RegistryStutters
<1>9. ASSUME NEW p \in Procs, WriteRoadmaps(p) PROVE Registry!RegistryNext \/ Same
  BY <1>9, RoadmapsWritten DEF WriteRoadmaps
<1>10. ASSUME NEW p \in Procs, Crash(p) PROVE Same
  BY <1>10 DEF Crash
<1>11. ASSUME NEW slot \in Slots, EditInput(slot) PROVE Same
  <2>1. UNCHANGED <<plugins, roadmaps, pc, job>>
    BY <1>11 DEF EditInput
  <2> QED BY <2>1, RegistryStutters DEF Steady
<1>12. CASE UNCHANGED vars
  <2>1. UNCHANGED <<plugins, roadmaps, pc, job>>
    BY <1>12 DEF vars
  <2> QED BY <2>1, RegistryStutters DEF Steady
<1> QED BY <1>1, <1>2, <1>3, <1>4, <1>5, <1>6, <1>7, <1>8, <1>9, <1>10, <1>11, <1>12 DEF Next

\* The refinement: until a command is killed or two run at once, the two files
\* together are a registry of plugins and their executions, each command taking
\* effect at once (plugins.py implements docs/plugins/lifecycle.md).
THEOREM PluginsImplementRegistry == Spec => ImplementsRegistry
<1>1. Init => Registry!RegistryInit
  <2> SUFFICES ASSUME Init PROVE Registry!RegistryInit
    OBVIOUS
  <2>1. plugins = {} /\ roadmaps = {}
    BY DEF Init
  <2>2. InstalledOK({}) /\ EntriesOK({})
    BY DEF InstalledOK, EntriesOK
  <2>3. Steady(plugins, "writePlugins") = {} /\ Steady(roadmaps, "writeRoadmaps") = {}
    BY <2>1, <2>2, NotTorn DEF Steady
  <2> QED BY <2>3 DEF InstalledNow, RunningNow, Registry!RegistryInit
<1> QED BY <1>1, PluginInvariance, StepRegistered, PTL DEF Spec, ImplementsRegistry

=============================================================================
