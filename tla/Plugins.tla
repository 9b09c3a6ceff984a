------------------------------ MODULE Plugins ------------------------------
(***************************************************************************)
(* Plugin commands on their two files (plugins.py): plugins.lock.json says *)
(* what is installed and from which directory, roadmaps.lock.json which    *)
(* executions of the plugins' roadmaps there are.  Neither file is locked  *)
(* or replaced atomically: a command reads a file, truncates it and writes *)
(* it again, and remove does so with one file after the other.  Active     *)
(* executions contribute planned tasks (load_active_roadmap_tasks).        *)
(*                                                                         *)
(* Of a package there are its id and the form its input schema asks for;   *)
(* the version and the content hash are recorded in the lock files and     *)
(* never looked at again.                                                  *)
(***************************************************************************)
EXTENDS Naturals, Sequences, FiniteSets

CONSTANTS
  Procs,        \* processes that run commands
  Package,      \* package directory |-> its plugin id and input form
  Executions,   \* execution ids
  Commands,     \* the commands that may be given
  Torn,         \* a file that is empty or garbled
  MaxCommands,  \* bound: commands given
  MaxDeaths     \* bound: processes that die

PluginIds == {Package[d].id : d \in DOMAIN Package}
Forms == {Package[d].form : d \in DOMAIN Package}
Slots == PluginIds \X Executions

\* What is recorded of a package that is installed, and of an execution.
Installations == [id : PluginIds, dir : DOMAIN Package]
Entries == [plugin : PluginIds, execution : Executions, status : {"active", "paused"}]

ASSUME PluginBoundAssumption == {MaxCommands, MaxDeaths} \subseteq Nat
ASSUME TornAssumption ==
  /\ \A file \in SUBSET Installations : file # Torn
  /\ \A file \in SUBSET Entries : file # Torn
ASSUME PluginCommandAssumption ==
  \A c \in Commands :
    \/ c.op = "install" /\ c.dir \in DOMAIN Package
    \/ c.op = "remove" /\ c.plugin \in PluginIds
    \/ /\ c.op \in {"activate", "status", "deactivate"}
       /\ c.plugin \in PluginIds /\ c.execution \in Executions
       /\ c.op = "status" => c.status \in {"active", "paused"}

VARIABLES
  plugins,    \* plugins.lock.json
  roadmaps,   \* roadmaps.lock.json
  inputs,     \* .roadmap/plugin-inputs/<plugin>.<execution>.local.json
  pc, job,    \* what each process is doing
  disturbed,  \* history: a command was cut short, or two ran at once
  issued, deaths

vars == <<plugins, roadmaps, inputs, pc, job, disturbed, issued, deaths>>

Idle == [cmd |-> [op |-> "none"], dir |-> "none", read |-> {}, write |-> {}, alone |-> TRUE]
Phases == {"idle", "openPlugins", "writePlugins", "readRoadmaps", "copyInput", "openRoadmaps", "writeRoadmaps"}

\* An input file: none, or of some form, and possibly edited since it was copied.
NoInput == [form |-> "none", edited |-> FALSE]
Example(dir) == [form |-> Package[dir].form, edited |-> FALSE]

Init ==
  /\ plugins = {}
  /\ roadmaps = {}
  /\ inputs = [slot \in Slots |-> NoInput]
  /\ pc = [p \in Procs |-> "idle"]
  /\ job = [p \in Procs |-> Idle]
  /\ disturbed = FALSE
  /\ issued = 0
  /\ deaths = 0

Busy(p) == pc[p] # "idle"
Goto(p, phase) == pc' = [pc EXCEPT ![p] = phase]

-----------------------------------------------------------------------------
\* What the files say.

DirsOf(installed, plugin) == {i.dir : i \in {i \in installed : i.id = plugin}}

\* load_active_roadmap_tasks: it fails when an execution's plugin is missing.
Loadable(installed, entries) ==
  /\ Torn \notin {installed, entries}
  /\ \A e \in entries : e.status = "active" => DirsOf(installed, e.plugin) # {}

Others(entries, c) == {e \in entries : ~(e.plugin = c.plugin /\ e.execution = c.execution)}
Entry(c, status) == [plugin |-> c.plugin, execution |-> c.execution, status |-> status]

\* Mutant of Revised: remove looks for active executions only.
RevisedKeepingPaused(c, entries) ==
  CASE c.op = "remove"     -> {e \in entries : e.plugin # c.plugin \/ e.status = "paused"}
    [] c.op = "activate"   -> Others(entries, c) \cup {Entry(c, "active")}
    [] c.op = "status"     -> Others(entries, c) \cup {Entry(c, c.status)}
    [] c.op = "deactivate" -> Others(entries, c)

\* The roadmaps.lock.json a command writes, given the one it read.
Revised(c, entries) ==
  CASE c.op = "remove"     -> {e \in entries : e.plugin # c.plugin}
    [] c.op = "activate"   -> Others(entries, c) \cup {Entry(c, "active")}
    [] c.op = "status"     -> Others(entries, c) \cup {Entry(c, c.status)}
    [] c.op = "deactivate" -> Others(entries, c)

-----------------------------------------------------------------------------
\* A process takes a command and does its first read.  Others that are at work
\* are no longer alone, and neither is it.

Give(p, c, phase, dir, read, write) ==
  LET overlap == \E q \in Procs : Busy(q) IN
  /\ ~Busy(p)
  /\ issued < MaxCommands
  /\ issued' = issued + 1
  /\ job' = [q \in Procs |->
       IF q = p THEN [cmd |-> c, dir |-> dir, read |-> read, write |-> write, alone |-> ~overlap]
       ELSE IF Busy(q) THEN [job[q] EXCEPT !.alone = FALSE] ELSE job[q]]
  /\ disturbed' = (disturbed \/ overlap)
  /\ Goto(p, phase)
  /\ UNCHANGED <<plugins, roadmaps, inputs, deaths>>

\* Mutant of InstallPlugin: the new edition goes beside the old one.
InstallBeside(p, c) ==
  /\ c.op = "install"
  /\ plugins # Torn
  /\ Give(p, c, "openPlugins", c.dir, plugins, plugins \cup {[id |-> Package[c.dir].id, dir |-> c.dir]})

\* install_plugin: a package replaces the one of the same id.
InstallPlugin(p, c) ==
  LET id == Package[c.dir].id IN
  /\ c.op = "install"
  /\ plugins # Torn
  /\ Give(p, c, "openPlugins", c.dir, plugins, {i \in plugins : i.id # id} \cup {[id |-> id, dir |-> c.dir]})

\* remove_plugin, its first half.
RemovePlugin(p, c) ==
  /\ c.op = "remove"
  /\ plugins # Torn
  /\ Give(p, c, "openPlugins", "none", plugins, {i \in plugins : i.id # c.plugin})

\* Mutant of ActivateRoadmap: any package directory will do.
ActivateAnyRoadmap(p, c) ==
  /\ c.op = "activate"
  /\ plugins # Torn
  /\ \E dir \in {d \in DOMAIN Package : Package[d].id = c.plugin} :
       Give(p, c, IF c.input = "none" /\ inputs[<<c.plugin, c.execution>>] = NoInput THEN "copyInput" ELSE "readRoadmaps", dir, {}, {})

\* activate_roadmap: the plugin is installed; unless the command names an input
\* the example becomes it, if there is none yet.
ActivateRoadmap(p, c) ==
  /\ c.op = "activate"
  /\ plugins # Torn
  /\ \E dir \in DirsOf(plugins, c.plugin) :
       Give(p, c, IF c.input = "none" /\ inputs[<<c.plugin, c.execution>>] = NoInput THEN "copyInput" ELSE "readRoadmaps", dir, {}, {})

\* set_roadmap_status, deactivate_roadmap.
ChangeRoadmap(p, c) ==
  /\ c.op \in {"status", "deactivate"}
  /\ roadmaps # Torn
  /\ c.op = "status" => Others(roadmaps, c) # roadmaps
  /\ Give(p, c, "openRoadmaps", "none", roadmaps, Revised(c, roadmaps))

CopyInput(p) ==
  /\ pc[p] = "copyInput"
  /\ inputs' = [inputs EXCEPT ![<<job[p].cmd.plugin, job[p].cmd.execution>>] = Example(job[p].dir)]
  /\ Goto(p, "readRoadmaps")
  /\ UNCHANGED <<plugins, roadmaps, job, disturbed, issued, deaths>>

\* The input that is validated: the one named, or the one in its place.
Form(p) ==
  LET c == job[p].cmd IN
  IF c.input = "none" THEN inputs[<<c.plugin, c.execution>>].form ELSE c.input

ReadRoadmaps(p) ==
  LET c == job[p].cmd
      ok == roadmaps # Torn /\ (c.op = "activate" => Form(p) = Package[job[p].dir].form) IN
  /\ pc[p] = "readRoadmaps"
  /\ IF ok
     THEN Goto(p, "openRoadmaps") /\ job' = [job EXCEPT ![p].read = roadmaps, ![p].write = Revised(c, roadmaps)]
     ELSE Goto(p, "idle") /\ job' = [job EXCEPT ![p] = Idle]
  /\ UNCHANGED <<plugins, roadmaps, inputs, disturbed, issued, deaths>>

-----------------------------------------------------------------------------
\* _write_json truncates the file and writes it.

OpenPlugins(p) ==
  /\ pc[p] = "openPlugins"
  /\ plugins' = Torn
  /\ Goto(p, "writePlugins")
  /\ UNCHANGED <<roadmaps, inputs, job, disturbed, issued, deaths>>

\* What was written since the file was truncated may stick out at the end.
Overwritten(file, content) == IF file = Torn THEN {content} ELSE {content, Torn}

\* Mutant of WritePlugins: remove forgets the executions.
WritePluginsOnly(p) ==
  /\ pc[p] = "writePlugins"
  /\ plugins' \in Overwritten(plugins, job[p].write)
  /\ Goto(p, "idle")
  /\ job' = [job EXCEPT ![p] = Idle]
  /\ UNCHANGED <<roadmaps, inputs, disturbed, issued, deaths>>

WritePlugins(p) ==
  /\ pc[p] = "writePlugins"
  /\ plugins' \in Overwritten(plugins, job[p].write)
  /\ IF job[p].cmd.op = "remove"
     THEN Goto(p, "readRoadmaps") /\ UNCHANGED job
     ELSE Goto(p, "idle") /\ job' = [job EXCEPT ![p] = Idle]
  /\ UNCHANGED <<roadmaps, inputs, disturbed, issued, deaths>>

OpenRoadmaps(p) ==
  /\ pc[p] = "openRoadmaps"
  /\ roadmaps' = Torn
  /\ Goto(p, "writeRoadmaps")
  /\ UNCHANGED <<plugins, inputs, job, disturbed, issued, deaths>>

WriteRoadmaps(p) ==
  /\ pc[p] = "writeRoadmaps"
  /\ roadmaps' \in Overwritten(roadmaps, job[p].write)
  /\ Goto(p, "idle")
  /\ job' = [job EXCEPT ![p] = Idle]
  /\ UNCHANGED <<plugins, inputs, disturbed, issued, deaths>>

\* The operator fills in an input that was copied from the example.
EditInput(slot) ==
  /\ inputs[slot] # NoInput
  /\ ~inputs[slot].edited
  /\ inputs' = [inputs EXCEPT ![slot].edited = TRUE]
  /\ UNCHANGED <<plugins, roadmaps, pc, job, disturbed, issued, deaths>>

\* A process is killed; the command may be given again, to another one.
Crash(p) ==
  /\ Busy(p)
  /\ deaths < MaxDeaths
  /\ deaths' = deaths + 1
  /\ disturbed' = TRUE
  /\ Goto(p, "idle")
  /\ job' = [job EXCEPT ![p] = Idle]
  /\ UNCHANGED <<plugins, roadmaps, inputs, issued>>

Next ==
  \/ \E p \in Procs, c \in Commands :
       InstallPlugin(p, c) \/ RemovePlugin(p, c) \/ ActivateRoadmap(p, c) \/ ChangeRoadmap(p, c)
  \/ \E p \in Procs :
       \/ CopyInput(p) \/ ReadRoadmaps(p)
       \/ OpenPlugins(p) \/ WritePlugins(p) \/ OpenRoadmaps(p) \/ WriteRoadmaps(p)
       \/ Crash(p)
  \/ \E slot \in Slots : EditInput(slot)

Spec == Init /\ [][Next]_vars

-----------------------------------------------------------------------------
\* In particular a plugin is installed from one directory, and an execution is
\* either active or paused.
TypeOK ==
  /\ plugins = Torn \/ \A i \in plugins :
       i.dir \in DOMAIN Package /\ i.id = Package[i.dir].id /\ DirsOf(plugins, i.id) = {i.dir}
  /\ roadmaps = Torn \/ \A e \in roadmaps :
       /\ e.plugin \in PluginIds /\ e.execution \in Executions /\ e.status \in {"active", "paused"}
       /\ roadmaps \ Others(roadmaps, e) = {e}
  /\ \A slot \in Slots : inputs[slot].form \in Forms \cup {"none"} /\ inputs[slot].edited \in BOOLEAN
  /\ pc \in [Procs -> Phases]
  /\ disturbed \in BOOLEAN
  /\ issued \in 0..MaxCommands
  /\ deaths \in 0..MaxDeaths

\* As long as every command runs to its end and on its own, what the commands
\* leave behind can be planned from: both files can be read, and no active
\* execution belongs to a plugin that is gone (load_active_roadmap_tasks would
\* make run, eligible, claim and init fail).
PlanLoads == ~disturbed /\ (\A p \in Procs : ~Busy(p)) => Loadable(plugins, roadmaps)

\* remove is the way out of a remove that was killed: whatever happened before,
\* one that runs on its own leaves neither the plugin nor an execution of it.
RemoveRepairs ==
  [][\A p \in Procs : job[p].cmd.op = "remove" /\ job[p].alone /\ WriteRoadmaps(p) =>
       LET id == job[p].cmd.plugin IN
       DirsOf(plugins', id) = {} /\ \A e \in roadmaps' : e.plugin # id]_vars

\* The commands do what they promise, each at once, until one is killed or two
\* run at the same time.  A file that is being written counts as what its
\* writer read; the executions of a plugin that is gone do not count.
Steady(file, phase) ==
  IF file # Torn THEN file
  ELSE UNION {job[p].read : p \in {p \in Procs : pc[p] = phase}}

InstalledNow == {i.id : i \in Steady(plugins, "writePlugins")}
RunningNow == {e \in Steady(roadmaps, "writeRoadmaps") : e.plugin \in InstalledNow}

Registry == INSTANCE PluginRegistry WITH
  Plugins <- PluginIds, installed <- InstalledNow, running <- RunningNow

ImplementsRegistry ==
  Registry!RegistryInit /\ [][disturbed' \/ Registry!RegistryNext]_<<InstalledNow, RunningNow>>

=============================================================================
