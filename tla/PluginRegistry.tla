--------------------------- MODULE PluginRegistry ---------------------------
(***************************************************************************)
(* What the plugin commands promise (docs/plugins/lifecycle.md): plugins   *)
(* are installed and removed, executions of their roadmaps are activated,  *)
(* paused, resumed and deactivated.  Only an activation starts an          *)
(* execution, only of a plugin that is installed, and removing a plugin    *)
(* ends all of its executions.                                             *)
(***************************************************************************)
CONSTANTS
  Plugins,    \* plugin ids
  Executions  \* execution ids

VARIABLES
  installed,  \* plugins
  running     \* executions, with their status

Entry(plugin, execution, status) == [plugin |-> plugin, execution |-> execution, status |-> status]
Others(entries, plugin, execution) == {e \in entries : ~(e.plugin = plugin /\ e.execution = execution)}

RegistryInit == installed = {} /\ running = {}

Install(plugin) ==
  /\ installed' = installed \cup {plugin}
  /\ UNCHANGED running

Remove(plugin) ==
  /\ installed' = installed \ {plugin}
  /\ running' = {e \in running : e.plugin # plugin}

Activate(plugin, execution) ==
  /\ plugin \in installed
  /\ running' = Others(running, plugin, execution) \cup {Entry(plugin, execution, "active")}
  /\ UNCHANGED installed

SetStatus(plugin, execution, status) ==
  /\ Others(running, plugin, execution) # running
  /\ running' = Others(running, plugin, execution) \cup {Entry(plugin, execution, status)}
  /\ UNCHANGED installed

Deactivate(plugin, execution) ==
  /\ running' = Others(running, plugin, execution)
  /\ UNCHANGED installed

RegistryNext ==
  \E plugin \in Plugins :
    \/ Install(plugin)
    \/ Remove(plugin)
    \/ \E execution \in Executions :
         \/ Activate(plugin, execution)
         \/ \E status \in {"active", "paused"} : SetStatus(plugin, execution, status)
         \/ Deactivate(plugin, execution)

=============================================================================
