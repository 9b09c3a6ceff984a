------------------------------ MODULE MCPlugins ------------------------------
(***************************************************************************)
(* Two plugins, one of them in two editions, for Plugins.                  *)
(***************************************************************************)
EXTENDS Plugins, TLC

CONSTANTS p1, p2

A == "a"
B == "b"
Default == "default"

MCPackage ==
  [a1 |-> [id |-> A, form |-> "old"],
   a2 |-> [id |-> A, form |-> "new"],
   b1 |-> [id |-> B, form |-> "old"]]

MCExecutions == {Default}

Activation(plugin, input) == [op |-> "activate", plugin |-> plugin, execution |-> Default, input |-> input]

MCCommands ==
  {[op |-> "install", dir |-> d] : d \in DOMAIN MCPackage}
  \cup {[op |-> "remove", plugin |-> plugin] : plugin \in {A, B}}
  \cup {Activation(A, "none"), Activation(A, "new"), Activation(B, "none")}
  \cup {[op |-> "status", plugin |-> A, execution |-> Default, status |-> s] : s \in {"active", "paused"}}
  \cup {[op |-> "deactivate", plugin |-> A, execution |-> Default]}

Twins == Permutations({p1, p2})

=============================================================================
