---------------------------- MODULE MCSignedWork ----------------------------
(***************************************************************************)
(* Two agents, two keys, two tasks for SignedWork.                         *)
(***************************************************************************)
EXTENDS SignedWork, TLC

CONSTANTS p1, p2

MCTarget == [t1 |-> "f1", t2 |-> "f2"]

\* Grants: what has been signed, and with which nonce.
ByOwner(op, scope, nonce) == Grant(op, scope, nonce, "kowner")

Booted == Bootstrap(ByOwner("actor.bootstrap", <<>>, 1))
Actor(name, role, key, nonce) ==
  Registration(name, role, TRUE, key, ByOwner("actor.register", <<name, role, TRUE, key>>, nonce))
Alias(name, alias, nonce) ==
  AliasBinding(name, alias, ByOwner("actor.bind_alias", <<name, alias>>, nonce))

Unsigned(act, actor, task, decision, content) ==
  Step(act, actor, task, decision, content, 0, NoGrant, NoKey)
SignedStep(act, actor, task, decision, content, nonce, key) ==
  Step(act, actor, task, decision, content, 0,
       Grant(act, IF act = "review" THEN <<actor, task, decision>> ELSE <<actor, task>>, nonce, key), key)

Team == <<Booted, Actor("ann", "qa", "kann", 2), Actor("bob", "qa", "kbob", 3)>>

MCHistories ==
  {\* no identity: two tasks claimed, checks configured
   <<Configuration(1), Unsigned("claim", "ann", "t1", "", 0), Unsigned("claim", "bob", "t2", "", 0)>>,
   \* a team, and an unchecked task that an alias of ann's has delivered
   Team \o <<Alias("ann", "ann2", 4), SignedStep("claim", "ann2", "t2", "", 0, 5, "kann"),
             SignedStep("complete", "ann2", "t2", "", 1, 6, "kann")>>,
   \* a team, and a checked task claimed
   Team \o <<Configuration(1), SignedStep("claim", "ann", "t1", "", 0, 5, "kann")>>}

Command(op, actor, task, decision, content, grant) ==
  [op |-> op, actor |-> actor, task |-> task, decision |-> decision, content |-> content, grant |-> grant]
Administration(event) == [op |-> "administer", event |-> event]

LegacyCommands ==
  {Command("complete", "ann", "t1", "", 1, NoGrant),
   Command("complete", "bob", "t2", "", 1, NoGrant),
   Command("review", "bob", "t1", "request_changes", 0, NoGrant),
   Command("verify", "ann", "t1", "", 1, NoGrant)}

SignedCommands ==
  {Command("complete", "ann", "t1", "", 1, Grant("complete", <<"ann", "t1">>, 7, "kann")),
   Command("complete", "ann2", "t2", "", 1, Grant("complete", <<"ann2", "t2">>, 8, "kann"))}
  \cup
  {Command("review", r[1], "t2", r[2], 0, Grant("review", <<r[1], "t2", r[2]>>, 9, r[3]))
     : r \in {<<"ann", "approve", "kann">>, <<"bob", "approve", "kbob">>,
              <<"bob2", "approve", "kbob">>, <<"bob", "request_changes", "kbob">>}}

AdminCommands ==
  {Administration(Configuration(2)), Administration(Actor("ann2", "qa", "kcarl", 11)),
   Administration(Alias("bob", "bob2", 10)), Administration(Alias("bob", "ann", 11))}

MCCommands == LegacyCommands \cup SignedCommands \cup AdminCommands \cup {[op |-> "recover"]}

Twins == Permutations({p1, p2})

=============================================================================
