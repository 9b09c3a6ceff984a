------------------------------ MODULE Identity ------------------------------
(***************************************************************************)
(* Who may do what, from the log alone (identity.py, identity_history.py). *)
(* After actor.bootstrap every claim, complete and review carries a grant: *)
(* a statement of what is done, signed with a key and marked with a nonce. *)
(* The owner's key signs the registration of actors, each with a key of    *)
(* its own, and of aliases of theirs.  A history is authentic if each      *)
(* event is, given those before it.                                        *)
(***************************************************************************)
EXTENDS Lists

CONSTANTS
  OwnerKey,  \* the key of the trust pin and of the bootstrap
  NoKey      \* an unsigned event has no principal

\* An authorization, as it was signed: for an operation in a scope.
Grant(op, scope, nonce, key) == [op |-> op, scope |-> scope, nonce |-> nonce, key |-> key]
NoGrant == Grant("none", <<>>, 0, NoKey)

Registration(name, role, reviews, key, grant) ==
  [act |-> "actor.register", name |-> name, role |-> role, reviews |-> reviews, key |-> key, grant |-> grant]
AliasBinding(name, alias, grant) == [act |-> "actor.bind_alias", name |-> name, alias |-> alias, grant |-> grant]
Bootstrap(grant) == [act |-> "actor.bootstrap", grant |-> grant]

-----------------------------------------------------------------------------
\* project_registry.

Doing(evs, act) == {i \in DOMAIN evs : evs[i].act = act}
Bootstrapped(evs) == Doing(evs, "actor.bootstrap") # {}
Nonces(evs) == {evs[i].grant.nonce : i \in DOMAIN evs} \ {NoGrant.nonce}

ActorsNamed(evs, name) == {evs[i] : i \in {j \in Doing(evs, "actor.register") : evs[j].name = name}}
AliasesNamed(evs, name) == {evs[i] : i \in {j \in Doing(evs, "actor.bind_alias") : evs[j].alias = name}}

\* resolve_principal: the registrations a name stands for, at most one.
Principals(evs, name) ==
  IF ActorsNamed(evs, name) # {}
  THEN ActorsNamed(evs, name)
  ELSE UNION {ActorsNamed(evs, b.name) : b \in AliasesNamed(evs, name)}

\* last_transition_principal: NoKey also when the last one was unsigned.
LastPrincipal(evs, act, task) ==
  LET those == {i \in Doing(evs, act) : evs[i].task = task} IN
  IF those = {} THEN NoKey ELSE evs[CHOOSE i \in those : \A j \in those : j <= i].principal

\* The name the task was last claimed under.
Claimant(evs, task) ==
  LET those == {i \in Doing(evs, "claim") : evs[i].task = task} IN
  IF those = {} THEN "nobody" ELSE evs[CHOOSE i \in those : \A j \in those : j <= i].actor

-----------------------------------------------------------------------------
\* Mutant of Signed: nobody looks for the nonce.
SignedAgain(evs, grant, op, scope, key) ==
  grant.op = op /\ grant.scope = scope /\ grant.key = key

\* verify_privileged_authorization, authorize_actor_transition: the grant is
\* for this, was signed with this key, has a nonce, and has not been used yet.
Signed(evs, grant, op, scope, key) ==
  /\ grant.op = op
  /\ grant.scope = scope
  /\ grant.key = key
  /\ grant.nonce # NoGrant.nonce
  /\ grant.nonce \notin Nonces(evs)

RegistrationScope(e) == <<e.name, e.role, e.reviews, e.key>>

\* Mutant of Registerable: a name that stands for an actor as an alias is free.
RegisterableOverAlias(evs, e) ==
  /\ ActorsNamed(evs, e.name) = {}
  /\ \A i \in Doing(evs, "actor.register") : evs[i].key # e.key
  /\ e.key # OwnerKey

\* assert_registerable.
Registerable(evs, e) ==
  /\ AliasesNamed(evs, e.name) = {}
  /\ ActorsNamed(evs, e.name) = {}
  /\ \A i \in Doing(evs, "actor.register") : evs[i].key # e.key
  /\ e.key # OwnerKey

\* assert_bindable, prepare_alias_scope.
Bindable(evs, e) ==
  /\ e.alias # e.name
  /\ ActorsNamed(evs, e.name) # {}
  /\ ActorsNamed(evs, e.alias) = {}
  /\ AliasesNamed(evs, e.alias) = {}

\* A claim or a complete, once the log has been bootstrapped.
TransitionAuthorized(evs, e) ==
  \E p \in Principals(evs, e.actor) :
    /\ Signed(evs, e.grant, e.act, <<e.actor, e.task>>, p.key)
    /\ e.principal = p.key
    /\ e.act = "complete" => LastPrincipal(evs, "claim", e.task) = p.key

\* Mutant of ReviewAuthorized: the reviewer is compared by name only.
ReviewAuthorizedByName(evs, e) ==
  \E p \in Principals(evs, e.actor) :
    /\ p.role = "qa"
    /\ p.reviews
    /\ Claimant(evs, e.task) \notin {e.actor, p.name}
    /\ Signed(evs, e.grant, "review", <<e.actor, e.task, e.decision>>, p.key)

\* assert_review_identity.
ReviewAuthorized(evs, e) ==
  \E p \in Principals(evs, e.actor) :
    /\ p.role = "qa"
    /\ p.reviews
    /\ Claimant(evs, e.task) \notin {e.actor, p.name}
    /\ LET workers == {LastPrincipal(evs, "claim", e.task), LastPrincipal(evs, "complete", e.task)} IN
       NoKey \notin workers /\ p.key \notin workers
    /\ Signed(evs, e.grant, "review", <<e.actor, e.task, e.decision>>, p.key)

\* One step of validate_identity_history: e on top of evs.
Authentic(evs, e) ==
  CASE e.act = "actor.bootstrap" -> ~Bootstrapped(evs) /\ Signed(evs, e.grant, e.act, <<>>, OwnerKey)
    [] e.act = "actor.register" ->
         Bootstrapped(evs) /\ Registerable(evs, e) /\ Signed(evs, e.grant, e.act, RegistrationScope(e), OwnerKey)
    [] e.act = "actor.bind_alias" ->
         Bootstrapped(evs) /\ Bindable(evs, e) /\ Signed(evs, e.grant, e.act, <<e.name, e.alias>>, OwnerKey)
    [] e.act \in {"claim", "complete"} ->
         Bootstrapped(evs) \/ e.grant # NoGrant => Bootstrapped(evs) /\ TransitionAuthorized(evs, e)
    [] e.act = "review" ->
         Bootstrapped(evs) \/ e.grant # NoGrant => Bootstrapped(evs) /\ ReviewAuthorized(evs, e)
    [] OTHER -> e.grant = NoGrant

\* validate_identity_history.
AuthenticHistory(evs) == \A i \in DOMAIN evs : Authentic(SubSeq(evs, 1, i - 1), evs[i])

\* The principal on the event of an agent is that of its signature.
Stamped(e) ==
  e.act \in {"claim", "complete"} => e.principal = NoKey \/ (e.grant # NoGrant /\ e.principal = e.grant.key)

=============================================================================
