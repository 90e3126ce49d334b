---------------------------- MODULE AtomicActions ----------------------------
(***************************************************************************)
(* What the actions of a rollout's steps promise: although they read an    *)
(* object and write it later, each step takes effect at once, on the       *)
(* object as it is then, or fails.  A step that fails may have had its     *)
(* effect, but never a part of it, nor the effect on an older object.      *)
(*                                                                         *)
(* ObjectActions.tla implements this specification.                        *)
(***************************************************************************)
EXTENDS Sequences

CONSTANTS
  Executions, \* executions of rollouts
  Objects,    \* names of objects
  Manifests,  \* what an object may be rendered to
  Plans,      \* the steps that an execution may have to run
  Values,     \* what the cluster may put into a field of its own
  None        \* an execution that does not run has no manifests

VARIABLES
  store,    \* the cluster's objects
  kind,     \* of each object
  desired,  \* what the configuration renders an object to
  manifest, \* what the execution has rendered each object to
  todo,     \* the steps the execution has left
  outcome   \* of its last run

execVars == <<manifest, todo, outcome>>
vars == <<store, kind, desired, execVars>>

Nothing == [o \in Objects |-> None]

Init ==
  /\ \A o \in Objects : ~store[o].present
  /\ desired \in Manifests
  /\ manifest = [e \in Executions |-> Nothing]
  /\ todo = [e \in Executions |-> << >>]
  /\ outcome = [e \in Executions |-> "none"]

\* The object is as it was rendered; of a field of its own the cluster decides.
Rendered(m, new) == new.present /\ new.spec = m /\ ~new.deleting

\* An update keeps what the cluster has put into its field, and spares a
\* ServiceAccount unless its metadata changes; an object that is being deleted
\* is gone when its finalizers are.
Updated(k, m, old, new) ==
  IF k = "ServiceAccount" /\ m.meta = old.spec.meta THEN new = old
  ELSE IF old.deleting THEN ~new.present
  ELSE Rendered(m, new) /\ (old.owned \in Values => new.owned = old.owned)

Effect(action, k, m, old, new) ==
  CASE ~old.present /\ action # "DeleteIfExist"  -> Rendered(m, new)
    [] old.present /\ action = "CreateOrUpdate"  -> Updated(k, m, old, new)
    [] old.present /\ action = "DeleteIfExist"   -> new = [old EXCEPT !.deleting = TRUE]
    [] OTHER                                     -> new = old

Untouched(o) == \A q \in Objects \ {o} : store'[q] = store[q]

\* The effect of the execution's next step, on its object alone.
Acts(e) ==
  LET o == Head(todo[e]).object
  IN  /\ Effect(Head(todo[e]).action, kind[o], manifest[e][o], store[o], store'[o])
      /\ Untouched(o)

Ends(e, result) ==
  /\ todo' = [todo EXCEPT ![e] = << >>]
  /\ manifest' = [manifest EXCEPT ![e] = Nothing]
  /\ outcome' = [outcome EXCEPT ![e] = result]

\* An execution works from one configuration to its end.
Start(e) ==
  /\ todo[e] = << >>
  /\ \E p \in Plans : todo' = [todo EXCEPT ![e] = p]
  /\ manifest' = [manifest EXCEPT ![e] = [o \in Objects |-> desired]]
  /\ outcome' = [outcome EXCEPT ![e] = "none"]
  /\ UNCHANGED <<store, kind, desired>>

Step(e) ==
  /\ todo[e] # << >>
  /\ IF Tail(todo[e]) = << >> THEN Ends(e, "nil")
     ELSE todo' = [todo EXCEPT ![e] = Tail(@)] /\ UNCHANGED <<manifest, outcome>>
  /\ Acts(e)
  /\ UNCHANGED <<kind, desired>>

Fail(e) ==
  /\ todo[e] # << >>
  /\ Ends(e, "error")
  /\ Acts(e) \/ UNCHANGED store
  /\ UNCHANGED <<kind, desired>>

\* Others write, one object at a time; the configuration changes.
Others ==
  /\ UNCHANGED store \/ \E o \in Objects : Untouched(o)
  /\ desired' \in Manifests
  /\ UNCHANGED <<kind, execVars>>

\* The process is killed.
Crash ==
  /\ todo' = [e \in Executions |-> << >>]
  /\ manifest' = [e \in Executions |-> Nothing]
  /\ outcome' = [e \in Executions |-> "none"]
  /\ UNCHANGED <<store, kind, desired>>

Next ==
  \/ \E e \in Executions : Start(e) \/ Step(e) \/ Fail(e)
  \/ Others
  \/ Crash

Spec == Init /\ [][Next]_vars

=============================================================================
