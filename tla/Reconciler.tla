----------------------------- MODULE Reconciler ------------------------------
(***************************************************************************)
(* What a trigger that watches resources promises: the cluster wants       *)
(* something for each key, and the trigger owes a rollout to every key     *)
(* whose last rollout did not work from that.  How it learns of changes,   *)
(* and what it does in which order, is left open.                          *)
(*                                                                         *)
(* ResourceTrigger.tla implements this specification.                      *)
(***************************************************************************)
CONSTANTS
  Keys,    \* the keys that rollouts are made for
  Inputs,  \* what a rollout may work from
  NoInput  \* the cluster wants nothing for a key; no rollout was completed

VARIABLES
  wanted,  \* what the cluster wants the rollout of each key to work from
  served,  \* what the last rollout of each key worked from
  owed     \* the keys that are owed a rollout

vars == <<wanted, served, owed>>

TypeOK ==
  /\ wanted \in [Keys -> Inputs \cup {NoInput}]
  /\ served \in [Keys -> Inputs \cup {NoInput}]
  /\ owed \in SUBSET Keys

\* Nobody needs to roll out k.
Settled(k) == wanted[k] \in {NoInput, served[k]}

\* No debt is forgotten; there may be debts for no reason.
Consistent == TypeOK /\ \A k \in Keys \ owed : Settled(k)

Init == Consistent /\ served = [k \in Keys |-> NoInput]

\* The cluster changes its mind, which makes new debts; or the trigger, when it
\* is restarted or looks at a key, finds that what it owed is not owed.
Change == Consistent' /\ UNCHANGED served

\* A key that is owed a rollout gets one, complete or not, from something that
\* may be out of date by now.  The rollout may change what is wanted, for that
\* key and for others.
Serve(k) ==
  /\ k \in owed
  /\ Consistent'
  /\ \A l \in Keys \ {k} : served'[l] = served[l]

Next == Change \/ \E k \in Keys : Serve(k)

Spec == Init /\ [][Next]_vars

=============================================================================
