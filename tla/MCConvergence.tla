---------------------------- MODULE MCConvergence ----------------------------
(***************************************************************************)
(* Three scenarios of ResourceTrigger.tla that come to rest, as one        *)
(* behaviour specification for TLC: the object that a rollout writes       *)
(* drifts; status writes conflict with writes of clients; two objects      *)
(* share the queue and the worker.                                         *)
(***************************************************************************)
EXTENDS Naturals

CONSTANTS Grafana, Deployment, m1, m2, d, Dropped

VARIABLES
  scenario,
  store, unseen, revision, calm, cache, notes, writeStatus,
  queue, dirty, processing, delayed,
  pc, key, copy, lists, unread, rolledOut

Resources == {Grafana, Deployment}

Drift == INSTANCE ResourceTrigger WITH
  Last <- Deployment, Keys <- {m1, m2}, Objects <- {m1, d},
  ResourceOf <- [o \in {m1, d} |-> IF o = d THEN Deployment ELSE Grafana],
  Selected <- [r \in Resources |-> {m1, d}],
  KeyOf <- [o \in {m1, d} |-> m1],
  OutputOf <- [k \in {m1} |-> {d}],
  Faults <- TRUE, MaxRevision <- 1, MaxNotes <- 1

Conflict == INSTANCE ResourceTrigger WITH
  Last <- Deployment, Keys <- {m1, m2}, Objects <- {m1},
  ResourceOf <- [o \in {m1} |-> Grafana],
  Selected <- [r \in Resources |-> {m1}],
  KeyOf <- [o \in {m1} |-> m1],
  OutputOf <- [k \in {m1} |-> {}],
  Faults <- TRUE, MaxRevision <- 3, MaxNotes <- 2

Share == INSTANCE ResourceTrigger WITH
  Last <- Deployment, Keys <- {m1, m2}, Objects <- {m1, m2},
  ResourceOf <- [o \in {m1, m2} |-> Grafana],
  Selected <- [r \in Resources |-> {m1, m2}],
  KeyOf <- [o \in {m1, m2} |-> o],
  OutputOf <- [k \in {m1, m2} |-> {}],
  Faults <- FALSE, MaxRevision <- 1, MaxNotes <- 2

vars == <<scenario, Drift!vars>>

Init ==
  \/ scenario = "drift" /\ Drift!Init
  \/ scenario = "conflict" /\ Conflict!Init
  \/ scenario = "share" /\ Share!Init

\* The action of the scenario.
In(drift, conflict, share) ==
  /\ \/ scenario = "drift" /\ drift
     \/ scenario = "conflict" /\ conflict
     \/ scenario = "share" /\ share
  /\ UNCHANGED scenario

Next == In(Drift!Next, Conflict!Next, Share!Next)

\* The fairness of ResourceTrigger.
FairSpec ==
  /\ Init /\ [][Next]_vars
  /\ WF_vars(In(Drift!Work, Conflict!Work, Share!Work))
  /\ \A r \in Resources :
       WF_vars(In(Drift!Handle(r), Conflict!Handle(r), Share!Handle(r)))
  /\ WF_vars(In(Drift!Observe(m1), Conflict!Observe(m1), Share!Observe(m1)))
  /\ WF_vars(In(Drift!Observe(d), FALSE, Share!Observe(m2)))
  /\ WF_vars(In(Drift!DelayOver(m1), Conflict!DelayOver(m1), Share!DelayOver(m1)))
  /\ WF_vars(In(FALSE, FALSE, Share!DelayOver(m2)))

Settled ==
  CASE scenario = "drift"    -> Drift!InSync /\ Drift!AtRest
    [] scenario = "conflict" -> Conflict!InSync /\ Conflict!AtRest
    [] scenario = "share"    -> Share!InSync /\ Share!AtRest

\* In each scenario: once clients and failures have come to an end, every object
\* is rolled out with its latest content, drift of what was rolled out is undone,
\* and the trigger comes to rest, although its own writes notify it
\* (resource.go:191, handlers.go:153, feedback.go:125).
Convergence == calm ~> []Settled

=============================================================================
