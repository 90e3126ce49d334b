------------------------- MODULE MCResourceTrigger --------------------------
(***************************************************************************)
(* ResourceTrigger.tla for TLC: two resources, the main one and one whose  *)
(* objects the rollout of m1 writes and is triggered by.                   *)
(***************************************************************************)
EXTENDS ResourceTrigger

CONSTANTS Grafana, Deployment, m1, m2, d

MCResources == {Grafana, Deployment}

\* An object of each resource.
Pair  == {m1, d}
\* Two objects of the main resource.
Mains == {m1, m2}

MCResourceOf == [o \in Objects |-> IF o = d THEN Deployment ELSE Grafana]
MCOutputOf   == [k \in Main |-> IF k = m1 THEN Objects \ Main ELSE {}]

\* The keys of the main resource are kept, that of d is turned into m1's.
ToMain == [o \in Objects |-> IF o = d THEN m1 ELSE o]

\* The key transformations that are configured for that.
CONSTANT Unset

Transformation == INSTANCE KeyTransformation WITH
  Strings <- Keys \cup {d, Dropped}, Empty <- Dropped

Identity(keys) == [k \in keys |-> k]

Configs(r) ==
  IF r = Grafana
  THEN << [action |-> "drop", regex |-> Identity(Keys), replacement |-> Unset],
          [action |-> Unset, regex |-> Unset, replacement |-> Unset] >>
  ELSE << [action |-> "keep", regex |-> Identity({d}), replacement |-> Unset],
          [action |-> "replace", regex |-> Identity({d}), replacement |-> [k \in {d} |-> m1]] >>

ASSUME KeysAreTransformed ==
  \A o \in Objects : KeyOf[o] = Transformation!transformAll(Configs(ResourceOf[o]), o)

Everything == [r \in Resources |-> Objects]

\* Only the main resource is configured with labels, which m2 does not have.
MainLabels == [r \in Resources |-> IF r = Grafana THEN {m1} ELSE Objects]

=============================================================================
