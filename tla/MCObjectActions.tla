--------------------------- MODULE MCObjectActions --------------------------
(***************************************************************************)
(* ObjectActions.tla for TLC.  The kind of an object is chosen in the      *)
(* initial state, so one object shows what happens to each kind.           *)
(***************************************************************************)
EXTENDS ObjectActions, TLC

CONSTANTS O, E1, E2, M1, M2, B1, B2, V1, V2

MCObjects == {O}
Two       == {E1, E2}
One       == {E1}

Upsert == [object |-> O, action |-> "CreateOrUpdate"]
Ensure == [object |-> O, action |-> "CreateIfNotExist"]
Remove == [object |-> O, action |-> "DeleteIfExist"]

\* Every action, and steps that follow another one on the same object.
SomePlans == {<<Ensure, Upsert>>, <<Remove, Upsert>>}

OnlyUpserts == {<<Upsert>>}

\* An object that is brought up to date, removed and made again.
Replacement == {<<Upsert, Remove, Upsert>>}

\* Executions, manifests and values are interchangeable.
Symmetry ==
  Permutations(Two) \cup Permutations({M1, M2}) \cup Permutations({B1, B2})
    \cup Permutations({V1, V2})

=============================================================================
