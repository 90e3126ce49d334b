\* Two executions on one object of each kind, with other clients, failing calls
\* and crashes; the cluster's own field takes two values.
CONSTANTS
  O = O
  E1 = E1
  E2 = E2
  M1 = M1
  M2 = M2
  B1 = B1
  B2 = B2
  V1 = V1
  V2 = V2
  Objects <- MCObjects
  Executions <- Two
  Metas = {M1, M2}
  Bodies = {B1, B2}
  Values = {V1, V2}
  Plans <- SomePlans
  Disturbed = TRUE
SYMMETRY Symmetry
SPECIFICATION Spec
INVARIANT TypeOK
PROPERTIES
  NoLostUpdate
  OwnedIsKept
  UpsertTakesEffect
  
