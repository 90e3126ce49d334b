\* Two executions on one object of each kind; other clients, failing calls,
\* crashes and configuration changes until the cluster is calm.  No symmetry:
\* the property is a liveness property.
CONSTANTS
  O = O
  E1 = E1
  E2 = E2
  M1 = M1
  M2 = M2
  B1 = B1
  B2 = B2
  V1 = V1
  V2 = V2
  Objects <- MCObjects
  Executions <- Two
  Metas = {M1, M2}
  Bodies = {B1}
  Values = {V1}
  Plans <- OnlyUpserts
  Disturbed = TRUE
SPECIFICATION FairSpec
PROPERTY Convergence
