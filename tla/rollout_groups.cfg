\* Two names and five plans of up to two groups and four steps; any number of
\* executions, edits of the object and crashes.
CONSTANTS
  A = A
  B = B
  Names <- MCNames
  Plans <- MCPlans
SPECIFICATION FairSpec
INVARIANTS
  TypeOK
  GroupBarrier
  StepsInOrder
  NoStrayGoroutine
  NilMeansRolledOut
  StatusInSync
  NilMeansReported
PROPERTIES
  FinishedOnlyAfterGroup
  FinishedIsKept
  WritesAreUpdates
  EveryStepCounts
  CarriesOutStages
  Terminates
