\* A main object, and an object that its rollout writes and is triggered by.
CONSTANTS
  Grafana = Grafana
  Deployment = Deployment
  m1 = m1
  m2 = m2
  d = d
  Dropped = dropped
  Unset = Unset
  Resources <- MCResources
  Last = Deployment
  Objects <- Pair
  Keys = {m1, m2}
  ResourceOf <- MCResourceOf
  OutputOf <- MCOutputOf
  KeyOf <- ToMain
  Selected <- Everything
  Faults = TRUE
  MaxRevision = 2
  MaxNotes = 1
SPECIFICATION Spec
INVARIANTS
  TypeOK
  NothingForgotten
  
PROPERTIES
  Reconciles
  FinishedIsOfThisContent
\* Clients and failures may stop; then everything comes to rest.
CHECK_DEADLOCK FALSE
