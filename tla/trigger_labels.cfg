\* The main resource is configured with labels, the last resource without.
CONSTANTS
  Grafana = Grafana
  Deployment = Deployment
  m1 = m1
  m2 = m2
  d = d
  Dropped = dropped
  Unset = Unset
  Resources <- MCResources
  Last = Deployment
  Objects <- Mains
  Keys = {m1, m2}
  ResourceOf <- MCResourceOf
  OutputOf <- MCOutputOf
  KeyOf <- ToMain
  Selected <- MainLabels
  Faults = FALSE
  MaxRevision = 1
  MaxNotes = 1
SPECIFICATION Spec
INVARIANT InformersSelect
\* Clients and failures may stop; then everything comes to rest.
CHECK_DEADLOCK FALSE
