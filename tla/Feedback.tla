------------------------------ MODULE Feedback ------------------------------
(***************************************************************************)
(* The feedback of an execution (feedback/feedback.go): the status         *)
(* conditions of the object whose change triggered the execution, kept by  *)
(* the execution and written to the API server's status subresource.       *)
(*                                                                         *)
(* The module holds state and operations and has no specification of its   *)
(* own: Rollout.tla calls the operations where Runner.Execute does.        *)
(*                                                                         *)
(* A resourceVersion is used by the code only to be compared with the      *)
(* stored one, when the API server decides whether a write conflicts.  So  *)
(* `fresh` says whether f.obj carries the stored resourceVersion, and      *)
(* `cacheFresh` the same of the copy in the informer's store.              *)
(***************************************************************************)
EXTENDS Naturals, Sequences

CONSTANT
  \* the names a rollout group may have
  Names

VARIABLES
  feedback,   \* does the execution's Config carry a Feedback?
  oldStatus,  \* f.oldStatus.Conditions; << >> also stands for a nil oldStatus
  conditions, \* f.currentStatus.Conditions
  fresh,      \* has f.obj the stored resourceVersion?
  published,  \* the conditions in the stored object's status
  cached,     \* the conditions of the informer's copy of the object
  cacheFresh  \* has the informer's copy the stored resourceVersion?

feedbackVars ==
  <<feedback, oldStatus, conditions, fresh, published, cached, cacheFresh>>

NotStarted == "Not Started"
Finished   == "Finished"

Condition  == [name : Names, status : {NotStarted, Finished}]
Conditions == Seq(Condition)

FeedbackTypeOK ==
  /\ feedback \in BOOLEAN
  /\ fresh \in BOOLEAN
  /\ cacheFresh \in BOOLEAN
  /\ oldStatus \in Conditions
  /\ conditions \in Conditions
  /\ published \in Conditions
  /\ cached \in Conditions

\* A new custom resource has no status.
FeedbackInit ==
  /\ feedback = FALSE
  /\ fresh = FALSE
  /\ oldStatus = << >>
  /\ conditions = << >>
  /\ published = << >>
  /\ cached = << >>
  /\ cacheFresh = TRUE

-----------------------------------------------------------------------------
(***************************************************************************)
(* The operations of the feedback.                                         *)
(***************************************************************************)

\* The trigger builds the feedback from the informer's copy (NewFeedback), or
\* starts the execution without one.
NewFeedback(has) ==
  /\ feedback' = has
  /\ oldStatus' = IF has THEN cached ELSE << >>
  /\ fresh' = (has /\ cacheFresh)
  /\ conditions' = << >>
  /\ UNCHANGED <<published, cached, cacheFresh>>

\* Mutant of StatusBefore: a new condition gets no status.
StatusBeforeUnset(old, name) ==
  LET named == {k \in DOMAIN old : old[k].name = name}
  IN  IF named = {} THEN ""
      ELSE old[CHOOSE k \in named : \A l \in named : l <= k].status

\* The status a name had: the map the code builds keeps the last condition of
\* each name.
StatusBefore(old, name) ==
  LET named == {k \in DOMAIN old : old[k].name = name}
  IN  IF named = {} THEN NotStarted
      ELSE old[CHOOSE k \in named : \A l \in named : l <= k].status

\* Mutant of InitialConditions: every execution starts from nothing.
InitialConditionsReset(groups, old) ==
  [i \in DOMAIN groups |-> [name |-> groups[i], status |-> NotStarted]]

InitialConditions(groups, old) ==
  [i \in DOMAIN groups |->
     [name |-> groups[i], status |-> StatusBefore(old, groups[i])]]

\* Mutants of WithStatus: the loop stops at the first condition of the name; it
\* does not compare the names.
WithStatusFirst(conds, name, status) ==
  [i \in DOMAIN conds |->
     IF conds[i].name = name /\ \A k \in 1 .. (i - 1) : conds[k].name # name
     THEN [name |-> name, status |-> status]
     ELSE conds[i]]

WithStatusAll(conds, name, status) ==
  [i \in DOMAIN conds |-> [name |-> conds[i].name, status |-> status]]

\* SetCondition marks every condition that has the group's name.
WithStatus(conds, name, status) ==
  [i \in DOMAIN conds |->
     IF conds[i].name = name THEN [name |-> name, status |-> status]
                             ELSE conds[i]]

\* Mutant of UpToDate: only the number of conditions is compared.
UpToDateByLength(new) == oldStatus # << >> /\ Len(oldStatus) = Len(new)

\* reflect.DeepEqual of oldStatus and currentStatus.  A nil oldStatus is never
\* equal to a currentStatus, not even to one without conditions.
UpToDate(new) == oldStatus # << >> /\ oldStatus = new

\* Mutant of MayWrite: the status carries no resourceVersion.
MayWriteAnyVersion == TRUE

\* The status carries the resourceVersion of f.obj: the API server rejects it if
\* that is not the stored one.
MayWrite == fresh

\* The API server accepts the status: a write that changes nothing leaves the
\* resourceVersion alone, any other makes the informer's copy stale.
Store(new) ==
  /\ MayWrite
  /\ published' = new
  /\ cacheFresh' = (cacheFresh /\ published = new)

UpdateOk(new) ==
  /\ IF UpToDate(new) THEN UNCHANGED <<published, cacheFresh>> ELSE Store(new)
  /\ UNCHANGED fresh

\* The write is rejected (a conflict, when f.obj is not fresh) or does not
\* reach the API server.  f.obj is overwritten with nil.
UpdateFails(new) ==
  /\ ~UpToDate(new)
  /\ fresh' = FALSE
  /\ UNCHANGED <<published, cacheFresh>>

\* The write is stored and its response is lost.
UpdateLost(new) ==
  /\ ~UpToDate(new)
  /\ Store(new)
  /\ fresh' = FALSE

\* updateStatus; `ok` is whether it returns nil.
UpdateStatus(new, ok) ==
  /\ conditions' = new
  /\ IF ok THEN UpdateOk(new) ELSE UpdateFails(new) \/ UpdateLost(new)
  /\ UNCHANGED <<feedback, oldStatus, cached>>

Initialize(groups, ok) ==
  UpdateStatus(InitialConditions(groups, oldStatus), ok)

SetCondition(name, status, ok) ==
  UpdateStatus(WithStatus(conditions, name, status), ok)

-----------------------------------------------------------------------------
(***************************************************************************)
(* What happens around an execution.                                       *)
(***************************************************************************)

\* A user changes the spec of the object: a new resourceVersion.
EditObject ==
  /\ fresh' = FALSE
  /\ cacheFresh' = FALSE
  /\ UNCHANGED <<feedback, oldStatus, conditions, published, cached>>

\* A watch event brings the informer's copy up to date.
DeliverEvent ==
  /\ ~cacheFresh
  /\ cached' = published
  /\ cacheFresh' = TRUE
  /\ UNCHANGED <<feedback, oldStatus, conditions, fresh, published>>

\* The process dies with the feedback; the next one lists the objects anew.
LoseFeedback ==
  /\ feedback' = FALSE
  /\ oldStatus' = << >>
  /\ conditions' = << >>
  /\ fresh' = FALSE
  /\ cached' = published
  /\ cacheFresh' = TRUE
  /\ UNCHANGED published

=============================================================================
