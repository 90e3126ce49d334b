---------------------------- MODULE ObjectActions ----------------------------
(***************************************************************************)
(* The actions that the steps of a rollout run on objects                  *)
(* (rollout/actions.go), with the update preparations and checks of        *)
(* client/client.go, against a Kubernetes API server that other clients    *)
(* and controllers use as well.                                            *)
(*                                                                         *)
(* An execution renders its objects once and then runs its steps in their  *)
(* order; executions (of several triggers, or the parallel steps of one    *)
(* group on different objects) interleave between the calls to the API     *)
(* server.  UpdateWithCurrent writes into the rendered object, which later *)
(* steps of the same execution use again.                                  *)
(*                                                                         *)
(* The code only compares a resourceVersion with the stored one, inside    *)
(* the API server, and a resourceVersion is never used twice.  So          *)
(* `version` says of each rendered object whether it has none, the stored  *)
(* one, or one that is out of date.                                        *)
(***************************************************************************)
EXTENDS Naturals, Sequences

CONSTANTS
  Executions, \* executions of rollouts that may run at the same time
  Objects,    \* names of objects
  Metas,      \* labels and annotations an object may be rendered with
  Bodies,     \* everything else an object may be rendered with
  Values,     \* what the cluster may put into a field of its own
  Plans,      \* the steps that an execution may have to run
  Disturbed   \* do other clients act, and calls fail, to begin with?

Kinds   == {"Service", "Deployment", "ServiceAccount", "Other"}
Actions == {"CreateOrUpdate", "CreateIfNotExist", "DeleteIfExist"}
Step    == [object : Objects, action : Actions]

\* What an object is rendered to, apart from the field below.
Manifest == [meta : Metas, body : Bodies]

\* The field of an object that the cluster owns: spec.clusterIP of a Service;
\* of a Deployment the revision annotation, which needs annotations to be in
\* ("bare": annotations without a revision) and may be empty ("blank").
Owned == {"unset", "bare", "blank"} \cup Values

OwnedBy(k) ==
  CASE k = "Service"    -> {"unset"} \cup Values
    [] k = "Deployment" -> Owned
    [] OTHER            -> {"unset"}

ASSUME PlansAssumption == Plans \subseteq Seq(Step) \ {<< >>}
ASSUME ValuesAssumption == Values \cap {"unset", "bare", "blank"} = {}
ASSUME DisturbedAssumption == Disturbed \in BOOLEAN

Absent == [present |-> FALSE]
Stored == [present : {TRUE}, spec : Manifest, owned : Owned, deleting : BOOLEAN]

VARIABLES
  store,    \* the API server's object of each name
  kind,     \* of each object
  desired,  \* what the configuration renders an object to
  calm,     \* have other clients, failures and crashes come to an end?
  phase,    \* of each execution: between steps, or after its Get
  todo,     \* the steps the execution has left, the current one first
  rendered, \* the execution's rendered objects
  version,  \* of the rendered objects: their resourceVersion, see above
  snapshot, \* what the Get of the current step returned
  outcome   \* of the execution's last run

execVars == <<phase, todo, rendered, snapshot, outcome>>
vars     == <<store, kind, desired, calm, version, execVars>>

Phases   == {"idle", "ready", "create", "update"}
Versions == {"unset", "current", "stale"}
Rendered == [spec : Manifest, owned : Owned]

\* What an execution has that is not running.
NoObjects  == [o \in Objects |-> Absent]
NoVersions == [o \in Objects |-> "unset"]

Present(o) == store[o].present

OwnedOK ==
  \A o \in Objects :
    /\ Present(o) => store[o].owned \in OwnedBy(kind[o])
    /\ \A e \in Executions :
         rendered[e][o] # Absent => rendered[e][o].owned \in OwnedBy(kind[o])

TypeOK ==
  /\ store \in [Objects -> Stored \cup {Absent}]
  /\ kind \in [Objects -> Kinds]
  /\ desired \in Manifest
  /\ calm \in BOOLEAN
  /\ phase \in [Executions -> Phases]
  /\ todo \in [Executions -> Seq(Step)]
  /\ rendered \in [Executions -> [Objects -> Rendered \cup {Absent}]]
  /\ version \in [Executions -> [Objects -> Versions]]
  /\ snapshot \in [Executions -> Stored \cup {Absent}]
  /\ outcome \in [Executions -> {"none", "nil", "error"}]
  /\ OwnedOK

Object(e) == Head(todo[e]).object
Action(e) == Head(todo[e]).action

\* Whether the manifest of an object has annotations of its own matters for a
\* Deployment.
Unowned(k) == IF k = "Deployment" THEN {"unset", "bare"} ELSE {"unset"}

Init ==
  /\ store = [o \in Objects |-> Absent]
  /\ kind \in [Objects -> Kinds]
  /\ desired \in Manifest
  /\ calm = ~Disturbed
  /\ phase = [e \in Executions |-> "idle"]
  /\ todo = [e \in Executions |-> << >>]
  /\ rendered = [e \in Executions |-> NoObjects]
  /\ version = [e \in Executions |-> NoVersions]
  /\ snapshot = [e \in Executions |-> Absent]
  /\ outcome = [e \in Executions |-> "none"]

-----------------------------------------------------------------------------
(***************************************************************************)
(* The API server, as the code relies on it.                               *)
(***************************************************************************)

\* The resourceVersions of an execution go when it ends.
Keep(versions) ==
  version' = [e \in Executions |->
                IF phase'[e] = "idle" THEN NoVersions ELSE versions[e]]

\* A write that changes an object gives it a new resourceVersion.
Write(o, new) ==
  /\ store' = [store EXCEPT ![o] = new]
  /\ Keep([e \in Executions |->
             IF new # store[o] /\ version[e][o] = "current"
             THEN [version[e] EXCEPT ![o] = "stale"] ELSE version[e]])

NoWrite == UNCHANGED store /\ Keep(version)

\* A Service is given a clusterIP when it is created, unless it is only an alias
\* (ExternalName).
Assigned(k, owned) ==
  IF k = "Service" /\ owned = "unset" THEN {"unset"} \cup Values ELSE {owned}

\* Create takes no object with a resourceVersion, and no name that is taken.
CreateAccepted(e, o) == ~Present(o) /\ version[e][o] = "unset"

StoreCreated(e, o) ==
  \E owned \in Assigned(kind[o], rendered[e][o].owned) :
    Write(o, [present |-> TRUE, spec |-> rendered[e][o].spec,
              owned |-> owned, deleting |-> FALSE])

\* Update refuses a resourceVersion that is out of date, and a Service that
\* loses or changes its clusterIP.
UpdateAccepted(e, o) ==
  /\ Present(o)
  /\ version[e][o] # "stale"
  /\ kind[o] = "Service" => rendered[e][o].owned = store[o].owned

\* A rendered object has no finalizers: one that is being deleted is gone when
\* its finalizers are.
StoreUpdated(e, o) ==
  Write(o, IF store[o].deleting THEN Absent
           ELSE [present |-> TRUE, spec |-> rendered[e][o].spec,
                 owned |-> rendered[e][o].owned, deleting |-> FALSE])

\* Foreground deletion marks the object; the garbage collector removes it.
StoreDeleted(o) == Write(o, [store[o] EXCEPT !.deleting = TRUE])

-----------------------------------------------------------------------------
(***************************************************************************)
(* An execution.                                                           *)
(***************************************************************************)

\* A trigger fires and the configuration is rendered: every execution has
\* objects of its own.
Start(e) ==
  /\ phase[e] = "idle"
  /\ phase' = [phase EXCEPT ![e] = "ready"]
  /\ \E p \in Plans : todo' = [todo EXCEPT ![e] = p]
  /\ \E owned \in [Objects -> Owned] :
       /\ \A o \in Objects : owned[o] \in Unowned(kind[o])
       /\ rendered' = [rendered EXCEPT ![e] =
            [o \in Objects |-> [spec |-> desired, owned |-> owned[o]]]]
  /\ version' = [version EXCEPT ![e] = NoVersions]
  /\ outcome' = [outcome EXCEPT ![e] = "none"]
  /\ UNCHANGED <<store, kind, desired, calm, snapshot>>

\* The step returns nil and leaves these rendered objects to the next one; after
\* the last step the execution ends.
StepDone(e, objects) ==
  /\ todo' = [todo EXCEPT ![e] = Tail(@)]
  /\ snapshot' = [snapshot EXCEPT ![e] = Absent]
  /\ IF Tail(todo[e]) = << >>
     THEN /\ phase' = [phase EXCEPT ![e] = "idle"]
          /\ outcome' = [outcome EXCEPT ![e] = "nil"]
          /\ rendered' = [rendered EXCEPT ![e] = NoObjects]
     ELSE /\ phase' = [phase EXCEPT ![e] = "ready"]
          /\ rendered' = [rendered EXCEPT ![e] = objects]
          /\ UNCHANGED outcome

\* The step returns an error, which ends the execution.
StepFails(e) ==
  /\ todo' = [todo EXCEPT ![e] = << >>]
  /\ snapshot' = [snapshot EXCEPT ![e] = Absent]
  /\ phase' = [phase EXCEPT ![e] = "idle"]
  /\ outcome' = [outcome EXCEPT ![e] = "error"]
  /\ rendered' = [rendered EXCEPT ![e] = NoObjects]

Rest == UNCHANGED <<kind, desired, calm>>

GetNotFound(e) ==
  /\ phase[e] = "ready"
  /\ Action(e) \in {"CreateOrUpdate", "CreateIfNotExist"}
  /\ ~Present(Object(e))
  /\ phase' = [phase EXCEPT ![e] = "create"]
  /\ UNCHANGED <<store, version, todo, rendered, snapshot, outcome>>
  /\ Rest

\* Mutants of Carry: a clusterIP that was not found is copied all the same; one
\* of the two preparations is missing.
CarryUnchecked(k, current, updated) ==
  CASE k = "Service"    /\ current = "unset"  -> "blank"
    [] k = "Deployment" /\ current = "bare"   -> "blank"
    [] current # "unset"                      -> current
    [] OTHER                                  -> updated

CarryServiceOnly(k, current, updated) ==
  IF k = "Service" /\ current # "unset" THEN current ELSE updated

CarryDeploymentOnly(k, current, updated) ==
  CASE k = "Deployment" /\ current = "bare"   -> "blank"
    [] k = "Deployment" /\ current # "unset"  -> current
    [] OTHER                                  -> updated

\* The field of the rendered object that the cluster owns, after
\* PrepareServiceForUpdate and PrepareDeploymentForUpdate.
Carry(k, current, updated) ==
  CASE k = "Service"    /\ current # "unset"  -> current
    [] k = "Deployment" /\ current = "bare"   -> "blank"
    [] k = "Deployment" /\ current # "unset"  -> current
    [] OTHER                                  -> updated

\* Mutant of VersionOfCurrent: the rendered object keeps what it has.
VersionKept(old) == old

\* SetResourceVersion(current.GetResourceVersion()).
VersionOfCurrent(old) == "current"

\* Mutant of NeedsUpdate: the check does not look at the kind.
NeedsUpdateAnyKind(k, current, updated) ==
  current.spec.meta # updated.spec.meta

\* CheckServiceAccountForUpdate.
NeedsUpdate(k, current, updated) ==
  k = "ServiceAccount" => current.spec.meta # updated.spec.meta

\* The Get of CreateOrUpdate, and UpdateWithCurrent up to its call of Update.
GetFound(e) ==
  LET o == Object(e)
      prepared == [rendered[e][o] EXCEPT
                     !.owned = Carry(kind[o], store[o].owned, @)]
      objects  == [rendered[e] EXCEPT ![o] = prepared]
  IN  /\ phase[e] = "ready"
      /\ Action(e) = "CreateOrUpdate"
      /\ Present(o)
      /\ IF NeedsUpdate(kind[o], store[o], prepared)
         THEN /\ phase' = [phase EXCEPT ![e] = "update"]
              /\ snapshot' = [snapshot EXCEPT ![e] = store[o]]
              /\ rendered' = [rendered EXCEPT ![e] = objects]
              /\ UNCHANGED <<todo, outcome>>
         ELSE StepDone(e, objects)
      /\ Keep([version EXCEPT ![e][o] = VersionOfCurrent(@)])
      /\ UNCHANGED store
      /\ Rest

\* CreateIfNotExist finds the object.
GetExisting(e) ==
  /\ phase[e] = "ready"
  /\ Action(e) = "CreateIfNotExist"
  /\ Present(Object(e))
  /\ StepDone(e, rendered[e])
  /\ NoWrite
  /\ Rest

Create(e) ==
  LET o == Object(e)
  IN  /\ phase[e] = "create"
      /\ IF CreateAccepted(e, o) THEN StepDone(e, rendered[e]) /\ StoreCreated(e, o)
                                 ELSE StepFails(e) /\ NoWrite
      /\ Rest

Update(e) ==
  LET o == Object(e)
  IN  /\ phase[e] = "update"
      /\ IF UpdateAccepted(e, o) THEN StepDone(e, rendered[e]) /\ StoreUpdated(e, o)
                                 ELSE StepFails(e) /\ NoWrite
      /\ Rest

\* DeleteIfExists; an object that is not there is as good as deleted.
Delete(e) ==
  LET o == Object(e)
  IN  /\ phase[e] = "ready"
      /\ Action(e) = "DeleteIfExist"
      /\ StepDone(e, rendered[e])
      /\ IF Present(o) THEN StoreDeleted(o) ELSE NoWrite
      /\ Rest

\* A call to the API server fails, before or after its effect.
CallFails(e) ==
  LET o == Object(e)
  IN  /\ ~calm
      /\ phase[e] # "idle"
      /\ StepFails(e)
      /\ \/ NoWrite
         \/ phase[e] = "create" /\ CreateAccepted(e, o) /\ StoreCreated(e, o)
         \/ phase[e] = "update" /\ UpdateAccepted(e, o) /\ StoreUpdated(e, o)
         \/ /\ phase[e] = "ready" /\ Action(e) = "DeleteIfExist"
            /\ Present(o) /\ StoreDeleted(o)
      /\ Rest

-----------------------------------------------------------------------------
(***************************************************************************)
(* The cluster around the executions.                                      *)
(***************************************************************************)

\* Somebody else creates or rewrites an object, or deletes it.
OthersWrite(o) ==
  /\ UNCHANGED <<execVars, kind, desired, calm>>
  /\ ~calm
  /\ \/ /\ ~Present(o)
        /\ \E spec \in Manifest, owned \in Unowned(kind[o]) :
           \E assigned \in Assigned(kind[o], owned) :
             Write(o, [present |-> TRUE, spec |-> spec, owned |-> assigned,
                       deleting |-> FALSE])
     \/ /\ Present(o)
        /\ \E spec \in Manifest : Write(o, [store[o] EXCEPT !.spec = spec])
     \/ Present(o) /\ StoreDeleted(o)
     \/ Present(o) /\ Write(o, Absent)

\* The deployment controller writes the revision of a Deployment that has none,
\* and now and then a new one.
ControllerWrites(o) ==
  /\ UNCHANGED <<execVars, kind, desired, calm>>
  /\ Present(o)
  /\ kind[o] = "Deployment"
  /\ ~calm \/ store[o].owned \notin Values
  /\ \E r \in Values : Write(o, [store[o] EXCEPT !.owned = r])

\* The garbage collector ends a foreground deletion.
Collect(o) ==
  /\ UNCHANGED <<execVars, kind, desired, calm>>
  /\ Present(o)
  /\ store[o].deleting
  /\ Write(o, Absent)

ChangeConfig ==
  /\ ~calm
  /\ desired' \in Manifest
  /\ UNCHANGED <<store, version, execVars, kind, calm>>

\* The process is killed; its executions are gone.
Crash ==
  /\ ~calm
  /\ phase' = [e \in Executions |-> "idle"]
  /\ todo' = [e \in Executions |-> << >>]
  /\ snapshot' = [e \in Executions |-> Absent]
  /\ outcome' = [e \in Executions |-> "none"]
  /\ rendered' = [e \in Executions |-> NoObjects]
  /\ version' = [e \in Executions |-> NoVersions]
  /\ UNCHANGED <<store, kind, desired, calm>>

BecomeCalm ==
  /\ ~calm
  /\ calm' = TRUE
  /\ UNCHANGED <<store, version, execVars, kind, desired>>

-----------------------------------------------------------------------------
Execute(e) ==
  \/ GetNotFound(e)
  \/ GetFound(e)
  \/ GetExisting(e)
  \/ Create(e)
  \/ Update(e)
  \/ Delete(e)

Environment ==
  \/ \E o \in Objects : OthersWrite(o) \/ ControllerWrites(o) \/ Collect(o)
  \/ ChangeConfig
  \/ Crash
  \/ BecomeCalm

Next ==
  \/ \E e \in Executions : Start(e) \/ Execute(e) \/ CallFails(e)
  \/ Environment

\* An interval trigger starts executions again and again; calls return; the
\* garbage collector gets to every object that is being deleted.
Fairness ==
  /\ \A e \in Executions : WF_vars(Start(e) \/ Execute(e))
  /\ \A o \in Objects : WF_vars(Collect(o))

Spec     == Init /\ [][Next]_vars
FairSpec == Spec /\ Fairness

-----------------------------------------------------------------------------
(***************************************************************************)
(* Properties.                                                             *)
(***************************************************************************)

\* In this step, execution e's Update is over and has changed the object.
Overwrites(e) ==
  /\ phase[e] = "update" /\ phase'[e] # "update"
  /\ store'[Object(e)] # store[Object(e)]

\* An update only ever overwrites the object that its Get returned: nothing that
\* another client, a controller or another execution wrote in between is lost
\* (SetResourceVersion at client.go:169).
NoLostUpdate ==
  [][\A e \in Executions : Overwrites(e) => snapshot[e] = store[Object(e)]]_vars

\* What the cluster put into a field of its own survives every update, whatever
\* the manifest and the writers in between (client.go:224-258).
OwnedIsKept ==
  [][\A e \in Executions :
       LET old == store[Object(e)]
           new == store'[Object(e)]
       IN  Overwrites(e) /\ new.present /\ old.owned \in Values
             => new.owned = old.owned]_vars

\* Does the object look like the manifest, as far as the code compares them?
LooksLike(o, object, spec) ==
  /\ object.present
  /\ ~object.deleting
  /\ IF kind[o] = "ServiceAccount" THEN object.spec.meta = spec.meta
                                   ELSE object.spec = spec

\* In this step, execution e's CreateOrUpdate returns nil.
Upserts(e) ==
  /\ phase[e] # "idle" /\ Action(e) = "CreateOrUpdate"
  /\ todo'[e] # todo[e] /\ outcome'[e] # "error"
  /\ phase'[e] # "idle" \/ outcome'[e] = "nil"

\* When CreateOrUpdate returns nil, the stored object is the rendered one,
\* unless it was being deleted (actions.go:28-40).
UpsertTakesEffect ==
  [][\A e \in Executions :
       LET o == Object(e)
       IN  Upserts(e) /\ ~(Present(o) /\ store[o].deleting)
             => LooksLike(o, store'[o], rendered[e][o].spec)]_vars

\* What execution e rendered each object to.
Content(e) ==
  [o \in Objects |-> IF rendered[e][o] = Absent THEN Absent ELSE rendered[e][o].spec]

\* What the actions promise: each takes effect at once.
Atomic == INSTANCE AtomicActions WITH
  Manifests <- Manifest,
  None      <- Absent,
  manifest  <- [e \in Executions |-> Content(e)]

\* An action reads and writes by different calls, and others write in between;
\* and still every step acts on the object as it is when it is written, does
\* all of what it is to do or nothing, from one rendering, and an execution
\* that returns nil has done that for each step of its plan, in its order
\* (client.go:152-191, actions.go:28-80).
ActsAtomically == Atomic!Spec

\* Once nobody interferes any more, the executions that a trigger starts again
\* and again bring every object to what the configuration says, and keep it
\* there.  For plans that upsert every object.
Convergence ==
  <>calm => <>[](\A o \in Objects : LooksLike(o, store[o], desired))

\* The steps of a rollout are given "the content of the manifest" that rendering
\* put into its map (README.md:35), whatever the steps before them did: a Create
\* sends an object that has no resourceVersion.
CreateSendsManifest ==
  \A e \in Executions : phase[e] = "create" => version[e][Object(e)] = "unset"

=============================================================================
