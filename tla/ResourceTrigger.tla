--------------------------- MODULE ResourceTrigger ---------------------------
(***************************************************************************)
(* The resource trigger (trigger/resource): informers keep copies of the   *)
(* objects of several resources and notify handlers of changes; a handler  *)
(* turns the key of a changed object into the key of an object of the main *)
(* resource, and adds that to a work queue; one worker takes keys from the *)
(* queue, and has the object of the main resource rolled out.              *)
(*                                                                         *)
(* An execution reads at different times: the object when its key is       *)
(* synced, the lists of all resources while it renders.  It writes objects *)
(* of watched resources and the status of the main object, and so causes   *)
(* notifications itself.  What happens inside of an execution is the       *)
(* subject of Rollout.tla; here its one group is rolled out or fails.      *)
(*                                                                         *)
(* An object is a content and a status.  Every write of a client makes a   *)
(* new content, so the two stand for the resourceVersion of an object of   *)
(* the main resource.                                                      *)
(***************************************************************************)
EXTENDS WorkQueue

CONSTANTS
  Resources,   \* the configured resources
  Last,        \* the one that comes last in the configuration
  Objects,     \* the objects there may be
  ResourceOf,  \* the resource of each object
  Selected,    \* the objects with the labels that each resource asks for
  KeyOf,       \* the key that each object's key is transformed into
  Dropped,     \* no key
  OutputOf,    \* the objects that the rollout of each key writes
  Faults,      \* may calls and rollouts fail, and processes die?
  MaxRevision, \* bound on the writes of clients
  MaxNotes     \* bound on the pending notifications of an informer

\* Objects of the main resource are named by their keys.
Main == Objects \cap Keys

ASSUME ConfigAssumption ==
  /\ Last \in Resources
  /\ ResourceOf \in [Objects -> Resources]
  /\ Selected \in [Resources -> SUBSET Objects]
  /\ KeyOf \in [Objects -> Keys \cup {Dropped}]
  /\ Dropped \notin Keys

\* A rollout writes objects that no other rollout writes, and not those that
\* trigger rollouts.
ASSUME OutputAssumption ==
  /\ OutputOf \in [Main -> SUBSET (Objects \ Main)]
  /\ \A k, l \in Main : k # l => OutputOf[k] \cap OutputOf[l] = {}

ASSUME BoundsAssumption ==
  MaxRevision \in Nat /\ MaxNotes \in Nat /\ Faults \in BOOLEAN

\* Content 0: there is no such object.
Statuses == {"none", "Not Started", "Finished"}
Copy     == [spec : Nat, status : Statuses]
Absent   == [spec |-> 0, status |-> "none"]
Exists(c) == c.spec # 0

\* A notification; `changed` is FALSE when an update shows the same
\* resourceVersion before and after.
Note == [type : {"add", "update", "delete"}, object : Objects,
         changed : BOOLEAN]

\* What an execution works from: the object it was triggered by, and the lists.
Snapshot == [raw : Nat, lists : [Objects -> Nat]]
Nothing  == [raw |-> 0, lists |-> [o \in Objects |-> 0]]

VARIABLES
  store,       \* the API server's objects
  revision,    \* the last content that a client wrote
  calm,        \* have clients, failures and crashes come to an end?
  cache,       \* the informers' copies
  unseen,      \* the objects of which the informers have not seen every write
  notes,       \* the notifications that each informer's handler has to handle
  writeStatus, \* t.writeStatus, a flag of the process
  pc,          \* where the worker is
  key,         \* the key it works on
  copy,        \* the object that sync read
  lists,       \* the contents of the lists that rendering has read
  unread,      \* the resources whose lists it has not read yet
  rolledOut    \* what the last rollout of each key worked from

serverVars == <<store, unseen, revision, calm>>
informVars == <<cache, notes>>
workVars   == <<pc, key, copy, lists, unread>>
vars == <<serverVars, informVars, writeStatus, queueVars, workVars, rolledOut>>

PCs == {"idle", "sync", "render", "initialize", "roll out", "report", "done"}

TypeOK ==
  /\ QueueTypeOK
  /\ store \in [Objects -> Copy]
  /\ revision \in Nat
  /\ calm \in BOOLEAN
  /\ cache \in [Objects -> Copy]
  /\ unseen \subseteq Objects
  /\ notes \in [Resources -> Seq(Note)]
  /\ writeStatus \in BOOLEAN
  /\ pc \in PCs
  /\ key \in Keys \cup {Dropped}
  /\ copy \in Copy
  /\ lists \in [Objects -> Nat]
  /\ unread \subseteq Resources
  /\ rolledOut \in [Main -> Snapshot]
  /\ (pc # "idle" => key \in Keys)
  /\ (pc \notin {"idle", "sync", "done"} => key \in Main)

\* An execution is over, and with it what it has read.
Discard ==
  /\ copy' = Absent
  /\ lists' = Nothing.lists
  /\ unread' = {}

Rest ==
  /\ pc' = "idle"
  /\ key' = Dropped
  /\ Discard

\* There may be objects already when the process starts.
Init ==
  /\ QueueInit
  /\ store \in [Objects -> {Absent, [spec |-> 1, status |-> "none"]}]
  /\ unseen = {o \in Objects : Exists(store[o])}
  /\ revision = 1
  /\ calm = FALSE
  /\ cache = [o \in Objects |-> Absent]
  /\ notes = [r \in Resources |-> << >>]
  /\ writeStatus \in BOOLEAN
  /\ pc = "idle"
  /\ key = Dropped
  /\ copy = Absent
  /\ lists = Nothing.lists
  /\ unread = {}
  /\ rolledOut = [k \in Main |-> Nothing]

Failing == Faults /\ ~calm

-----------------------------------------------------------------------------
(***************************************************************************)
(* The API server, and the informers of client-go.                         *)
(***************************************************************************)

\* The API server stores something; the watches tell of what changed.
Put(new) ==
  /\ store' = new
  /\ unseen' = unseen \cup {o \in Objects : new[o] # store[o]}

\* A client creates the object, or changes it and leaves the status alone.
Change(o) ==
  /\ ~calm
  /\ revision < MaxRevision
  /\ revision' = revision + 1
  /\ Put([store EXCEPT ![o] = [spec |-> revision + 1, status |-> @.status]])
  /\ UNCHANGED <<calm, informVars, writeStatus, queueVars, workVars, rolledOut>>

Delete(o) ==
  /\ ~calm
  /\ Exists(store[o])
  /\ Put([store EXCEPT ![o] = Absent])
  /\ UNCHANGED <<revision, calm, informVars, writeStatus, queueVars, workVars,
                 rolledOut>>

Calm ==
  /\ ~calm
  /\ calm' = TRUE
  /\ UNCHANGED <<store, unseen, revision, informVars, writeStatus, queueVars,
                 workVars, rolledOut>>

\* The functions that list and watch a resource share the loop variable `r` of
\* NewTrigger: when they are called, the labels are those of the last resource.
Listed(o) == o \in Selected[Last]

Notify(o, type, changed) ==
  notes' = [notes EXCEPT ![ResourceOf[o]] =
              Append(@, [type |-> type, object |-> o, changed |-> changed])]

Room(o) == Len(notes[ResourceOf[o]]) < MaxNotes

\* An informer brings its copy of an object up to date, at first from a list,
\* later from watch events.  None is lost, but the copy may take several writes
\* at once; then the last one is the one that is notified.
Observe(o) ==
  /\ Listed(o)
  /\ Room(o)
  /\ o \in unseen
  /\ unseen' = unseen \ {o}
  /\ cache' = [cache EXCEPT ![o] = store[o]]
  /\ Notify(o, IF ~Exists(store[o]) THEN "delete"
               ELSE IF Exists(cache[o]) THEN "update" ELSE "add", TRUE)
  /\ UNCHANGED <<store, revision, calm, writeStatus, queueVars, workVars,
                 rolledOut>>

\* A list shows an object that has not changed.
Relist(o) ==
  /\ Exists(cache[o])
  /\ o \notin unseen
  /\ notes[ResourceOf[o]] = << >>
  /\ Notify(o, "update", FALSE)
  /\ UNCHANGED <<serverVars, cache, writeStatus, queueVars, workVars,
                 rolledOut>>

-----------------------------------------------------------------------------
(***************************************************************************)
(* The handlers.                                                           *)
(***************************************************************************)

\* The key is transformed and, unless it was dropped, enqueued.
Enqueue(o) ==
  IF KeyOf[o] = Dropped THEN UNCHANGED queueVars
                        ELSE Add(KeyOf[o]) /\ UNCHANGED delayed

\* Mutants of Ignored: OnDelete does nothing; OnUpdate does not compare the
\* resource versions.
IgnoredDelete(n) == n.type = "delete" \/ (n.type = "update" /\ ~n.changed)

IgnoredNever(n) == FALSE

\* OnUpdate returns early when the resourceVersion is the one of before.
Ignored(n) == n.type = "update" /\ ~n.changed

\* OnAdd, OnUpdate or OnDelete.
Handle(r) ==
  /\ notes[r] # << >>
  /\ notes' = [notes EXCEPT ![r] = Tail(@)]
  /\ LET n == Head(notes[r])
     IN  IF Ignored(n) THEN UNCHANGED queueVars ELSE Enqueue(n.object)
  /\ UNCHANGED <<serverVars, cache, writeStatus, workVars, rolledOut>>

-----------------------------------------------------------------------------
(***************************************************************************)
(* The worker.                                                             *)
(***************************************************************************)

Goto(l) == pc' = l

\* processNextWorkItem takes a key.
GetKey ==
  /\ pc = "idle"
  /\ \E k \in Keys : Get(k) /\ key' = k
  /\ Goto("sync")
  /\ UNCHANGED <<serverVars, informVars, writeStatus, copy, lists, unread,
                 rolledOut>>

\* sync returned nil: the key is forgotten.
Succeed ==
  /\ Goto("done")
  /\ Discard
  /\ UNCHANGED <<queueVars, key>>

\* Mutant of Fail: the key of a sync that failed is forgotten as well.
FailForgets ==
  /\ Goto("done")
  /\ Discard
  /\ UNCHANGED <<queueVars, key>>

\* sync returned an error: the key comes back after a delay.
Fail ==
  /\ Goto("done")
  /\ Discard
  /\ AddRateLimited(key)
  /\ UNCHANGED key

\* Mutant of FinishKey: Done is not called.
FinishKeyUndone ==
  /\ pc = "done"
  /\ Rest
  /\ UNCHANGED <<serverVars, informVars, writeStatus, queueVars, rolledOut>>

\* The deferred call of Done.
FinishKey ==
  /\ pc = "done"
  /\ Done(key)
  /\ Rest
  /\ UNCHANGED <<serverVars, informVars, writeStatus, rolledOut>>

InStore(k) == k \in Main /\ Exists(cache[k])

\* There is no object of that key, or not yet.
SyncNotFound ==
  /\ pc = "sync"
  /\ ~InStore(key)
  /\ Succeed
  /\ UNCHANGED <<serverVars, informVars, writeStatus, rolledOut>>

SyncFound ==
  /\ pc = "sync"
  /\ InStore(key)
  /\ Goto("render")
  /\ copy' = cache[key]
  /\ unread' = Resources
  /\ UNCHANGED <<serverVars, informVars, writeStatus, queueVars, key, lists,
                 rolledOut>>

\* Rendering imports the list of a resource, in any order.
ReadList(r) ==
  /\ pc = "render"
  /\ r \in unread
  /\ unread' = unread \ {r}
  /\ lists' = [o \in Objects |->
                 IF ResourceOf[o] = r THEN cache[o].spec ELSE lists[o]]
  /\ Goto(IF unread' # {} THEN "render"
          ELSE IF writeStatus THEN "initialize" ELSE "roll out")
  /\ UNCHANGED <<serverVars, informVars, writeStatus, queueVars, key, copy,
                 rolledOut>>

RenderFails ==
  /\ pc = "render"
  /\ Failing
  /\ Fail
  /\ UNCHANGED <<serverVars, informVars, writeStatus, rolledOut>>

\* Mutant of MayWrite: the status is written without a resourceVersion.
MayWriteAnyVersion == Exists(store[key])

\* The API server accepts a status for the version of the object it comes from.
MayWrite == copy = store[key]

PutStatus(s) ==
  Put([store EXCEPT ![key] = [spec |-> @.spec, status |-> s]])

\* updateStatus sends a new status, unless it is the one of before.
WriteStatus(s) ==
  IF copy.status = s
  THEN UNCHANGED <<store, unseen>>
  ELSE MayWrite /\ PutStatus(s)

\* The write fails: a conflict, or a failure of the API server; when only the
\* response is lost, the status is written.
WriteStatusFails(s) ==
  /\ copy.status # s
  /\ \/ /\ MayWrite => Failing
        /\ UNCHANGED <<store, unseen>>
     \/ /\ Failing
        /\ MayWrite
        /\ PutStatus(s)
  /\ Fail
  /\ UNCHANGED <<revision, calm, informVars, writeStatus, rolledOut>>

\* Mutant of InitialStatus: a new condition gets no status.
InitialStatusUnset == IF copy.status = "none" THEN "" ELSE copy.status

\* Initialize keeps the status the object has.
InitialStatus == IF copy.status = "none" THEN "Not Started" ELSE copy.status

InitializeStatus ==
  /\ pc = "initialize"
  /\ WriteStatus(InitialStatus)
  /\ copy' = [spec |-> copy.spec, status |-> InitialStatus]
  /\ Goto("roll out")
  /\ UNCHANGED <<revision, calm, informVars, writeStatus, queueVars, key,
                 lists, unread, rolledOut>>

InitializeFails == pc = "initialize" /\ WriteStatusFails(InitialStatus)

\* The steps of the rollout write the objects they were rendered to.
Write(objects) ==
  Put([o \in Objects |->
         IF o \in objects THEN [spec |-> copy.spec, status |-> "none"]
                          ELSE store[o]])

\* Mutant of RollOut: nothing is written when the object is the one of before.
RollOutOnce ==
  /\ pc = "roll out"
  /\ IF rolledOut[key].raw = copy.spec THEN UNCHANGED <<store, unseen>>
                                       ELSE Write(OutputOf[key])
  /\ rolledOut' = [rolledOut EXCEPT ![key] = [raw |-> copy.spec,
                                              lists |-> lists]]
  /\ IF writeStatus THEN Goto("report") /\ UNCHANGED <<queueVars, key, copy,
                                                       lists, unread>>
                     ELSE Succeed
  /\ UNCHANGED <<revision, calm, informVars, writeStatus>>

RollOut ==
  /\ pc = "roll out"
  /\ Write(OutputOf[key])
  /\ rolledOut' = [rolledOut EXCEPT ![key] = [raw |-> copy.spec,
                                              lists |-> lists]]
  /\ IF writeStatus THEN Goto("report") /\ UNCHANGED <<queueVars, key, copy,
                                                       lists, unread>>
                     ELSE Succeed
  /\ UNCHANGED <<revision, calm, informVars, writeStatus>>

\* A step or a check fails, after some of the objects were written.
RollOutFails ==
  /\ pc = "roll out"
  /\ Failing
  /\ \E objects \in SUBSET OutputOf[key] : Write(objects)
  /\ rolledOut' = [rolledOut EXCEPT ![key] = Nothing]
  /\ Fail
  /\ UNCHANGED <<revision, calm, informVars, writeStatus>>

Report ==
  /\ pc = "report"
  /\ WriteStatus("Finished")
  /\ Succeed
  /\ UNCHANGED <<revision, calm, informVars, writeStatus, rolledOut>>

ReportFails == pc = "report" /\ WriteStatusFails("Finished")

-----------------------------------------------------------------------------
\* The process dies, or is stopped; a new one starts with empty informers.
Crash ==
  /\ Failing
  /\ cache' = [o \in Objects |-> Absent]
  /\ notes' = [r \in Resources |-> << >>]
  /\ unseen' = {o \in Objects : Exists(store[o])}
  /\ LoseQueue
  /\ Rest
  /\ UNCHANGED <<store, revision, calm, writeStatus, rolledOut>>

DelayOver(k) ==
  /\ Due(k)
  /\ UNCHANGED <<serverVars, informVars, writeStatus, workVars, rolledOut>>

Work ==
  \/ GetKey
  \/ SyncNotFound
  \/ SyncFound
  \/ \E r \in Resources : ReadList(r)
  \/ RenderFails
  \/ InitializeStatus
  \/ InitializeFails
  \/ RollOut
  \/ RollOutFails
  \/ Report
  \/ ReportFails
  \/ FinishKey

Next ==
  \/ \E o \in Objects : Change(o) \/ Delete(o) \/ Observe(o) \/ Relist(o)
  \/ \E r \in Resources : Handle(r)
  \/ \E k \in Keys : DelayOver(k)
  \/ Work
  \/ Crash
  \/ Calm

\* The worker and the handlers are goroutines that nothing stops; watch events
\* arrive and delays end.  Clients may come to rest, and failures stop.
Spec == Init /\ [][Next]_vars

FairSpec ==
  /\ Spec
  /\ WF_vars(Work)
  /\ \A r \in Resources : WF_vars(Handle(r))
  /\ \A o \in Objects : WF_vars(Observe(o))
  /\ \A k \in Keys : WF_vars(DelayOver(k))

-----------------------------------------------------------------------------
(***************************************************************************)
(* Properties.                                                             *)
(***************************************************************************)

\* The objects whose changes are to trigger a rollout of key k.
Watched(k) == {o \in Objects : KeyOf[o] = k /\ Listed(o)}

\* The keys that changes of their own object trigger: the configuration does
\* not select, drop or replace them away.
Triggered == {k \in Main : k \in Watched(k)}

\* What a rollout of k worked from agrees with `now` on what k watches.
Agrees(k, snapshot, now) ==
  /\ snapshot.raw = now[k].spec
  /\ \A o \in Watched(k) : snapshot.lists[o] = now[o].spec

\* What the running execution of k has read so far agrees with the informers.
SoFarAgrees(k) ==
  /\ copy.spec = cache[k].spec
  /\ \A o \in Watched(k) :
       ResourceOf[o] \notin unread => lists[o] = cache[o].spec

\* The worker is on key k, and what it will work from is up to date.
Working(k) ==
  /\ key = k
  /\ \/ pc = "sync"
     \/ pc \in {"render", "initialize", "roll out"} /\ SoFarAgrees(k)

Noted(k) ==
  \E r \in Resources : \E i \in DOMAIN notes[r] :
    ~Ignored(notes[r][i]) /\ KeyOf[notes[r][i].object] = k

\* No change is forgotten: if the last rollout of a key did not work from what
\* the informers now show, then a notification is pending, the key will be
\* handed out, or the worker is on it with nothing out of date.  This covers
\* changes while the key is worked on, failed syncs, lists that are read while
\* informers are still filling, and restarts (resource.go:149, 191-215).
NothingForgotten ==
  \A k \in Triggered :
    Exists(cache[k]) =>
      \/ Agrees(k, rolledOut[k], cache)
      \/ Noted(k)
      \/ Queued(k)
      \/ Working(k)

\* The abstract state: what the API server holds of the objects that a key
\* watches, what its last rollout worked from, and the keys about which the
\* trigger has something left to do.
Only(k, contents) ==
  [o \in Objects |-> IF o \in Watched(k) THEN contents[o] ELSE 0]

Wanted(k) ==
  IF Exists(store[k])
  THEN [raw   |-> store[k].spec,
        lists |-> Only(k, [o \in Objects |-> store[o].spec])]
  ELSE Nothing

Served(k) ==
  [raw |-> rolledOut[k].raw, lists |-> Only(k, rolledOut[k].lists)]

Owed(k) ==
  \/ Watched(k) \cap unseen # {}
  \/ Noted(k)
  \/ Queued(k)
  \/ Working(k)

Abstract == INSTANCE Reconciler WITH
  Keys    <- Triggered,
  Inputs  <- Snapshot,
  NoInput <- Nothing,
  wanted  <- [k \in Triggered |-> Wanted(k)],
  served  <- [k \in Triggered |-> Served(k)],
  owed    <- {k \in Triggered : Owed(k)}

\* The trigger implements a Reconciler: whatever it does, it drops a key only
\* when the rollout worked from what the API server holds (the whole path
\* from the watch over handlers, queue and worker to the rollout).
Reconciles == Abstract!Spec

\* When the status of an object becomes "Finished", the content it then has is
\* what was rolled out, whatever clients wrote meanwhile (the resourceVersion
\* of the copy, feedback.go:134).
FinishedIsOfThisContent ==
  [][\A k \in Main :
       store'[k].status = "Finished" /\ store[k].status # "Finished" =>
         rolledOut[k].raw = store'[k].spec]_vars

\* The last rollout of k worked from what the API server holds, what it has written
\* is there as it was written, and the status says so.
UpToDate(k) ==
  /\ Agrees(k, rolledOut[k], store)
  /\ \A o \in OutputOf[k] \cap Watched(k) : store[o].spec = store[k].spec
  /\ writeStatus => store[k].status = "Finished"

\* An object is up to date, or something is under way that leads to its rollout:
\* whichever writes, drift of what was rolled out, conflicts, failures and restarts
\* there were, the trigger comes to rest only when there is nothing to do
\* (resource.go:149, 191-239, handlers.go:111-165, feedback.go:125-146).
NoneIsLeftBehind ==
  \A k \in Triggered :
    Exists(store[k]) => UpToDate(k) \/ Owed(k) \/ key = k

InSync ==
  \A k \in Main : Exists(store[k]) /\ k \in Triggered => UpToDate(k)

AtRest == pc = "idle" /\ queue = << >> /\ dirty = {} /\ delayed = {}

\* Once clients and failures have come to an end, every object is rolled out
\* with its latest content, drift of what was rolled out is undone, and the
\* trigger comes to rest, although its own writes notify it (resource.go:191,
\* handlers.go:153, feedback.go:125).
Convergence == calm ~> [](InSync /\ AtRest)

\* Each resource has a labelSelector of its own (resource.go:54): its informer
\* shows objects with those labels only.
InformersSelect ==
  \A o \in Objects : Exists(cache[o]) => o \in Selected[ResourceOf[o]]

=============================================================================
