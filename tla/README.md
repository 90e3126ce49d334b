# A formal model of locutus

locutus renders Kubernetes manifests and rolls them out: a *trigger* fires, a
*renderer* turns a configuration into a map of manifests and a rollout
specification, and the *rollout runner* works through the groups and steps of
that specification, each step an *action* on an object followed by *success
checks*; *feedback* writes the progress into the status of the object that
triggered it. This directory holds TLA+ modules translated from that code, TLC
configurations that check them on small instances, and theorems about them that
TLAPS checks for every value of the constants.

`PROJECT.json` relates every definition to the lines it was translated from, and
lists the runs, the mutants that show each property can fail, the hazards and
the theorems.

## The system

| part | state | operations | talks to |
|---|---|---|---|
| Rollout runner (`rollout/rollout.go`) | the rendered result, the loop's group and step, a WaitGroup and an error list per parallel group | `Execute`, `runStep`, `executeAction` | renderer, actions, checks, feedback |
| Feedback (`feedback/feedback.go`) | old and current status, the triggering object | `NewFeedback`, `Initialize`, `SetCondition` | API server (status subresource); is built from the informer's copy |
| Object actions and client (`rollout/actions.go`, `client/client.go`) | none of their own; they write into the rendered objects | `CreateOrUpdate`, `CreateIfNotExist`, `DeleteIfExist`, `UpdateWithCurrent` | API server |
| Success checks (`rollout/checks`) | the paths of a definition, values read by the last polls | `RunChecks`, two nested polls, failure checks, reports | API server, database |
| Resource trigger (`trigger/resource`) | informers, a work queue, one worker | event handlers, `sync` | API server, runner, feedback |
| Database trigger (`trigger/database`) | a goroutine per trigger, a map of maps of active runs, runs that nobody waits for | `checkTrigger`, `ScheduleTriggerRun` | database, runner |
| Interval and one-off triggers (`trigger/interval`, `trigger/oneoff`) | a ticker | `Run` | runner |
| Process (`cli`, `config`, `db`) | a run group of triggers, the metrics server and a signal handler | connects, starts, stops; reads a configuration file for each execution | everything |
| Database sources (`source`) | the rows of a call | a query in a transaction | database |
| Renderers (`render`) | none | `Render` | files, sources |

What is hard here, and what the properties are about:

- *Concurrency*: the goroutines of a parallel group; several executions (of
  several triggers, or of database rows) on the same objects; other clients and
  controllers between a step's `Get` and its write.
- *Failure*: a step that fails half way through a list; a status write that
  conflicts, or is stored although its response is lost; a process that is killed
  between two writes.
- *Stale state*: an `oldStatus` that is never refreshed; an object taken from an
  informer; a rendered object that an earlier step has written into.
- *Timeouts and retries*: nested polls; work queue retries; transactions whose
  function is called again.
- *Stopping*: the first actor that returns ends all others; what is awaited, and
  what the exit code says.

For each part, what makes it correct:

- runner: groups are barriers, steps keep their order, no error is lost, nothing
  is left running, every execution ends;
- feedback: what is reported is true, stays in sync with the API server, survives
  restarts;
- actions: no update overwrites what it has not seen, fields of the cluster are
  kept, a step that returns nil had its effect, repeated executions converge;
- checks: end soon after their timeouts, notice success and failure soon, give up
  only after a timeout;
- resource trigger: no change is lost, the loop comes to rest;
- database trigger: every row is rolled out in the end, whatever was started for
  older rows; no write into a map that is not there;
- sources: what is rendered ends with the rows that were committed;
- process: a process that is to stop comes to an end, between two executions; its
  exit code is true; it does not stop for nothing.

## Modules

| module | what |
|---|---|
| `Feedback` | state and operations of a feedback; no specification of its own |
| `Rollout` | `Runner.Execute` with its goroutines, composed with `Feedback` (EXTENDS): every call of the code into the feedback is a conjunct of the action that makes it |
| `MCRollout` | plans for TLC |
| `StagedRollout` | the abstract specification that `Rollout` implements: which step may act when, and what a result tells |
| `RolloutProofs` | theorems about `Rollout`, `Feedback` and the refinement |
| `SequenceFacts` | facts about sequences that several proofs need |
| `ObjectActions` | executions that run actions on objects, against an API server others use |
| `AtomicActions` | the abstract specification that `ObjectActions` implements: every step takes effect at once |
| `MCObjectActions` | objects, executions and plans for TLC |
| `ObjectActionsProofs` | theorems about `ObjectActions` and the refinement |
| `WorkQueue` | state and operations of client-go's rate limiting queue (external); no specification of its own |
| `ResourceTrigger` | informers, handlers, worker and the rollouts it makes, composed with `WorkQueue` (EXTENDS) |
| `Reconciler` | the abstract specification that `ResourceTrigger` implements |
| `MCResourceTrigger` | resources and objects for TLC |
| `ResourceTriggerProofs` | theorems about `ResourceTrigger`, `WorkQueue` and the refinement |
| `MCConvergence` | three scenarios of `ResourceTrigger` in one specification, for liveness |
| `KeyTransformation` | the key transformations of `handlers.go`, as operators |
| `SuccessCheck` | `RunChecks`, the two nested polls of each success definition and its failure checks, in discrete time |
| `FieldComparison` | what the fields of an object have to show, as operators |
| `FieldComparisonProofs` | a theorem about the operators of `FieldComparison` |
| `MCSuccessCheck` | definitions for TLC; their `expected` is computed with `FieldComparison` |
| `SuccessCheckProofs` | theorems about `SuccessCheck` |
| `DatabaseSource` | a query in a transaction that is retried; no specification of its own |
| `DatabaseTrigger` | the goroutines of database triggers, the map of maps, the runs; no specification of its own |
| `Process` | `Main` with its run group and all kinds of triggers, composed with `DatabaseSource` and `DatabaseTrigger` (EXTENDS) |
| `MCProcess` | flags and configurations for TLC |
| `ProcessProofs` | theorems about `Process`, `DatabaseSource` and `DatabaseTrigger` |

### Rollout and Feedback

A step's name is the pair of its group's and its own index. `pc` is the place in
`Execute`; a step's own progress is in `status` (idle, running, ok, failed) and
`applied`, the number of items of its object that were acted on (`executeAction`
recurses over lists). `live` holds the steps whose goroutine has not called
`wg.Done`, so `wg.Wait` is `OfGroup(live) = {}`; `errs` holds the steps whose
error was appended. `AppendError` and `GoroutineExits` are separate steps because
other goroutines, and `Execute`, run between them. When `Execute` returns, the
variables of the run keep their values until the next `Trigger`, so that the
invariants can relate the result to what happened.

`Feedback` has the three copies of the status that the code juggles: the one in
the API server (`published`), the informer's (`cached`) and the execution's
(`conditions`, beside `oldStatus`). The code never looks into a
`resourceVersion`, it only sends it back; so instead of numbers the model keeps
whether `f.obj` (`fresh`) and the informer's copy (`cacheFresh`) carry the stored
version. `UpdateStatus` succeeds, is skipped (`reflect.DeepEqual`), fails, or is
stored with its response lost. Every event the informer gets brings it up to
date at once: intermediate versions that it may show on the way are left out.
Transition times are left out; two conditions of one name are equal when their
statuses are, while the code would also compare their times and write once more.

A failing API server, a failing check and a failing item are one action each
(`UpdateFails`, `StepFails`): whether a check fails is not up to the runner.

`WritesAreUpdates` is about the feedback's read and write, which may be whole
groups apart: what an execution writes is computed from its own conditions, and
still it is always the stored list with the one change that the execution is at.

`EveryStepCounts` is why an execution ends: everything it has still to get past is
in one of eleven sets (`Due`: groups to enter, steps to begin, items to act on, errors
to add, goroutines to end ...), every step of the execution removes something from
one of them, and none adds anything to any. `Terminates` adds fairness to that.

`StagedRollout` says what `Execute` promises without loop, goroutines, WaitGroups
and error lists: there are steps that may act when all they wait for is passed
(`Before`, `Passed`), and a return whose value tells what became of the steps
(`MayReturn`). Only there is it said in one place which steps may overlap. The
refinement mapping takes an execution as running while `pc` is not idle, and a step
as ended with its `status`, if that is final; that a step's goroutine begins, that it
adds its error, that groups are entered and left, and the whole feedback are
stutters.

### ObjectActions

An execution renders (`Start`), then runs its steps in order. `GetNotFound` and
`GetFound` are the first half of `CreateOrUpdate`, up to the call of `Create` or
`Update`, which is an action of its own: everything in the cluster may happen
between. `GetFound` holds what `UpdateWithCurrent` does to the rendered object
(resource version, clusterIP, revision annotation) and its check for service
accounts. A manifest is a pair of `meta` (labels and annotations: what the check
for service accounts compares) and `body`; the field that belongs to the cluster
is `owned`. `version` says of each rendered object whether it carries no
`resourceVersion`, the stored one or an old one. The type check for Deployments
also names `v1beta2` (client.go:244), which is no API version of a Deployment;
the model has one kind of Deployment, the one of `apps/v1`.

The API server and the rest of the cluster are modelled from how the code uses
them and are marked external: optimistic locking, a `Create` that refuses a
resource version, an immutable clusterIP, foreground deletion, an object that is
gone when an update takes its last finalizer, controllers and other writers.
`calm` ends the interference, for the liveness property.

`AtomicActions` is what somebody who writes a rollout may rely on: although a step
reads an object and writes it later, it takes effect at once, on the object as it
is at that moment, or it fails, with its whole effect or none. What an effect is
(`Effect`) is said there without versions, phases and snapshots, and includes that a
service account is written only for the sake of its metadata. `ObjectActions`
implements it: the write of the second call is the abstract step, or, for a step
that needs no write, the call that found that out; a `Get`, a conflict that is
refused, and the cluster's own steps map to stutters or to the steps of others.

Two steps of one
parallel group on the same object would share one Go map; that is a data race in
the code and outside this model.

### ResourceTrigger, WorkQueue and Reconciler

`store` is what the API server holds. A write puts the object into `unseen`; the
informer takes its current state over at some later time (`Observe`: list, watch
event or compressed delta) and appends a notification to the queue of its
resource, from which one goroutine calls the handlers (`Handle`). The handler
turns the key into one of the main resource (`KeyOf`, a table) and adds it to the
work queue. `KeyTransformation` has what the transformations of `handlers.go`
compute; `MCResourceTrigger` assumes, and TLC checks, that the table of its
configurations is what they make of the keys. `Add`, `Get`, `Done` and `AddRateLimited` keep client-go's
`queue`, `dirty` and `processing` sets; `delayed` holds the keys whose backoff
has not ended, in no order, as delays are left out (and with them `Forget`).

The worker's places are those where others can run: `sync` reads the copy of the
object (`SyncFound`), rendering reads the list of one resource after the other
(`ReadList`), the feedback writes the initial status with the version of the
informer's copy (`InitializeStatus`), the rollout writes objects (`RollOut`) and
the feedback writes again (`Report`). A rollout is one action here, and so is
its failure, which leaves any part of it written; `Rollout.tla` has its inside.
That the worker may be ahead of the informers needs no action of its own: `sync`
may run at any time, also before the first list is complete, as `Run` does not
wait for `WaitForCacheSync` before it starts the worker (resource.go:149).

An object is a content and a status; every client write makes a new content, so
that the pair stands for its resource version. The conflict of a status write is
`copy # store[key]`.

The functions that list and watch share the loop variable of `NewTrigger`, so
that every informer uses the labels of the last resource: `Listed` says so, and
all properties are about the objects that are listed. That informers list what
they are configured to is the violated `InformersSelect`.

`Reconciler` promises what a user of the trigger relies on: there is a set of
keys that are owed a rollout, every key outside of it was last rolled out from
what the cluster now wants, and only owed keys are rolled out. The refinement
mapping takes as wanted the object in the API server with the contents of all
objects that trigger its key, as served what the last rollout worked from, and
as owed the keys with an unseen write, a notification that is not ignored, a
place in the work queue, or a worker whose execution is up to date so far.

Left out: watches that lose events between two lists (client-go relists then,
which `Observe` is), the draining of the queue at shutdown (what it loses is what
`Crash` loses), statuses of several groups (see `Rollout`). Assumed: no two
rollouts write the same object, and none writes objects of the main resource
(`OutputAssumption`; otherwise two configurations fight, and no trigger
converges). The properties are about the main objects whose own changes trigger
them (`Triggered`): a key transformation may be configured to drop those.

`NothingForgotten` and `Reconciles` are about what a rollout works from.
`NoneIsLeftBehind` is about what is there afterwards: as long as an object is not
`UpToDate` (rolled out from what the API server holds, its output as it was
written, its status saying so), something is under way that leads to its rollout.
It is the safety part of `Convergence`, which uses the same `UpToDate`, and holds
in every state, not only when failures have ended.

### SuccessCheck

`rollout.go:186` calls `RunChecks`, which works through the definitions of a step
(`index`). The condition of a definition's outer poll reads values, compares
them, runs the failure checks and then polls in turn, until a value has changed;
`level` is the poll whose condition runs or which waits, `values` what each has
read last. `stage` is the place: `wait` for a tick, or one of the calls.

`wait.Poll` is external and modelled after how it works: a ticker and a timer
(`tick`, `left`) whose goroutine offers each tick and drops it when nobody waits,
and closes its channel when the timer ends, after which the condition runs one
last time (`open`). A timer of 0 does not exist. When a tick and the end are both
there, either may come first.

Time is discrete: `Elapse` lets one unit pass while a poll waits for something
that is not there yet, or while calls are under way: all calls of one condition,
or of the report of a timeout, take at most `MaxCall` units together (`spent`).
`elapsed`, `matching`, `failing`, `quiet` and `lapsed` (the time since the object
has last shown what is expected, up to one more than calls may take) only serve the
properties. What is
expected is a set of values (`expected`): `checkComparisons` is a function of the
values that were read, and `MCSuccessCheck` computes the set from comparisons
with `FieldComparison`. Everything that can return an error may (`Fails`); a
cancelled context shows as a call that fails.

Failure checks run one after the other (`check`). A check passes or fails by what
the pods of the object show (`killed`, the list that `JobOOMKilledCheck` asks
for), is not known, or was meant for another kind of object. A failure with a
report is reported and then is no failure: `checkFailed` returns nil at once, so
that the checks behind it do not run, the inner poll goes on, and the same
failure is reported again by every condition.

`SuccessWasShown` is the other side of `SuccessIsNoticed`: a definition is passed
only when the object has shown what is expected while the last calls were made, and
since the check began, whatever the two polls keep of earlier values; or when its
timeout is reported, as the code counts that as success.

`FieldComparison` takes the query of each path as a table and keeps what the code
makes of the results: one map of paths, in which a path that appears again has
the default of the last entry; the length of what was found; the order in which a
path, a static value and a `staticInt64` are looked at (the comment at
success_check.go:262 has it the other way round); and the types of numbers, since
`DeepEqual` of a `float64` and an `int64` is false. `ComparisonsAreIndependent`
compares it with each comparison taken by itself: they agree but for the
defaults that the map overwrites.

The bounds in the properties come from the code. An outer condition may begin just
before the timeout and wait for `progress`; the channel is closed then, and the
last call may wait for `progress` once more. An inner poll can exceed its timeout
by the calls that run at its end and the last ones, and the outer condition has
its own calls before it: `timeout + 2 * (progress + 3 * MaxCall)`, and `MaxCall`
more for a report. Success is noticed by the next call of the outer condition: the
inner poll sees the change within an interval and a dropped tick, and the outer
poll's next tick is at most as far away. That holds although the inner condition
never looks at what is expected, since values that come to match differ from those
that did not. A failure is noticed by the next condition of either poll.
On the checked definitions the three bounds are exact: with `<` for `<=` TLC finds
a behaviour that exceeds each.

### Process, DatabaseTrigger and DatabaseSource

`Process` follows `Main`: connections are opened (`Connect`; names must be unique,
and a second client panics because it registers the same metric), sources and
triggers are made (`Setup`, `Configured`), and the run group starts (`Start`).
Everything that may fail on the way is one failure (`SetupFails`). An actor of the
group is the trigger's number, `Server` or `Signal`. `RunBy` is what its function
runs: the variable of the loop over the triggers, and so the last trigger for all
of them. `Run` of one trigger may therefore be called by several actors, and what
the model says of database triggers is parameterised by the call. The first actor
that returns decides what the group returns (`FirstOf`) and cancels the others
(`Cancelled`); the group waits for all of them (`Awaited`).

`execution` is what a trigger's own goroutine is doing: nothing, rendering, or
rolling out; `Rollout` has the inside of the latter. The worker of a resource
trigger is not awaited, so an execution may outlive its actor until the process
is gone. `RenderAgain` is an attempt of a source's transaction that is rolled
back: `res`, declared outside of the transaction's function, keeps its rows.

A database trigger's goroutine is at `wait` for its ticker, at `check`, at its
`rows` or at `commit`. The map of active runs is two levels deep, trigger and key,
and the code confuses them twice: `Check` deletes the keys of finished runs from
the outer map (database.go:140) and `Scheduled` looks a key up in it (:158). Keys
are strings of rows and may be names of triggers. What follows is that finished
runs are never forgotten, active ones never recognised, and that a row whose key
is the name of a configured trigger is never run; `Runs1` excepts such a
row from what has to be served. `RowsBreak` is an error of the rows, which the code does not look at. A
nil map of connections and a race on a map that the runtime notices end the
process (`PanicsOnNil`, `NoticesRace`); a race that it does not notice is taken to
have no effect. A write into a nil map would, too: `PanicsOnNil` has it, and
`NeverNilMap` says that it never comes to that. `RunsAreOfOneResult` is about
transactions that are retried after they have yielded rows, and have begun runs for
some: every run works on rows of one result of the query (a row, or for a grouped
trigger what had been collected of the result when its transaction ended). Runs are goroutines
without an order: the one that ends last decides what is `served`.

## Runs

| run | shows | bounds |
|---|---|---|
| `rollout_groups` | all invariants, action properties and termination of `Rollout`; that status writes are updates, that no execution goes in circles, and that it implements `StagedRollout` | five plans with up to two groups and four steps: two serial groups with a list, a tolerated failure and a successor; a parallel group of a list and a tolerant step before another one; an empty plan; an empty group before a parallel group of three; two groups of one name. Any number of executions, edits and crashes |
| `rollout_continue` | a counterexample: `continueOnError` has no effect in a parallel group | the same plans |
| `actions_concurrent` | no lost update, owned fields kept, upserts take effect; every step is atomic (`AtomicActions` is implemented) | two executions, one object of each kind, two values for each part of a manifest and for the owned field, two plans that use every action |
| `actions_converge` | convergence after interference ends | two executions that upsert, one body, one value |
| `actions_recreate` | a counterexample: upsert, delete, upsert always fails | one execution, no interference |
| `trigger_safety` | no change is forgotten, nothing is left as it should not be without work under way, `Reconciler` is implemented, "Finished" is about the right content | a main object and one that its rollout writes and is triggered by, one write of a client on top of what exists initially, any deletions, one pending notification for each informer, failures and crashes |
| `trigger_converges` | convergence, in three scenarios: the written object is deleted by others, again and again; status writes conflict with those of clients; two keys share queue and worker | one main object and one written, one pending notification; one main object with two writes on top of what exists initially, two pending; two main objects, no failures, two pending |
| `check_polls` | checks end within their bound, notice success and failure in time, give up only after a timeout, and succeed only on what the object shows | seven lists of up to two definitions, with intervals shorter and longer than the timeouts, with and without each timeout, failure checks and reports; calls of up to one unit for each condition |
| `trigger_labels` | a counterexample: an informer shows what its resource does not select | two main objects, the last resource without labels |
| `process` | no write into a nil map, a true exit code, no stop without a reason, committed rows come last, runs work on rows of one result; stopping happens between executions and comes to an end, rows are served | fourteen configurations, two trigger actors, two runs at a time, a trigger with rows of its own and a grouped one, results with a key that is the name of a trigger and one that is not, up to two rows of attempts that were rolled back |
| `process_triggers` | a counterexample: a configured trigger that nobody runs | the same |
| `source_retries` | a counterexample: a source returns rows of an attempt that was rolled back | the same |

Why these bounds suffice for what they show: the barrier and the order relate two
steps of neighbouring groups, so two groups show every pair; three goroutines
suffice for one to fail while another is running and a third has not begun; two
names distinguish "the condition of this group" from "some condition". A step acts
on one object, and objects do not interact, so one object of each kind is enough;
two executions are enough for one to overtake the other, and other clients write
at any time on top of that. These two modules have no counters to bound.

`ResourceTrigger` counts the writes of clients (`MaxRevision`; what exists initially
has revision 1, so that 2 allows for a write of what is being worked on, and 3 for
one more while that is worked on) and bounds the notifications that wait (`MaxNotes`; an informer that has to wait with its
next one only delays it). Deletions and rollouts are not bounded. Two keys suffice
for one to wait while the other is worked on, and one object beside the main one
for an execution to read two lists at different times and to trigger itself.

`Process` bounds the goroutines of runs (`Runs`: two, one that is outdated and one
that is not; a run that cannot start waits) and the rows of attempts that are
retried (`MaxRead`). Two actors are enough for one trigger to be run twice, two
names for one that is grouped and one that is not; kinds of triggers meet in pairs
through the run group only.

In `SuccessCheck` times are up to 5 units: enough for an inner poll to begin before
and after the end of the outer one, for intervals that do not divide a timeout and
that exceed it, and for two ticks to be dropped. `MaxTime` caps the clocks above
every bound that the properties name (30; the largest is 5 + 2 * (3 + 3) + 1), so
that no violation can hide.

Symmetry is used only in `actions_concurrent`, whose properties are invariants
and action properties; executions, manifest parts and values are only compared
for equality there. In `Rollout`, `ObjectActions`, `SuccessCheck`
and `Process` a step is always possible (a trigger can fire, a check or a process
can begin), so deadlock is checked. `ResourceTrigger` may come to rest;
its runs do not check deadlock, and `Convergence` says in which states it may
rest.

### Fairness

`Rollout`: weak fairness of the steps of a running execution (`Progress`): calls
to the API server return, goroutines are scheduled and checks end. The last is an
assumption about success checks that `EndsInTime` of `SuccessCheck` supports (a
`progressTimeout` of 0 breaks it, see the hazards). Nothing is assumed of triggers, crashes or edits.

`ObjectActions`: weak fairness of each execution, from its start (an interval
trigger fires again and again) through its calls, and of the garbage collector.
Nothing is assumed of controllers or other clients.

`ResourceTrigger`: weak fairness of the worker, of each informer's handler
goroutine, of watches and lists, and of the end of a delay. `calm` ends the writes
of clients, failures and crashes, or never does; `Convergence` is conditional on
it, as the code promises nothing while calls fail. Two keys need no stronger
assumption: the queue is first in, first out.

`Process`: weak fairness of goroutines, tickers and calls, of the server and the
signal handler once they are told to stop, and of the actors of the group. Where a
`select` waits for both a tick and the end of the context, Go chooses one of those
that are ready at random, so that it takes the end at some time: strong fairness
of `TriggerReturns` and `PollReturns`. Nothing is assumed of interrupts, kills,
failures or retries; `calm` ends them, or never does.

## Proofs

`RolloutProofs` proves, for every set of plans and of names:

- `TypeCorrect`: `TypeOK` with `InGroup` (inside the loop's body `group` is a
  group of the plan; a plan is only replaced while no goroutine is there).
- `BarrierHolds`, `StepsBeginInOrder`, `NoGoroutineIsLeft`, `NilIsTruthful`: from
  `OrderInv`. None of them is inductive: that a step begins only after the
  earlier ones are settled needs that no step of a later group has begun
  (`BegunInv`), that every group behind Execute is settled (`PassedInv`), that a
  goroutine exists only for steps of the current parallel group, and one that is
  gone left "ok" or an error that is collected (`LiveInv`), and that "ok" means
  that every item was acted on (`OkInv`).
- `StatusStaysInSync`, `NilIsReported`: from `FeedbackInv`. The point is lemma
  `SkippedWrite`: when `updateStatus` skips a write because the conditions equal
  `oldStatus`, the stored status is equal too. It rests on `OldInv` (before its
  first write, an execution whose copy is fresh has the stored conditions in
  `oldStatus`) and on `ShapeInv` (a condition has the status of before or
  "Finished", so a list that differs from `oldStatus` once differs for good);
  `DoneInv` counts the groups that are reported.
- `FinishedIsTrue`, `FinishedStays`, `StatusIsUpdated`: action properties, from
  lemma `PublishedStep` (the stored conditions change in two ways only: what
  `Initialize` makes of them and what `SetCondition` makes of them, which is
  `WritesAreUpdates`) and `Uniform` (conditions of one name have one status,
  although groups may share a name). That a write with a fresh version has the
  stored conditions under it, although they were read when the execution began, is
  `FeedbackInv` again.
- `StepsCount` and `DueIsFinite`: a variant argument. `DueShrinks` says what a change
  of `pc`, `group`, `step`, `status`, `applied`, `errs` and `live` in the direction of
  the code does to the eleven sets; each action removes one element (the item that was
  acted on, the group that was left ...). As the sets are finite, an execution takes
  finitely many steps. Well-foundedness turns that into termination only with
  fairness, which stays with TLC (`Terminates`).
- `Implements`: `Rollout` implements `StagedRollout`. Initial states map to initial
  states (`StagedInit`) and every step to a step or a stutter (`StagedStep`).
  `CalledMayAct` is the point: a step that runs has everything before it passed, from
  `OrderInv`; `WalkInv` adds, for the results, that the place of the loop tells what
  became of the current step or group.

The only assumption is `PlansAssumption` (plans are sequences of groups). Each
theorem's property was checked by TLC first, and so were the inductive invariants.

`ObjectActionsProofs` proves, for every set of executions, objects, manifests,
values and plans, `TypeCorrect` and three action properties: `NoUpdateIsLost`,
`OwnedStays`, `UpsertIsEffective`. They rest on `IInv`:
between its `Get` and its `Update`, an execution whose resource version is still
the stored one has the stored object in its snapshot, and the rendered object has
what `Carry` took from it (`Prepared`). Other executions and the cluster only
ever turn "current" into "stale" (`Remembers`), so whoever does not act keeps its
invariant (`BystanderKeeps`); the API server accepts no stale version
(`OverwriteEffect`). `Implements` is the refinement of `AtomicActions`: lemmas
`EffectOfCall` and `EffectOfNothing` show that a call that is not refused, and a step
that needs none, have the abstract effect on the object as it is then, and
`AtomicStep` maps every action. Assumed are `PlansAssumption` (no empty plans),
`ValuesAssumption` (a value of the cluster is no marker for a missing one) and
`DisturbedAssumption`.

`ResourceTriggerProofs` proves, for every set of resources, objects and keys,
every configuration that satisfies `ConfigAssumption` and `OutputAssumption`, and
every bound: `TypeCorrect`, `ForgetsNothing`, `FinishedIsTruthful`,
`LeavesNoneBehind`, and `Implements`, the refinement of `Reconciler`. The inductive invariant `IInv` adds
to the types

- `QueueInv`: only the worker's key is in `processing`, and every dirty key that
  is not there is in `queue`. Without it, `Add` of a key that is dirty would lose
  it (lemmas `AddKeeps`, `GetKeeps`, `DoneKeeps`);
- `CacheInv`: an informer's copy has the content of the API server, unless it has
  a write to see;
- `StageInv`: the lists are complete where the rollout uses them, and what is
  reported is what was rolled out;
- `DebtInv`: `NothingForgotten` itself is not inductive, since it says nothing of
  an execution that will overwrite `rolledOut` with something stale. `Repeated`
  closes that: an execution in which something has become stale has its key
  pending.

`LeavesNoneBehind` (`NoneIsLeftBehind`) needs two invariants more:

- `CopiesInv`: when the last change of an object has been seen, the informer's copy
  is the object, status and all, or both are gone;
- `LeftInv`: of an object whose key nothing is pending for, and whose copy is
  therefore what is stored, the only thing that may be missing is what its own
  execution has still to write: the output until `RollOut`, the status until
  `Report`. An execution that ends early has its key pending; a write that others
  make stirs it (`Stirred`). That nothing pending gets lost unless the worker takes
  it is lemma `PendingStays`.

The lemmas on the queue and on the notifications say that nothing pending gets
lost by any operation; each action then has to pay for what it makes stale.
`NotOwedIsSettled` turns `CacheInv` and `DebtInv` into the abstract promise;
`AbsStep` maps a rollout to `Serve` and everything else to `Change`.

`SuccessCheckProofs` proves, for every set of values, all definitions and all times
of calls, the six properties of `check_polls`: `TypeCorrect`, `ChecksEnd`,
`SuccessSeen`, `FailureSeen`, `NoEarlyTimeout` and `SuccessIsTruthful`. None of the bounds is inductive;
the invariant says for each place what the clocks may show there:

- `TimersInv` ties timers to clocks: what is left of a timer and what has passed
  make up the timeout, and the last call of a condition begins after it.
- `TicksInv`: no ticker is further from its tick than the interval.
- `SeenInv`: while a poll waits, the time for which the object has matched and the
  time to the next tick are at most an interval and a round of calls (two of them
  in the outer poll); once a condition has read the object, it has either
  matched for no longer than these calls take, or the values show it. The inner
  poll runs only while the outer values do not match, which is why a change is
  enough to notice success.
- `KilledInv` says the same of failures, up to the first check that ends the poll.
- `EndsInv` follows the last call of each poll: `Called` is when an outer condition
  begins at the latest, before or after the end of its timer, and an inner poll
  adds a `Round`.
- `ShownInv`: between the read of an outer condition and its comparison, what was read
  and matches was shown no longer ago than the calls since have taken.

Lemma `Verdicts` lists what may follow when an object was read and was not as
expected, so that each part of the invariant has one case for each of these.
`BoundsAssumption` says that the clocks go as far as the timeouts.

`ProcessProofs` proves, for every set of flags, triggers, rows and results, the
invariants of `process` and one action property: `TypeCorrect`, `MapsAreThere`,
`ExitCodeIsTruthful`, `NoStopWithoutReason`, `CommittedRowsComeLast`,
`RunsHaveOneResult`, `ExecutionsAreAwaited`. The point is `MapsAreThere`: a trigger's own map is deleted
only by a finished run whose key is that trigger's name. No such run exists, as
`Scheduled` finds that name in the outer map and does not start one; so the inner
maps never have a key that is the name of a trigger (`MapsApart`), and the outer
map keeps all names. Each of the two mistakes makes up for the other. `RunsHaveOneResult` follows
from `AttemptsInv`: the rows that a goroutine has still to read, and the array of a
grouped trigger, are the two parts of one result; a retry begins both again.
`FlagsAssumption`, `ActorsAssumption`, `TriggerAssumption` and `SourceAssumption`
say what configurations look like.

`FieldComparisonProofs` proves `ComparisonsAreIndependent` for any number of
comparisons, any object and any query results: the map of paths that they share makes
no difference, unless a path is entered with two defaults (`OneDefault`). The
hypotheses are the shape of the configuration (`WellFormed`: a comparison has a path,
and a value or another path to compare with) and that an error is no truth value. The
definitions of `MCSuccessCheck` satisfy them, and TLC evaluates the operators there.

`SequenceFacts` has what the proofs need of sequences and the library does not state:
that a nonempty set of places has a last one, which the definitions that take "the
last entry" rest on.

Only model-checked:

- what needs fairness: `Terminates`, `Convergence` of `ObjectActions` and of
  `ResourceTrigger`, `StoppingEnds`, `RowsAreServed`. TLAPS has no rules for
  `ENABLED`. The safety part of two of them is proved: `StepsCount` with `DueIsFinite`
  for `Terminates`, `LeavesNoneBehind` for the `Convergence` of `ResourceTrigger`;
- the counterexamples;
- `KeyTransformation`, which folds over a sequence: what a fold computes for every
  input needs an induction that the installed provers cannot do.

## Findings

- `rollout_continue`: `continueOnError` of a step in a parallel group is never
  read (`rollout.go:139-145`).
- `actions_recreate`: `UpdateWithCurrent` leaves a resource version in the rendered
  object (`client.go:169`), so a plan that removes an object it has updated
  before, and makes it again, fails on every execution.
- `trigger_labels`: the informers' list functions capture the loop variable
  (`resource.go:84-105`), so all use the last resource's labels.
- `process_triggers`: the functions of the actors capture the loop variable
  (`cli.go:290-296`), so all run the last trigger.
- `source_retries`: the rows of an attempt that is rolled back stay in the result
  (`crdb.go:88-115`).

Observed while reading; the models have these as the code does, and nothing in the
repository says otherwise:

- The `drop` key transformation drops what does not match, as `keep` does
  (`handlers.go:65`).
- The database trigger mixes up its two maps (`database.go:140`, `:158`), never
  forgets finished runs, starts runs inside of a transaction that may be rolled
  back, and does not look at `rows.Err`.
- Two connections to CockroachDB panic, as does a source or a database trigger
  without a file of connections.
- At the end of a process, neither the worker of a resource trigger nor the runs
  of a database trigger are awaited; the signal handler is for SIGINT only.
- A change into what is expected that the inner poll sees in the outer poll's last
  call ends in a timeout (`success_check.go:148`). A reported failure is reported
  again by every condition, and the checks behind it do not run (`:176`). The
  comment at `:262` gives static values precedence over paths, the code does the
  opposite. Numbers of `static` and `default` are `float64` and never equal those of
  an object. `FieldComparisons.Failure` is never read (`types.go:50`).

## Not modelled

- Flags, metrics, logging, HTTP endpoints, the parsing of files and the creation of
  REST clients: I/O whose outcome is a failure or a configuration in `Process`.
- The evaluation of jsonnet (`render/jsonnet`) and the reading of manifests
  (`render/file`): computation of libraries on files. A renderer shows as a step
  that yields a plan or fails in `Rollout`, as lists that are read one after the
  other in `ResourceTrigger`, and as a source that is read in `Process`.
- Discovery in the client (`ClientFor`) only shows as a call that fails.
- `db/config.go`: the file and the drivers; `Connect` has what becomes of the names.
- The conversion of rows to JSON and of columns to keys (`source/crdb.go`,
  `trigger/database`): a row is a key and a value.
- Two steps of one parallel group that share a rendered object: a data race on Go
  maps.
- `feedback/deepcopy_generated.go` is generated code.

## Plan

What was built, the most important behaviour first: `Rollout` with `Feedback`;
`ObjectActions`; `ResourceTrigger` with `WorkQueue` and its refinement of
`Reconciler`; `SuccessCheck` with `FieldComparison`; `Process` with
`DatabaseTrigger` and `DatabaseSource`; `KeyTransformation`; their proofs; and the
refinements of `StagedRollout` and `AtomicActions`. Every invariant and every action
property of a passing run is proved.

What is left:

1. An abstract scheduler of the database trigger that `Process` implements, and
   with it a proof of the safety part of `RowsAreServed`.
2. An abstract run group (the first actor that returns ends all others, and the
   result is that actor's) that `Process` implements.
3. That the status writes of `Rollout` are those that `ResourceTrigger` abstracts:
   both are checked against the same code, but not against each other.
