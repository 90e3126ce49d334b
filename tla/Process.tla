------------------------------- MODULE Process -------------------------------
(***************************************************************************)
(* The process (cli/cli.go): Main connects to databases, makes the sources *)
(* and the configured triggers, and runs them in a run group, with the     *)
(* metrics server and the signal handler: the first actor that returns     *)
(* ends all.  The functions of the triggers' actors share the variable of  *)
(* the loop that adds them.                                                *)
(*                                                                         *)
(* The triggers are composed of DatabaseTrigger.tla, and of executions     *)
(* that render, reading from DatabaseSource.tla, and roll out.  What a     *)
(* rollout does is the subject of Rollout.tla, and what the worker of the  *)
(* resource trigger does that of ResourceTrigger.tla.                      *)
(***************************************************************************)
EXTENDS FiniteSets, DatabaseSource, DatabaseTrigger

CONSTANTS
  Flags,      \* the flags and configurations that processes are started with
  Database,   \* the connection that the source and the triggers name
  FileContent \* the payload of a configuration file

TriggerActors == Readers

\* `names` are the configured database triggers; `connects` tells whether there is
\* a file of connections, `source` and `file` whether there are a database source
\* and a configuration file.
ASSUME FlagsAssumption ==
  /\ IsFiniteSet(TriggerActors)
  /\ TriggerActors = 1 .. Cardinality(TriggerActors)
  /\ Calls = TriggerActors
  /\ FileContent \in Payload
  /\ \A f \in Flags :
       /\ DOMAIN f = {"oneOff", "resource", "interval", "database", "names",
                      "source", "connects", "connections", "file"}
       /\ {f.oneOff, f.resource, f.interval, f.database, f.source, f.connects, f.file}
            \subseteq BOOLEAN
       /\ f.names \subseteq Names

\* The trigger actors are numbered, and so are the others.
Nobody == 0
Server == Cardinality(TriggerActors) + 1
Signal == Cardinality(TriggerActors) + 2
Actors == TriggerActors \cup {Server, Signal}

VARIABLES
  flags,     \* the flags of the process
  phase,     \* what Main is doing
  exit,      \* how the last process ended
  triggers,  \* the configured triggers
  running,   \* the actors that have not returned
  first,     \* the actor that has returned first, and what
  execution, \* what each trigger's own goroutine is doing
  rolledOut, \* has a one-off execution succeeded?
  calm       \* have others, and failures, come to an end?

mainVars == <<flags, phase, exit, triggers, running, first, rolledOut>>
vars == <<mainVars, execution, calm, sourceVars, triggerVars>>

Kinds == {"resource", "interval", "database", "one-off"}

NoFirst == [actor |-> Nobody, result |-> "nil"]

\* The types; and nobody has collected rows who does not execute.
TypeOK ==
  /\ SourceTypeOK
  /\ TriggerTypeOK
  /\ flags \in Flags
  /\ phase \in {"stopped", "running", "stopping"}
  /\ exit \in {"none", "0", "1", "killed", "panic", "nil map", "map race"}
  /\ triggers \in Seq(Kinds)
  /\ running \subseteq Actors
  /\ first \in [actor : Actors \cup {Nobody}, result : {"nil", "error"}]
  /\ execution \in [TriggerActors -> {"none", "render", "roll out"}]
  /\ rolledOut \in BOOLEAN
  /\ calm \in BOOLEAN
  /\ \A e \in Readers : execution[e] = "none" => res[e] = << >> /\ isRead[e] = << >>

Init ==
  /\ SourceInit
  /\ TriggerInit
  /\ flags \in Flags
  /\ phase = "stopped"
  /\ exit = "none"
  /\ triggers = << >>
  /\ running = {}
  /\ first = NoFirst
  /\ execution = [a \in TriggerActors |-> "none"]
  /\ rolledOut = FALSE
  /\ calm = FALSE

Up == phase # "stopped"

\* The contexts are done as soon as the first actor has returned: the group
\* interrupts all others at once.
Cancelled == phase = "stopping"

-----------------------------------------------------------------------------
(***************************************************************************)
(* Main, up to the run group.                                              *)
(***************************************************************************)

\* What FromFile does with the configured connections.  Names must be unique;
\* each client registers the same metric, which panics the second time.
Connect(connections) ==
  IF \E i, j \in 1 .. Len(connections) : i # j /\ connections[i] = connections[j]
  THEN "1"
  ELSE IF Len(connections) > 1 THEN "panic" ELSE "none"

Connected ==
  flags.connects /\ \E i \in 1 .. Len(flags.connections) : flags.connections[i] = Database

If(condition, kind) == IF condition THEN << kind >> ELSE << >>

\* The triggers that the flags ask for; a one-off trigger replaces them.
Configured(f) ==
  IF f.oneOff THEN << "one-off" >>
  ELSE If(f.resource, "resource") \o If(f.interval, "interval") \o If(f.database, "database")

ASSUME ActorsAssumption == \A f \in Flags : DOMAIN Configured(f) \subseteq TriggerActors

\* How Main ends before the run group, if it does.
Setup ==
  IF flags.connects /\ Connect(flags.connections) # "none" THEN Connect(flags.connections)
  ELSE IF flags.source /\ ~flags.connects THEN "panic"
  ELSE IF (flags.source /\ ~Connected) \/ Configured(flags) = << >> THEN "1"
  ELSE "none"

\* The trigger that an actor runs: the loop is over when its function reads the
\* variable of the loop.
RunBy(a, ts) == ts[Len(ts)]

Runner(a) == RunBy(a, triggers)

Exits(how) ==
  /\ phase' = "stopped"
  /\ exit' = how
  /\ running' = {}
  /\ execution' = [a \in TriggerActors |-> "none"]
  /\ res' = [e \in Readers |-> << >>]
  /\ isRead' = [e \in Readers |-> << >>]
  /\ LoseTriggers
  /\ UNCHANGED <<flags, triggers, first, rolledOut, calm, table>>

SetupFails ==
  /\ phase = "stopped"
  /\ \/ Setup # "none" /\ exit' = Setup
     \/ ~calm /\ exit' = "1"
  /\ UNCHANGED <<flags, phase, triggers, running, first, rolledOut, execution, calm,
                 sourceVars, triggerVars>>

\* The run group starts its actors.  The worker of a resource trigger, and a
\* one-off trigger, begin at once.
Start ==
  /\ phase = "stopped"
  /\ Setup = "none"
  /\ phase' = "running"
  /\ triggers' = Configured(flags)
  /\ running' = {Server, Signal} \cup DOMAIN triggers'
  /\ first' = NoFirst
  /\ rolledOut' = FALSE
  /\ execution' = [a \in TriggerActors |->
                     IF a \in DOMAIN triggers' /\ RunBy(a, triggers') = "one-off"
                     THEN "render" ELSE "none"]
  /\ StartTriggers(flags.names,
                   {a \in DOMAIN triggers' : RunBy(a, triggers') = "database"})
  /\ exit' = "none"
  /\ UNCHANGED <<flags, calm, sourceVars>>

-----------------------------------------------------------------------------
(***************************************************************************)
(* The run group.                                                          *)
(***************************************************************************)

\* Mutant of FirstOf: the actor that returns last decides.
LastOf(a, r) == [actor |-> a, result |-> r]

\* What the group returns, once an actor has returned.
FirstOf(a, r) == IF Cancelled THEN first ELSE [actor |-> a, result |-> r]

Return(a, r) ==
  /\ a \in running
  /\ running' = running \ {a}
  /\ phase' = "stopping"
  /\ first' = FirstOf(a, r)
  /\ UNCHANGED <<flags, exit, triggers>>

\* Serve returns after an error, and when the listener is closed.
ServerReturns ==
  /\ Cancelled \/ ~calm
  /\ Return(Server, "error")
  /\ UNCHANGED <<rolledOut, execution, calm, sourceVars, triggerVars>>

\* An interrupt was received, or the context is done.
SignalReturns ==
  /\ Cancelled \/ ~calm
  /\ Return(Signal, "error")
  /\ UNCHANGED <<rolledOut, execution, calm, sourceVars, triggerVars>>

\* Mutant of Awaited: the group does not wait for the other actors.
AwaitedNever == TRUE

Awaited == running = {}

GroupReturns ==
  /\ phase = "stopping"
  /\ Awaited
  /\ Exits(IF first.result = "nil" THEN "0" ELSE "1")

-----------------------------------------------------------------------------
(***************************************************************************)
(* The triggers' actors.                                                   *)
(***************************************************************************)

Idle(a) == a \in running /\ execution[a] = "none"

\* The contexts of an interval and of a resource trigger are done.
TriggerReturns(a) ==
  /\ Cancelled
  /\ \/ Idle(a) /\ Runner(a) = "interval"
     \/ a \in running /\ Runner(a) = "resource"
  /\ Return(a, "nil")
  /\ UNCHANGED <<rolledOut, execution, calm, sourceVars, triggerVars>>

\* All goroutines of the database triggers have returned, if there are any.
DatabaseReturns(a) ==
  /\ a \in running
  /\ Runner(a) = "database"
  /\ \A t \in Names : poll[<<a, t>>] = "off"
  /\ Return(a, "nil")
  /\ UNCHANGED <<rolledOut, execution, calm, sourceVars, triggerVars>>

\* The interval is over, or the worker of a resource trigger has a key to work
\* on; nobody waits for that worker.
Executes(a) ==
  /\ Up
  /\ execution[a] = "none"
  /\ a \in DOMAIN triggers
  /\ \/ Runner(a) = "interval" /\ a \in running
     \/ Runner(a) = "resource"
  /\ execution' = [execution EXCEPT ![a] = "render"]
  /\ UNCHANGED <<mainVars, calm, sourceVars, triggerVars>>

Render(a) ==
  /\ execution[a] = "render"
  /\ execution' = [execution EXCEPT ![a] = "roll out"]
  /\ IF flags.source THEN AttemptCommits(a) ELSE UNCHANGED sourceVars
  /\ UNCHANGED <<mainVars, calm, triggerVars>>

RenderAgain(a) ==
  /\ ~calm /\ ~Cancelled
  /\ execution[a] = "render"
  /\ flags.source
  /\ AttemptIsRetried(a)
  /\ UNCHANGED <<mainVars, execution, calm, triggerVars>>

\* Mutant of EndsBy: the loop of an interval trigger ends with an error.
EndsByError(a, r) == Runner(a) = "one-off" \/ (Runner(a) = "interval" /\ r = "error")

\* A one-off trigger returns what its execution returns; the others log errors.
EndsBy(a, r) == Runner(a) = "one-off"

ExecutionEnds(a, r) ==
  /\ execution' = [execution EXCEPT ![a] = "none"]
  /\ IF a \in running /\ EndsBy(a, r) THEN Return(a, r)
     ELSE UNCHANGED <<flags, phase, exit, triggers, running, first>>
  /\ CloseSource(a)
  /\ UNCHANGED <<calm, triggerVars>>

RolloutSucceeds(a) ==
  /\ execution[a] = "roll out"
  /\ rolledOut' = (rolledOut \/ Runner(a) = "one-off")
  /\ ExecutionEnds(a, "nil")

ExecutionFails(a) ==
  /\ Cancelled \/ ~calm
  /\ execution[a] # "none"
  /\ UNCHANGED rolledOut
  /\ ExecutionEnds(a, "error")

-----------------------------------------------------------------------------
(***************************************************************************)
(* The database triggers and their runs.                                   *)
(***************************************************************************)

restVars == <<mainVars, execution, calm, sourceVars>>

\* The database is there, and so is the connection that the trigger names.
PollSteps(p) ==
  /\ \/ flags.connects /\ Check(p, Connected)
     \/ NextRow(p)
     \/ LastRow(p)
     \/ Commit(p)
     \/ (Cancelled \/ ~calm) /\ Fails(p)
  /\ UNCHANGED restVars

Ticks(p) == Tick(p) /\ UNCHANGED restVars

PollBreaks(p) ==
  /\ ~calm /\ ~Cancelled
  /\ RowsBreak(p) \/ Retry(p)
  /\ UNCHANGED restVars

\* Mutant of PollReturns: the goroutine does not look at its context.
PollNeverReturns(p) == FALSE

PollReturns(p) == Cancelled /\ PollerReturns(p) /\ UNCHANGED restVars

\* FileConfigPasser: a configuration file takes the place of the payload.
ReadConfig(payload) == IF flags.file THEN FileContent ELSE payload

RunEnds(r) ==
  /\ \/ RunSucceeds(r, ReadConfig(run[r].payload))
     \/ (Cancelled \/ ~calm) /\ RunFails(r)
  /\ UNCHANGED restVars

-----------------------------------------------------------------------------
(***************************************************************************)
(* The ends of a process that nobody asked for, and its surroundings.      *)
(***************************************************************************)

\* What makes a goroutine panic: the triggers have no connections at all, or it
\* writes into a map that is not there.
Nils(how) ==
  \E p \in Pollers :
    IF how = "panic" THEN ~flags.connects /\ poll[p] = "check" ELSE Panics(p)

PanicsOnNil == \E how \in {"panic", "nil map"} : Nils(how) /\ Exits(how)

\* The runtime may notice a race, and then ends the process; it may also not.
NoticesRace == (\E p, q \in Pollers : Race(p, q)) /\ Exits("map race")

Killed == ~calm /\ Up /\ Exits("killed")

Others ==
  /\ ~calm
  /\ \/ \E rows \in Tables : flags.source /\ TableChanges(rows) /\ UNCHANGED triggerVars
     \/ \E t \in flags.names, rows \in Results :
          ResultChanges(t, rows) /\ UNCHANGED sourceVars
  /\ UNCHANGED <<mainVars, execution, calm>>

CalmDown ==
  /\ ~calm
  /\ calm' = TRUE
  /\ UNCHANGED <<mainVars, execution, sourceVars, triggerVars>>

ExecutionSteps(a) == Render(a) \/ RolloutSucceeds(a) \/ ExecutionFails(a)

Next ==
  \/ SetupFails \/ Start
  \/ ServerReturns \/ SignalReturns \/ GroupReturns
  \/ \E a \in TriggerActors :
       \/ TriggerReturns(a) \/ DatabaseReturns(a)
       \/ Executes(a) \/ RenderAgain(a) \/ ExecutionSteps(a)
  \/ \E p \in Pollers : Ticks(p) \/ PollSteps(p) \/ PollBreaks(p) \/ PollReturns(p)
  \/ \E r \in Runs : RunEnds(r)
  \/ PanicsOnNil \/ NoticesRace \/ Killed
  \/ Others \/ CalmDown

Spec == Init /\ [][Next]_vars

\* Goroutines run, calls return and tickers tick.  When a select finds both a
\* tick and the end of the context, it takes either at random, and so not always
\* the tick.
Fairness ==
  /\ WF_vars(ServerReturns \/ SignalReturns \/ GroupReturns)
  /\ SF_vars(\E a \in TriggerActors : TriggerReturns(a))
  /\ \A a \in TriggerActors : WF_vars(ExecutionSteps(a))
  /\ WF_vars(\E a \in TriggerActors : DatabaseReturns(a))
  /\ \A p \in Pollers : WF_vars(Ticks(p) \/ PollSteps(p))
  /\ SF_vars(\E p \in Pollers : PollReturns(p))
  /\ \A r \in Runs : WF_vars(RunEnds(r))
  /\ WF_vars(PanicsOnNil)

FairSpec == Spec /\ Fairness

-----------------------------------------------------------------------------
(***************************************************************************)
(* Properties.                                                             *)
(***************************************************************************)

\* ScheduleTriggerRun never writes into a map that is nil, although finished
\* runs are deleted from the map of triggers by their own keys, which may be
\* names of triggers: the lookup in the same wrong map spares those names
\* (database.go:140, 158, 165).
NeverNilMap == exit # "nil map"

\* What one result of its query lets a trigger run: a row, by its key, or an array
\* of the first rows.
RunsOf(t, rows) ==
  IF t \in Grouped
  THEN {[trigger |-> t, key |-> EmptyKey, payload |-> SubSeq(rows, 1, n)] :
          n \in 0 .. Len(rows)}
  ELSE {[trigger |-> t, key |-> rows[i].key, payload |-> << rows[i] >>] :
          i \in 1 .. Len(rows)}

\* Every run works on rows of one result of its trigger's query: however often a
\* transaction is retried after it has yielded some, no array has rows of two of
\* its attempts, or a row twice, or leaves one out before another
\* (database.go:187, 221-233).
RunsAreOfOneResult ==
  \A r \in Runs :
    ~Done(r) => \E rows \in Results : run[r] \in RunsOf(run[r].trigger, rows)

\* A process ends with 0 only when its one-off execution was rolled out, or when
\* there was no database trigger to wait for; whatever returns after that, and
\* in which order (cli.go:317).
ExitIsTruthful ==
  exit = "0" =>
    \/ flags.oneOff /\ rolledOut
    \/ flags.database /\ flags.names = {}

\* A process that is to run for long stops only when it is told to, when its
\* server fails, or when it has no database trigger to wait for: no execution
\* that fails ends it (interval.go:34).
StopsForAReason ==
  Cancelled => \/ first.actor \in {Server, Signal}
               \/ flags.oneOff
               \/ flags.database /\ flags.names = {}

\* A process that stops waits for executions of interval and one-off triggers,
\* and for the transactions of database triggers (cli.go:297-309).
StopsBetweenExecutions ==
  [][ Cancelled /\ exit' \in {"0", "1"} /\ phase' = "stopped" =>
        /\ \A a \in DOMAIN triggers : execution[a] # "none" => Runner(a) = "resource"
        /\ \A p \in Pollers : poll[p] \notin InTransaction ]_vars

\* What is rendered contains the result of the transaction that was committed,
\* as its last rows; whatever attempts were retried before it (crdb.go:88-116).
CommittedRowsAreLast ==
  \A e \in Readers :
    execution[e] = "roll out" =>
      /\ Len(res[e]) >= Len(isRead[e])
      /\ SubSeq(res[e], Len(res[e]) - Len(isRead[e]) + 1, Len(res[e])) = isRead[e]

\* A process that stops comes to an end, if its executions do.
StoppingEnds == Cancelled ~> ~Up

\* The key of one row of the result only, which is the name of no trigger.
Runs1(t, i) ==
  /\ \A j \in 1 .. Len(result[t]) : result[t][j].key = result[t][i].key => j = i
  /\ result[t][i].key \notin flags.names

\* What has to be rolled out for a trigger, has been last.
IsServed(t) ==
  IF t \in Grouped
  THEN EmptyKey \notin flags.names => served[t][EmptyKey] = result[t]
  ELSE \A i \in 1 .. Len(result[t]) :
         Runs1(t, i) => served[t][result[t][i].key] = << result[t][i] >>

RunsDatabaseTriggers ==
  /\ phase = "running"
  /\ Connected
  /\ ~flags.file
  /\ \E a \in DOMAIN triggers : Runner(a) = "database"

\* When the database is calm and the process stays up, every row is rolled out
\* in the end, and what was started for older rows does not undo that; without
\* that a finished run is ever forgotten, or one waited for (database.go:157-168).
RowsAreServed ==
  <>[](calm /\ RunsDatabaseTriggers) => <>[](\A t \in flags.names : IsServed(t))

\* What the query of a source returns is the result of the query.
SourceReturnsResult ==
  \A e \in Readers : execution[e] = "roll out" => res[e] = isRead[e]

\* Every configured trigger is run.
EveryTriggerRuns ==
  phase = "running" =>
    \A i \in DOMAIN triggers : \E a \in DOMAIN triggers : Runner(a) = triggers[i]

=============================================================================
