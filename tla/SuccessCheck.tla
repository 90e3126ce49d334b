----------------------------- MODULE SuccessCheck ----------------------------
(***************************************************************************)
(* The success checks of a step (rollout/checks): for each definition of   *)
(* the step, the object is polled until its fields compare as expected.    *)
(* The condition of that outer poll contains an inner poll that waits for  *)
(* any of the fields to change, so that two timeouts apply: one to the     *)
(* whole check, one to the time without progress.  Failure checks run in   *)
(* both, one after the other, and timeouts and failures may be reported to *)
(* a database.  A failure that is reported is no failure any more.         *)
(*                                                                         *)
(* Time is discrete.  It passes while a poll waits and while calls take    *)
(* their time; the goroutines themselves take none.  What the fields of an *)
(* object have to show is the subject of FieldComparison.tla.              *)
(***************************************************************************)
EXTENDS Naturals, Sequences

CONSTANTS
  Definitions, \* the sequences of success definitions that steps may have
  Values,      \* what the paths of a definition may show of the object
  MaxCall,     \* bound on the time that the calls of a condition take
  MaxTime      \* bound on the clocks that only properties look at

\* A check for pods that were killed, with a report or without; one that is not
\* known, or not meant for this kind of object.
FailureChecks == {"reported", "unreported", "unknown"}

\* A success definition: `expected` are the values with which all of its field
\* comparisons succeed; `reportTimeout` tells whether there is a report.
Definition == [interval : Nat \ {0}, timeout : Nat, progress : Nat,
               expected : SUBSET Values, failure : Seq(FailureChecks),
               reportTimeout : BOOLEAN]

\* A poll with an interval of 0 panics.
ASSUME DefinitionsAssumption == Definitions \subseteq Seq(Definition)

\* A clock that has stopped shows no less than a timeout.
ASSUME BoundsAssumption ==
  /\ MaxCall \in Nat /\ MaxTime \in Nat
  /\ \A ds \in Definitions : \A i \in DOMAIN ds :
       ds[i].timeout <= MaxTime /\ ds[i].progress <= MaxTime

Levels == {"outer", "inner"}

VARIABLES
  defs,     \* the definitions that are checked
  index,    \* the position of the current one
  result,   \* what RunChecks has returned
  stage,    \* where it is
  level,    \* the poll that waits, or whose condition runs
  values,   \* the values that each condition has read last
  tick,     \* the time to the next tick of each poll's ticker
  left,     \* the time to the end of each poll's timer, if it has one
  open,     \* did a tick, not the end, make the last call of each condition?
  check,    \* the position of the failure check that runs
  spent,    \* the time that the calls of the current condition have taken
  shown,    \* what the object shows
  killed,   \* do its pods show that one was killed?
  lapsed,   \* the time since it has last shown what is expected
  elapsed,  \* the time since the definition is checked
  matching, \* the time for which the object has shown what is expected
  failing,  \* the time for which its pods have shown that one was killed
  quiet     \* the time since the outer condition has read values

runVars  == <<defs, index, result>>
pollVars == <<tick, left, open>>
objVars  == <<shown, killed, lapsed>>
clocks   == <<elapsed, matching, failing, quiet>>
callVars == <<values, check, spent>>
vars == <<runVars, stage, level, pollVars, callVars, objVars, clocks>>

ConditionCalls == {"get", "compare", "failure", "report-failure"}
Calls == ConditionCalls \cup {"report-timeout"}

def == defs[index]

Checking == stage \in Calls \cup {"wait"}

TypeOK ==
  /\ defs \in Seq(Definition)
  /\ index \in 1 .. Len(defs) + 1
  /\ result \in {"none", "nil", "timeout", "failure", "error"}
  /\ stage \in Calls \cup {"wait", "idle", "begin"}
  /\ Checking => index <= Len(defs)
  /\ level \in Levels
  /\ values \in [Levels -> Values]
  /\ tick \in [Levels -> Nat]
  /\ left \in [Levels -> Nat]
  /\ open \in [Levels -> BOOLEAN]
  /\ check \in Nat
  /\ stage \in {"failure", "report-failure"} => check \in DOMAIN def.failure
  /\ spent \in 0 .. MaxCall
  /\ shown \in Values
  /\ killed \in BOOLEAN
  /\ lapsed \in 0 .. MaxCall + 1
  /\ elapsed \in 0 .. MaxTime
  /\ matching \in 0 .. MaxTime
  /\ failing \in 0 .. MaxTime
  /\ quiet \in 0 .. MaxTime

Init ==
  /\ defs = << >>
  /\ index = 1
  /\ result = "none"
  /\ stage = "idle"
  /\ level = "outer"
  /\ shown \in Values
  /\ killed \in BOOLEAN
  /\ lapsed = MaxCall + 1
  /\ values = [l \in Levels |-> shown]
  /\ tick = [l \in Levels |-> 0]
  /\ left = [l \in Levels |-> 0]
  /\ open = [l \in Levels |-> TRUE]
  /\ check = 1
  /\ spent = 0
  /\ elapsed = 0
  /\ matching = 0
  /\ failing = 0
  /\ quiet = 0

-----------------------------------------------------------------------------
(***************************************************************************)
(* wait.Poll of apimachinery: a goroutine forwards the ticks of a ticker   *)
(* over a channel, and closes it when its timer ends.                      *)
(***************************************************************************)

\* Mutant of Limit: the timeouts are swapped.
LimitSwapped(l) == IF l = "outer" THEN def.progress ELSE def.timeout

\* A timeout of 0 means that there is none.
Limit(l) == IF l = "outer" THEN def.timeout ELSE def.progress

Closed(l) == Limit(l) # 0 /\ left[l] = 0

\* The polls that have begun and not ended.
Active == IF ~Checking THEN {} ELSE IF level = "inner" THEN Levels ELSE {"outer"}

Waiting(l) == stage = "wait" /\ level = l

StartPoll(l) ==
  /\ stage' = "wait"
  /\ level' = l
  /\ tick' = [tick EXCEPT ![l] = def.interval]
  /\ left' = [left EXCEPT ![l] = Limit(l)]
  /\ open' = [open EXCEPT ![l] = TRUE]

\* A tick that finds the condition running is dropped.
DropTick(l) ==
  /\ l \in Active
  /\ ~Waiting(l)
  /\ tick[l] = 0
  /\ tick' = [tick EXCEPT ![l] = def.interval]
  /\ UNCHANGED <<runVars, stage, level, left, open, callVars, objVars, clocks>>

StartGet ==
  /\ stage' = "get"
  /\ spent' = 0
  /\ UNCHANGED <<runVars, level, left, values, check, objVars, clocks>>

CallCondition ==
  /\ stage = "wait"
  /\ tick[level] = 0
  /\ tick' = [tick EXCEPT ![level] = def.interval]
  /\ open' = [open EXCEPT ![level] = TRUE]
  /\ StartGet

\* The channel is closed: the condition is called a last time.
LastCallOfCondition ==
  /\ stage = "wait"
  /\ Closed(level)
  /\ open' = [open EXCEPT ![level] = FALSE]
  /\ UNCHANGED tick
  /\ StartGet

-----------------------------------------------------------------------------
(***************************************************************************)
(* RunChecks, and Execute of each definition.                              *)
(***************************************************************************)

\* Mutant of RunChecks: the checks of the next step go on where the last ones
\* have ended.
RunChecksGoOn(ds) ==
  /\ stage = "idle"
  /\ stage' = "begin"
  /\ defs' = ds
  /\ result' = "none"
  /\ UNCHANGED <<index, level, pollVars, callVars, objVars, clocks>>

\* A step of a rollout was applied.
RunChecks(ds) ==
  /\ stage = "idle"
  /\ stage' = "begin"
  /\ defs' = ds
  /\ index' = 1
  /\ result' = "none"
  /\ UNCHANGED <<level, pollVars, callVars, objVars, clocks>>

\* Execute has returned: its polls, and what they have read, are gone.
Over ==
  /\ level' = "outer"
  /\ values' = [l \in Levels |-> shown]
  /\ tick' = [l \in Levels |-> 0]
  /\ left' = [l \in Levels |-> 0]
  /\ open' = [l \in Levels |-> TRUE]
  /\ check' = 1
  /\ spent' = 0
  /\ elapsed' = 0
  /\ matching' = 0
  /\ failing' = 0
  /\ quiet' = 0

Return(r) ==
  /\ stage' = "idle"
  /\ result' = r
  /\ UNCHANGED <<defs, index>>
  /\ Over

AllSucceeded ==
  /\ stage = "begin"
  /\ index > Len(defs)
  /\ Return("nil")
  /\ UNCHANGED objVars

\* The runner of the definition is made, and its outer poll begins.
Begin ==
  /\ stage = "begin"
  /\ index <= Len(defs)
  /\ StartPoll("outer")
  /\ lapsed' = IF shown \in def.expected THEN 0 ELSE MaxCall + 1
  /\ UNCHANGED <<runVars, callVars, shown, killed, clocks>>

\* Execute returned nil.
Succeed ==
  /\ stage' = "begin"
  /\ index' = index + 1
  /\ UNCHANGED <<defs, result>>
  /\ Over

\* Something returns an error: a path that does not parse or does not lead to
\* one value, a call, a failure check that is not known, a report.
Fails ==
  /\ \/ stage = "begin" /\ index <= Len(defs)
     \/ stage \in Calls
  /\ Return("error")
  /\ UNCHANGED objVars

\* Mutant of TimedOut: the error of wait.Poll is dropped.
TimedOutDropped ==
  IF def.reportTimeout
  THEN /\ stage' = "report-timeout"
       /\ spent' = 0
       /\ UNCHANGED <<runVars, level, pollVars, values, check, clocks>>
  ELSE Succeed

\* A poll has timed out.
TimedOut ==
  IF def.reportTimeout
  THEN /\ stage' = "report-timeout"
       /\ spent' = 0
       /\ UNCHANGED <<runVars, level, pollVars, values, check, clocks>>
  ELSE Return("timeout")

\* The inner poll waits for its next tick.
WaitInner ==
  /\ stage' = "wait"
  /\ UNCHANGED <<runVars, level, pollVars, callVars, clocks>>

\* The inner poll is over, and the outer one waits for its next tick.
WaitOuter ==
  /\ stage' = "wait"
  /\ level' = "outer"
  /\ tick' = [tick EXCEPT !["inner"] = 0]
  /\ left' = [left EXCEPT !["inner"] = 0]
  /\ open' = [open EXCEPT !["inner"] = TRUE]
  /\ UNCHANGED <<runVars, callVars, clocks>>

\* The inner poll has returned nil, and the outer condition FALSE.
OuterAgain == IF open["outer"] THEN WaitOuter ELSE TimedOut

\* Mutant of HasChanged: the value that the object shows by now is compared.
HasChangedSince == values["inner"] # shown

HasChanged == values["inner"] # values["outer"]

\* Mutant of InnerAgain: the end of the inner poll is not the end of the check.
InnerAgainAlways == IF HasChanged THEN OuterAgain ELSE WaitInner

\* The inner poll waits for a change; the outer condition returns its timeout.
InnerAgain ==
  IF HasChanged THEN OuterAgain
  ELSE IF open["inner"] THEN WaitInner ELSE TimedOut

\* The API server reads the object.
Get ==
  /\ stage = "get"
  /\ stage' = "compare"
  /\ values' = IF level = "outer" THEN [l \in Levels |-> shown]
                ELSE [values EXCEPT !["inner"] = shown]
  /\ quiet' = IF level = "outer" THEN 0 ELSE quiet
  /\ UNCHANGED <<runVars, level, pollVars, check, spent, objVars, elapsed, matching, failing>>

\* Both conditions compare the values that the outer one has read.
Succeeded == values["outer"] \in def.expected

\* No failure check fails, or the failure is reported.
NotFailed ==
  IF level = "outer" THEN StartPoll("inner") /\ UNCHANGED <<runVars, callVars, clocks>>
  ELSE InnerAgain

\* Mutant of FailsFrom: only the condition of the outer poll runs failure checks.
FailsFromOuter(i) ==
  IF i \notin DOMAIN def.failure \/ level = "inner" THEN NotFailed
  ELSE /\ stage' = "failure"
       /\ check' = i
       /\ UNCHANGED <<runVars, level, pollVars, values, spent, clocks>>

\* checkFailed runs the failure checks from position `i` on.
FailsFrom(i) ==
  IF i \notin DOMAIN def.failure THEN NotFailed
  ELSE /\ stage' = "failure"
       /\ check' = i
       /\ UNCHANGED <<runVars, level, pollVars, values, spent, clocks>>

\* The response is there, and its fields are compared.
Compare ==
  /\ stage = "compare"
  /\ IF Succeeded
     THEN IF level = "outer" THEN Succeed ELSE OuterAgain
     ELSE FailsFrom(1)
  /\ UNCHANGED objVars

FailureCheckPasses ==
  /\ stage = "failure"
  /\ def.failure[check] # "unknown"
  /\ ~killed
  /\ FailsFrom(check + 1)
  /\ UNCHANGED objVars

FailureCheckFails ==
  /\ stage = "failure"
  /\ def.failure[check] # "unknown"
  /\ killed
  /\ IF def.failure[check] = "reported"
     THEN stage' = "report-failure" /\ UNCHANGED <<runVars, level, pollVars, callVars, clocks>>
     ELSE Return("failure")
  /\ UNCHANGED objVars

\* The checks that come after one whose failure is reported do not run.
FailureIsReported ==
  /\ stage = "report-failure"
  /\ NotFailed
  /\ UNCHANGED objVars

\* A timeout that is reported is no error.
TimeoutIsReported ==
  /\ stage = "report-timeout"
  /\ Succeed
  /\ UNCHANGED objVars

-----------------------------------------------------------------------------
(***************************************************************************)
(* The object, and time.                                                   *)
(***************************************************************************)

Matches(v) == Checking /\ v \in def.expected

ObjectChanges(v) ==
  /\ v # shown
  /\ shown' = v
  /\ lapsed' = IF Matches(v) THEN 0 ELSE lapsed
  /\ matching' = IF Matches(v) THEN matching ELSE 0
  /\ UNCHANGED <<runVars, stage, level, pollVars, callVars, killed, elapsed,
                 failing, quiet>>

\* A container is killed, or started again; who has no failure checks does not
\* look at it.
PodsChange ==
  /\ Checking /\ def.failure # << >>
  /\ killed' = ~killed
  /\ failing' = 0
  /\ UNCHANGED <<runVars, stage, level, pollVars, callVars, shown, lapsed, elapsed,
                 matching, quiet>>

Later(t) == IF t < MaxTime THEN t + 1 ELSE t

\* Nobody waits for what is there.  The ticker of a poll stops with its timer.
Elapse ==
  /\ Checking
  /\ \A l \in Active : tick[l] > 0
  /\ IF stage = "wait" THEN ~Closed(level) /\ UNCHANGED spent
                       ELSE spent < MaxCall /\ spent' = spent + 1
  /\ tick' = [l \in Levels |->
                IF l \in Active /\ ~Closed(l) THEN tick[l] - 1 ELSE tick[l]]
  /\ left' = [l \in Levels |->
                IF l \in Active /\ left[l] > 0 THEN left[l] - 1 ELSE left[l]]
  /\ lapsed' = IF Matches(shown) THEN 0 ELSE IF lapsed > MaxCall THEN lapsed ELSE lapsed + 1
  /\ elapsed' = Later(elapsed)
  /\ matching' = IF Matches(shown) THEN Later(matching) ELSE 0
  /\ failing' = IF killed /\ def.failure # << >> THEN Later(failing) ELSE 0
  /\ quiet' = Later(quiet)
  /\ UNCHANGED <<runVars, stage, level, open, values, check, shown, killed>>

Next ==
  \/ \E ds \in Definitions : RunChecks(ds)
  \/ AllSucceeded
  \/ Begin
  \/ \E l \in Levels : DropTick(l)
  \/ CallCondition
  \/ LastCallOfCondition
  \/ Get
  \/ Compare
  \/ FailureCheckPasses
  \/ FailureCheckFails
  \/ FailureIsReported
  \/ TimeoutIsReported
  \/ Fails
  \/ \E v \in Values : ObjectChanges(v)
  \/ PodsChange
  \/ Elapse

Spec == Init /\ [][Next]_vars

-----------------------------------------------------------------------------
(***************************************************************************)
(* Properties.                                                             *)
(***************************************************************************)

\* A check with both timeouts ends.  It may exceed its timeout by two inner
\* polls: one that had begun before the end, and the one in the last call of
\* the condition (success_check.go:103-148).
EndsInTime ==
  Checking /\ def.timeout # 0 /\ def.progress # 0 =>
    elapsed <= def.timeout + 2 * (def.progress + 3 * MaxCall) + MaxCall

\* An object that has come to show what is expected, and goes on to, is
\* noticed soon: although the inner condition only looks for changes, and
\* ticks are dropped meanwhile (success_check.go:122-147).
SuccessIsNoticed ==
  stage \in ConditionCalls \cup {"wait"} =>
    matching <= 2 * (def.interval + MaxCall) + MaxCall

\* A failure that lasts, and that no report excuses, ends the check soon, also
\* while it waits for a change (success_check.go:121, 144, 161).
FailureIsNoticed ==
  /\ stage \in ConditionCalls \cup {"wait"}
  /\ def.failure # << >> /\ def.failure[1] = "unreported"
  => failing <= def.interval + 2 * MaxCall

\* The check gives up no earlier than its timeout, or after no change was seen
\* for the time that progress may take.
GivesUpLate ==
  [][ stage' = "report-timeout" \/ (result' = "timeout" /\ result # "timeout") =>
        stage = "report-timeout"
        \/ (def.timeout # 0 /\ elapsed >= def.timeout)
        \/ (def.progress # 0 /\ quiet >= def.progress
              /\ values["inner"] = values["outer"]) ]_vars

\* A definition counts as met only if the object itself has shown what it expects
\* since the check has begun, and no longer ago than the calls of one condition
\* take, or if its timeout is reported; whatever the polls keep of earlier values
\* (success_check.go:103-153).
SuccessWasShown ==
  [][ index' = index + 1 => stage = "report-timeout" \/ lapsed <= MaxCall ]_vars

=============================================================================
