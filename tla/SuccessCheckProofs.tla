-------------------------- MODULE SuccessCheckProofs -------------------------
(***************************************************************************)
(* Theorems about SuccessCheck.tla, for all definitions, values and times. *)
(***************************************************************************)
EXTENDS SuccessCheck, SequenceTheorems, TLAPS

-----------------------------------------------------------------------------
(***************************************************************************)
(* The invariants: what each clock is bounded by.                          *)
(***************************************************************************)

Chosen == defs \in Definitions \cup {<< >>}

Rest == ~Checking => elapsed = 0 /\ matching = 0 /\ failing = 0

Running == stage \in ConditionCalls \cup {"wait"}

\* The timers and the clocks show the same time.
TimersInv ==
  Checking =>
    /\ def.timeout # 0 => left["outer"] + elapsed >= def.timeout
    /\ ~open["outer"] => def.timeout # 0 /\ elapsed >= def.timeout
    /\ level = "inner" =>
         /\ def.progress # 0 => left["inner"] + quiet >= def.progress
         /\ ~open["inner"] => def.progress # 0 /\ quiet >= def.progress

TicksInv == \A l \in Active : tick[l] <= def.interval

Unsuccessful == values["outer"] \notin def.expected

Compared == {"compare", "failure", "report-failure"}

\* The time for which an object may show what is expected before a poll looks.
Slack == IF level = "inner" THEN def.interval + MaxCall
         ELSE 2 * (def.interval + MaxCall)

SeenInv ==
  Running =>
    /\ shown \notin def.expected => matching = 0
    /\ level = "inner" \/ stage \in {"failure", "report-failure"} => Unsuccessful
    /\ stage = "wait" => matching + tick[level] <= Slack
    /\ stage = "get" => matching <= Slack + spent
    /\ stage \in Compared =>
         \/ matching <= spent
         \/ values[level] \in def.expected /\ matching <= Slack + spent

FailureEnds == def.failure # << >> /\ def.failure[1] = "unreported"

KilledInv ==
  Running /\ FailureEnds =>
    /\ ~killed => failing = 0
    /\ stage = "wait" => failing + tick[level] <= def.interval + MaxCall
    /\ (stage \in {"get", "compare"} \/ (stage = "failure" /\ check = 1)) =>
         failing <= def.interval + MaxCall + spent
    /\ (stage = "report-failure" \/ (stage = "failure" /\ check # 1)) => failing <= spent

\* An inner poll that is over in time, with the calls before and after it.
Round == def.progress + 3 * MaxCall

\* When the condition of the outer poll is called, at the latest.
Called == IF open["outer"] THEN def.timeout ELSE def.timeout + Round

OuterEnds ==
  /\ left["outer"] > 0 => elapsed + left["outer"] <= def.timeout
  /\ tick["outer"] = 0 => elapsed <= def.timeout
  /\ level = "outer" =>
       IF stage = "wait" THEN open["outer"] /\ elapsed <= def.timeout + Round
       ELSE elapsed <= Called + spent

InnerEnds ==
  level = "inner" =>
    /\ left["inner"] > 0 => elapsed + left["inner"] <= Called + MaxCall + def.progress
    /\ tick["inner"] = 0 => elapsed <= Called + MaxCall + def.progress
    /\ IF stage = "wait" THEN open["inner"] /\ elapsed <= Called + 2 * MaxCall + def.progress
       ELSE elapsed <= Called + MaxCall + def.progress + spent
                         + IF open["inner"] THEN 0 ELSE MaxCall

\* What the outer condition has read the object has shown, before the calls since.
ShownInv ==
  Checking =>
    /\ shown \in def.expected => lapsed = 0
    /\ stage = "compare" /\ level = "outer" /\ Succeeded => lapsed <= spent

EndsInv ==
  Checking /\ def.timeout # 0 /\ def.progress # 0 =>
    IF stage = "report-timeout" THEN elapsed <= def.timeout + 2 * Round + spent
    ELSE OuterEnds /\ InnerEnds

-----------------------------------------------------------------------------
(***************************************************************************)
(* What the invariants have in common.                                     *)
(***************************************************************************)

\* The current definition is one.
LEMMA DefinitionType ==
  ASSUME TypeOK, index <= Len(defs)
  PROVE  def \in Definition
<1>1. Len(defs) \in Nat /\ DOMAIN defs = 1 .. Len(defs)
  BY LenProperties DEF TypeOK
<1>2. index \in 1 .. Len(defs)
  BY <1>1, SMT DEF TypeOK
<1> QED
  BY <1>2, ElementOfSeq DEF TypeOK, def

\* What a definition is made of.
LEMMA FieldTypes ==
  ASSUME NEW d \in Definition
  PROVE  /\ d.interval \in Nat /\ d.interval > 0
         /\ d.timeout \in Nat /\ d.progress \in Nat
         /\ d.expected \subseteq Values
         /\ d.failure \in Seq(FailureChecks)
BY SMT DEF Definition

\* The types of all that time is compared with.
LEMMA Types ==
  ASSUME TypeOK, Checking \/ Begin
  PROVE  /\ def.interval \in Nat /\ def.interval > 0
         /\ def.timeout \in Nat /\ def.progress \in Nat
         /\ def.failure \in Seq(FailureChecks)
         /\ level \in Levels
         /\ tick["outer"] \in Nat /\ tick["inner"] \in Nat
         /\ left["outer"] \in Nat /\ left["inner"] \in Nat
         /\ spent \in Nat /\ spent <= MaxCall
         /\ elapsed \in Nat /\ matching \in Nat /\ failing \in Nat /\ quiet \in Nat
<1>1. def \in Definition
  BY DefinitionType DEF TypeOK, Begin
<1> QED
  BY <1>1, FieldTypes, BoundsAssumption, SMT DEF TypeOK, Levels

\* One check of an object, and what may follow when it was not successful.
Judge == Compare \/ FailureCheckPasses \/ FailureCheckFails \/ FailureIsReported

ToCheck   == /\ stage' = "failure"
             /\ UNCHANGED <<level, pollVars, values, spent>>
ToReport  == /\ stage' = "report-failure"
             /\ UNCHANGED <<level, pollVars, callVars>>
ToInner   == /\ level = "outer"
             /\ StartPoll("inner")
             /\ UNCHANGED callVars
ToWait    == /\ level = "inner" /\ ~HasChanged /\ open["inner"]
             /\ stage' = "wait"
             /\ UNCHANGED <<level, pollVars, callVars>>
ToOuter   == /\ level = "inner" /\ HasChanged /\ open["outer"]
             /\ WaitOuter
ToTimeout == /\ level = "inner"
             /\ IF HasChanged THEN ~open["outer"] ELSE ~open["inner"]
             /\ stage' = "report-timeout"
             /\ spent' = 0
             /\ UNCHANGED <<level, pollVars, values, check>>

Proceeds == ToCheck \/ ToReport \/ ToInner \/ ToWait \/ ToOuter \/ ToTimeout

\* What follows when no failure check has failed.
LEMMA NotFailedProceeds ==
  ASSUME TypeOK, NotFailed, Checking'
  PROVE  ToInner \/ ToWait \/ ToOuter \/ ToTimeout
<1>1. level \in Levels /\ open["outer"] \in BOOLEAN /\ open["inner"] \in BOOLEAN
  BY SMT DEF TypeOK, Levels
<1>2. CASE level = "outer"
  BY <1>2 DEF NotFailed, ToInner
<1>3. CASE level = "inner"
  <2>1. InnerAgain
    BY <1>3, SMT DEF NotFailed
  <2>2. ASSUME TimedOut
        PROVE  stage' = "report-timeout" /\ spent' = 0 /\ UNCHANGED <<level, pollVars, values, check>>
    BY <2>2, SMT DEF TimedOut, Return, Checking, Calls, ConditionCalls
  <2>3. CASE HasChanged
    BY <1>3, <2>1, <2>2, <2>3 DEF InnerAgain, OuterAgain, ToOuter, ToTimeout
  <2>4. CASE ~HasChanged
    BY <1>3, <2>1, <2>2, <2>4 DEF InnerAgain, WaitInner, ToWait, ToTimeout
  <2> QED
    BY <2>3, <2>4
<1> QED
  BY <1>1, <1>2, <1>3 DEF Levels

\* A verdict, and why it is not another one.
LEMMA Verdicts ==
  ASSUME TypeOK, SeenInv, Judge, Checking'
  PROVE  /\ stage \in Compared
         /\ Unsuccessful
         /\ UNCHANGED <<runVars, objVars, clocks>>
         /\ Proceeds
         /\ stage' = "failure" => \/ stage = "compare" /\ check' = 1
                                  \/ stage = "failure" /\ ~killed /\ check' # 1
         /\ stage' \in {"failure", "report-failure"} => check' \in DOMAIN def.failure
         /\ check' \in Nat
         /\ stage' = "report-failure" => /\ stage = "failure" /\ def.failure[check] = "reported"
         /\ stage' = "wait" => \/ stage = "compare" /\ 1 \notin DOMAIN def.failure
                               \/ stage = "failure" /\ ~killed
                               \/ stage = "report-failure"
<1>1. ASSUME NotFailed
      PROVE  /\ ToInner \/ ToWait \/ ToOuter \/ ToTimeout
             /\ UNCHANGED <<runVars, clocks>>
             /\ stage' \notin {"failure", "report-failure"}
             /\ check' \in Nat
  <2>1. ToInner \/ ToWait \/ ToOuter \/ ToTimeout
    BY <1>1, NotFailedProceeds
  <2>2. UNCHANGED <<runVars, clocks>>
    BY <1>1, SMT DEF NotFailed, InnerAgain, OuterAgain, WaitInner, WaitOuter, TimedOut, Return,
       Checking, Calls, ConditionCalls
  <2>3. check \in Nat
    BY DEF TypeOK
  <2> QED
    BY <2>1, <2>2, <2>3, SMT DEF ToInner, ToWait, ToOuter, ToTimeout, StartPoll, WaitOuter, callVars
<1>2. CASE Compare
  <2>1. ~Succeeded
    <3>1. ASSUME Succeeded
          PROVE  FALSE
      <4>1. CASE level = "outer"
        BY <1>2, <3>1, <4>1, SMT DEF Compare, Succeed, Checking, Calls, ConditionCalls
      <4>2. CASE level = "inner"
        BY <1>2, <3>1, <4>2, SMT DEF Compare, SeenInv, Succeeded, Unsuccessful, Running,
           ConditionCalls
      <4> QED
        BY <4>1, <4>2 DEF TypeOK, Levels
    <3> QED
      BY <3>1
  <2>2. CASE 1 \in DOMAIN def.failure
    BY <1>2, <2>1, <2>2, SMT DEF Compare, FailsFrom, Succeeded, Unsuccessful, Compared, Proceeds, ToCheck
  <2>3. CASE 1 \notin DOMAIN def.failure
    <3>1. NotFailed /\ stage = "compare" /\ UNCHANGED objVars
      BY <1>2, <2>1, <2>3 DEF Compare, FailsFrom
    <3> QED
      BY <3>1, <1>1, <2>1, <2>3 DEF Succeeded, Unsuccessful, Compared, Proceeds
  <2> QED
    BY <2>2, <2>3
<1>3. stage \in {"failure", "report-failure"} => Unsuccessful
  BY SMT DEF SeenInv, Running, ConditionCalls
<1>4. CASE FailureCheckPasses
  <2>1. stage = "failure" /\ Unsuccessful /\ ~killed /\ UNCHANGED objVars
    BY <1>3, <1>4 DEF FailureCheckPasses
  <2>2. CASE check + 1 \in DOMAIN def.failure
    <3>1. check \in Nat
      BY DEF TypeOK
    <3>2. check' = check + 1 /\ ToCheck /\ UNCHANGED <<runVars, clocks>>
      BY <1>4, <2>2 DEF FailureCheckPasses, FailsFrom, ToCheck
    <3>3. check' # 1 /\ check' \in Nat
      <4>1. check \in DOMAIN def.failure
        BY <2>1, SMT DEF TypeOK
      <4>2. check # 0
        <5>1. def.failure \in Seq(FailureChecks)
          BY <2>1, Types, SMT DEF Checking, Calls, ConditionCalls
        <5>2. DOMAIN def.failure = 1 .. Len(def.failure)
          BY <5>1, LenProperties
        <5> QED
          BY <4>1, <5>2, <5>1, LenProperties, SMT
      <4> QED
        BY <3>1, <3>2, <4>2, SMT
    <3> QED
      BY <2>1, <2>2, <3>2, <3>3, SMT DEF Compared, Proceeds, ToCheck
  <2>3. CASE check + 1 \notin DOMAIN def.failure
    <3>1. NotFailed
      BY <1>4, <2>3 DEF FailureCheckPasses, FailsFrom
    <3> QED
      BY <3>1, <1>1, <2>1 DEF Compared, Proceeds
  <2> QED
    BY <2>2, <2>3
<1>5. CASE FailureCheckFails
  <2>1. /\ stage = "failure" /\ def.failure[check] = "reported" /\ ToReport
        /\ UNCHANGED <<runVars, objVars, clocks, check>>
    BY <1>5, SMT DEF FailureCheckFails, Return, Checking, Calls, ConditionCalls, ToReport, callVars
  <2>2. check \in DOMAIN def.failure /\ check \in Nat
    BY <2>1 DEF TypeOK
  <2> QED
    BY <1>3, <2>1, <2>2, SMT DEF Compared, Proceeds, ToReport
<1>6. CASE FailureIsReported
  <2>1. stage = "report-failure" /\ Unsuccessful /\ NotFailed /\ UNCHANGED objVars
    BY <1>3, <1>6 DEF FailureIsReported
  <2> QED
    BY <2>1, <1>1 DEF Compared, Proceeds
<1> QED
  BY <1>2, <1>4, <1>5, <1>6 DEF Judge

\* The steps of a check that goes on.
LEMMA Steps ==
  ASSUME TypeOK, SeenInv, Next, Checking'
  PROVE  /\ def' = def
         /\ UNCHANGED runVars
         /\ \/ Begin
            \/ /\ Checking
               /\ \/ \E l \in Levels : DropTick(l)
                  \/ CallCondition
                  \/ LastCallOfCondition
                  \/ Get
                  \/ Judge
                  \/ \E v \in Values : ObjectChanges(v)
                  \/ PodsChange
                  \/ Elapse
<1>1. ASSUME NEW ds, RunChecks(ds)
      PROVE  FALSE
  BY <1>1, SMT DEF RunChecks, Checking, Calls, ConditionCalls
<1>2. ASSUME AllSucceeded \/ Fails
      PROVE  FALSE
  BY <1>2, SMT DEF AllSucceeded, Fails, Return, Checking, Calls, ConditionCalls
<1>3. ASSUME TimeoutIsReported
      PROVE  FALSE
  BY <1>3, SMT DEF TimeoutIsReported, Succeed, Checking, Calls, ConditionCalls
<1>4. CASE Begin
  BY <1>4, SMT DEF Begin, runVars, def
<1>5. ASSUME NEW l \in Levels, DropTick(l)
      PROVE  UNCHANGED <<runVars, stage>>
  BY <1>5 DEF DropTick
<1>6. ASSUME CallCondition \/ LastCallOfCondition
      PROVE  UNCHANGED runVars /\ stage = "wait"
  BY <1>6 DEF CallCondition, LastCallOfCondition, StartGet
<1>7. ASSUME Get
      PROVE  UNCHANGED runVars /\ stage = "get"
  BY <1>7 DEF Get
<1>8. ASSUME Judge
      PROVE  UNCHANGED runVars /\ stage \in Compared
  BY <1>8, Verdicts
<1>9. ASSUME NEW v \in Values, ObjectChanges(v)
      PROVE  UNCHANGED <<runVars, stage>>
  BY <1>9 DEF ObjectChanges
<1>10. ASSUME PodsChange \/ Elapse
       PROVE  UNCHANGED <<runVars, stage>>
  BY <1>10 DEF PodsChange, Elapse
<1>11. UNCHANGED runVars => def' = def
  BY DEF runVars, def
<1>12. UNCHANGED stage \/ stage \in Compared \cup {"get", "wait"} => Checking
  BY SMT DEF Checking, Calls, ConditionCalls, Compared
<1> QED
  BY <1>1, <1>2, <1>3, <1>4, <1>5, <1>6, <1>7, <1>8, <1>9, <1>10, <1>11, <1>12, SMT DEF Next, Judge

Ending == AllSucceeded \/ Fails \/ Judge \/ TimeoutIsReported

\* An inner poll that ends without what it has waited for.
GaveUp ==
  /\ Checking /\ level = "inner"
  /\ IF HasChanged THEN ~open["outer"] ELSE ~open["inner"]

\* A check that is over.
LEMMA Endings ==
  ASSUME TypeOK, SeenInv, Ending, ~Checking'
  PROVE  /\ UNCHANGED <<defs, objVars>>
         /\ Over
         /\ stage' \in {"idle", "begin"}
         /\ index' \in 1 .. Len(defs) + 1
         /\ result' \in {"none", "nil", "timeout", "failure", "error"}
         /\ result' = "timeout" => result = "timeout" \/ GaveUp
<1>1. ASSUME NEW r \in {"none", "nil", "failure", "error"}, Return(r), UNCHANGED objVars
      PROVE  /\ UNCHANGED <<defs, index, objVars>> /\ Over
             /\ stage' = "idle"
             /\ result' = r
  BY <1>1 DEF Return
<1>2. ASSUME Succeed, UNCHANGED objVars, index <= Len(defs)
      PROVE  /\ UNCHANGED <<defs, result, objVars>> /\ Over
             /\ stage' = "begin"
             /\ index' \in 1 .. Len(defs) + 1
  <2>1. Len(defs) \in Nat
    BY LenProperties DEF TypeOK
  <2> QED
    BY <1>2, <2>1, SMT DEF Succeed, TypeOK
<1>3. ASSUME TimedOut, UNCHANGED objVars
      PROVE  /\ UNCHANGED <<defs, index, objVars>> /\ Over
             /\ stage' = "idle"
             /\ result' = "timeout"
  BY <1>3, SMT DEF TimedOut, Return, Checking, Calls, ConditionCalls
<1>4. index \in 1 .. Len(defs) + 1 /\ result \in {"none", "nil", "timeout", "failure", "error"}
  BY DEF TypeOK
<1>5. CASE AllSucceeded
  BY <1>1, <1>4, <1>5, SMT DEF AllSucceeded
<1>6. CASE Fails
  BY <1>1, <1>4, <1>6, SMT DEF Fails
<1>7. stage \in Compared \/ stage = "report-timeout" => Checking /\ index <= Len(defs)
  BY SMT DEF Compared, Checking, Calls, ConditionCalls, TypeOK
<1>8. CASE TimeoutIsReported
  BY <1>2, <1>4, <1>7, <1>8, SMT DEF TimeoutIsReported
<1>9. ASSUME NotFailed, stage \in Compared, UNCHANGED objVars
      PROVE  TimedOut /\ GaveUp
  <2>1. level = "inner" /\ InnerAgain
    BY <1>9, SMT DEF NotFailed, StartPoll, Checking, Calls, ConditionCalls, TypeOK, Levels
  <2>2. ~WaitInner /\ ~WaitOuter
    BY SMT DEF WaitInner, WaitOuter, Checking, Calls, ConditionCalls
  <2> QED
    BY <2>1, <2>2, <1>7, <1>9 DEF InnerAgain, OuterAgain, GaveUp
<1>10. CASE NotFailed /\ stage \in Compared /\ UNCHANGED objVars
  BY <1>3, <1>4, <1>9, <1>10
<1>11. ASSUME NEW i, FailsFrom(i), stage \in Compared, UNCHANGED objVars
       PROVE  NotFailed
  BY <1>11, SMT DEF FailsFrom, Checking, Calls, ConditionCalls
<1>12. CASE Compare
  <2>1. stage = "compare" /\ UNCHANGED objVars
    BY <1>12 DEF Compare
  <2>2. CASE Succeeded
    <3>1. level = "outer"
      BY <2>1, <2>2, SMT DEF SeenInv, Succeeded, Unsuccessful, Running, ConditionCalls, TypeOK, Levels
    <3> QED
      BY <1>2, <1>4, <1>7, <1>12, <2>1, <2>2, <3>1, SMT DEF Compare, Compared
  <2>3. CASE ~Succeeded
    <3>1. FailsFrom(1)
      BY <1>12, <2>3 DEF Compare
    <3> QED
      BY <3>1, <2>1, <1>10, <1>11 DEF Compared
  <2> QED
    BY <2>2, <2>3
<1>13. CASE FailureCheckPasses
  <2>1. PICK i : i = check + 1
    OBVIOUS
  <2>2. FailsFrom(i) /\ stage = "failure" /\ UNCHANGED objVars
    BY <1>13, <2>1 DEF FailureCheckPasses, FailsFrom
  <2> QED
    BY <2>2, <1>10, <1>11 DEF Compared
<1>14. CASE FailureCheckFails
  BY <1>1, <1>4, <1>14, SMT DEF FailureCheckFails, Checking, Calls, ConditionCalls
<1>15. CASE FailureIsReported
  BY <1>10, <1>15 DEF FailureIsReported, Compared
<1> QED
  BY <1>5, <1>6, <1>8, <1>12, <1>13, <1>14, <1>15 DEF Ending, Judge

-----------------------------------------------------------------------------
(***************************************************************************)
(* The types.                                                              *)
(***************************************************************************)

\* A clock moves by one, or stands at its bound.
LEMMA LaterType ==
  ASSUME NEW t \in 0 .. MaxTime
  PROVE  /\ Later(t) \in 0 .. MaxTime
         /\ t <= Later(t) /\ Later(t) <= t + 1
         /\ \A bound \in Nat : bound <= MaxTime /\ t + 1 >= bound => Later(t) >= bound
BY BoundsAssumption, SMT DEF Later

PollsOK ==
  /\ level \in Levels
  /\ tick \in [Levels -> Nat] /\ left \in [Levels -> Nat]
  /\ open \in [Levels -> BOOLEAN] /\ values \in [Levels -> Values]
  /\ spent \in 0 .. MaxCall

\* The polls and their clocks have their types after every step of a check.
LEMMA PollTypes ==
  ASSUME TypeOK, SeenInv, Next, Checking'
  PROVE  PollsOK'
<1>1. /\ level \in Levels /\ "outer" \in Levels /\ "inner" \in Levels
      /\ tick \in [Levels -> Nat] /\ left \in [Levels -> Nat]
      /\ open \in [Levels -> BOOLEAN] /\ values \in [Levels -> Values]
      /\ spent \in 0 .. MaxCall /\ 0 \in 0 .. MaxCall /\ shown \in Values
  BY BoundsAssumption, SMT DEF TypeOK, Levels
<1>2. Checking \/ Begin => def.interval \in Nat /\ \A l \in Levels : Limit(l) \in Nat
  BY Types, SMT DEF Limit
<1>3. ASSUME NEW l \in Levels, StartPoll(l), UNCHANGED callVars, Checking \/ Begin
      PROVE  PollsOK'
  BY <1>1, <1>2, <1>3, SMT DEF PollsOK, StartPoll, callVars
<1>4. CASE Begin
  BY <1>1, <1>3, <1>4 DEF Begin
<1>5. ASSUME NEW l \in Levels, DropTick(l), Checking
      PROVE  PollsOK'
  BY <1>1, <1>2, <1>5, SMT DEF PollsOK, DropTick, callVars
<1>6. ASSUME CallCondition, Checking
      PROVE  PollsOK'
  BY <1>1, <1>2, <1>6, SMT DEF PollsOK, CallCondition, StartGet
<1>7. ASSUME LastCallOfCondition, Checking
      PROVE  PollsOK'
  BY <1>1, <1>2, <1>7, SMT DEF PollsOK, LastCallOfCondition, StartGet
<1>8. ASSUME Get, Checking
      PROVE  PollsOK'
  BY <1>1, <1>8, SMT DEF PollsOK, Get, pollVars
<1>9. ASSUME Judge, Checking
      PROVE  PollsOK'
  <2>1. Proceeds
    BY <1>9, Verdicts
  <2>2. CASE ToCheck \/ ToReport \/ ToWait \/ ToTimeout
    BY <1>1, <2>2, SMT DEF PollsOK, ToCheck, ToReport, ToWait, ToTimeout, pollVars, callVars
  <2>3. CASE ToInner
    BY <1>1, <1>3, <1>9, <2>3 DEF ToInner
  <2>4. CASE ToOuter
    BY <1>1, <2>4, SMT DEF PollsOK, ToOuter, WaitOuter, callVars
  <2> QED
    BY <2>1, <2>2, <2>3, <2>4 DEF Proceeds
<1>10. ASSUME NEW v \in Values, ObjectChanges(v)
       PROVE  PollsOK'
  BY <1>1, <1>10, SMT DEF PollsOK, ObjectChanges, pollVars, callVars
<1>11. CASE PodsChange
  BY <1>1, <1>11, SMT DEF PollsOK, PodsChange, pollVars, callVars
<1>12. CASE Elapse
  BY <1>1, <1>12, BoundsAssumption, SMT DEF PollsOK, Elapse
<1> QED
  BY <1>4, <1>5, <1>6, <1>7, <1>8, <1>9, <1>10, <1>11, <1>12, Steps

ClocksOK ==
  /\ shown \in Values /\ killed \in BOOLEAN /\ lapsed \in 0 .. MaxCall + 1
  /\ elapsed \in 0 .. MaxTime /\ matching \in 0 .. MaxTime
  /\ failing \in 0 .. MaxTime /\ quiet \in 0 .. MaxTime

\* No clock goes past its bound.
LEMMA ClockTypes ==
  ASSUME TypeOK, SeenInv, Next, Checking'
  PROVE  ClocksOK'
<1>1. ClocksOK /\ 0 \in 0 .. MaxTime /\ {0, MaxCall + 1} \subseteq 0 .. MaxCall + 1
  BY BoundsAssumption, SMT DEF ClocksOK, TypeOK
<1>2. \A t \in 0 .. MaxTime : Later(t) \in 0 .. MaxTime
  BY LaterType
<1>3. ASSUME UNCHANGED <<objVars, clocks>>
      PROVE  ClocksOK'
  BY <1>1, <1>3 DEF ClocksOK, objVars, clocks
<1>4. CallCondition \/ LastCallOfCondition => UNCHANGED <<objVars, clocks>>
  BY DEF CallCondition, LastCallOfCondition, StartGet
<1>5. ASSUME NEW l \in Levels, DropTick(l)
      PROVE  UNCHANGED <<objVars, clocks>>
  BY <1>5 DEF DropTick
<1>6. Judge => UNCHANGED <<objVars, clocks>>
  BY Verdicts
<1>7. CASE Get
  BY <1>1, <1>7, SMT DEF Get, ClocksOK, objVars
<1>8. ASSUME NEW v \in Values, ObjectChanges(v)
      PROVE  ClocksOK'
  BY <1>1, <1>8, SMT DEF ObjectChanges, ClocksOK
<1>9. CASE PodsChange
  BY <1>1, <1>9, SMT DEF PodsChange, ClocksOK
<1>10. CASE Elapse
  <2>1. lapsed' \in 0 .. MaxCall + 1
    BY <1>1, <1>10, BoundsAssumption, SMT DEF Elapse, ClocksOK
  <2> QED
    BY <1>1, <1>2, <1>10, <2>1, SMT DEF Elapse, ClocksOK
<1>11. CASE Begin
  BY <1>1, <1>11, SMT DEF Begin, ClocksOK, clocks
<1> QED
  BY <1>3, <1>4, <1>5, <1>6, <1>7, <1>8, <1>9, <1>10, <1>11, Steps

\* Between two checks, nothing of the last one is left.
LEMMA Pauses ==
  ASSUME TypeOK, SeenInv, Next, ~Checking'
  PROVE  \/ \E ds \in Definitions : RunChecks(ds)
         \/ Ending
         \/ ~Checking /\ \E v \in Values : ObjectChanges(v)
<1>1. CASE Begin
  BY <1>1, SMT DEF Begin, StartPoll, Checking
<1>2. ASSUME NEW l \in Levels, DropTick(l)
      PROVE  FALSE
  BY <1>2, SMT DEF DropTick, Active, Checking
<1>3. CASE CallCondition \/ LastCallOfCondition \/ Get
  BY <1>3, SMT DEF CallCondition, LastCallOfCondition, StartGet, Get, Checking, Calls, ConditionCalls
<1>4. ASSUME NEW v \in Values, ObjectChanges(v)
      PROVE  ~Checking
  BY <1>4, SMT DEF ObjectChanges, Checking
<1>5. CASE PodsChange \/ Elapse
  BY <1>5, SMT DEF PodsChange, Elapse, Checking
<1> QED
  BY <1>1, <1>2, <1>3, <1>4, <1>5 DEF Next, Ending, Judge

\* The types hold after every step.
LEMMA TypeStep ==
  ASSUME TypeOK, SeenInv, Next
  PROVE  TypeOK'
<1>1. CASE Checking'
  <2>1. PollsOK' /\ ClocksOK' /\ def' = def /\ UNCHANGED runVars
    BY <1>1, PollTypes, ClockTypes, Steps
  <2>2. index <= Len(defs)
    BY <1>1, Steps, SMT DEF TypeOK, Begin
  <2>3. check' \in Nat /\ (stage' \in {"failure", "report-failure"} => check' \in DOMAIN def.failure)
    <3>1. check \in Nat /\ (stage \in {"failure", "report-failure"} => check \in DOMAIN def.failure)
      BY DEF TypeOK
    <3>2. CASE Judge
      BY <1>1, <3>2, Verdicts
    <3>3. ASSUME NEW l \in Levels, DropTick(l)
          PROVE  UNCHANGED <<stage, check>>
      BY <3>3 DEF DropTick, callVars
    <3>4. ASSUME NEW v \in Values, ObjectChanges(v)
          PROVE  UNCHANGED <<stage, check>>
      BY <3>4 DEF ObjectChanges, callVars
    <3>5. PodsChange \/ Elapse => UNCHANGED <<stage, check>>
      BY DEF PodsChange, Elapse, callVars
    <3>6. Begin \/ CallCondition \/ LastCallOfCondition \/ Get =>
            check' = check /\ stage' \notin {"failure", "report-failure"}
      BY SMT DEF Begin, StartPoll, callVars, CallCondition, LastCallOfCondition, StartGet, Get
    <3> QED
      BY <1>1, <3>1, <3>2, <3>3, <3>4, <3>5, <3>6, Steps
  <2>4. stage' \in Calls \cup {"wait"}
    BY <1>1 DEF Checking
  <2>5. /\ defs \in Seq(Definition) /\ index \in 1 .. Len(defs) + 1
        /\ result \in {"none", "nil", "timeout", "failure", "error"}
    BY DEF TypeOK
  <2> QED
    BY <2>1, <2>2, <2>3, <2>4, <2>5 DEF TypeOK, PollsOK, ClocksOK, runVars
<1>2. CASE ~Checking'
  <2>1. /\ shown \in Values /\ killed \in BOOLEAN /\ lapsed \in 0 .. MaxCall + 1
        /\ 0 \in 0 .. MaxTime /\ 0 \in 0 .. MaxCall
    BY BoundsAssumption, SMT DEF TypeOK
  <2>2. ASSUME NEW ds \in Definitions, RunChecks(ds)
        PROVE  TypeOK'
    <3>1. ds \in Seq(Definition) /\ Len(ds) \in Nat
      BY DefinitionsAssumption, LenProperties
    <3>2. 1 \in 1 .. Len(ds) + 1
      BY <3>1, SMT
    <3>3. stage' = "begin" /\ stage' \notin {"failure", "report-failure"}
      BY <2>2, SMT DEF RunChecks
    <3> QED
      BY <1>2, <2>2, <3>1, <3>2, <3>3
         DEF RunChecks, TypeOK, pollVars, callVars, objVars, clocks
  <2>3. CASE Ending
    <3>1. /\ UNCHANGED <<defs, objVars>> /\ Over
          /\ stage' \in {"idle", "begin"}
          /\ index' \in 1 .. Len(defs) + 1
          /\ result' \in {"none", "nil", "timeout", "failure", "error"}
      BY <1>2, <2>3, Endings
    <3>2. defs \in Seq(Definition)
      BY DEF TypeOK
    <3>3. PollsOK' /\ ClocksOK' /\ check' \in Nat
      BY <2>1, <3>1, SMT DEF Over, PollsOK, ClocksOK, objVars, Levels
    <3>4. stage' \notin {"failure", "report-failure"}
      BY <3>1, SMT
    <3> QED
      BY <1>2, <3>1, <3>2, <3>3, <3>4 DEF TypeOK, PollsOK, ClocksOK
  <2>4. ASSUME NEW v \in Values, ObjectChanges(v), ~Checking
        PROVE  TypeOK'
    <3>1. matching' \in 0 .. MaxTime /\ lapsed' \in 0 .. MaxCall + 1
      BY <2>1, <2>4, SMT DEF ObjectChanges, Matches, TypeOK
    <3>2. def' = def
      BY <2>4 DEF ObjectChanges, runVars, def
    <3> QED
      BY <1>2, <2>4, <3>1, <3>2 DEF ObjectChanges, TypeOK, runVars, pollVars, callVars
  <2> QED
    BY <1>2, <2>2, <2>3, <2>4, Pauses
<1> QED
  BY <1>1, <1>2

\* So does what is said of the time between checks.
LEMMA RestStep ==
  ASSUME TypeOK, SeenInv, Chosen, Rest, Next
  PROVE  Chosen' /\ Rest'
<1>1. CASE Checking'
  BY <1>1, Steps DEF Chosen, Rest, runVars
<1>2. CASE ~Checking'
  <2>1. ASSUME NEW ds \in Definitions, RunChecks(ds)
        PROVE  Chosen' /\ Rest'
    <3>1. ~Checking
      BY <2>1, SMT DEF RunChecks, Checking, Calls, ConditionCalls
    <3> QED
      BY <2>1, <3>1 DEF RunChecks, Chosen, Rest, clocks
  <2>2. CASE Ending
    BY <1>2, <2>2, Endings DEF Chosen, Rest, Over
  <2>3. ASSUME NEW v \in Values, ObjectChanges(v), ~Checking
        PROVE  Chosen' /\ Rest'
    BY <2>3, SMT DEF ObjectChanges, Chosen, Rest, runVars
  <2> QED
    BY <1>2, <2>1, <2>2, <2>3, Pauses
<1> QED
  BY <1>1, <1>2

-----------------------------------------------------------------------------
(***************************************************************************)
(* The timers and the tickers.                                             *)
(***************************************************************************)

\* The clocks can tell when a timeout is over.
LEMMA Limits ==
  ASSUME TypeOK, Chosen, Checking
  PROVE  def.timeout <= MaxTime /\ def.progress <= MaxTime
<1>1. Len(defs) \in Nat /\ DOMAIN defs = 1 .. Len(defs) /\ index <= Len(defs)
  BY LenProperties DEF TypeOK
<1>2. index \in DOMAIN defs
  BY <1>1, SMT DEF TypeOK
<1>3. defs # << >>
  BY <1>1, <1>2, SMT
<1> QED
  BY <1>2, <1>3, BoundsAssumption DEF Chosen, def

\* What the passing of time does to the polls that are active.
LEMMA Passing ==
  ASSUME TypeOK, Elapse
  PROVE  /\ \A l \in Active :
              /\ tick[l] > 0 /\ tick[l] \in Nat /\ left[l] \in Nat
              /\ left[l] > 0 => left'[l] = left[l] - 1
              /\ left[l] = 0 => left'[l] = 0
              /\ tick'[l] = IF Limit(l) # 0 /\ left[l] = 0 THEN tick[l] ELSE tick[l] - 1
         /\ UNCHANGED <<stage, level, open, values, shown, killed, check>>
         /\ stage = "wait" => spent' = spent /\ ~Closed(level)
         /\ stage # "wait" => spent' = spent + 1
         /\ elapsed' <= elapsed + 1
<1>1. UNCHANGED <<stage, level, open, values, shown, killed, check>>
  BY DEF Elapse, objVars
<1>2. ASSUME NEW l \in Active
      PROVE  /\ tick[l] > 0 /\ tick[l] \in Nat /\ left[l] \in Nat
             /\ left[l] > 0 => left'[l] = left[l] - 1
             /\ left[l] = 0 => left'[l] = 0
             /\ tick'[l] = IF Limit(l) # 0 /\ left[l] = 0 THEN tick[l] ELSE tick[l] - 1
  <2>1. l \in Levels /\ tick \in [Levels -> Nat] /\ left \in [Levels -> Nat]
    BY SMT DEF Active, TypeOK, Levels
  <2> QED
    BY <2>1, SMT DEF Elapse, Closed
<1>3. elapsed' <= elapsed + 1
  BY LaterType DEF Elapse, TypeOK
<1>4. /\ stage = "wait" => spent' = spent /\ ~Closed(level)
      /\ stage # "wait" => spent' = spent + 1
  BY DEF Elapse
<1> QED
  BY <1>1, <1>2, <1>3, <1>4

\* The active polls: the outer one, and the inner one in its condition.
LEMMA ActiveLevels ==
  ASSUME TypeOK, Checking
  PROVE  /\ level \in Active /\ "outer" \in Active
         /\ Active = IF level = "inner" THEN {"outer", "inner"} ELSE {"outer"}
BY SMT DEF TypeOK, Active, Levels

\* TimersInv is preserved.
LEMMA TimersStep ==
  ASSUME TypeOK, SeenInv, Chosen, Rest, TimersInv, Next
  PROVE  TimersInv'
<1> SUFFICES ASSUME Checking'
             PROVE  TimersInv'
  BY DEF TimersInv
<1>1. def' = def
  BY Steps
<1>2. /\ level \in Levels /\ "outer" \in Levels /\ "inner" \in Levels
      /\ left \in [Levels -> Nat] /\ open \in [Levels -> BOOLEAN]
      /\ elapsed \in 0 .. MaxTime /\ quiet \in 0 .. MaxTime
  BY SMT DEF TypeOK, Levels
<1>3. Checking \/ Begin => def.timeout \in Nat /\ def.progress \in Nat
  BY Types
<1>4. CASE Begin
  BY <1>1, <1>2, <1>3, <1>4, SMT DEF Begin, StartPoll, Limit, TimersInv, Levels, clocks
<1>5. ASSUME NEW l \in Levels, DropTick(l), Checking
      PROVE  TimersInv'
  BY <1>1, <1>5 DEF DropTick, TimersInv, clocks
<1>6. ASSUME CallCondition, Checking
      PROVE  TimersInv'
  BY <1>1, <1>2, <1>3, <1>6, SMT DEF CallCondition, StartGet, TimersInv, Levels, clocks
<1>7. ASSUME LastCallOfCondition, Checking
      PROVE  TimersInv'
  BY <1>1, <1>2, <1>3, <1>7, SMT DEF LastCallOfCondition, StartGet, Closed, Limit, TimersInv, Levels, clocks
<1>8. ASSUME Get, Checking
      PROVE  TimersInv'
  BY <1>1, <1>2, <1>3, <1>8, SMT DEF Get, TimersInv, Levels, pollVars
<1>9. ASSUME Judge, Checking
      PROVE  TimersInv'
  <2>1. Proceeds /\ UNCHANGED clocks
    BY <1>9, Verdicts
  <2>2. CASE ToCheck \/ ToReport \/ ToWait \/ ToTimeout
    BY <1>1, <1>9, <2>1, <2>2, SMT DEF ToCheck, ToReport, ToWait, ToTimeout, TimersInv, pollVars, clocks
  <2>3. CASE ToInner
    BY <1>1, <1>2, <1>3, <1>9, <2>1, <2>3, SMT DEF ToInner, StartPoll, Limit, TimersInv, Levels, clocks
  <2>4. CASE ToOuter
    BY <1>1, <1>2, <1>9, <2>1, <2>4, SMT DEF ToOuter, WaitOuter, TimersInv, Levels, clocks
  <2> QED
    BY <2>1, <2>2, <2>3, <2>4 DEF Proceeds
<1>10. ASSUME NEW v \in Values, ObjectChanges(v), Checking
       PROVE  TimersInv'
  BY <1>1, <1>10 DEF ObjectChanges, TimersInv, pollVars
<1>11. ASSUME PodsChange, Checking
       PROVE  TimersInv'
  BY <1>1, <1>11 DEF PodsChange, TimersInv, pollVars
<1>12. ASSUME Elapse, Checking
       PROVE  TimersInv'
  <2>1. def.timeout <= MaxTime /\ def.progress <= MaxTime
    BY <1>12, Limits
  <2>2. /\ \A l \in Active : /\ left[l] > 0 => left'[l] = left[l] - 1
                             /\ left[l] = 0 => left'[l] = 0
        /\ UNCHANGED <<level, open>>
    BY <1>12, Passing
  <2>3. "outer" \in Active /\ (level = "inner" => "inner" \in Active)
    BY <1>12, ActiveLevels, SMT
  <2>4. elapsed' = Later(elapsed) /\ quiet' = Later(quiet)
    BY <1>12 DEF Elapse
  <2>5. /\ elapsed <= elapsed' /\ (elapsed' = elapsed + 1 \/ elapsed' = MaxTime)
        /\ quiet <= quiet' /\ (quiet' = quiet + 1 \/ quiet' = MaxTime)
        /\ elapsed' \in Nat /\ quiet' \in Nat /\ elapsed \in Nat /\ quiet \in Nat
    BY <1>2, <2>4, BoundsAssumption, SMT DEF Later
  <2>6. ASSUME NEW l \in Active
        PROVE  /\ left[l] \in Nat /\ left'[l] \in Nat
               /\ left'[l] = left[l] - 1 \/ left'[l] = left[l]
    BY <1>12, <2>2, Passing, SMT
  <2>7. def.timeout # 0 => left'["outer"] + elapsed' >= def.timeout
    BY <1>3, <1>12, <2>1, <2>3, <2>5, <2>6, SMT DEF TimersInv
  <2>8. level = "inner" /\ def.progress # 0 => left'["inner"] + quiet' >= def.progress
    BY <1>3, <1>12, <2>1, <2>3, <2>5, <2>6, SMT DEF TimersInv
  <2>9. /\ ~open["outer"] => def.timeout # 0 /\ elapsed' >= def.timeout
        /\ level = "inner" /\ ~open["inner"] => def.progress # 0 /\ quiet' >= def.progress
    BY <1>3, <1>12, <2>5, SMT DEF TimersInv
  <2> QED
    BY <1>1, <2>2, <2>7, <2>8, <2>9 DEF TimersInv
<1> QED
  BY <1>4, <1>5, <1>6, <1>7, <1>8, <1>9, <1>10, <1>11, <1>12, Steps

\* TicksInv is preserved.
LEMMA TicksStep ==
  ASSUME TypeOK, SeenInv, TicksInv, Next
  PROVE  TicksInv'
<1> SUFFICES ASSUME Checking'
             PROVE  \A l \in Active' : tick'[l] <= def'.interval
  BY DEF TicksInv, Active
<1>1. def' = def
  BY Steps
<1>2. /\ level \in Levels /\ "outer" \in Levels /\ "inner" \in Levels
      /\ tick \in [Levels -> Nat]
  BY SMT DEF TypeOK, Levels
<1>3. Checking \/ Begin => def.interval \in Nat
  BY Types
<1>4. Active' = IF level' = "inner" THEN Levels ELSE {"outer"}
  BY DEF Active
<1>5. Checking => Active = IF level = "inner" THEN Levels ELSE {"outer"}
  BY DEF Active
<1>6. ASSUME UNCHANGED <<level, tick>>, Checking
      PROVE  TicksInv'
  BY <1>1, <1>4, <1>5, <1>6 DEF TicksInv
<1>7. CASE Begin
  BY <1>1, <1>2, <1>3, <1>4, <1>7, SMT DEF Begin, StartPoll
<1>8. ASSUME NEW l \in Levels, DropTick(l), Checking
      PROVE  TicksInv'
  BY <1>1, <1>2, <1>3, <1>4, <1>5, <1>8, SMT DEF DropTick, TicksInv
<1>9. ASSUME CallCondition, Checking
      PROVE  TicksInv'
  BY <1>1, <1>2, <1>3, <1>4, <1>5, <1>9, SMT DEF CallCondition, StartGet, TicksInv
<1>10. LastCallOfCondition \/ Get => UNCHANGED <<level, tick>>
  BY DEF LastCallOfCondition, StartGet, Get, pollVars
<1>11. ASSUME Judge, Checking
       PROVE  TicksInv'
  <2>1. Proceeds
    BY <1>11, Verdicts
  <2>2. ToCheck \/ ToReport \/ ToWait \/ ToTimeout => UNCHANGED <<level, tick>>
    BY DEF ToCheck, ToReport, ToWait, ToTimeout, pollVars
  <2>3. CASE ToInner
    BY <1>1, <1>2, <1>3, <1>4, <1>5, <1>11, <2>3, SMT DEF ToInner, StartPoll, TicksInv, Levels
  <2>4. CASE ToOuter
    BY <1>1, <1>2, <1>4, <1>5, <1>11, <2>4, SMT DEF ToOuter, WaitOuter, TicksInv, Levels
  <2> QED
    BY <1>6, <1>11, <2>1, <2>2, <2>3, <2>4 DEF Proceeds
<1>12. ASSUME NEW v \in Values, ObjectChanges(v)
       PROVE  UNCHANGED <<level, tick>>
  BY <1>12 DEF ObjectChanges, pollVars
<1>13. PodsChange => UNCHANGED <<level, tick>>
  BY DEF PodsChange, pollVars
<1>14. ASSUME Elapse, Checking
       PROVE  TicksInv'
  <2>1. /\ \A l \in Active : tick[l] \in Nat /\ tick'[l] <= tick[l] /\ tick'[l] \in Nat
        /\ level' = level
    BY <1>14, Passing, SMT
  <2>2. Active' = Active
    BY <1>4, <1>5, <1>14, <2>1
  <2> QED
    BY <1>1, <1>3, <1>14, <2>1, <2>2, SMT DEF TicksInv
<1> QED
  BY <1>6, <1>7, <1>8, <1>9, <1>10, <1>11, <1>12, <1>13, <1>14, Steps DEF TicksInv

-----------------------------------------------------------------------------
(***************************************************************************)
(* What is noticed.                                                        *)
(***************************************************************************)

\* SeenInv is preserved.
LEMMA SeenStep ==
  ASSUME TypeOK, SeenInv, Rest, TicksInv, Next
  PROVE  SeenInv'
<1> SUFFICES ASSUME Checking', Running'
             PROVE  SeenInv'
  BY DEF SeenInv, Running, Checking, Calls
<1>1. def' = def
  BY Steps
<1>2. /\ level \in Levels /\ "outer" \in Levels /\ "inner" \in Levels
      /\ tick \in [Levels -> Nat] /\ values \in [Levels -> Values]
      /\ matching \in Nat /\ spent \in Nat /\ spent <= MaxCall /\ MaxCall \in Nat
  BY BoundsAssumption, SMT DEF TypeOK, Levels
<1>3. Checking \/ Begin => def.interval \in Nat
  BY Types
<1>4. CASE Begin
  <2>1. matching = 0
    BY <1>4, SMT DEF Begin, Rest, Checking, Calls, ConditionCalls
  <2> QED
    BY <1>1, <1>2, <1>3, <1>4, <2>1, SMT DEF Begin, StartPoll, SeenInv, Slack, clocks, objVars, Compared
<1>5. ASSUME NEW l \in Levels, DropTick(l), Checking
      PROVE  SeenInv'
  <2>1. /\ UNCHANGED <<stage, level, values, matching, shown, spent>>
        /\ stage = "wait" => tick'[level] = tick[level]
    BY <1>2, <1>5, SMT DEF DropTick, Waiting, callVars, objVars, clocks
  <2> QED
    BY <1>1, <2>1 DEF SeenInv, Running, Slack, Unsuccessful
<1>6. ASSUME CallCondition \/ LastCallOfCondition, Checking
      PROVE  SeenInv'
  <2>1. /\ stage = "wait" /\ stage' = "get" /\ spent' = 0
        /\ UNCHANGED <<level, values, matching, shown>>
    BY <1>6 DEF CallCondition, LastCallOfCondition, StartGet, objVars, clocks
  <2> QED
    BY <1>1, <1>2, <1>3, <1>6, <2>1, SMT DEF SeenInv, Running, ConditionCalls, Slack, Unsuccessful, Compared
<1>7. ASSUME Get, Checking
      PROVE  SeenInv'
  <2>1. /\ stage = "get" /\ stage' = "compare"
        /\ UNCHANGED <<level, matching, shown, spent>>
        /\ values'[level] = shown
        /\ level = "inner" => values'["outer"] = values["outer"]
    BY <1>2, <1>7, SMT DEF Get, Levels, objVars
  <2> QED
    BY <1>1, <1>2, <1>3, <1>7, <2>1, SMT DEF SeenInv, Running, ConditionCalls, Slack, Unsuccessful, Compared
<1>8. ASSUME Judge, Checking
      PROVE  SeenInv'
  <2>1. /\ stage \in Compared /\ Unsuccessful /\ Proceeds
        /\ UNCHANGED <<objVars, clocks>>
    BY <1>8, Verdicts
  <2>2. /\ UNCHANGED <<shown, matching>>
        /\ shown \notin def.expected => matching = 0
        /\ matching <= spent \/ (values[level] \in def.expected /\ matching <= Slack + spent)
    BY <2>1, SMT DEF SeenInv, Running, ConditionCalls, Compared, objVars, clocks
  <2>3. values["outer"] \notin def.expected
    BY <2>1 DEF Unsuccessful
  <2>4. CASE ToCheck \/ ToReport
    <3>1. /\ UNCHANGED <<level, values, spent>> /\ stage' \in {"failure", "report-failure"}
      BY <2>4, SMT DEF ToCheck, ToReport, callVars
    <3> QED
      BY <1>1, <2>2, <2>3, <3>1, SMT DEF SeenInv, Slack, Unsuccessful, Compared
  <2>5. CASE ToInner
    <3>1. /\ stage' = "wait" /\ level' = "inner" /\ tick'["inner"] = def.interval
          /\ values' = values /\ matching <= spent
      BY <1>2, <2>2, <2>3, <2>5, SMT DEF ToInner, StartPoll, callVars
    <3> QED
      BY <1>1, <1>2, <1>3, <1>8, <2>2, <2>3, <3>1, SMT DEF SeenInv, Slack, Unsuccessful, Compared
  <2>6. CASE ToWait
    <3>1. /\ stage' = "wait" /\ level' = "inner" /\ tick' = tick
          /\ values' = values /\ matching <= spent
      BY <2>2, <2>3, <2>6, SMT DEF ToWait, HasChanged, pollVars, callVars
    <3>2. tick["inner"] <= def.interval
      BY <1>8, <2>6, ActiveLevels DEF ToWait, TicksInv
    <3> QED
      BY <1>1, <1>2, <1>3, <1>8, <2>2, <2>3, <3>1, <3>2, SMT DEF SeenInv, Slack, Unsuccessful, Compared
  <2>7. CASE ToOuter
    <3>1. /\ stage' = "wait" /\ level = "inner" /\ level' = "outer"
          /\ tick'["outer"] = tick["outer"] /\ values' = values
      BY <1>2, <2>7, SMT DEF ToOuter, WaitOuter, callVars
    <3>2. tick["outer"] <= def.interval
      BY <1>8, ActiveLevels DEF TicksInv
    <3>3. matching <= def.interval + MaxCall + spent
      BY <1>2, <1>3, <1>8, <2>2, <3>1, SMT DEF Slack
    <3> QED
      BY <1>1, <1>2, <1>3, <1>8, <2>2, <3>1, <3>2, <3>3, SMT DEF SeenInv, Slack, Compared
  <2>8. CASE ToTimeout
    BY <2>8, SMT DEF ToTimeout, Running, ConditionCalls
  <2> QED
    BY <2>1, <2>4, <2>5, <2>6, <2>7, <2>8 DEF Proceeds
<1>9. ASSUME NEW v \in Values, ObjectChanges(v), Checking
      PROVE  SeenInv'
  <2>1. /\ UNCHANGED <<stage, level, values, spent, tick>>
        /\ shown' = v
        /\ v \in def.expected => matching' = matching
        /\ v \notin def.expected => matching' = 0
    BY <1>9, SMT DEF ObjectChanges, Matches, pollVars, callVars
  <2>2. Running
    BY <2>1 DEF Running
  <2> QED
    BY <1>1, <1>2, <1>3, <1>9, <2>1, <2>2, SMT DEF SeenInv, Slack, Unsuccessful, Compared, Levels
<1>10. ASSUME PodsChange, Checking
       PROVE  SeenInv'
  BY <1>1, <1>10 DEF PodsChange, SeenInv, Running, Slack, Unsuccessful, pollVars, callVars
<1>11. ASSUME Elapse, Checking
       PROVE  SeenInv'
  <2>1. /\ UNCHANGED <<stage, level, values, shown>>
        /\ stage = "wait" => spent' = spent /\ ~Closed(level)
        /\ stage # "wait" => spent' = spent + 1
    BY <1>11, Passing
  <2>2. stage = "wait" => tick'[level] = tick[level] - 1 /\ tick[level] \in Nat
    <3>1. level \in Active
      BY <1>11, ActiveLevels
    <3> QED
      BY <1>11, <2>1, <3>1, Passing DEF Closed
  <2>3. /\ matching' <= matching + 1
        /\ shown \notin def.expected => matching' = 0
    <3>1. matching \in 0 .. MaxTime
      BY DEF TypeOK
    <3>2. Later(matching) <= matching + 1
      BY <3>1, LaterType
    <3> QED
      BY <1>2, <1>11, <3>2, SMT DEF Elapse, Matches
  <2>4. Running
    BY <2>1 DEF Running
  <2>5. matching' \in Nat
    BY <1>2, <1>11, SMT DEF Elapse, Later
  <2>6. stage = "wait" => matching' + tick'[level] <= Slack
    BY <1>2, <1>3, <1>11, <2>2, <2>3, <2>4, <2>5, SMT DEF SeenInv, Slack
  <2>7. stage = "get" => matching' <= Slack + spent'
    BY <1>2, <1>3, <1>11, <2>1, <2>3, <2>4, <2>5, SMT DEF SeenInv, Slack
  <2>8. stage \in Compared =>
          \/ matching' <= spent'
          \/ values[level] \in def.expected /\ matching' <= Slack + spent'
    BY <1>2, <1>3, <1>11, <2>1, <2>3, <2>4, <2>5, SMT DEF SeenInv, Slack, Compared
  <2> QED
    BY <1>1, <2>1, <2>3, <2>4, <2>6, <2>7, <2>8 DEF SeenInv, Slack, Unsuccessful
<1> QED
  BY <1>4, <1>5, <1>6, <1>7, <1>8, <1>9, <1>10, <1>11, Steps

\* KilledInv is preserved.
LEMMA KilledStep ==
  ASSUME TypeOK, SeenInv, Rest, TicksInv, KilledInv, Next
  PROVE  KilledInv'
<1> SUFFICES ASSUME Checking', Running', FailureEnds'
             PROVE  KilledInv'
  BY DEF KilledInv, Running, Checking, Calls
<1>1. def' = def /\ FailureEnds
  BY Steps DEF FailureEnds
<1>2. /\ level \in Levels /\ "outer" \in Levels /\ "inner" \in Levels
      /\ tick \in [Levels -> Nat]
      /\ failing \in Nat /\ spent \in Nat /\ spent <= MaxCall /\ MaxCall \in Nat
  BY BoundsAssumption, SMT DEF TypeOK, Levels
<1>3. Checking \/ Begin => def.interval \in Nat /\ def.failure \in Seq(FailureChecks)
  BY Types
<1>4. CASE Begin
  <2>1. failing = 0
    BY <1>4, SMT DEF Begin, Rest, Checking, Calls, ConditionCalls
  <2> QED
    BY <1>1, <1>2, <1>3, <1>4, <2>1, SMT DEF Begin, StartPoll, KilledInv, clocks, objVars
<1>5. ASSUME NEW l \in Levels, DropTick(l), Checking
      PROVE  KilledInv'
  <2>1. /\ UNCHANGED <<stage, level, check, failing, killed, spent>>
        /\ stage = "wait" => tick'[level] = tick[level]
    BY <1>2, <1>5, SMT DEF DropTick, Waiting, callVars, objVars, clocks
  <2> QED
    BY <1>1, <2>1 DEF KilledInv, Running, FailureEnds
<1>6. ASSUME CallCondition \/ LastCallOfCondition, Checking
      PROVE  KilledInv'
  <2>1. /\ stage = "wait" /\ stage' = "get" /\ spent' = 0
        /\ UNCHANGED <<failing, killed>>
    BY <1>6 DEF CallCondition, LastCallOfCondition, StartGet, objVars, clocks
  <2> QED
    BY <1>1, <1>2, <1>3, <1>6, <2>1, SMT DEF KilledInv, Running, ConditionCalls
<1>7. ASSUME Get, Checking
      PROVE  KilledInv'
  <2>1. /\ stage = "get" /\ stage' = "compare"
        /\ UNCHANGED <<failing, killed, spent>>
    BY <1>7, SMT DEF Get, objVars
  <2> QED
    BY <1>1, <1>2, <1>3, <1>7, <2>1, SMT DEF KilledInv, Running, ConditionCalls
<1>8. ASSUME Judge, Checking
      PROVE  KilledInv'
  <2>1. /\ stage \in Compared /\ Proceeds
        /\ UNCHANGED <<objVars, clocks>>
        /\ stage' = "failure" => \/ stage = "compare" /\ check' = 1
                                 \/ stage = "failure" /\ ~killed /\ check' # 1
        /\ stage' = "report-failure" => stage = "failure" /\ def.failure[check] = "reported"
        /\ stage' = "wait" => \/ stage = "compare" /\ 1 \notin DOMAIN def.failure
                              \/ stage = "failure" /\ ~killed
                              \/ stage = "report-failure"
    BY <1>8, Verdicts
  <2>2. UNCHANGED <<killed, failing>> /\ Running
    BY <2>1, SMT DEF objVars, clocks, Compared, Running, ConditionCalls
  <2>3. ~killed => failing = 0
    BY <1>1, <2>2 DEF KilledInv
  <2>4. 1 \in DOMAIN def.failure
    BY <1>1, <1>3, <1>8, LenProperties, EmptySeq, SMT DEF FailureEnds
  <2>5. CASE ToCheck
    <3>1. stage' = "failure" /\ spent' = spent
      BY <2>5 DEF ToCheck
    <3>2. CASE stage = "compare" /\ check' = 1
      BY <1>1, <2>2, <2>3, <3>1, <3>2, SMT DEF KilledInv
    <3>3. CASE stage = "failure" /\ ~killed /\ check' # 1
      BY <1>1, <1>2, <2>2, <2>3, <3>1, <3>3, SMT DEF KilledInv
    <3> QED
      BY <2>1, <3>1, <3>2, <3>3
  <2>6. CASE ToReport
    <3>1. stage' = "report-failure" /\ spent' = spent
      BY <2>6 DEF ToReport, callVars
    <3>2. stage = "failure" /\ check # 1
      BY <1>1, <2>1, <3>1, SMT DEF FailureEnds
    <3> QED
      BY <1>1, <1>2, <2>2, <2>3, <3>1, <3>2, SMT DEF KilledInv
  <2>7. CASE stage' = "wait"
    <3>1. failing <= spent
      BY <1>1, <1>2, <2>1, <2>2, <2>3, <2>4, <2>7, SMT DEF KilledInv
    <3>2. tick'[level'] <= def.interval /\ tick'[level'] \in Nat
      <4>1. level' \in Levels /\ tick' \in [Levels -> Nat]
        BY PollTypes DEF PollsOK
      <4>2. TicksInv'
        BY TicksStep
      <4>3. level' \in Active'
        BY <4>1, SMT DEF Active, Levels
      <4> QED
        BY <1>1, <4>1, <4>2, <4>3 DEF TicksInv
    <3> QED
      BY <1>1, <1>2, <1>3, <1>8, <2>2, <2>3, <2>7, <3>1, <3>2, SMT DEF KilledInv
  <2>8. CASE ToTimeout
    BY <2>8, SMT DEF ToTimeout, Running, ConditionCalls
  <2>9. ToInner \/ ToWait \/ ToOuter => stage' = "wait"
    BY DEF ToInner, StartPoll, ToWait, ToOuter, WaitOuter
  <2> QED
    BY <2>1, <2>5, <2>6, <2>7, <2>8, <2>9 DEF Proceeds
<1>9. ASSUME NEW v \in Values, ObjectChanges(v), Checking
      PROVE  KilledInv'
  <2>1. UNCHANGED <<stage, level, spent, tick, check, killed, failing>>
    BY <1>9 DEF ObjectChanges, pollVars, callVars
  <2> QED
    BY <1>1, <2>1 DEF KilledInv, Running, FailureEnds
<1>10. ASSUME PodsChange, Checking
       PROVE  KilledInv'
  <2>1. failing' = 0 /\ UNCHANGED <<stage, level, spent, tick, check>>
    BY <1>10 DEF PodsChange, pollVars, callVars
  <2>2. tick[level] <= def.interval /\ tick[level] \in Nat
    BY <1>2, <1>10, ActiveLevels DEF TicksInv
  <2> QED
    BY <1>1, <1>2, <1>3, <1>10, <2>1, <2>2, SMT DEF KilledInv
<1>11. ASSUME Elapse, Checking
       PROVE  KilledInv'
  <2>1. /\ UNCHANGED <<stage, level, check, killed>>
        /\ stage = "wait" => spent' = spent /\ ~Closed(level)
        /\ stage # "wait" => spent' = spent + 1
    BY <1>11, Passing
  <2>2. stage = "wait" => tick'[level] = tick[level] - 1 /\ tick[level] \in Nat
    <3>1. level \in Active
      BY <1>11, ActiveLevels
    <3> QED
      BY <1>11, <2>1, <3>1, Passing DEF Closed
  <2>3. /\ failing' <= failing + 1 /\ failing' \in Nat
        /\ ~killed => failing' = 0
    <3>1. failing \in 0 .. MaxTime
      BY DEF TypeOK
    <3>2. Later(failing) <= failing + 1 /\ Later(failing) \in Nat
      BY <3>1, LaterType, SMT
    <3> QED
      BY <1>2, <1>11, <3>2, SMT DEF Elapse
  <2>4. Running
    BY <2>1 DEF Running
  <2> QED
    BY <1>1, <1>2, <1>3, <1>11, <2>1, <2>2, <2>3, <2>4, SMT DEF KilledInv
<1> QED
  BY <1>4, <1>5, <1>6, <1>7, <1>8, <1>9, <1>10, <1>11, Steps

-----------------------------------------------------------------------------
(***************************************************************************)
(* The end of a check.                                                     *)
(***************************************************************************)

\* EndsInv is preserved.
LEMMA EndsStep ==
  ASSUME TypeOK, SeenInv, Rest, EndsInv, Next
  PROVE  EndsInv'
<1> SUFFICES ASSUME Checking', def'.timeout # 0, def'.progress # 0
             PROVE  EndsInv'
  BY DEF EndsInv
<1>1. def' = def /\ def.timeout # 0 /\ def.progress # 0
  BY Steps
<1>2. /\ level \in Levels /\ "outer" \in Levels /\ "inner" \in Levels
      /\ tick \in [Levels -> Nat] /\ left \in [Levels -> Nat] /\ open \in [Levels -> BOOLEAN]
      /\ elapsed \in Nat /\ spent \in Nat /\ spent <= MaxCall /\ MaxCall \in Nat
  BY BoundsAssumption, SMT DEF TypeOK, Levels
<1>3. Checking \/ Begin =>
        /\ def.interval \in Nat /\ def.interval > 0
        /\ def.timeout \in Nat /\ def.progress \in Nat
  BY Types
<1>4. ASSUME Checking, stage # "report-timeout"
      PROVE  OuterEnds /\ InnerEnds
  BY <1>1, <1>4 DEF EndsInv
<1>5. CASE Begin
  <2>1. elapsed = 0
    BY <1>5, SMT DEF Begin, Rest, Checking, Calls, ConditionCalls
  <2>2. /\ stage' = "wait" /\ level' = "outer" /\ elapsed' = 0
        /\ tick'["outer"] = def.interval /\ left'["outer"] = def.timeout /\ open'["outer"]
    BY <1>2, <1>5, <2>1, SMT DEF Begin, StartPoll, Limit, clocks
  <2> QED
    BY <1>1, <1>2, <1>3, <1>5, <2>2, SMT DEF EndsInv, OuterEnds, InnerEnds, Round
<1>6. ASSUME NEW l \in Levels, DropTick(l), Checking
      PROVE  EndsInv'
  <2>1. /\ UNCHANGED <<stage, level, left, open, elapsed, spent>>
        /\ \A k \in Levels : tick'[k] = 0 => tick[k] = 0
    BY <1>2, <1>3, <1>6, SMT DEF DropTick, callVars, clocks
  <2> QED
    BY <1>1, <1>2, <1>6, <2>1 DEF EndsInv, OuterEnds, InnerEnds, Called, Round
<1>7. ASSUME CallCondition, Checking
      PROVE  EndsInv'
  <2>1. /\ stage = "wait" /\ stage' = "get" /\ spent' = 0 /\ tick[level] = 0
        /\ UNCHANGED <<level, left, elapsed>>
        /\ tick' = [tick EXCEPT ![level] = def.interval]
        /\ open' = [open EXCEPT ![level] = TRUE]
    BY <1>7 DEF CallCondition, StartGet, clocks
  <2>2. CASE level = "outer"
    BY <1>1, <1>2, <1>3, <1>4, <1>7, <2>1, <2>2, SMT DEF EndsInv, OuterEnds, InnerEnds, Called, Round
  <2>3. CASE level = "inner"
    BY <1>1, <1>2, <1>3, <1>4, <1>7, <2>1, <2>3, SMT DEF EndsInv, OuterEnds, InnerEnds, Called, Round
  <2> QED
    BY <1>2, <2>2, <2>3 DEF Levels
<1>8. ASSUME LastCallOfCondition, Checking
      PROVE  EndsInv'
  <2>1. /\ stage = "wait" /\ stage' = "get" /\ spent' = 0
        /\ UNCHANGED <<level, tick, left, elapsed>>
        /\ open' = [open EXCEPT ![level] = FALSE]
    BY <1>8 DEF LastCallOfCondition, StartGet, clocks
  <2>2. CASE level = "outer"
    BY <1>1, <1>2, <1>3, <1>4, <1>8, <2>1, <2>2, SMT DEF EndsInv, OuterEnds, InnerEnds, Called, Round
  <2>3. CASE level = "inner"
    BY <1>1, <1>2, <1>3, <1>4, <1>8, <2>1, <2>3, SMT DEF EndsInv, OuterEnds, InnerEnds, Called, Round
  <2> QED
    BY <1>2, <2>2, <2>3 DEF Levels
<1>9. ASSUME Get, Checking
      PROVE  EndsInv'
  <2>1. /\ stage = "get" /\ stage' = "compare"
        /\ UNCHANGED <<level, tick, left, open, elapsed, spent>>
    BY <1>9 DEF Get, pollVars
  <2> QED
    BY <1>1, <1>4, <1>9, <2>1, SMT DEF EndsInv, OuterEnds, InnerEnds, Called, Round
<1>10. ASSUME Judge, Checking
       PROVE  EndsInv'
  <2>1. stage \in Compared /\ Proceeds /\ UNCHANGED clocks
    BY <1>10, Verdicts
  <2>2. stage # "wait" /\ stage # "report-timeout" /\ elapsed' = elapsed /\ OuterEnds /\ InnerEnds
    BY <1>4, <1>10, <2>1, SMT DEF Compared, clocks
  <2>3. CASE ToCheck \/ ToReport
    <3>1. /\ UNCHANGED <<level, tick, left, open, spent>>
          /\ stage' # "wait" /\ stage' # "report-timeout"
      BY <2>3, SMT DEF ToCheck, ToReport, pollVars, callVars
    <3> QED
      BY <1>1, <2>2, <3>1 DEF EndsInv, OuterEnds, InnerEnds, Called, Round
  <2>4. CASE ToInner
    <3>1. /\ stage' = "wait" /\ level = "outer" /\ level' = "inner"
          /\ left'["outer"] = left["outer"] /\ tick'["outer"] = tick["outer"]
          /\ open'["outer"] = open["outer"] /\ open'["inner"]
          /\ left'["inner"] = def.progress /\ tick'["inner"] = def.interval
      BY <1>2, <2>4, SMT DEF ToInner, StartPoll, Limit
    <3>2. elapsed <= Called + MaxCall /\ Called \in Nat
      BY <1>2, <1>3, <1>10, <2>2, <3>1, SMT DEF OuterEnds, Called, Round
    <3>3. Called' = Called
      BY <1>1, <3>1 DEF Called, Round
    <3>4. OuterEnds'
      BY <1>1, <2>2, <3>1, SMT DEF OuterEnds
    <3>5. InnerEnds'
      BY <1>1, <1>2, <1>3, <1>10, <2>2, <3>1, <3>2, <3>3, SMT DEF InnerEnds
    <3> QED
      BY <3>1, <3>4, <3>5 DEF EndsInv
  <2>5. CASE ToWait
    <3>1. /\ stage' = "wait" /\ level = "inner" /\ open["inner"]
          /\ UNCHANGED <<level, tick, left, open, spent>>
      BY <2>5 DEF ToWait, pollVars, callVars
    <3> QED
      BY <1>1, <1>2, <1>3, <1>10, <2>2, <3>1, SMT DEF EndsInv, OuterEnds, InnerEnds, Called, Round
  <2>6. CASE ToOuter
    <3>1. /\ stage' = "wait" /\ level = "inner" /\ level' = "outer" /\ open["outer"]
          /\ left'["outer"] = left["outer"] /\ tick'["outer"] = tick["outer"]
          /\ open'["outer"] = open["outer"]
      <4>1. level = "inner" /\ open["outer"] /\ WaitOuter
        BY <2>6 DEF ToOuter
      <4>2. open'["outer"] = open["outer"]
        <5>1. open' = [open EXCEPT !["inner"] = TRUE] /\ "outer" # "inner"
          BY <4>1 DEF WaitOuter
        <5> QED
          BY <1>2, <5>1, Zenon
      <4>3. left'["outer"] = left["outer"] /\ tick'["outer"] = tick["outer"]
        BY <1>2, <4>1, SMT DEF WaitOuter
      <4> QED
        BY <4>1, <4>2, <4>3 DEF WaitOuter
    <3> QED
      BY <1>1, <1>2, <1>3, <1>10, <2>2, <3>1, SMT DEF EndsInv, OuterEnds, InnerEnds, Called, Round
  <2>7. CASE ToTimeout
    <3>1. stage' = "report-timeout" /\ level = "inner" /\ spent' = 0
      BY <2>7 DEF ToTimeout
    <3> QED
      BY <1>1, <1>2, <1>3, <1>10, <2>2, <3>1, SMT DEF EndsInv, InnerEnds, Called, Round
  <2> QED
    BY <2>1, <2>3, <2>4, <2>5, <2>6, <2>7 DEF Proceeds
<1>11. ASSUME NEW v \in Values, ObjectChanges(v), Checking
       PROVE  EndsInv'
  <2>1. UNCHANGED <<stage, level, tick, left, open, elapsed, spent>>
    BY <1>11 DEF ObjectChanges, pollVars, callVars
  <2> QED
    BY <1>1, <1>11, <2>1 DEF EndsInv, OuterEnds, InnerEnds, Called, Round
<1>12. ASSUME PodsChange, Checking
       PROVE  EndsInv'
  <2>1. UNCHANGED <<stage, level, tick, left, open, elapsed, spent>>
    BY <1>12 DEF PodsChange, pollVars, callVars
  <2> QED
    BY <1>1, <1>12, <2>1 DEF EndsInv, OuterEnds, InnerEnds, Called, Round
<1>13. ASSUME Elapse, Checking
       PROVE  EndsInv'
  <2>1. /\ UNCHANGED <<stage, level, open>>
        /\ stage = "wait" => spent' = spent /\ ~Closed(level)
        /\ stage # "wait" => spent' = spent + 1
        /\ elapsed' <= elapsed + 1
    BY <1>13, Passing
  <2>2. elapsed' \in Nat
    BY <1>2, <1>13, SMT DEF Elapse, Later
  <2>3. CASE stage = "report-timeout"
    BY <1>1, <1>2, <1>3, <1>13, <2>1, <2>2, <2>3, SMT DEF EndsInv, Round
  <2>4. CASE stage # "report-timeout"
    <3>1. OuterEnds /\ InnerEnds
      BY <1>4, <1>13, <2>4
    <3>2. Called' = Called /\ Round' = Round /\ Called \in Nat /\ Round \in Nat
      BY <1>1, <1>2, <1>3, <1>13, <2>1, SMT DEF Called, Round
    <3>3. ASSUME NEW l \in Active
          PROVE  /\ tick[l] > 0 /\ tick[l] \in Nat /\ left[l] \in Nat
                 /\ left[l] > 0 => left'[l] = left[l] - 1
                 /\ left[l] = 0 => left'[l] = 0
                 /\ left[l] = 0 => tick'[l] = tick[l]
                 /\ stage = "wait" /\ level = l => left[l] > 0
      <4>1. Limit(l) # 0
        <5>1. l \in Levels
          BY SMT DEF Active, Levels
        <5> QED
          BY <1>1, <5>1 DEF Limit, Levels
      <4> QED
        BY <1>13, <2>1, <4>1, Passing, SMT DEF Closed
    <3>4. OuterEnds'
      <4>1. "outer" \in Active
        BY <1>13, ActiveLevels
      <4> QED
        BY <1>1, <1>2, <1>3, <1>13, <2>1, <2>2, <3>1, <3>2, <3>3, <4>1, SMT DEF OuterEnds
    <3>5. InnerEnds'
      <4>1. CASE level = "inner"
        <5>1. "inner" \in Active
          BY <1>13, <4>1, ActiveLevels
        <5> QED
          BY <1>1, <1>2, <1>3, <1>13, <2>1, <2>2, <3>1, <3>2, <3>3, <4>1, <5>1, SMT DEF InnerEnds
      <4>2. CASE level # "inner"
        BY <2>1, <4>2 DEF InnerEnds
      <4> QED
        BY <4>1, <4>2
    <3> QED
      BY <2>1, <2>4, <3>4, <3>5 DEF EndsInv
  <2> QED
    BY <2>3, <2>4
<1> QED
  BY <1>5, <1>6, <1>7, <1>8, <1>9, <1>10, <1>11, <1>12, <1>13, Steps

-----------------------------------------------------------------------------
(***************************************************************************)
(* What the object has shown.                                              *)
(***************************************************************************)

\* ShownInv is preserved.
LEMMA ShownStep ==
  ASSUME TypeOK, SeenInv, ShownInv, Next
  PROVE  ShownInv'
<1> SUFFICES ASSUME Checking'
             PROVE  ShownInv'
  BY DEF ShownInv
<1>1. def' = def
  BY Steps
<1>2. /\ level \in Levels /\ values \in [Levels -> Values]
      /\ spent \in Nat /\ lapsed \in Nat /\ MaxCall \in Nat
  BY BoundsAssumption, SMT DEF TypeOK
<1>3. CASE Begin
  BY <1>1, <1>3, SMT DEF Begin, StartPoll, ShownInv
<1>4. ASSUME NEW l \in Levels, DropTick(l), Checking
      PROVE  ShownInv'
  BY <1>1, <1>4 DEF DropTick, ShownInv, Succeeded, callVars, objVars
<1>5. ASSUME CallCondition \/ LastCallOfCondition, Checking
      PROVE  ShownInv'
  BY <1>1, <1>5, SMT DEF CallCondition, LastCallOfCondition, StartGet, ShownInv, objVars
<1>6. ASSUME Get, Checking
      PROVE  ShownInv'
  BY <1>1, <1>2, <1>6, SMT DEF Get, ShownInv, Succeeded, objVars, Levels
<1>7. ASSUME Judge, Checking
      PROVE  ShownInv'
  <2>1. Proceeds /\ UNCHANGED objVars
    BY <1>7, Verdicts
  <2>2. stage' # "compare"
    BY <2>1, SMT DEF Proceeds, ToCheck, ToReport, ToInner, StartPoll, ToWait, ToOuter, WaitOuter, ToTimeout
  <2> QED
    BY <1>1, <1>7, <2>1, <2>2 DEF ShownInv, objVars
<1>8. ASSUME NEW v \in Values, ObjectChanges(v), Checking
      PROVE  ShownInv'
  BY <1>1, <1>2, <1>8, SMT DEF ObjectChanges, Matches, ShownInv, Succeeded, pollVars, callVars
<1>9. ASSUME PodsChange, Checking
      PROVE  ShownInv'
  BY <1>1, <1>9 DEF PodsChange, ShownInv, Succeeded, callVars
<1>10. ASSUME Elapse, Checking
       PROVE  ShownInv'
  <2>1. /\ UNCHANGED <<stage, level, values, shown>>
        /\ stage = "compare" => spent' = spent + 1
    BY <1>10 DEF Elapse
  <2>2. shown \in def.expected => lapsed' = 0
    BY <1>10 DEF Elapse, Matches
  <2>3. lapsed' <= lapsed + 1
    BY <1>2, <1>10, SMT DEF Elapse
  <2> QED
    BY <1>1, <1>2, <1>10, <2>1, <2>2, <2>3, SMT DEF ShownInv, Succeeded, Elapse
<1> QED
  BY <1>3, <1>4, <1>5, <1>6, <1>7, <1>8, <1>9, <1>10, Steps

-----------------------------------------------------------------------------
(***************************************************************************)
(* The theorems.                                                           *)
(***************************************************************************)

IInv ==
  /\ TypeOK /\ Chosen /\ Rest
  /\ TimersInv /\ TicksInv /\ SeenInv /\ KilledInv /\ EndsInv /\ ShownInv

\* The invariant holds at the start.
LEMMA InitInv == Init => IInv
<1> SUFFICES ASSUME Init
             PROVE  IInv
  OBVIOUS
<1>1. ~Checking /\ ~Running
  BY SMT DEF Init, Checking, Running, Calls, ConditionCalls
<1>2. defs \in Seq(Definition) /\ index \in 1 .. Len(defs) + 1
  BY SMT DEF Init
<1>3. /\ tick \in [Levels -> Nat] /\ left \in [Levels -> Nat] /\ open \in [Levels -> BOOLEAN]
      /\ values \in [Levels -> Values] /\ spent \in 0 .. MaxCall
      /\ elapsed \in 0 .. MaxTime /\ matching \in 0 .. MaxTime
      /\ failing \in 0 .. MaxTime /\ quiet \in 0 .. MaxTime
      /\ lapsed \in 0 .. MaxCall + 1
  BY BoundsAssumption, SMT DEF Init
<1>4. /\ stage = "idle" /\ stage \notin {"failure", "report-failure"}
      /\ result = "none" /\ level \in Levels /\ check \in Nat
      /\ shown \in Values /\ killed \in BOOLEAN /\ defs = << >>
      /\ elapsed = 0 /\ matching = 0 /\ failing = 0
  BY SMT DEF Init, Levels
<1>5. TypeOK
  BY <1>1, <1>2, <1>3, <1>4 DEF TypeOK
<1> QED
  BY <1>1, <1>4, <1>5
     DEF IInv, Chosen, Rest, TimersInv, TicksInv, Active, SeenInv, KilledInv, EndsInv,
         ShownInv

\* Every step preserves the invariant.
LEMMA StepInv == IInv /\ [Next]_vars => IInv'
<1> SUFFICES ASSUME IInv, [Next]_vars
             PROVE  IInv'
  OBVIOUS
<1>1. CASE Next
  BY <1>1, TypeStep, RestStep, TimersStep, TicksStep, SeenStep, KilledStep, EndsStep, ShownStep
     DEF IInv
<1>2. CASE UNCHANGED vars
  BY <1>2 DEF vars, runVars, pollVars, objVars, clocks, callVars, IInv, TypeOK, Chosen, Rest, TimersInv,
     TicksInv, Active, SeenInv, KilledInv, EndsInv, OuterEnds, InnerEnds, Called, Round, Slack,
     ShownInv, Succeeded,
     Unsuccessful, FailureEnds, Running, Checking, def
<1> QED
  BY <1>1, <1>2

\* The invariant: what bounds each clock, for all definitions and times.
THEOREM Invariant == Spec => []IInv
<1> QED
  BY InitInv, StepInv, PTL DEF Spec

\* All variables have their types; no check is looked at that is not there
\* (success_check.go:161-182, checks.go:49-62).
THEOREM TypeCorrect == Spec => []TypeOK
<1>1. IInv => TypeOK
  BY DEF IInv
<1> QED
  BY <1>1, Invariant, PTL

\* A check with both timeouts ends, and not later than one that has two inner
\* polls after its timeout (success_check.go:103-148).
THEOREM ChecksEnd == Spec => []EndsInTime
<1>1. IInv => EndsInTime
  <2> SUFFICES ASSUME IInv, Checking, def.timeout # 0, def.progress # 0
               PROVE  elapsed <= def.timeout + 2 * (def.progress + 3 * MaxCall) + MaxCall
    BY DEF EndsInTime
  <2>1. /\ level \in Levels /\ MaxCall \in Nat /\ elapsed \in Nat
        /\ spent \in Nat /\ spent <= MaxCall
        /\ def.timeout \in Nat /\ def.progress \in Nat
    BY Types, BoundsAssumption DEF IInv
  <2>2. EndsInv
    BY DEF IInv
  <2>3. CASE stage = "report-timeout"
    BY <2>1, <2>2, <2>3, SMT DEF EndsInv, Round
  <2>4. CASE stage # "report-timeout" /\ level = "outer"
    BY <2>1, <2>2, <2>4, SMT DEF EndsInv, OuterEnds, Called, Round
  <2>5. CASE stage # "report-timeout" /\ level = "inner"
    BY <2>1, <2>2, <2>5, SMT DEF EndsInv, InnerEnds, Called, Round
  <2> QED
    BY <2>1, <2>3, <2>4, <2>5 DEF Levels
<1> QED
  BY <1>1, Invariant, PTL

\* An object that goes on to show what is expected is noticed after two
\* intervals and the calls between them (success_check.go:122-147).
THEOREM SuccessSeen == Spec => []SuccessIsNoticed
<1>1. IInv => SuccessIsNoticed
  <2> SUFFICES ASSUME IInv, stage \in ConditionCalls \cup {"wait"}
               PROVE  matching <= 2 * (def.interval + MaxCall) + MaxCall
    BY DEF SuccessIsNoticed
  <2>1. Checking /\ Running
    BY SMT DEF Checking, Running, Calls
  <2>2. /\ level \in Levels /\ MaxCall \in Nat /\ matching \in Nat
        /\ spent \in Nat /\ spent <= MaxCall /\ def.interval \in Nat
        /\ tick \in [Levels -> Nat]
    BY <2>1, Types, BoundsAssumption DEF IInv, TypeOK
  <2>3. tick[level] \in Nat
    BY <2>2
  <2>4. SeenInv
    BY DEF IInv
  <2> QED
    BY <2>1, <2>2, <2>3, <2>4, SMT DEF SeenInv, Slack, Compared, ConditionCalls
<1> QED
  BY <1>1, Invariant, PTL

\* A failure that lasts and that is not reported ends the check after an
\* interval and the calls around it (success_check.go:121, 144, 161).
THEOREM FailureSeen == Spec => []FailureIsNoticed
<1>1. IInv => FailureIsNoticed
  <2> SUFFICES ASSUME IInv, stage \in ConditionCalls \cup {"wait"}, FailureEnds
               PROVE  failing <= def.interval + 2 * MaxCall
    BY DEF FailureIsNoticed, FailureEnds
  <2>1. Checking /\ Running
    BY SMT DEF Checking, Running, Calls
  <2>2. /\ level \in Levels /\ MaxCall \in Nat /\ failing \in Nat
        /\ spent \in Nat /\ spent <= MaxCall /\ def.interval \in Nat
        /\ tick \in [Levels -> Nat]
    BY <2>1, Types, BoundsAssumption DEF IInv, TypeOK
  <2>3. tick[level] \in Nat
    BY <2>2
  <2>4. KilledInv
    BY DEF IInv
  <2> QED
    BY <2>1, <2>2, <2>3, <2>4, SMT DEF KilledInv, ConditionCalls
<1> QED
  BY <1>1, Invariant, PTL

\* No check gives up before one of its timeouts is over
\* (success_check.go:105, 125, 153).
THEOREM NoEarlyTimeout == Spec => GivesUpLate
<1> DEFINE Gives == stage' = "report-timeout" \/ (result' = "timeout" /\ result # "timeout")
           Late  == \/ def.timeout # 0 /\ elapsed >= def.timeout
                    \/ def.progress # 0 /\ quiet >= def.progress /\ values["inner"] = values["outer"]
<1>1. ASSUME IInv, Next, Gives
      PROVE  stage = "report-timeout" \/ Late
  <2>1. TypeOK /\ SeenInv /\ TimersInv
    BY <1>1 DEF IInv
  <2>2. ASSUME GaveUp
        PROVE  Late
    BY <2>1, <2>2 DEF GaveUp, HasChanged, TimersInv
  <2>3. CASE Checking'
    <3>1. UNCHANGED runVars
      BY <1>1, <2>1, <2>3, Steps
    <3>2. stage' = "report-timeout"
      BY <1>1, <3>1 DEF runVars
    <3>3. CASE Judge
      <4>1. Proceeds /\ stage \in Compared
        BY <2>1, <2>3, <3>3, Verdicts
      <4>2. ToTimeout
        BY <3>2, <4>1, SMT DEF Proceeds, ToCheck, ToReport, ToInner, StartPoll, ToWait, ToOuter, WaitOuter
      <4>3. GaveUp
        BY <4>1, <4>2, SMT DEF ToTimeout, GaveUp, Checking, Calls, ConditionCalls, Compared
      <4> QED
        BY <4>3, <2>2
    <3>4. ASSUME NEW l \in Levels, DropTick(l)
          PROVE  stage' = stage
      BY <3>4 DEF DropTick
    <3>5. ASSUME NEW v \in Values, ObjectChanges(v)
          PROVE  stage' = stage
      BY <3>5 DEF ObjectChanges
    <3>6. PodsChange \/ Elapse => stage' = stage
      BY DEF PodsChange, Elapse
    <3>7. Begin \/ CallCondition \/ LastCallOfCondition \/ Get => stage' # "report-timeout"
      BY SMT DEF Begin, StartPoll, CallCondition, LastCallOfCondition, StartGet, Get
    <3> QED
      BY <1>1, <2>1, <2>3, <3>2, <3>3, <3>4, <3>5, <3>6, <3>7, Steps
  <2>4. CASE ~Checking'
    <3>1. stage' # "report-timeout"
      BY <2>4, SMT DEF Checking, Calls
    <3>2. result' = "timeout" /\ result # "timeout"
      BY <1>1, <3>1
    <3>3. ASSUME NEW ds \in Definitions, RunChecks(ds)
          PROVE  FALSE
      BY <3>2, <3>3, SMT DEF RunChecks
    <3>4. ASSUME NEW v \in Values, ObjectChanges(v)
          PROVE  FALSE
      BY <3>2, <3>4 DEF ObjectChanges, runVars
    <3>5. Ending
      BY <1>1, <2>1, <2>4, <3>3, <3>4, Pauses
    <3> QED
      BY <2>1, <2>2, <2>4, <3>2, <3>5, Endings
  <2> QED
    BY <2>3, <2>4
<1>2. IInv /\ [Next]_vars => [Gives => stage = "report-timeout" \/ Late]_vars
  BY <1>1
<1> QED
  BY <1>2, Invariant, PTL DEF Spec, GivesUpLate

\* A definition counts as met only if the object has shown what it expects since
\* the check has begun, and not longer ago than the calls of a condition take,
\* or if its timeout is reported (success_check.go:103-153).
THEOREM SuccessIsTruthful == Spec => SuccessWasShown
<1>1. ASSUME IInv, Next, index' = index + 1
      PROVE  stage = "report-timeout" \/ lapsed <= MaxCall
  <2>1. TypeOK /\ SeenInv /\ ShownInv /\ index \in Nat /\ index > 0
    BY <1>1, SMT DEF IInv, TypeOK
  <2>2. ~UNCHANGED index
    BY <1>1, <2>1, SMT
  <2>3. ~Checking'
    BY <1>1, <2>1, <2>2, Steps DEF runVars
  <2>4. ASSUME NEW ds \in Definitions, RunChecks(ds)
        PROVE  FALSE
    BY <1>1, <2>1, <2>4, SMT DEF RunChecks
  <2>5. ASSUME NEW v \in Values, ObjectChanges(v)
        PROVE  FALSE
    BY <2>2, <2>5 DEF ObjectChanges, runVars
  <2>6. Ending
    BY <1>1, <2>1, <2>3, <2>4, <2>5, Pauses
  <2>7. AllSucceeded \/ Fails => UNCHANGED index
    BY DEF AllSucceeded, Fails, Return
  <2>8. NotFailed => UNCHANGED index
    BY DEF NotFailed, InnerAgain, OuterAgain, WaitInner, WaitOuter, TimedOut, Return, runVars
  <2>9. ASSUME NEW i
        PROVE  FailsFrom(i) => UNCHANGED index
    BY <2>8 DEF FailsFrom, runVars
  <2>10. FailureCheckPasses \/ FailureCheckFails \/ FailureIsReported => UNCHANGED index
    BY <2>8, <2>9 DEF FailureCheckPasses, FailureCheckFails, FailureIsReported, Return, runVars
  <2>11. ASSUME Compare
         PROVE  lapsed <= MaxCall
    <3>1. Succeeded
      BY <2>2, <2>9, <2>11 DEF Compare
    <3>2. level = "outer"
      BY <2>2, <2>11, <3>1 DEF Compare, OuterAgain, WaitOuter, TimedOut, Return, runVars
    <3>3. stage = "compare" /\ Checking
      BY <2>11, SMT DEF Compare, Checking, Calls, ConditionCalls
    <3>4. lapsed <= spent
      BY <2>1, <3>1, <3>2, <3>3 DEF ShownInv
    <3> QED
      BY <2>1, <3>4, BoundsAssumption, SMT DEF TypeOK
  <2> QED
    BY <2>2, <2>6, <2>7, <2>10, <2>11 DEF Ending, Judge, TimeoutIsReported
<1>2. IInv /\ [Next]_vars => [index' = index + 1 => stage = "report-timeout" \/ lapsed <= MaxCall]_vars
  BY <1>1
<1> QED
  BY <1>2, Invariant, PTL DEF Spec, SuccessWasShown

=============================================================================
