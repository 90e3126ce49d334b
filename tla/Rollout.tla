------------------------------- MODULE Rollout -------------------------------
(***************************************************************************)
(* Runner.Execute (rollout/rollout.go): render a rollout, then work        *)
(* through its groups in order.  A parallel group runs every step in a     *)
(* goroutine of its own and waits for all of them; another group runs one  *)
(* step after the other.  After each group the feedback is told that the   *)
(* group has finished.  The executions of one trigger follow one another;  *)
(* the process may be killed anywhere.                                     *)
(*                                                                         *)
(* A step acts on every item of its object (one, unless the object is a    *)
(* list) and then runs its checks.  What an action does to an object is    *)
(* the subject of ObjectActions.tla; here an item is applied or fails.     *)
(***************************************************************************)
EXTENDS Feedback

CONSTANTS
  \* the rollouts that rendering may produce
  Plans

Step  == [items : Nat, continueOnError : BOOLEAN]
Group == [name : Names, parallel : BOOLEAN, steps : Seq(Step)]

ASSUME PlansAssumption == Plans \subseteq Seq(Group)

VARIABLES
  pc,         \* where Execute is
  renderOnly, \* r.renderOnly, a flag of the process
  plan,       \* res.Rollout.Spec.Groups
  group,      \* index of the group Execute is at
  next,       \* index of the next step of that group
  status,     \* of each step of the plan
  applied,    \* how many items of each step's object have been acted on
  live,       \* the steps whose goroutines have not called wg.Done; those of
              \* one group are the counter of its WaitGroup
  errs,       \* the steps whose errors have been collected; those of one
              \* group are its errs
  result      \* what Execute returned

runVars == <<plan, group, next, status, applied, live, errs>>
vars    == <<pc, renderOnly, runVars, result, feedbackVars>>

\* A step is named by its group and its place there.
StepIds(p) == UNION {{<<g, i>> : i \in DOMAIN p[g].steps} : g \in DOMAIN p}

StepOf(s)   == plan[s[1]].steps[s[2]]
Parallel(g) == plan[g].parallel
Current     == <<group, next>>
StepCount   == Len(plan[group].steps)
GroupNames(p) == [g \in DOMAIN p |-> p[g].name]

PCs      == {"idle", "render", "initialize", "group", "steps", "report"}
Statuses == {"idle", "running", "ok", "failed"}
Results  == {"none", "nil", "render error", "feedback error", "step error",
             "crashed"}

TypeOK ==
  /\ pc \in PCs
  /\ renderOnly \in BOOLEAN
  /\ plan \in Seq(Group)
  /\ group \in Nat \ {0}
  /\ next \in Nat \ {0}
  /\ status \in [StepIds(plan) -> Statuses]
  /\ applied \in [StepIds(plan) -> Nat]
  /\ live \subseteq StepIds(plan)
  /\ errs \subseteq StepIds(plan)
  /\ result \in Results
  /\ FeedbackTypeOK

Init ==
  /\ pc = "idle"
  /\ renderOnly \in BOOLEAN
  /\ plan = << >>
  /\ group = 1
  /\ next = 1
  /\ status = [s \in StepIds(<< >>) |-> "idle"]
  /\ applied = [s \in StepIds(<< >>) |-> 0]
  /\ live = {}
  /\ errs = {}
  /\ result = "none"
  /\ FeedbackInit

\* The rollout p, with no step begun, is the one to execute.
Load(p) ==
  /\ plan' = p
  /\ status' = [s \in StepIds(p) |-> "idle"]
  /\ applied' = [s \in StepIds(p) |-> 0]

Goto(l) == pc' = l /\ UNCHANGED <<renderOnly, result>>

Return(r) == pc' = "idle" /\ result' = r /\ UNCHANGED renderOnly

-----------------------------------------------------------------------------
(***************************************************************************)
(* Execute, up to its loop over the groups.                                *)
(***************************************************************************)

\* A trigger calls Execute, with feedback (resource trigger) or without.
Trigger ==
  /\ pc = "idle"
  /\ \E has \in BOOLEAN : NewFeedback(has)
  /\ pc' = "render"
  /\ result' = "none"
  /\ Load(<< >>)
  /\ group' = 1
  /\ next' = 1
  /\ live' = {}
  /\ errs' = {}
  /\ UNCHANGED renderOnly

\* Rendering fails, or with --render-only the encoding of its result.
RenderFails ==
  /\ pc = "render"
  /\ Return("render error")
  /\ UNCHANGED <<runVars, feedbackVars>>

\* With --render-only the result is printed and nothing is rolled out.
PrintResult ==
  /\ pc = "render"
  /\ renderOnly
  /\ Return("nil")
  /\ UNCHANGED <<runVars, feedbackVars>>

Render ==
  /\ pc = "render"
  /\ ~renderOnly
  /\ Goto(IF feedback THEN "initialize" ELSE "group")
  /\ \E p \in Plans : Load(p)
  /\ UNCHANGED <<group, next, live, errs, feedbackVars>>

InitializeFeedback ==
  /\ pc = "initialize"
  /\ \E ok \in BOOLEAN :
       /\ Initialize(GroupNames(plan), ok)
       /\ IF ok THEN Goto("group") ELSE Return("feedback error")
  /\ UNCHANGED runVars

-----------------------------------------------------------------------------
(***************************************************************************)
(* Execute's loop over the groups.                                         *)
(***************************************************************************)

EnterGroup ==
  /\ pc = "group"
  /\ group <= Len(plan)
  /\ Goto("steps")
  /\ next' = 1
  /\ UNCHANGED <<plan, group, status, applied, live, errs, feedbackVars>>

AllGroupsDone ==
  /\ pc = "group"
  /\ group > Len(plan)
  /\ Return("nil")
  /\ UNCHANGED <<runVars, feedbackVars>>

\* wg.Add(1); go func ...
Spawn ==
  /\ pc = "steps"
  /\ next <= StepCount
  /\ Parallel(group)
  /\ live' = live \cup {Current}
  /\ next' = next + 1
  /\ UNCHANGED <<pc, renderOnly, plan, group, status, applied, errs, result,
                 feedbackVars>>

Tolerated(s) == StepOf(s).continueOnError

\* Mutant of StepReturned: the error of a step is logged and the loop goes on.
StepReturnedAnyway ==
  /\ pc = "steps"
  /\ next <= StepCount
  /\ ~Parallel(group)
  /\ status[Current] \in {"ok", "failed"}
  /\ next' = next + 1
  /\ UNCHANGED <<pc, renderOnly, plan, group, status, applied, live, errs,
                 result, feedbackVars>>

\* Mutant of StepReturned: a step whose failure is tolerated is run again.
StepReturnedRetried ==
  /\ pc = "steps"
  /\ next <= StepCount
  /\ ~Parallel(group)
  /\ status[Current] \in {"ok", "failed"}
  /\ IF status[Current] = "failed" /\ StepOf(Current).continueOnError
     THEN status' = [status EXCEPT ![Current] = "idle"] /\ UNCHANGED <<pc, next, result>>
     ELSE /\ IF status[Current] = "ok" THEN next' = next + 1 /\ UNCHANGED <<pc, result>>
             ELSE pc' = "idle" /\ result' = "step error" /\ UNCHANGED next
          /\ UNCHANGED status
  /\ UNCHANGED <<renderOnly, plan, group, applied, live, errs, feedbackVars>>

\* runStep returned in a group that is not parallel.
StepReturned ==
  /\ pc = "steps"
  /\ next <= StepCount
  /\ ~Parallel(group)
  /\ status[Current] \in {"ok", "failed"}
  /\ IF status[Current] = "ok" \/ Tolerated(Current)
     THEN next' = next + 1 /\ UNCHANGED <<pc, renderOnly, result>>
     ELSE Return("step error") /\ UNCHANGED next
  /\ UNCHANGED <<plan, group, status, applied, live, errs, feedbackVars>>

OfGroup(set) == {s \in set : s[1] = group}

\* Mutant of WaitDone: Execute does not wait for the goroutines.
WaitDoneSkipped == TRUE

\* wg.Wait() returns.
WaitDone == OfGroup(live) = {}

\* wg.Wait() returned and errs is nil.
GroupSucceeds ==
  /\ pc = "steps"
  /\ next > StepCount
  /\ WaitDone
  /\ OfGroup(errs) = {}
  /\ IF feedback THEN Goto("report") /\ UNCHANGED group
                 ELSE Goto("group") /\ group' = group + 1
  /\ UNCHANGED <<plan, next, status, applied, live, errs, feedbackVars>>

\* wg.Wait() returned and errs is not nil.
GroupFails ==
  /\ pc = "steps"
  /\ next > StepCount
  /\ WaitDone
  /\ OfGroup(errs) # {}
  /\ Return("step error")
  /\ UNCHANGED <<runVars, feedbackVars>>

ReportGroup ==
  /\ pc = "report"
  /\ \E ok \in BOOLEAN :
       /\ SetCondition(plan[group].name, Finished, ok)
       /\ IF ok THEN Goto("group") /\ group' = group + 1
                ELSE Return("feedback error") /\ UNCHANGED group
  /\ UNCHANGED <<plan, next, status, applied, live, errs>>

-----------------------------------------------------------------------------
(***************************************************************************)
(* runStep, called by Execute or by a goroutine of a parallel group.       *)
(***************************************************************************)

\* Step s is run by its goroutine, or by Execute itself.
Called(s) ==
  \/ s \in live
  \/ /\ pc = "steps"
     /\ next <= StepCount
     /\ ~Parallel(group)
     /\ s = Current

StepVars == <<pc, renderOnly, plan, group, next, live, errs, result,
              feedbackVars>>

StartStep(s) ==
  /\ Called(s)
  /\ status[s] = "idle"
  /\ status' = [status EXCEPT ![s] = "running"]
  /\ UNCHANGED <<applied, StepVars>>

\* The action succeeds on the next item of the step's object.
ApplyItem(s) ==
  /\ Called(s)
  /\ status[s] = "running"
  /\ applied[s] < StepOf(s).items
  /\ applied' = [applied EXCEPT ![s] = @ + 1]
  /\ UNCHANGED <<status, StepVars>>

\* The object or the action is unknown, the action fails on an item (the
\* remaining ones are not tried), or a check fails.
StepFails(s) ==
  /\ Called(s)
  /\ status[s] = "running"
  /\ status' = [status EXCEPT ![s] = "failed"]
  /\ UNCHANGED <<applied, StepVars>>

\* RunChecks returns nil after every item was acted on.
StepSucceeds(s) ==
  /\ Called(s)
  /\ status[s] = "running"
  /\ applied[s] = StepOf(s).items
  /\ status' = [status EXCEPT ![s] = "ok"]
  /\ UNCHANGED <<applied, StepVars>>

\* The goroutine of a failed step adds the error, under errsLock.
AppendError(s) ==
  /\ s \in live
  /\ status[s] = "failed"
  /\ errs' = errs \cup {s}
  /\ s \notin errs
  /\ UNCHANGED <<pc, renderOnly, plan, group, next, status, applied, live,
                 result, feedbackVars>>

\* Mutants of MayExit: wg.Done() runs before the error is added; it is not
\* deferred, and the early return skips it.
MayExitEarly(s) == status[s] \in {"ok", "failed"}

MayExitUndeferred(s) == status[s] = "ok"

\* The deferred wg.Done() runs last.
MayExit(s) ==
  \/ status[s] = "ok"
  \/ status[s] = "failed" /\ s \in errs

GoroutineExits(s) ==
  /\ s \in live
  /\ MayExit(s)
  /\ live' = live \ {s}
  /\ UNCHANGED <<pc, renderOnly, plan, group, next, status, applied, errs,
                 result, feedbackVars>>

-----------------------------------------------------------------------------
\* The process is killed: the execution and its goroutines are gone.  What the
\* steps did to the cluster remains.
Crash ==
  /\ pc # "idle"
  /\ Return("crashed")
  /\ live' = {}
  /\ LoseFeedback
  /\ UNCHANGED <<plan, group, next, status, applied, errs>>

\* The object of the feedback changes, and the informer learns of it.
Environment ==
  /\ EditObject \/ DeliverEvent
  /\ UNCHANGED <<pc, renderOnly, runVars, result>>

\* runStep for step s, and the rest of its goroutine if it has one.
RunStep(s) ==
  \/ StartStep(s)
  \/ ApplyItem(s)
  \/ StepFails(s)
  \/ StepSucceeds(s)
  \/ AppendError(s)
  \/ GoroutineExits(s)

Execute ==
  \/ RenderFails
  \/ PrintResult
  \/ Render
  \/ InitializeFeedback
  \/ EnterGroup
  \/ AllGroupsDone
  \/ Spawn
  \/ StepReturned
  \/ GroupSucceeds
  \/ GroupFails
  \/ ReportGroup

Progress == Execute \/ \E s \in StepIds(plan) : RunStep(s)

Next == Trigger \/ Progress \/ Crash \/ Environment

\* Calls to the API server return and checks end: an execution that has begun
\* keeps moving.
Spec     == Init /\ [][Next]_vars
FairSpec == Spec /\ WF_vars(Progress)

-----------------------------------------------------------------------------
(***************************************************************************)
(* Properties.                                                             *)
(***************************************************************************)

\* What a step must have come to before Execute may go past it: it succeeded on
\* every item, or its error is one that rollout.go:148 lets pass.
Settled(s) ==
  \/ status[s] = "ok" /\ applied[s] = StepOf(s).items
  \/ status[s] = "failed" /\ Tolerated(s) /\ ~Parallel(s[1])

GroupSettled(g) == \A s \in StepIds(plan) : s[1] = g => Settled(s)

Begun(s) == status[s] # "idle"

\* No step of a group begins before every step of the groups before it is
\* settled, with its goroutine gone (wg.Wait at rollout.go:156 and the error
\* test after it).
GroupBarrier ==
  \A s, t \in StepIds(plan) :
    s[1] < t[1] /\ Begun(t) => Settled(s) /\ s \notin live

\* In a group that is not parallel no step begins before the steps ahead of it
\* are settled (the loop at rollout.go:132-155).
StepsInOrder ==
  \A s, t \in StepIds(plan) :
    s[1] = t[1] /\ s[2] < t[2] /\ ~Parallel(s[1]) /\ Begun(t) => Settled(s)

\* No goroutine of a step outlives the group that started it, let alone the
\* execution: a later execution never races with what is left of this one
\* (wg.Wait at rollout.go:156, on every way out of the loop).
NoStrayGoroutine == pc # "steps" => live = {}

\* Execute returns nil only if the whole plan was carried out: no error of a
\* step, of whichever goroutine, is lost on the way (rollout.go:139-160).
NilMeansRolledOut ==
  result = "nil" /\ ~renderOnly => \A s \in StepIds(plan) : Settled(s)

\* While the groups run, the stored status is the one the execution keeps,
\* unless the object changed under it: the writes that updateStatus skips
\* (feedback.go:125, oldStatus is never refreshed) are never needed.
StatusInSync ==
  feedback /\ fresh /\ pc \in {"group", "steps", "report"}
    => published = conditions

\* An execution with feedback that returns nil has reported every one of its
\* groups as finished, unless the object changed under it.
NilMeansReported ==
  result = "nil" /\ ~renderOnly /\ feedback /\ fresh =>
    published = [g \in DOMAIN plan |->
                   [name |-> plan[g].name, status |-> Finished]]

\* Every write to the stored status is an update of what is stored, in one of two
\* ways: the rollout's groups with the states that their names have there, when an
\* execution begins, or the conditions that are there with those of a group's name
\* finished, when it reports one.  None undoes what another execution or a write
\* whose response was lost has stored since f.obj was read (feedback.go:107-147,
\* 149-183).
WritesAreUpdates ==
  [][published' # published =>
       \/ /\ pc = "initialize"
          /\ published' = InitialConditions(GroupNames(plan), published)
       \/ /\ pc = "report"
          /\ published' = WithStatus(published, plan[group].name, Finished)]_vars

\* A condition of the stored object turns "Finished" only when the running
\* execution has settled all steps of a group of that name (rollout.go:163).
FinishedOnlyAfterGroup ==
  [][\A i \in DOMAIN published' :
       published'[i].status = Finished =>
         \/ \E k \in DOMAIN published : published[k] = published'[i]
         \/ \E g \in DOMAIN plan :
              plan[g].name = published'[i].name /\ GroupSettled(g)]_vars

\* A group that was reported as finished is never reported as not started,
\* whichever executions, edits, stale copies and crashes follow, for as long
\* as its condition is there (initializeStatus keeps the old conditions).
FinishedIsKept ==
  [][\A i \in DOMAIN published, k \in DOMAIN published' :
       published[i].name = published'[k].name /\ published[i].status = Finished
         => published'[k].status = Finished]_vars

\* Every execution ends: wg.Wait never waits for a goroutine that does not
\* come, however the steps fail (the deferred wg.Done at rollout.go:137).
Terminates == pc # "idle" ~> pc = "idle"

\* What the execution has still to pass: groups and steps of the plan, and in
\* every step its begin, its items, its end, and of a goroutine its error and its
\* return.
AtGroup(g) == group = g /\ pc \in {"initialize", "group"}

NotReached(s) ==
  \/ group < s[1] \/ AtGroup(s[1])
  \/ group = s[1] /\ pc = "steps" /\ next <= s[2]

Due ==
  LET groups == DOMAIN plan
      steps  == StepIds(plan)
  IN  [return     |-> IF pc = "idle" THEN {} ELSE {"execution"},
       initialize |-> IF pc = "initialize" THEN {"feedback"} ELSE {},
       enter      |-> {g \in groups : group < g \/ AtGroup(g)},
       leave      |-> {g \in groups :
                        group < g \/ (group = g /\ pc \notin {"report", "idle"})},
       report     |-> {g \in groups : group <= g},
       step       |-> {s \in steps : NotReached(s)},
       begin      |-> {s \in steps : status[s] = "idle"},
       item       |-> UNION {{s} \X (applied[s] + 1 .. StepOf(s).items) : s \in steps},
       end        |-> {s \in steps : status[s] \in {"idle", "running"}},
       error      |-> steps \ errs,
       exit       |-> {s \in steps : NotReached(s) \/ s \in live}]

\* Whatever an execution does once its rollout is rendered, it gets past
\* something that it does not come to again: no group or step is run twice, no
\* item acted on, no error added and no goroutine awaited a second time, however
\* goroutines interleave (rollout.go:128-170, 193-222).
EveryStepCounts ==
  [][ pc \notin {"idle", "render"} =>
        LET before == Due
            after  == Due'
        IN  /\ after # before
            /\ \A kind \in DOMAIN after : after[kind] \subseteq before[kind] ]_<<pc, runVars>>

\* A step that has not ended may have begun.
Ended ==
  [s \in StepIds(plan) |-> IF status[s] \in {"ok", "failed"} THEN status[s] ELSE "no"]

Staged == INSTANCE StagedRollout WITH
  running <- pc # "idle", acted <- applied, ended <- Ended, outcome <- result

\* Executions carry rollouts out stage by stage (StagedRollout.tla): no step acts
\* before what it has to wait for has been passed, none acts after the execution
\* has returned, by nil or by an error, and what it returned is what became of the
\* steps (rollout.go:117-173).
CarriesOutStages == Staged!Spec

\* What the field says (types.go:36): the error of a step that has
\* continueOnError does not make the rollout fail.
ContinueOnErrorHonoured ==
  result = "step error" =>
    \E s \in StepIds(plan) : status[s] = "failed" /\ ~Tolerated(s)

=============================================================================
