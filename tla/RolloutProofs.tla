--------------------------- MODULE RolloutProofs ----------------------------
(***************************************************************************)
(* What Rollout.tla guarantees for every set of plans.                     *)
(***************************************************************************)
EXTENDS Rollout, SequenceFacts, FiniteSetTheorems

-----------------------------------------------------------------------------
(***************************************************************************)
(* The operators of the specification.                                     *)
(***************************************************************************)

\* The status a name had is that of one of the old conditions of the name;
\* a condition that is new has not started.
LEMMA StatusBeforeDef ==
  ASSUME NEW old \in Conditions, NEW name
  PROVE  \/ /\ StatusBefore(old, name) = NotStarted
            /\ \A k \in 1 .. Len(old) : old[k].name # name
         \/ \E k \in 1 .. Len(old) :
              old[k].name = name /\ StatusBefore(old, name) = old[k].status
  <1> DEFINE named == {k \in DOMAIN old : old[k].name = name}
  <1>1. DOMAIN old = 1 .. Len(old) /\ Len(old) \in Nat
    BY LenProperties DEF Conditions
  <1>2. CASE named = {}
    BY <1>1, <1>2 DEF StatusBefore
  <1>3. CASE named # {}
    <2>1. \E k \in named : \A l \in named : l <= k
      BY <1>1, <1>3, LastPlace
    <2>2. PICK k \in named : k = CHOOSE j \in named : \A l \in named : l <= j
      BY <2>1
    <2>3. StatusBefore(old, name) = old[k].status
      BY <1>3, <2>2 DEF StatusBefore
    <2> QED
      BY <1>1, <2>3
  <1> QED
    BY <1>2, <1>3

\* What Initialize starts from: one condition for each group, and a status of
\* the two that there are.
LEMMA InitialConditionsDef ==
  ASSUME NEW groups \in Seq(Names), NEW old \in Conditions
  PROVE  /\ InitialConditions(groups, old) \in Conditions
         /\ Len(InitialConditions(groups, old)) = Len(groups)
         /\ \A i \in 1 .. Len(groups) :
              InitialConditions(groups, old)[i] =
                [name |-> groups[i], status |-> StatusBefore(old, groups[i])]
  <1>1. ASSUME NEW k \in 1 .. Len(old)
        PROVE  old[k].status \in {NotStarted, Finished}
    <2>1. old[k] \in Condition
      BY ElementOfSeq DEF Conditions
    <2> QED
      BY <2>1 DEF Condition
  <1>2. \A name : StatusBefore(old, name) \in {NotStarted, Finished}
    BY <1>1, StatusBeforeDef
  <1>3. /\ DOMAIN groups = 1 .. Len(groups)
        /\ Len(groups) \in Nat
        /\ \A i \in 1 .. Len(groups) : groups[i] \in Names
    BY LenProperties
  <1>4. InitialConditions(groups, old) \in [1 .. Len(groups) -> Condition]
    BY <1>2, <1>3 DEF InitialConditions, Condition
  <1> QED
    BY <1>3, <1>4, FunctionIsSeq DEF InitialConditions, Conditions

\* What SetCondition makes of the conditions.
LEMMA WithStatusDef ==
  ASSUME NEW conds \in Conditions, NEW name \in Names
  PROVE  /\ WithStatus(conds, name, Finished) \in Conditions
         /\ Len(WithStatus(conds, name, Finished)) = Len(conds)
         /\ \A i \in 1 .. Len(conds) :
              WithStatus(conds, name, Finished)[i] =
                IF conds[i].name = name
                THEN [name |-> name, status |-> Finished]
                ELSE conds[i]
  <1>1. /\ DOMAIN conds = 1 .. Len(conds)
        /\ Len(conds) \in Nat
        /\ conds \in [1 .. Len(conds) -> Condition]
    BY LenProperties DEF Conditions
  <1>2. WithStatus(conds, name, Finished) \in [1 .. Len(conds) -> Condition]
    BY <1>1 DEF WithStatus, Condition
  <1> QED
    BY <1>1, <1>2, FunctionIsSeq DEF WithStatus, Conditions

\* The names of a plan's groups.
LEMMA GroupNamesDef ==
  ASSUME NEW p \in Seq(Group)
  PROVE  /\ GroupNames(p) \in Seq(Names)
         /\ Len(GroupNames(p)) = Len(p)
         /\ \A g \in 1 .. Len(p) : GroupNames(p)[g] = p[g].name /\ p[g].name \in Names
  <1>1. /\ DOMAIN p = 1 .. Len(p)
        /\ Len(p) \in Nat
        /\ \A g \in 1 .. Len(p) : p[g] \in Group
    BY LenProperties
  <1>2. GroupNames(p) \in [1 .. Len(p) -> Names]
    BY <1>1 DEF GroupNames, Group
  <1> QED
    BY <1>1, <1>2, FunctionIsSeq DEF GroupNames, Group

\* A step's name is a group of the plan and a place in that group's steps.
LEMMA StepIdsDef ==
  ASSUME NEW p \in Seq(Group)
  PROVE  /\ \A s \in StepIds(p) :
              /\ s = <<s[1], s[2]>>
              /\ s[1] \in 1 .. Len(p)
              /\ s[2] \in 1 .. Len(p[s[1]].steps)
         /\ \A g \in 1 .. Len(p) : \A i \in 1 .. Len(p[g].steps) :
              <<g, i>> \in StepIds(p)
  <1>1. DOMAIN p = 1 .. Len(p)
    BY LenProperties
  <1>2. \A g \in 1 .. Len(p) : DOMAIN p[g].steps = 1 .. Len(p[g].steps)
    <2>1. ASSUME NEW g \in 1 .. Len(p)
          PROVE  p[g].steps \in Seq(Step)
      <3>1. p[g] \in Group
        BY ElementOfSeq
      <3> QED
        BY <3>1 DEF Group
    <2> QED
      BY <2>1, LenProperties
  <1> QED
    BY <1>1, <1>2 DEF StepIds

\* A rollout without groups has no steps.
LEMMA NoStepIds == StepIds(<< >>) = {}
  <1>1. DOMAIN << >> = {}
    OBVIOUS
  <1> QED
    BY <1>1 DEF StepIds

\* The types of what the code reads of a group and of a step.
LEMMA GroupShape ==
  ASSUME TypeOK, NEW g \in 1 .. Len(plan)
  PROVE  /\ plan[g].name \in Names
         /\ Parallel(g) \in BOOLEAN
         /\ plan[g].steps \in Seq(Step)
         /\ Len(plan[g].steps) \in Nat
         /\ DOMAIN plan[g].steps = 1 .. Len(plan[g].steps)
  <1>1. plan[g] \in Group
    BY ElementOfSeq DEF TypeOK
  <1>2. plan[g].steps \in Seq(Step)
    BY <1>1 DEF Group
  <1> QED
    BY <1>1, <1>2, LenProperties DEF Group, Parallel

\* A step of the plan is a record of its two fields.
LEMMA StepShape ==
  ASSUME TypeOK, NEW s \in StepIds(plan)
  PROVE  /\ Parallel(s[1]) \in BOOLEAN
         /\ Tolerated(s) \in BOOLEAN
         /\ StepOf(s).items \in Nat
  <1>1. /\ s[1] \in 1 .. Len(plan)
        /\ s[2] \in 1 .. Len(plan[s[1]].steps)
    BY StepIdsDef DEF TypeOK
  <1>2. plan[s[1]].steps[s[2]] \in Step
    BY <1>1, GroupShape, ElementOfSeq
  <1> QED
    BY <1>1, <1>2, GroupShape DEF StepOf, Tolerated, Step

-----------------------------------------------------------------------------
(***************************************************************************)
(* Type correctness.                                                       *)
(***************************************************************************)

\* Inside the loop's body `group` is the index of a group, and no goroutine is
\* there when the plan is replaced.
InGroup ==
  /\ pc \in {"steps", "report"} => group \in 1 .. Len(plan)
  /\ pc = "render" => live = {} /\ errs = {}

\* The initial states have the types, and are outside every group.
LEMMA InitTypeOK == Init => TypeOK /\ InGroup
  <1> SUFFICES ASSUME Init PROVE TypeOK /\ InGroup
    OBVIOUS
  <1>1. << >> \in Seq(Group) /\ << >> \in Conditions
    BY EmptySeq DEF Conditions
  <1>2. FeedbackTypeOK
    BY <1>1 DEF Init, FeedbackInit, FeedbackTypeOK
  <1>3. /\ status \in [StepIds(plan) -> Statuses]
        /\ applied \in [StepIds(plan) -> Nat]
    BY DEF Init, Statuses
  <1> QED
    BY <1>1, <1>2, <1>3 DEF Init, TypeOK, InGroup, PCs, Results

\* Writing a list of conditions, whatever comes of it, keeps the types.
LEMMA UpdateStatusType ==
  ASSUME FeedbackTypeOK, NEW new \in Conditions, NEW ok \in BOOLEAN,
         UpdateStatus(new, ok)
  PROVE  FeedbackTypeOK'
  BY DEF FeedbackTypeOK, UpdateStatus, UpdateOk, UpdateFails, UpdateLost, Store

\* No action leaves the groups of the plan while Execute works on one.
LEMMA NextInGroup == TypeOK /\ InGroup /\ [Next]_vars => InGroup'
  <1> SUFFICES ASSUME TypeOK, InGroup, [Next]_vars PROVE InGroup'
    OBVIOUS
  <1>1. Len(plan) \in Nat /\ group \in Nat \ {0}
    BY LenProperties DEF TypeOK
  <1>2. CASE Trigger \/ Crash
    BY <1>2 DEF Trigger, Crash, Return, InGroup
  <1>3. CASE Render \/ InitializeFeedback \/ GroupSucceeds \/ ReportGroup
    BY <1>3 DEF Render, InitializeFeedback, GroupSucceeds, ReportGroup, Goto,
                Return, InGroup
  <1>4. CASE EnterGroup
    BY <1>1, <1>4 DEF EnterGroup, Goto, InGroup
  <1>5. CASE RenderFails \/ PrintResult \/ AllGroupsDone \/ GroupFails
    BY <1>5 DEF RenderFails, PrintResult, AllGroupsDone, GroupFails, Return,
                InGroup
  <1>6. CASE Spawn \/ StepReturned
    BY <1>6 DEF Spawn, StepReturned, Return, InGroup
  <1>7. ASSUME NEW s \in StepIds(plan), RunStep(s)
        PROVE  InGroup'
    BY <1>7 DEF RunStep, StartStep, ApplyItem, StepFails, StepSucceeds,
                AppendError, GoroutineExits, StepVars, InGroup
  <1>8. CASE Environment \/ UNCHANGED vars
    BY <1>8 DEF Environment, vars, runVars, InGroup
  <1> QED
    BY <1>2, <1>3, <1>4, <1>5, <1>6, <1>7, <1>8 DEF Next, Progress, Execute

\* Every action keeps the types.
LEMMA NextTypeOK == TypeOK /\ InGroup /\ [Next]_vars => TypeOK'
  <1> SUFFICES ASSUME TypeOK, InGroup, [Next]_vars PROVE TypeOK'
    OBVIOUS
  <1> USE DEF TypeOK
  <1>0. << >> \in Seq(Group) /\ << >> \in Conditions
    BY EmptySeq DEF Conditions
  <1>1. CASE Trigger
    <2>1. FeedbackTypeOK'
      BY <1>0, <1>1 DEF Trigger, NewFeedback, FeedbackTypeOK
    <2>2. /\ (status \in [StepIds(plan) -> Statuses])'
          /\ (applied \in [StepIds(plan) -> Nat])'
      BY <1>1 DEF Trigger, Load, Statuses
    <2>3. (group \in Nat \ {0} /\ next \in Nat \ {0})'
      BY <1>1 DEF Trigger
    <2> QED
      BY <1>0, <1>1, <2>1, <2>2, <2>3 DEF Trigger, Load, PCs, Results
  <1>2. CASE RenderFails \/ PrintResult \/ AllGroupsDone \/ GroupFails
    BY <1>2 DEF RenderFails, PrintResult, AllGroupsDone, GroupFails, Return,
                runVars, feedbackVars, FeedbackTypeOK, PCs, Results
  <1>3. CASE Render
    <2>1. PICK p \in Plans : Load(p)
      BY <1>3 DEF Render
    <2>2. p \in Seq(Group)
      BY PlansAssumption
    <2>3. /\ (status \in [StepIds(plan) -> Statuses])'
          /\ (applied \in [StepIds(plan) -> Nat])'
      BY <2>1 DEF Load, Statuses
    <2>4. (live \subseteq StepIds(plan) /\ errs \subseteq StepIds(plan))'
      BY <1>3 DEF Render, InGroup
    <2> QED
      BY <1>3, <2>1, <2>2, <2>3, <2>4
         DEF Render, Load, Goto, feedbackVars, FeedbackTypeOK, PCs, Results
  <1>4. CASE InitializeFeedback
    <2>1. PICK ok \in BOOLEAN :
            /\ Initialize(GroupNames(plan), ok)
            /\ IF ok THEN Goto("group") ELSE Return("feedback error")
      BY <1>4 DEF InitializeFeedback
    <2>2. InitialConditions(GroupNames(plan), oldStatus) \in Conditions
      BY GroupNamesDef, InitialConditionsDef DEF FeedbackTypeOK
    <2>3. FeedbackTypeOK'
      BY <2>1, <2>2, UpdateStatusType DEF Initialize
    <2> QED
      BY <1>4, <2>1, <2>3
         DEF InitializeFeedback, Goto, Return, runVars, PCs, Results
  <1>5. CASE EnterGroup
    BY <1>5 DEF EnterGroup, Goto, feedbackVars, FeedbackTypeOK, PCs
  <1>6. CASE Spawn
    <2>1. Current \in StepIds(plan)
      <3>1. group \in 1 .. Len(plan)
        BY <1>6 DEF Spawn, InGroup
      <3>2. next \in 1 .. Len(plan[group].steps)
        BY <1>6, <3>1, GroupShape DEF Spawn, StepCount
      <3> QED
        BY <3>1, <3>2, StepIdsDef DEF Current
    <2>2. next' \in Nat \ {0}
      BY <1>6 DEF Spawn
    <2> QED
      BY <1>6, <2>1, <2>2 DEF Spawn, feedbackVars, FeedbackTypeOK
  <1>7. CASE StepReturned
    <2>1. \/ next' = next + 1 /\ UNCHANGED <<pc, renderOnly, result>>
          \/ Return("step error") /\ UNCHANGED next
      BY <1>7 DEF StepReturned
    <2>2. UNCHANGED <<plan, group, status, applied, live, errs, feedbackVars>>
      BY <1>7 DEF StepReturned
    <2>3. next' \in Nat \ {0}
      <3>1. next' = next + 1 \/ next' = next
        BY <2>1
      <3> QED
        BY <3>1
    <2> QED
      BY <2>1, <2>2, <2>3
         DEF Return, feedbackVars, FeedbackTypeOK, PCs, Results
  <1>8. CASE GroupSucceeds
    <2>1. group' \in Nat \ {0}
      BY <1>8 DEF GroupSucceeds
    <2> QED
      BY <1>8, <2>1 DEF GroupSucceeds, Goto, feedbackVars, FeedbackTypeOK, PCs
  <1>9. CASE ReportGroup
    <2>1. PICK ok \in BOOLEAN :
            /\ SetCondition(plan[group].name, Finished, ok)
            /\ IF ok THEN Goto("group") /\ group' = group + 1
                     ELSE Return("feedback error") /\ UNCHANGED group
      BY <1>9 DEF ReportGroup
    <2>2. plan[group].name \in Names
      BY <1>9, GroupShape DEF ReportGroup, InGroup
    <2>3. FeedbackTypeOK'
      BY <2>1, <2>2, WithStatusDef, UpdateStatusType
         DEF SetCondition, FeedbackTypeOK
    <2>4. group' \in Nat \ {0}
      <3>1. group' = group + 1 \/ group' = group
        BY <2>1
      <3> QED
        BY <3>1
    <2> QED
      BY <1>9, <2>1, <2>3, <2>4 DEF ReportGroup, Goto, Return, PCs, Results
  <1>10. ASSUME NEW s \in StepIds(plan), RunStep(s)
         PROVE  TypeOK'
    <2>1. (applied \in [StepIds(plan) -> Nat])'
      BY <1>10 DEF RunStep, StartStep, ApplyItem, StepFails, StepSucceeds,
                   AppendError, GoroutineExits, StepVars
    <2> QED
      BY <1>10, <2>1
         DEF RunStep, StartStep, ApplyItem, StepFails, StepSucceeds,
             AppendError, GoroutineExits, StepVars, Statuses, feedbackVars,
             FeedbackTypeOK
  <1>11. CASE Crash
    BY <1>0, <1>11 DEF Crash, Return, LoseFeedback, FeedbackTypeOK, PCs, Results
  <1>12. CASE Environment
    BY <1>12 DEF Environment, EditObject, DeliverEvent, runVars, FeedbackTypeOK
  <1>13. CASE UNCHANGED vars
    BY <1>13 DEF vars, runVars, feedbackVars, FeedbackTypeOK
  <1> QED
    BY <1>1, <1>2, <1>3, <1>4, <1>5, <1>6, <1>7, <1>8, <1>9, <1>10, <1>11,
       <1>12, <1>13 DEF Next, Progress, Execute

\* Every variable keeps its type: what Execute, its goroutines and the feedback
\* write is always well formed.
THEOREM TypeCorrect == Spec => []TypeOK
  <1>1. Spec => [](TypeOK /\ InGroup)
    BY InitTypeOK, NextInGroup, NextTypeOK, PTL DEF Spec
  <1> QED
    BY <1>1, PTL

-----------------------------------------------------------------------------
(***************************************************************************)
(* The order of the steps.  The invariant says where Execute is in its     *)
(* plan: what it has passed is settled, what lies ahead has not begun, and *)
(* goroutines are only at the steps it has just passed.                    *)
(***************************************************************************)

LiveInv ==
  \A s \in live :
    pc = "steps" /\ Parallel(group) /\ s[1] = group /\ s[2] < next

BegunInv ==
  /\ pc \in {"render", "initialize"} =>
       group = 1 /\ \A s \in StepIds(plan) : ~Begun(s)
  /\ \A s \in StepIds(plan) : Begun(s) => s[1] <= group
  /\ pc = "group" => \A s \in StepIds(plan) : Begun(s) => s[1] < group
  /\ pc = "steps" =>
       \A s \in StepIds(plan) :
         Begun(s) /\ s[1] = group =>
           s[2] <= next /\ (Parallel(group) => s[2] < next)

OkInv ==
  \A s \in StepIds(plan) : status[s] = "ok" => applied[s] = StepOf(s).items

PassedInv ==
  /\ \A s \in StepIds(plan) : s[1] < group => Settled(s)
  /\ pc = "report" => \A s \in StepIds(plan) : s[1] = group => Settled(s)
  /\ pc = "steps" =>
       \A s \in StepIds(plan) :
         s[1] = group /\ s[2] < next =>
           Settled(s) \/ (Parallel(group) /\ (s \in live \/ s \in errs))

ResultInv == result # "none" => pc = "idle"

OrderInv ==
  /\ LiveInv
  /\ BegunInv
  /\ OkInv
  /\ PassedInv
  /\ StepsInOrder
  /\ ResultInv
  /\ NilMeansRolledOut

\* The three safety properties about the steps follow from it.
LEMMA OrderInvImplies ==
  ASSUME TypeOK, OrderInv
  PROVE  GroupBarrier /\ NoStrayGoroutine
  <1>1. NoStrayGoroutine
    BY DEF OrderInv, LiveInv, NoStrayGoroutine
  <1>2. ASSUME NEW s \in StepIds(plan), NEW t \in StepIds(plan),
               s[1] < t[1], Begun(t)
        PROVE  Settled(s) /\ s \notin live
    <2>1. t[1] <= group
      BY <1>2 DEF OrderInv, BegunInv
    <2>2. s[1] \in Nat /\ t[1] \in Nat /\ group \in Nat
      BY StepIdsDef DEF TypeOK
    <2>3. s[1] < group
      BY <1>2, <2>1, <2>2
    <2> QED
      BY <2>2, <2>3 DEF OrderInv, PassedInv, LiveInv
  <1> QED
    BY <1>1, <1>2 DEF GroupBarrier

\* What a step of the plan is depends on the plan, on its status and on what
\* was applied.
LEMMA SettledFrame ==
  ASSUME UNCHANGED <<plan, status, applied>>
  PROVE  /\ \A s : Begun(s)' = Begun(s)
         /\ \A s : Settled(s)' = Settled(s)
         /\ \A s : StepOf(s)' = StepOf(s)
         /\ \A g : Parallel(g)' = Parallel(g)
         /\ StepIds(plan)' = StepIds(plan)
         /\ OkInv' = OkInv
         /\ StepsInOrder' = StepsInOrder
  BY DEF Begun, Settled, Tolerated, StepOf, Parallel, OkInv, StepsInOrder

\* Before the first execution there is no step to be out of order.
LEMMA InitOrderInv == Init => OrderInv
  BY NoStepIds
     DEF Init, OrderInv, LiveInv, BegunInv, OkInv, PassedInv, StepsInOrder,
         ResultInv, NilMeansRolledOut

\* What the goroutine or the call of runStep for step s changes.
LEMMA RunStepEffect ==
  ASSUME TypeOK, NEW s \in StepIds(plan), RunStep(s)
  PROVE  /\ UNCHANGED <<pc, renderOnly, plan, group, next, result>>
         /\ Called(s)
         /\ \A t \in StepIds(plan) :
              t # s => status'[t] = status[t] /\ applied'[t] = applied[t]
         /\ \/ status'[s] = status[s] /\ applied'[s] = applied[s]
            \/ status[s] \in {"idle", "running"}
         /\ status'[s] = "ok" => applied'[s] = StepOf(s).items \/ status[s] = "ok"
         /\ errs \subseteq errs'
         /\ live' \subseteq live
         /\ \A t \in live : t \in live' \/ status[t] = "ok" \/ t \in errs
  BY DEF TypeOK, RunStep, StartStep, ApplyItem, StepFails, StepSucceeds,
         AppendError, GoroutineExits, MayExit, StepVars, Called, Statuses

\* Facts of arithmetic that the cases below use.
LEMMA OrderTypes ==
  ASSUME TypeOK, InGroup
  PROVE  /\ group \in Nat /\ next \in Nat /\ Len(plan) \in Nat
         /\ \A s \in StepIds(plan) :
              /\ s[1] \in Nat /\ s[2] \in Nat
              /\ s[1] \in 1 .. Len(plan)
              /\ s[2] \in 1 .. Len(plan[s[1]].steps)
              /\ s = <<s[1], s[2]>>
         /\ pc = "steps" => StepCount \in Nat /\ group \in 1 .. Len(plan)
  <1>1. Len(plan) \in Nat
    BY LenProperties DEF TypeOK
  <1>2. pc = "steps" => StepCount \in Nat /\ group \in 1 .. Len(plan)
    BY GroupShape DEF InGroup, StepCount
  <1>3. ASSUME NEW s \in StepIds(plan)
        PROVE  /\ s[1] \in Nat /\ s[2] \in Nat
               /\ s[1] \in 1 .. Len(plan)
               /\ s[2] \in 1 .. Len(plan[s[1]].steps)
               /\ s = <<s[1], s[2]>>
    BY StepIdsDef DEF TypeOK
  <1> QED
    BY <1>1, <1>2, <1>3 DEF TypeOK

\* Every action keeps the invariant about the order of the steps.
LEMMA NextOrderInv ==
  TypeOK /\ InGroup /\ OrderInv /\ [Next]_vars => OrderInv'
  <1> SUFFICES ASSUME TypeOK, InGroup, OrderInv, [Next]_vars
               PROVE  OrderInv'
    OBVIOUS
  <1> USE DEF OrderInv
  <1>1. CASE Trigger
    <2>1. StepIds(plan)' = {} /\ live' = {}
      BY <1>1, NoStepIds DEF Trigger, Load
    <2> QED
      BY <1>1, <2>1
         DEF Trigger, LiveInv, BegunInv, OkInv, PassedInv, StepsInOrder,
             ResultInv, NilMeansRolledOut
  <1>2. CASE Render
    <2>1. /\ \A s \in StepIds(plan)' : status'[s] = "idle"
          /\ \A s \in StepIds(plan)' : s[1] \in Nat /\ s[1] >= 1
      <3>1. PICK p \in Plans : Load(p)
        BY <1>2 DEF Render
      <3>2. p \in Seq(Group)
        BY PlansAssumption
      <3> QED
        BY <3>1, <3>2, StepIdsDef DEF Load
    <2>2. group' = 1 /\ live' = {}
      BY <1>2 DEF Render, InGroup, BegunInv
    <2>3. pc' \in {"initialize", "group"} /\ result' = "none"
      BY <1>2 DEF Render, Goto, ResultInv
    <2> QED
      BY <2>1, <2>2, <2>3
         DEF LiveInv, BegunInv, OkInv, PassedInv, StepsInOrder, ResultInv,
             NilMeansRolledOut, Begun
  <1>3. CASE InitializeFeedback
    <2>1. /\ UNCHANGED runVars
          /\ \/ pc' = "group" /\ result' = result
             \/ pc' = "idle" /\ result' = "feedback error"
      BY <1>3 DEF InitializeFeedback, Goto, Return
    <2>2. pc = "initialize"
      BY <1>3 DEF InitializeFeedback
    <2> QED
      BY <2>1, <2>2, SettledFrame, OrderTypes
         DEF runVars, LiveInv, BegunInv, PassedInv, ResultInv, NilMeansRolledOut
  <1>4. CASE RenderFails \/ GroupFails \/ PrintResult
    <2>1. /\ UNCHANGED <<runVars, renderOnly>>
          /\ pc' = "idle"
          /\ result' # "nil" \/ renderOnly
      BY <1>4 DEF RenderFails, GroupFails, PrintResult, Return
    <2>2. live' = {}
      BY <1>4, <2>1
         DEF RenderFails, GroupFails, PrintResult, WaitDone, OfGroup, LiveInv,
             runVars
    <2> QED
      BY <2>1, <2>2, SettledFrame
         DEF runVars, LiveInv, BegunInv, PassedInv, ResultInv, NilMeansRolledOut
  <1>5. CASE AllGroupsDone
    <2>1. /\ UNCHANGED runVars
          /\ pc = "group" /\ pc' = "idle"
          /\ group > Len(plan)
      BY <1>5 DEF AllGroupsDone, Return
    <2>2. \A s \in StepIds(plan) : s[1] < group
      BY <2>1, OrderTypes
    <2>3. \A s \in StepIds(plan) : Settled(s)
      BY <2>2 DEF PassedInv
    <2> QED
      BY <2>1, <2>3, SettledFrame
         DEF runVars, LiveInv, BegunInv, PassedInv, ResultInv, NilMeansRolledOut
  <1>6. CASE EnterGroup
    <2>1. /\ UNCHANGED <<plan, group, status, applied, live, errs, result>>
          /\ pc = "group" /\ pc' = "steps" /\ next' = 1
      BY <1>6 DEF EnterGroup, Goto
    <2> QED
      BY <2>1, SettledFrame, OrderTypes
         DEF LiveInv, BegunInv, PassedInv, ResultInv, NilMeansRolledOut
  <1>7. CASE Spawn
    <2>1. /\ UNCHANGED <<pc, plan, group, status, applied, errs, result>>
          /\ UNCHANGED renderOnly
          /\ pc = "steps" /\ next' = next + 1 /\ Parallel(group)
          /\ live' = live \cup {<<group, next>>}
      BY <1>7 DEF Spawn, Current
    <2>2. LiveInv'
      BY <2>1, SettledFrame, OrderTypes DEF LiveInv, TypeOK
    <2>3. BegunInv'
      BY <2>1, SettledFrame, OrderTypes DEF BegunInv
    <2>4. PassedInv'
      BY <2>1, SettledFrame, OrderTypes DEF PassedInv
    <2> QED
      BY <2>1, <2>2, <2>3, <2>4, SettledFrame
         DEF ResultInv, NilMeansRolledOut
  <1>8. CASE StepReturned
    <2>1. /\ UNCHANGED <<plan, group, status, applied, live, errs, renderOnly>>
          /\ pc = "steps" /\ ~Parallel(group) /\ next <= StepCount
      BY <1>8 DEF StepReturned, Return
    <2>2. live' = {}
      BY <2>1 DEF LiveInv
    <2>3. CASE /\ status[Current] = "ok" \/ Tolerated(Current)
               /\ next' = next + 1 /\ pc' = pc /\ result' = result
      <3>1. Current \in StepIds(plan) /\ Current[1] = group
        <4>1. next \in 1 .. Len(plan[group].steps)
          BY <2>1, OrderTypes DEF StepCount, TypeOK
        <4> QED
          BY <2>1, <4>1, OrderTypes, StepIdsDef DEF Current, TypeOK
      <3>2. status[Current] \in {"ok", "failed"}
        BY <1>8 DEF StepReturned
      <3>3. Settled(Current)
        BY <2>1, <2>3, <3>1, <3>2 DEF Settled, OkInv
      <3>4. \A s \in StepIds(plan) : s[1] = group /\ s[2] = next => s = Current
        BY OrderTypes DEF Current
      <3>5. \A s \in StepIds(plan) : s[2] < next' => s[2] < next \/ s[2] = next
        BY <2>3, OrderTypes
      <3>6. \A s \in StepIds(plan) : s[2] <= next => s[2] <= next'
        BY <2>3, OrderTypes
      <3>7. BegunInv'
        BY <2>1, <2>3, <3>6, SettledFrame DEF BegunInv
      <3>8. PassedInv'
        BY <2>1, <2>3, <3>3, <3>4, <3>5, SettledFrame DEF PassedInv
      <3> QED
        BY <2>1, <2>2, <2>3, <3>7, <3>8, SettledFrame
           DEF LiveInv, ResultInv, NilMeansRolledOut
    <2>4. CASE pc' = "idle" /\ result' = "step error"
      BY <2>1, <2>2, <2>4, SettledFrame
         DEF LiveInv, BegunInv, PassedInv, ResultInv, NilMeansRolledOut
    <2> QED
      BY <1>8, <2>3, <2>4 DEF StepReturned, Return
  <1>9. CASE GroupSucceeds
    <2>1. /\ UNCHANGED <<plan, next, status, applied, live, errs, renderOnly>>
          /\ UNCHANGED result
          /\ pc = "steps" /\ next > StepCount
          /\ OfGroup(live) = {} /\ OfGroup(errs) = {}
          /\ \/ pc' = "report" /\ group' = group
             \/ pc' = "group" /\ group' = group + 1
      BY <1>9 DEF GroupSucceeds, Goto, WaitDone
    <2>2. live = {} /\ \A s \in errs : s[1] # group
      BY <2>1 DEF OfGroup, LiveInv
    <2>3. \A s \in StepIds(plan) : s[1] = group => Settled(s)
      <3>1. \A s \in StepIds(plan) : s[1] = group => s[2] < next
        BY <2>1, OrderTypes DEF StepCount
      <3> QED
        BY <2>1, <2>2, <3>1 DEF PassedInv
    <2>4. BegunInv'
      BY <2>1, SettledFrame, OrderTypes DEF BegunInv
    <2>5. PassedInv'
      BY <2>1, <2>3, SettledFrame, OrderTypes DEF PassedInv
    <2> QED
      BY <2>1, <2>2, <2>4, <2>5, SettledFrame
         DEF LiveInv, ResultInv, NilMeansRolledOut
  <1>10. CASE ReportGroup
    <2>1. /\ UNCHANGED <<plan, next, status, applied, live, errs, renderOnly>>
          /\ pc = "report"
      BY <1>10 DEF ReportGroup, Goto, Return
    <2>2. live = {}
      BY <2>1 DEF LiveInv
    <2>3. CASE pc' = "group" /\ group' = group + 1 /\ result' = result
      <3>1. \A s \in StepIds(plan) : s[1] <= group => s[1] < group'
        BY <2>3, OrderTypes
      <3>2. \A s \in StepIds(plan) : s[1] < group' => s[1] < group \/ s[1] = group
        BY <2>3, OrderTypes
      <3>3. \A s \in StepIds(plan) : s[1] < group' => s[1] <= group'
        BY <2>3, OrderTypes
      <3>4. BegunInv'
        BY <2>1, <2>3, <3>1, <3>3, SettledFrame DEF BegunInv
      <3>5. PassedInv'
        BY <2>1, <2>3, <3>2, SettledFrame DEF PassedInv
      <3> QED
        BY <2>1, <2>2, <2>3, <3>4, <3>5, SettledFrame
           DEF LiveInv, ResultInv, NilMeansRolledOut
    <2>4. CASE pc' = "idle" /\ group' = group /\ result' = "feedback error"
      BY <2>1, <2>2, <2>4, SettledFrame
         DEF LiveInv, BegunInv, PassedInv, ResultInv, NilMeansRolledOut
    <2> QED
      BY <1>10, <2>3, <2>4 DEF ReportGroup, Goto, Return
  <1>11. ASSUME NEW s \in StepIds(plan), RunStep(s)
         PROVE  OrderInv'
    <2>1. /\ UNCHANGED <<pc, renderOnly, plan, group, next, result>>
          /\ StepIds(plan)' = StepIds(plan)
          /\ \A t : StepOf(t)' = StepOf(t) /\ Tolerated(t)' = Tolerated(t)
          /\ \A g : Parallel(g)' = Parallel(g)
      BY <1>11, RunStepEffect DEF StepOf, Parallel, Tolerated
    <2>2. /\ pc = "steps"
          /\ s[1] = group
          /\ IF Parallel(group) THEN s \in live /\ s[2] < next ELSE s[2] = next
      BY <1>11, RunStepEffect DEF Called, Current, LiveInv
    <2>3. \A t \in StepIds(plan) : Settled(t) => Settled(t)'
      BY <1>11, <2>1, RunStepEffect DEF Settled
    <2>4. \A t \in StepIds(plan) : t # s => Begun(t)' = Begun(t)
      BY <1>11, RunStepEffect DEF Begun
    <2>5. LiveInv'
      BY <1>11, <2>1, RunStepEffect DEF LiveInv
    <2>6. BegunInv'
      BY <2>1, <2>2, <2>4, OrderTypes DEF BegunInv
    <2>7. OkInv'
      BY <1>11, <2>1, RunStepEffect DEF OkInv
    <2>8. PassedInv'
      <3>1. ASSUME NEW t \in StepIds(plan), t[1] = group, t[2] < next
            PROVE  \/ Settled(t)'
                   \/ Parallel(group) /\ (t \in live' \/ t \in errs')
        <4>1. CASE Settled(t)
          BY <2>3, <4>1
        <4>2. CASE ~Settled(t)
          <5>1. Parallel(group) /\ (t \in live \/ t \in errs)
            BY <2>2, <3>1, <4>2 DEF PassedInv
          <5>2. t \in live' \/ status[t] = "ok" \/ t \in errs'
            BY <1>11, <5>1, RunStepEffect
          <5>3. status[t] = "ok" => Settled(t)
            BY DEF OkInv, Settled
          <5> QED
            BY <4>2, <5>1, <5>2, <5>3
        <4> QED
          BY <4>1, <4>2
      <3> QED
        BY <2>1, <2>2, <2>3, <3>1 DEF PassedInv
    <2>9. StepsInOrder'
      BY <2>1, <2>2, <2>3, <2>4, OrderTypes DEF StepsInOrder, PassedInv
    <2>10. ResultInv' /\ NilMeansRolledOut'
      BY <2>1, <2>2 DEF ResultInv, NilMeansRolledOut
    <2> QED
      BY <2>5, <2>6, <2>7, <2>8, <2>9, <2>10
  <1>12. CASE Crash
    <2>1. /\ UNCHANGED <<plan, group, next, status, applied, errs>>
          /\ live' = {} /\ pc' = "idle" /\ result' = "crashed"
      BY <1>12 DEF Crash, Return
    <2> QED
      BY <2>1, SettledFrame
         DEF LiveInv, BegunInv, PassedInv, ResultInv, NilMeansRolledOut
  <1>13. CASE Environment \/ UNCHANGED vars
    <2>1. UNCHANGED <<pc, renderOnly, runVars, result>>
      BY <1>13 DEF Environment, vars
    <2> QED
      BY <2>1, SettledFrame
         DEF runVars, LiveInv, BegunInv, PassedInv, ResultInv, NilMeansRolledOut
  <1> QED
    BY <1>1, <1>2, <1>3, <1>4, <1>5, <1>6, <1>7, <1>8, <1>9, <1>10, <1>11,
       <1>12, <1>13 DEF Next, Progress, Execute

\* The three together are inductive.
LEMMA OrderInvariant == Spec => [](TypeOK /\ InGroup /\ OrderInv)
  BY InitTypeOK, NextInGroup, NextTypeOK, InitOrderInv, NextOrderInv, PTL
     DEF Spec

\* No step begins before the groups ahead of its own are settled, and before
\* their goroutines are gone (the barrier of Execute's loop).
THEOREM BarrierHolds == Spec => []GroupBarrier
  BY OrderInvariant, OrderInvImplies, PTL

\* The steps of a group that is not parallel begin in their order, each after
\* the ones ahead of it are settled.
THEOREM StepsBeginInOrder == Spec => []StepsInOrder
  <1>1. OrderInv => StepsInOrder
    BY DEF OrderInv
  <1> QED
    BY <1>1, OrderInvariant, PTL

\* No goroutine outlives the group that started it.
THEOREM NoGoroutineIsLeft == Spec => []NoStrayGoroutine
  BY OrderInvariant, OrderInvImplies, PTL

\* Execute returns nil only if every step of the plan is settled: no error is
\* lost, whatever the plan, the failures and the interleaving.
THEOREM NilIsTruthful == Spec => []NilMeansRolledOut
  <1>1. OrderInv => NilMeansRolledOut
    BY DEF OrderInv
  <1> QED
    BY <1>1, OrderInvariant, PTL

-----------------------------------------------------------------------------
(***************************************************************************)
(* The feedback.  updateStatus compares with the status of before the      *)
(* execution, although the execution writes in between.  That is enough,   *)
(* because a condition only ever turns from what it was before to          *)
(* "Finished": once a list of conditions differs from the old one, it      *)
(* differs for good (ShapeInv).                                            *)
(***************************************************************************)

CacheInv == cacheFresh => cached = published

OldInv ==
  /\ fresh => feedback
  /\ fresh /\ pc \in {"render", "initialize"} => oldStatus = published

InLoop == pc \in {"group", "steps", "report"}

ShapeInv ==
  feedback /\ InLoop =>
    /\ Len(conditions) = Len(plan)
    /\ \A i \in 1 .. Len(plan) :
         /\ conditions[i].name = plan[i].name
         /\ conditions[i].status \in
              {StatusBefore(oldStatus, plan[i].name), Finished}

DoneInv ==
  feedback /\ InLoop =>
    \A i \in 1 .. Len(plan) : i < group => conditions[i].status = Finished

FeedbackInv ==
  /\ CacheInv
  /\ OldInv
  /\ ShapeInv
  /\ DoneInv
  /\ StatusInSync
  /\ NilMeansReported

\* Before the first execution nothing has been reported.
LEMMA InitFeedbackInv == Init => FeedbackInv
  BY DEF Init, FeedbackInit, FeedbackInv, CacheInv, OldInv, InLoop, ShapeInv,
         DoneInv, StatusInSync, NilMeansReported

\* A write that updateStatus skips in SetCondition would have changed nothing.
LEMMA SkippedWrite ==
  ASSUME TypeOK, ShapeInv, feedback, InLoop, NEW name \in Names,
         UpToDate(WithStatus(conditions, name, Finished))
  PROVE  WithStatus(conditions, name, Finished) = conditions
  <1> DEFINE new == WithStatus(conditions, name, Finished)
  <1>1. /\ conditions \in Seq(Condition)
        /\ oldStatus \in Conditions
        /\ Len(conditions) \in Nat
        /\ Len(conditions) = Len(plan)
    BY LenProperties DEF TypeOK, FeedbackTypeOK, Conditions, ShapeInv
  <1>2. /\ new \in Seq(Condition)
        /\ Len(new) = Len(conditions)
        /\ \A i \in 1 .. Len(conditions) :
             new[i] = IF conditions[i].name = name
                      THEN [name |-> name, status |-> Finished]
                      ELSE conditions[i]
    BY <1>1, WithStatusDef DEF Conditions
  <1>3. oldStatus = new
    BY DEF UpToDate
  <1>4. ASSUME NEW i \in 1 .. Len(conditions), conditions[i].name = name
        PROVE  conditions[i].status = Finished
    <2>1. /\ new[i].name = name
          /\ \A k \in 1 .. Len(new) : new[k].name = name => new[k].status = Finished
      BY <1>2, <1>4
    <2>2. StatusBefore(oldStatus, name) = Finished
      BY <1>1, <1>2, <1>3, <2>1, StatusBeforeDef
    <2>3. /\ conditions[i].name = plan[i].name
          /\ conditions[i].status \in {StatusBefore(oldStatus, plan[i].name), Finished}
      BY <1>1 DEF ShapeInv
    <2> QED
      BY <1>4, <2>2, <2>3
  <1>5. ASSUME NEW i \in 1 .. Len(conditions)
        PROVE  new[i] = conditions[i]
    <2>1. conditions[i] \in Condition
      BY <1>1, ElementOfSeq
    <2>2. CASE conditions[i].name = name
      BY <1>2, <1>4, <2>1, <2>2 DEF Condition
    <2>3. CASE conditions[i].name # name
      BY <1>2, <2>3
    <2> QED
      BY <2>2, <2>3
  <1> HIDE DEF new
  <1>6. new = conditions
    BY <1>1, <1>2, <1>5, SeqEqual
  <1> QED
    BY <1>6 DEF new

\* What a write leaves behind, given what must hold of one that is skipped.
LEMMA UpdateStatusEffect ==
  ASSUME TypeOK, CacheInv, NEW new, NEW ok \in BOOLEAN, UpdateStatus(new, ok),
         fresh /\ UpToDate(new) => published = new
  PROVE  /\ CacheInv'
         /\ conditions' = new
         /\ UNCHANGED <<feedback, oldStatus>>
         /\ ok /\ fresh' => published' = new
         /\ ~ok => ~fresh'
         /\ fresh' => fresh
  BY DEF CacheInv, UpdateStatus, UpdateOk, UpdateFails, UpdateLost, Store,
         TypeOK, FeedbackTypeOK

\* Every action keeps the invariant about the feedback; the invariant about the
\* order is not needed for it.
LEMMA NextFeedbackInv ==
  TypeOK /\ InGroup /\ OrderInv /\ FeedbackInv /\ [Next]_vars => FeedbackInv'
  <1> SUFFICES ASSUME TypeOK, InGroup, OrderInv, FeedbackInv, [Next]_vars
               PROVE  FeedbackInv'
    OBVIOUS
  <1> USE DEF FeedbackInv
  <1>1. CASE Trigger
    <2>1. PICK has \in BOOLEAN : NewFeedback(has)
      BY <1>1 DEF Trigger
    <2>2. CacheInv' /\ OldInv'
      BY <2>1 DEF NewFeedback, CacheInv, OldInv, TypeOK, FeedbackTypeOK
    <2> QED
      BY <1>1, <2>2
         DEF Trigger, InLoop, ShapeInv, DoneInv, StatusInSync, NilMeansReported
  <1>2. CASE Render
    <2>1. UNCHANGED feedbackVars /\ pc = "render" /\ result' = result
      BY <1>2 DEF Render, Goto
    <2>2. result # "nil"
      BY <2>1 DEF OrderInv, ResultInv
    <2>3. feedback => pc' = "initialize"
      BY <1>2 DEF Render, Goto
    <2> QED
      BY <2>1, <2>2, <2>3
         DEF feedbackVars, CacheInv, OldInv, InLoop, ShapeInv, DoneInv,
             StatusInSync, NilMeansReported
  <1>3. CASE InitializeFeedback
    <2> DEFINE new == InitialConditions(GroupNames(plan), oldStatus)
    <2>1. PICK ok \in BOOLEAN :
            /\ UpdateStatus(new, ok)
            /\ IF ok THEN Goto("group") ELSE Return("feedback error")
      BY <1>3 DEF InitializeFeedback, Initialize
    <2>2. pc = "initialize" /\ UNCHANGED runVars
      BY <1>3 DEF InitializeFeedback
    <2>3. fresh /\ UpToDate(new) => published = new
      BY <2>2 DEF OldInv, UpToDate
    <2>4. /\ CacheInv'
          /\ conditions' = new
          /\ UNCHANGED <<feedback, oldStatus>>
          /\ ok /\ fresh' => published' = new
          /\ ~ok => ~fresh'
          /\ fresh' => fresh
      <3> HIDE DEF new
      <3> QED
        BY <2>1, <2>3, UpdateStatusEffect
    <2>5. /\ Len(new) = Len(plan)
          /\ \A i \in 1 .. Len(plan) :
               /\ new[i].name = plan[i].name
               /\ new[i].status = StatusBefore(oldStatus, plan[i].name)
      <3>1. /\ GroupNames(plan) \in Seq(Names)
            /\ Len(GroupNames(plan)) = Len(plan)
            /\ \A i \in 1 .. Len(plan) : GroupNames(plan)[i] = plan[i].name
        BY GroupNamesDef DEF TypeOK
      <3>2. /\ Len(new) = Len(GroupNames(plan))
            /\ \A i \in 1 .. Len(GroupNames(plan)) :
                 new[i] = [name |-> GroupNames(plan)[i],
                           status |-> StatusBefore(oldStatus, GroupNames(plan)[i])]
        BY <3>1, InitialConditionsDef DEF TypeOK, FeedbackTypeOK
      <3>3. ASSUME NEW i \in 1 .. Len(plan)
            PROVE  /\ new[i].name = plan[i].name
                   /\ new[i].status = StatusBefore(oldStatus, plan[i].name)
        <4>1. new[i] = [name |-> plan[i].name,
                        status |-> StatusBefore(oldStatus, plan[i].name)]
          BY <3>1, <3>2
        <4> HIDE DEF new
        <4> QED
          BY <4>1
      <3> HIDE DEF new
      <3> QED
        BY <3>1, <3>2, <3>3
    <2>6. \/ ok /\ pc' = "group" /\ result' = result
          \/ ~ok /\ pc' = "idle" /\ result' = "feedback error"
      BY <2>1 DEF Goto, Return
    <2>7. result # "nil" /\ group = 1
      BY <2>2 DEF OrderInv, ResultInv, BegunInv
    <2> HIDE DEF new
    <2>8. OldInv'
      BY <2>4, <2>6 DEF OldInv
    <2>9. ShapeInv'
      BY <2>2, <2>4, <2>5, <2>6 DEF InLoop, ShapeInv, runVars
    <2>10. DoneInv'
      <3>1. \A i \in 1 .. Len(plan) : ~(i < group)
        BY <2>7, OrderTypes
      <3> QED
        BY <2>2, <3>1 DEF DoneInv, runVars
    <2>11. StatusInSync' /\ NilMeansReported'
      BY <2>4, <2>6, <2>7 DEF StatusInSync, NilMeansReported
    <2> QED
      BY <2>4, <2>8, <2>9, <2>10, <2>11
  <1>4. CASE RenderFails \/ GroupFails \/ PrintResult
    <2>1. /\ UNCHANGED <<feedbackVars, plan, renderOnly>>
          /\ pc' = "idle"
          /\ result' # "nil" \/ renderOnly
      BY <1>4 DEF RenderFails, GroupFails, PrintResult, Return, runVars
    <2> QED
      BY <2>1
         DEF feedbackVars, CacheInv, OldInv, InLoop, ShapeInv, DoneInv,
             StatusInSync, NilMeansReported
  <1>5. CASE AllGroupsDone
    <2>1. /\ UNCHANGED <<feedbackVars, plan, renderOnly>>
          /\ pc = "group" /\ pc' = "idle"
          /\ group > Len(plan)
      BY <1>5 DEF AllGroupsDone, Return, runVars
    <2>2. NilMeansReported'
      <3> SUFFICES ASSUME feedback, fresh
                   PROVE  published = [g \in DOMAIN plan |->
                            [name |-> plan[g].name, status |-> Finished]]
        BY <2>1 DEF feedbackVars, NilMeansReported
      <3>1. /\ published = conditions
            /\ Len(conditions) = Len(plan)
            /\ \A i \in 1 .. Len(plan) :
                 /\ conditions[i].name = plan[i].name
                 /\ conditions[i].status = Finished
        <4>1. \A i \in 1 .. Len(plan) : i < group
          BY <2>1, OrderTypes
        <4> QED
          BY <2>1, <4>1 DEF InLoop, ShapeInv, DoneInv, StatusInSync
      <3>2. /\ conditions \in [1 .. Len(conditions) -> Condition]
            /\ DOMAIN plan = 1 .. Len(plan)
        BY LenProperties DEF TypeOK, FeedbackTypeOK, Conditions
      <3>3. ASSUME NEW i \in 1 .. Len(plan)
            PROVE  conditions[i] = [name |-> plan[i].name, status |-> Finished]
        BY <3>1, <3>2 DEF Condition
      <3> QED
        BY <3>1, <3>2, <3>3
    <2> QED
      BY <2>1, <2>2
         DEF feedbackVars, CacheInv, OldInv, InLoop, ShapeInv, DoneInv,
             StatusInSync
  <1>6. CASE EnterGroup \/ Spawn
    <2>1. /\ UNCHANGED <<feedbackVars, plan, group, renderOnly, result>>
          /\ pc \in {"group", "steps"} /\ pc' = "steps"
      BY <1>6 DEF EnterGroup, Spawn, Goto
    <2> QED
      BY <2>1
         DEF feedbackVars, CacheInv, OldInv, InLoop, ShapeInv, DoneInv,
             StatusInSync, NilMeansReported
  <1>7. CASE StepReturned
    <2>1. /\ UNCHANGED <<feedbackVars, plan, group, renderOnly>>
          /\ pc = "steps"
          /\ \/ pc' = pc /\ result' = result
             \/ pc' = "idle" /\ result' = "step error"
      BY <1>7 DEF StepReturned, Return
    <2> QED
      BY <2>1
         DEF feedbackVars, CacheInv, OldInv, InLoop, ShapeInv, DoneInv,
             StatusInSync, NilMeansReported
  <1>8. CASE GroupSucceeds
    <2>1. /\ UNCHANGED <<feedbackVars, plan, renderOnly, result>>
          /\ pc = "steps"
          /\ \/ feedback /\ pc' = "report" /\ group' = group
             \/ ~feedback /\ pc' = "group"
      BY <1>8 DEF GroupSucceeds, Goto, TypeOK, FeedbackTypeOK
    <2> QED
      BY <2>1
         DEF feedbackVars, CacheInv, OldInv, InLoop, ShapeInv, DoneInv,
             StatusInSync, NilMeansReported
  <1>9. CASE ReportGroup
    <2> DEFINE name == plan[group].name
               new == WithStatus(conditions, name, Finished)
    <2>1. PICK ok \in BOOLEAN :
            /\ UpdateStatus(new, ok)
            /\ IF ok THEN Goto("group") /\ group' = group + 1
                     ELSE Return("feedback error") /\ UNCHANGED group
      BY <1>9 DEF ReportGroup, SetCondition
    <2>2. /\ pc = "report" /\ UNCHANGED <<plan, renderOnly>>
          /\ \/ ok /\ pc' = "group" /\ group' = group + 1 /\ result' = result
             \/ ~ok /\ pc' = "idle" /\ result' = "feedback error"
      BY <1>9, <2>1 DEF ReportGroup, Goto, Return
    <2>3. name \in Names /\ group \in 1 .. Len(plan)
      BY <2>2, GroupShape DEF InGroup
    <2>4. fresh /\ UpToDate(new) => published = new
      <3> SUFFICES ASSUME fresh, UpToDate(new) PROVE published = new
        OBVIOUS
      <3>1. feedback /\ InLoop
        BY <2>2 DEF OldInv, InLoop
      <3>2. published = conditions
        BY <2>2, <3>1 DEF StatusInSync
      <3>3. new = conditions
        BY <2>3, <3>1, SkippedWrite
      <3> QED
        BY <3>2, <3>3
    <2>5. /\ CacheInv'
          /\ conditions' = new
          /\ UNCHANGED <<feedback, oldStatus>>
          /\ ok /\ fresh' => published' = new
          /\ ~ok => ~fresh'
          /\ fresh' => fresh
      <3> HIDE DEF new
      <3> QED
        BY <2>1, <2>4, UpdateStatusEffect
    <2>6. /\ Len(new) = Len(conditions)
          /\ \A i \in 1 .. Len(conditions) :
               new[i] = IF conditions[i].name = name
                        THEN [name |-> name, status |-> Finished]
                        ELSE conditions[i]
      BY <2>3, WithStatusDef DEF TypeOK, FeedbackTypeOK
    <2>7. result # "nil" /\ InLoop
      BY <2>2 DEF OrderInv, ResultInv, InLoop
    <2> HIDE DEF new
    <2>8. OldInv'
      BY <2>2, <2>5 DEF OldInv
    <2>9. feedback' => /\ Len(conditions') = Len(plan)
                       /\ \A i \in 1 .. Len(plan) :
                            /\ conditions'[i].name = plan[i].name
                            /\ conditions'[i].status \in
                                 {StatusBefore(oldStatus, plan[i].name), Finished}
                            /\ i < group \/ i = group => conditions'[i].status = Finished
      BY <2>5, <2>6, <2>7 DEF ShapeInv, DoneInv
    <2>10. ShapeInv'
      BY <2>2, <2>5, <2>9 DEF ShapeInv
    <2>11. DoneInv'
      <3>1. \A i \in 1 .. Len(plan) : i < group + 1 => i < group \/ i = group
        BY OrderTypes
      <3> QED
        BY <2>2, <2>9, <3>1 DEF DoneInv, InLoop
    <2>12. StatusInSync' /\ NilMeansReported'
      BY <2>2, <2>5, <2>7 DEF StatusInSync, NilMeansReported
    <2> QED
      BY <2>5, <2>8, <2>10, <2>11, <2>12
  <1>10. CASE Crash
    <2>1. LoseFeedback /\ pc' = "idle" /\ result' = "crashed"
      BY <1>10 DEF Crash, Return
    <2> QED
      BY <2>1
         DEF LoseFeedback, CacheInv, OldInv, InLoop, ShapeInv, DoneInv,
             StatusInSync, NilMeansReported
  <1>11. CASE Environment
    <2>1. /\ UNCHANGED <<pc, plan, group, renderOnly, result>>
          /\ EditObject \/ DeliverEvent
      BY <1>11 DEF Environment, runVars
    <2> QED
      BY <2>1
         DEF EditObject, DeliverEvent, CacheInv, OldInv, InLoop, ShapeInv,
             DoneInv, StatusInSync, NilMeansReported
  <1>12. CASE (\E s \in StepIds(plan) : RunStep(s)) \/ UNCHANGED vars
    <2>1. UNCHANGED <<feedbackVars, pc, plan, group, renderOnly, result>>
      BY <1>12 DEF RunStep, StartStep, ApplyItem, StepFails, StepSucceeds,
                   AppendError, GoroutineExits, StepVars, vars, runVars
    <2> QED
      BY <2>1
         DEF feedbackVars, CacheInv, OldInv, InLoop, ShapeInv, DoneInv,
             StatusInSync, NilMeansReported
  <1> QED
    BY <1>1, <1>2, <1>3, <1>4, <1>5, <1>6, <1>7, <1>8, <1>9, <1>10, <1>11,
       <1>12 DEF Next, Progress, Execute

\* The invariant about the feedback holds in every behavior.
LEMMA FeedbackInvariant == Spec => []FeedbackInv
  BY OrderInvariant, InitFeedbackInv, NextFeedbackInv, PTL DEF Spec

\* While the groups run, the stored status is the one the execution keeps: no
\* write that updateStatus skips was needed.
THEOREM StatusStaysInSync == Spec => []StatusInSync
  <1>1. FeedbackInv => StatusInSync
    BY DEF FeedbackInv
  <1> QED
    BY <1>1, FeedbackInvariant, PTL

\* When an execution with feedback returns nil, the stored status shows every
\* group of the plan as finished, in the order of the plan.
THEOREM NilIsReported == Spec => []NilMeansReported
  <1>1. FeedbackInv => NilMeansReported
    BY DEF FeedbackInv
  <1> QED
    BY <1>1, FeedbackInvariant, PTL

-----------------------------------------------------------------------------
(***************************************************************************)
(* What becomes of the stored conditions, step by step.                    *)
(***************************************************************************)

\* The stored conditions change in two ways only: an execution begins, and takes
\* the status of each of its groups from the stored ones; or it finishes a
\* group, and marks the stored conditions of that name.
LEMMA PublishedStep ==
  ASSUME TypeOK, InGroup, FeedbackInv, [Next]_vars
  PROVE  \/ published' = published
         \/ /\ pc = "initialize"
            /\ published' = InitialConditions(GroupNames(plan), published)
         \/ /\ pc = "report"
            /\ published' = WithStatus(published, plan[group].name, Finished)
  <1>1. ASSUME NEW new, NEW ok \in BOOLEAN, UpdateStatus(new, ok)
        PROVE  published' = published \/ (fresh /\ published' = new)
    BY <1>1 DEF UpdateStatus, UpdateOk, UpdateFails, UpdateLost, Store, MayWrite
  <1>2. CASE InitializeFeedback
    <2>1. PICK ok \in BOOLEAN :
            UpdateStatus(InitialConditions(GroupNames(plan), oldStatus), ok)
      BY <1>2 DEF InitializeFeedback, Initialize
    <2>2. pc = "initialize" /\ (fresh => oldStatus = published)
      BY <1>2 DEF InitializeFeedback, FeedbackInv, OldInv
    <2> QED
      BY <1>1, <2>1, <2>2
  <1>3. CASE ReportGroup
    <2>1. PICK ok \in BOOLEAN :
            UpdateStatus(WithStatus(conditions, plan[group].name, Finished), ok)
      BY <1>3 DEF ReportGroup, SetCondition
    <2>2. pc = "report" /\ (fresh => published = conditions)
      BY <1>3 DEF ReportGroup, FeedbackInv, OldInv, StatusInSync
    <2> QED
      BY <1>1, <2>1, <2>2
  <1>4. CASE Trigger
    BY <1>4 DEF Trigger, NewFeedback
  <1>5. CASE RenderFails \/ PrintResult \/ Render
    BY <1>5 DEF RenderFails, PrintResult, Render, feedbackVars
  <1>6. CASE EnterGroup \/ AllGroupsDone \/ Spawn \/ StepReturned
    BY <1>6 DEF EnterGroup, AllGroupsDone, Spawn, StepReturned, feedbackVars
  <1>7. CASE GroupSucceeds \/ GroupFails
    BY <1>7 DEF GroupSucceeds, GroupFails, feedbackVars
  <1>8. ASSUME NEW s \in StepIds(plan), RunStep(s)
        PROVE  published' = published
    BY <1>8 DEF RunStep, StartStep, ApplyItem, StepFails, StepSucceeds,
                AppendError, GoroutineExits, StepVars, feedbackVars
  <1>9. CASE Crash
    BY <1>9 DEF Crash, LoseFeedback
  <1>10. CASE Environment
    BY <1>10 DEF Environment, EditObject, DeliverEvent
  <1>11. CASE UNCHANGED vars
    BY <1>11 DEF vars, feedbackVars
  <1> QED
    BY <1>2, <1>3, <1>4, <1>5, <1>6, <1>7, <1>8, <1>9, <1>10, <1>11
       DEF Next, Progress, Execute

\* Conditions of one name have one status.
Uniform ==
  \A i, k \in 1 .. Len(published) :
    published[i].name = published[k].name =>
      published[i].status = published[k].status

\* What the stored conditions are taken from.
LEMMA PublishedTypes ==
  ASSUME TypeOK, InGroup
  PROVE  /\ published \in Conditions
         /\ DOMAIN published = 1 .. Len(published)
         /\ Len(published) \in Nat
         /\ GroupNames(plan) \in Seq(Names)
         /\ pc = "report" => plan[group].name \in Names
  <1>1. published \in Conditions /\ plan \in Seq(Group)
    BY DEF TypeOK, FeedbackTypeOK
  <1>2. pc = "report" => plan[group].name \in Names
    BY GroupShape DEF InGroup
  <1> QED
    BY <1>1, <1>2, GroupNamesDef, LenProperties DEF Conditions

\* Every step keeps the stored conditions of one name alike.
LEMMA NextUniform ==
  TypeOK /\ InGroup /\ FeedbackInv /\ Uniform /\ [Next]_vars => Uniform'
  <1> SUFFICES ASSUME TypeOK, InGroup, FeedbackInv, Uniform, [Next]_vars
               PROVE  Uniform'
    OBVIOUS
  <1>1. CASE published' = published
    BY <1>1 DEF Uniform
  <1>2. CASE published' = InitialConditions(GroupNames(plan), published)
    <2> DEFINE names == GroupNames(plan)
    <2>1. /\ Len(published') = Len(names)
          /\ \A i \in 1 .. Len(names) :
               published'[i] = [name |-> names[i],
                                status |-> StatusBefore(published, names[i])]
      BY <1>2, PublishedTypes, InitialConditionsDef
    <2>2. ASSUME NEW i \in 1 .. Len(names), NEW k \in 1 .. Len(names),
                 published'[i].name = published'[k].name
          PROVE  published'[i].status = published'[k].status
      <3> HIDE DEF names
      <3>1. /\ published'[i] = [name |-> names[i],
                                status |-> StatusBefore(published, names[i])]
            /\ published'[k] = [name |-> names[k],
                                status |-> StatusBefore(published, names[k])]
        BY <2>1
      <3>2. names[i] = names[k]
        BY <2>2, <3>1
      <3> QED
        BY <3>1, <3>2
    <2> HIDE DEF names
    <2> QED
      BY <2>1, <2>2 DEF Uniform
  <1>3. CASE /\ pc = "report"
             /\ published' = WithStatus(published, plan[group].name, Finished)
    <2>1. /\ Len(published') = Len(published)
          /\ \A i \in 1 .. Len(published) :
               published'[i] = IF published[i].name = plan[group].name
                               THEN [name |-> plan[group].name, status |-> Finished]
                               ELSE published[i]
      BY <1>3, PublishedTypes, WithStatusDef
    <2> QED
      BY <2>1 DEF Uniform
  <1> QED
    BY <1>1, <1>2, <1>3, PublishedStep

\* The invariants of this module together hold in every behavior.
LEMMA PublishedInvariant ==
  Spec => [](TypeOK /\ InGroup /\ OrderInv /\ FeedbackInv /\ Uniform)
  <1>1. Init => Uniform
    BY DEF Init, FeedbackInit, Uniform
  <1> QED
    BY <1>1, OrderInvariant, FeedbackInvariant, NextUniform, PTL DEF Spec

\* Every write to the stored status updates the one that is stored, whichever
\* executions, edits, stale copies, lost responses and crashes came before.
THEOREM StatusIsUpdated == Spec => WritesAreUpdates
  <1>1. TypeOK /\ InGroup /\ FeedbackInv /\ [Next]_vars =>
          (published' # published =>
             \/ /\ pc = "initialize"
                /\ published' = InitialConditions(GroupNames(plan), published)
             \/ /\ pc = "report"
                /\ published' = WithStatus(published, plan[group].name, Finished))
    BY PublishedStep
  <1> QED
    BY <1>1, PublishedInvariant, PTL DEF Spec, WritesAreUpdates

\* A stored condition turns "Finished" only when the running execution has settled
\* every step of a group of that name.
THEOREM FinishedIsTrue == Spec => FinishedOnlyAfterGroup
  <1> DEFINE Earned(c) ==
        \/ \E k \in DOMAIN published : published[k] = c
        \/ \E g \in DOMAIN plan : plan[g].name = c.name /\ GroupSettled(g)
  <1>1. ASSUME TypeOK, InGroup, OrderInv, FeedbackInv, [Next]_vars,
               NEW i \in DOMAIN published', published'[i].status = Finished
        PROVE  Earned(published'[i])
    <2>1. \A k \in 1 .. Len(published) : published[k] \in Condition
      BY <1>1, PublishedTypes, ElementOfSeq DEF Conditions
    <2>2. CASE published' = published
      BY <1>1, <2>2
    <2>3. CASE published' = InitialConditions(GroupNames(plan), published)
      <3> DEFINE names == GroupNames(plan)
      <3>1. /\ i \in 1 .. Len(names)
            /\ published'[i] = [name |-> names[i],
                                status |-> StatusBefore(published, names[i])]
        <4>1. /\ Len(published') = Len(names)
              /\ published' \in Conditions
              /\ \A j \in 1 .. Len(names) :
                   published'[j] = [name |-> names[j],
                                    status |-> StatusBefore(published, names[j])]
          BY <1>1, <2>3, PublishedTypes, InitialConditionsDef
        <4>2. DOMAIN published' = 1 .. Len(published')
          BY <4>1, LenProperties DEF Conditions
        <4> QED
          BY <1>1, <4>1, <4>2
      <3>2. StatusBefore(published, names[i]) = Finished
        BY <1>1, <3>1
      <3>3. PICK k \in 1 .. Len(published) :
              published[k].name = names[i] /\ published[k].status = Finished
        <4>1. published \in Conditions
          BY <1>1, PublishedTypes
        <4>2. StatusBefore(published, names[i]) # NotStarted
          BY <3>2 DEF NotStarted, Finished
        <4> HIDE DEF names
        <4> QED
          BY <3>2, <4>1, <4>2, StatusBeforeDef
      <3>4. published[k] = [name |-> names[i], status |-> Finished]
        BY <2>1, <3>3 DEF Condition
      <3> QED
        BY <1>1, <3>1, <3>2, <3>4, PublishedTypes
    <2>4. CASE /\ pc = "report"
               /\ published' = WithStatus(published, plan[group].name, Finished)
      <3>1. /\ i \in 1 .. Len(published)
            /\ published'[i] = IF published[i].name = plan[group].name
                               THEN [name |-> plan[group].name, status |-> Finished]
                               ELSE published[i]
        <4>1. /\ Len(published') = Len(published)
              /\ published' \in Conditions
              /\ \A j \in 1 .. Len(published) :
                   published'[j] = IF published[j].name = plan[group].name
                                   THEN [name |-> plan[group].name,
                                         status |-> Finished]
                                   ELSE published[j]
          BY <1>1, <2>4, PublishedTypes, WithStatusDef
        <4>2. DOMAIN published' = 1 .. Len(published')
          BY <4>1, LenProperties DEF Conditions
        <4> QED
          BY <1>1, <4>1, <4>2
      <3>2. CASE published[i].name = plan[group].name
        <4>1. GroupSettled(group)
          BY <1>1, <2>4 DEF OrderInv, PassedInv, GroupSettled
        <4>2. group \in DOMAIN plan
          BY <1>1, <2>4, LenProperties DEF InGroup, TypeOK
        <4> QED
          BY <3>1, <3>2, <4>1, <4>2
      <3>3. CASE published[i].name # plan[group].name
        BY <1>1, <3>1, <3>3, PublishedTypes
      <3> QED
        BY <3>2, <3>3
    <2> QED
      BY <1>1, <2>2, <2>3, <2>4, PublishedStep
  <1>2. TypeOK /\ InGroup /\ OrderInv /\ FeedbackInv /\ [Next]_vars =>
          \A i \in DOMAIN published' :
            published'[i].status = Finished => Earned(published'[i])
    BY <1>1
  <1> QED
    BY <1>2, PublishedInvariant, PTL DEF Spec, FinishedOnlyAfterGroup

\* "Finished" is never taken back for as long as the condition is there,
\* whichever executions, failures and crashes follow.
THEOREM FinishedStays == Spec => FinishedIsKept
  <1>1. ASSUME TypeOK, InGroup, FeedbackInv, Uniform, [Next]_vars,
               NEW i \in DOMAIN published, NEW k \in DOMAIN published',
               published[i].name = published'[k].name,
               published[i].status = Finished
        PROVE  published'[k].status = Finished
    <2>1. i \in 1 .. Len(published)
      BY <1>1, PublishedTypes
    <2>2. CASE published' = published
      BY <1>1, <2>1, <2>2, PublishedTypes DEF Uniform
    <2>3. CASE published' = InitialConditions(GroupNames(plan), published)
      <3>1. published' \in Conditions /\ Len(published') = Len(GroupNames(plan))
        BY <1>1, <2>3, PublishedTypes, InitialConditionsDef
      <3>2. k \in 1 .. Len(GroupNames(plan))
        BY <1>1, <3>1, LenProperties DEF Conditions
      <3>3. published'[k] =
              [name |-> GroupNames(plan)[k],
               status |-> StatusBefore(published, GroupNames(plan)[k])]
        BY <1>1, <2>3, <3>2, PublishedTypes, InitialConditionsDef
      <3>4. StatusBefore(published, published[i].name) = Finished
        <4>1. PICK l \in 1 .. Len(published) :
                /\ published[l].name = published[i].name
                /\ StatusBefore(published, published[i].name) = published[l].status
          BY <1>1, <2>1, PublishedTypes, StatusBeforeDef
        <4> QED
          BY <1>1, <2>1, <4>1 DEF Uniform
      <3> QED
        BY <1>1, <3>3, <3>4
    <2>4. CASE /\ pc = "report"
               /\ published' = WithStatus(published, plan[group].name, Finished)
      <3>1. published' \in Conditions /\ Len(published') = Len(published)
        BY <1>1, <2>4, PublishedTypes, WithStatusDef
      <3>2. k \in 1 .. Len(published)
        BY <1>1, <3>1, LenProperties DEF Conditions
      <3>3. published'[k] = IF published[k].name = plan[group].name
                            THEN [name |-> plan[group].name, status |-> Finished]
                            ELSE published[k]
        BY <1>1, <2>4, <3>2, PublishedTypes, WithStatusDef
      <3> QED
        BY <1>1, <2>1, <3>2, <3>3 DEF Uniform
    <2> QED
      BY <1>1, <2>2, <2>3, <2>4, PublishedStep
  <1>2. TypeOK /\ InGroup /\ FeedbackInv /\ Uniform /\ [Next]_vars =>
          \A i \in DOMAIN published, k \in DOMAIN published' :
            published[i].name = published'[k].name /\ published[i].status = Finished
              => published'[k].status = Finished
    BY <1>1
  <1> QED
    BY <1>2, PublishedInvariant, PTL DEF Spec, FinishedIsKept

-----------------------------------------------------------------------------
(***************************************************************************)
(* Every step counts.  Due is a record of sets; the lemmas say what each   *)
(* of them needs in order to shrink, and then every action of an execution *)
(* is shown to shrink one of them and to enlarge none.                     *)
(***************************************************************************)

EnterDue(g)  == group < g \/ AtGroup(g)
LeaveDue(g)  == group < g \/ (group = g /\ pc \notin {"report", "idle"})
ExitDue(s)   == NotReached(s) \/ s \in live
EndDue(s)    == status[s] \in {"idle", "running"}
ItemsDue     == UNION {{s} \X (applied[s] + 1 .. StepOf(s).items) : s \in StepIds(plan)}

\* No place of the plan, no step and no goroutine is due again.
NoneAgain ==
  /\ pc = "idle" => pc' = "idle"
  /\ pc' = "initialize" => pc = "initialize"
  /\ \A g \in DOMAIN plan : /\ EnterDue(g)' => EnterDue(g)
                            /\ LeaveDue(g)' => LeaveDue(g)
                            /\ group' <= g  => group <= g
  /\ \A s \in StepIds(plan) : /\ NotReached(s)' => NotReached(s)
                              /\ ExitDue(s)' => ExitDue(s)

\* No step is begun, acted on, ended or reported again.
NoneRepeated ==
  \A s \in StepIds(plan) : /\ status'[s] = "idle" => status[s] = "idle"
                           /\ EndDue(s)' => EndDue(s)
                           /\ s \in errs => s \in errs'
                           /\ applied[s] <= applied'[s]

\* Something is due no longer.
OnePassed ==
  \/ pc # "idle" /\ pc' = "idle"
  \/ pc = "initialize" /\ pc' # "initialize"
  \/ \E g \in DOMAIN plan : \/ EnterDue(g) /\ ~EnterDue(g)'
                            \/ LeaveDue(g) /\ ~LeaveDue(g)'
                            \/ group <= g /\ ~(group' <= g)
  \/ \E s \in StepIds(plan) : \/ NotReached(s) /\ ~NotReached(s)'
                              \/ ExitDue(s) /\ ~ExitDue(s)'
                              \/ status[s] = "idle" /\ status'[s] # "idle"
                              \/ EndDue(s) /\ ~EndDue(s)'
                              \/ s \notin errs /\ s \in errs'
                              \/ /\ applied[s] < applied'[s]
                                 /\ applied[s] < StepOf(s).items

DueSets ==
  [return     |-> IF pc = "idle" THEN {} ELSE {"execution"},
   initialize |-> IF pc = "initialize" THEN {"feedback"} ELSE {},
   enter      |-> {g \in DOMAIN plan : EnterDue(g)},
   leave      |-> {g \in DOMAIN plan : LeaveDue(g)},
   report     |-> {g \in DOMAIN plan : group <= g},
   step       |-> {s \in StepIds(plan) : NotReached(s)},
   begin      |-> {s \in StepIds(plan) : status[s] = "idle"},
   item       |-> ItemsDue,
   end        |-> {s \in StepIds(plan) : EndDue(s)},
   error      |-> StepIds(plan) \ errs,
   exit       |-> {s \in StepIds(plan) : ExitDue(s)}]

\* The sets that are due, each by what puts something into it.
LEMMA DueIs == Due = DueSets /\ Due' = DueSets'
  BY Zenon DEF Due, DueSets, EnterDue, LeaveDue, ExitDue, EndDue, ItemsDue

\* Nothing is added to what is due, and something is taken from it.
LEMMA DueShrinks ==
  ASSUME TypeOK, TypeOK', plan' = plan, NoneAgain, NoneRepeated, OnePassed
  PROVE  Due' # Due /\ \A kind \in DOMAIN Due' : Due'[kind] \subseteq Due[kind]
  <1>1. StepIds(plan)' = StepIds(plan) /\ DOMAIN plan' = DOMAIN plan
    BY DEF StepIds
  <1>2. \A s \in StepIds(plan) : /\ StepOf(s)' = StepOf(s)
                                 /\ StepOf(s).items \in Nat
                                 /\ applied[s] \in Nat
                                 /\ applied'[s] \in Nat
    BY <1>1, StepShape DEF TypeOK, StepOf
  <1>3. ItemsDue' \subseteq ItemsDue
    <2>1. ASSUME NEW s \in StepIds(plan),
                 NEW k \in applied'[s] + 1 .. StepOf(s).items
          PROVE  k \in applied[s] + 1 .. StepOf(s).items
      BY <1>2 DEF NoneRepeated
    <2>2. ASSUME NEW x \in ItemsDue'
          PROVE  x \in ItemsDue
      <3>1. PICK s \in StepIds(plan) :
              \E k \in applied'[s] + 1 .. StepOf(s)'.items : x = <<s, k>>
        BY <1>1, <2>2 DEF ItemsDue
      <3>2. PICK k \in applied[s] + 1 .. StepOf(s).items : x = <<s, k>>
        BY <1>2, <2>1, <3>1
      <3> QED
        BY <3>2 DEF ItemsDue
    <2> QED
      BY <2>2
  <1>4. ASSUME NEW s \in StepIds(plan),
               applied[s] < applied'[s], applied[s] < StepOf(s).items
        PROVE  ItemsDue' # ItemsDue
    <2> DEFINE item == <<s, applied[s] + 1>>
    <2>1. applied[s] + 1 \in applied[s] + 1 .. StepOf(s).items
      BY <1>2, <1>4
    <2>2. item \in ItemsDue
      BY <2>1 DEF ItemsDue
    <2>3. item \notin ItemsDue'
      <3>1. SUFFICES ASSUME NEW t \in StepIds(plan),
                            item \in {t} \X (applied'[t] + 1 .. StepOf(t)'.items)
                     PROVE  FALSE
        BY <1>1 DEF ItemsDue
      <3>2. t = s /\ applied[s] + 1 \in applied'[s] + 1 .. StepOf(s)'.items
        BY <3>1
      <3> QED
        BY <1>2, <1>4, <3>2
    <2> QED
      BY <2>2, <2>3
  <1>5. /\ DueSets'.return \subseteq DueSets.return
        /\ DueSets'.initialize \subseteq DueSets.initialize
        /\ DueSets'.enter \subseteq DueSets.enter
        /\ DueSets'.leave \subseteq DueSets.leave
        /\ DueSets'.report \subseteq DueSets.report
        /\ DueSets'.step \subseteq DueSets.step
        /\ DueSets'.begin \subseteq DueSets.begin
        /\ DueSets'.item \subseteq DueSets.item
        /\ DueSets'.end \subseteq DueSets.end
        /\ DueSets'.error \subseteq DueSets.error
        /\ DueSets'.exit \subseteq DueSets.exit
    BY <1>1, <1>3 DEF DueSets, NoneAgain, NoneRepeated
  <1>6. \A kind \in DOMAIN DueSets' : DueSets'[kind] \subseteq DueSets[kind]
    <2>1. DOMAIN DueSets' = {"return", "initialize", "enter", "leave", "report",
                             "step", "begin", "item", "end", "error", "exit"}
      BY DEF DueSets
    <2> QED
      BY <1>5, <2>1
  <1>7. DueSets' # DueSets
    <2>1. CASE pc # "idle" /\ pc' = "idle"
      <3>1. DueSets'.return # DueSets.return
        BY <2>1 DEF DueSets
      <3> QED
        BY <3>1
    <2>2. CASE pc = "initialize" /\ pc' # "initialize"
      <3>1. DueSets'.initialize # DueSets.initialize
        BY <2>2 DEF DueSets
      <3> QED
        BY <3>1
    <2>3. ASSUME NEW g \in DOMAIN plan,
                 \/ EnterDue(g) /\ ~EnterDue(g)'
                 \/ LeaveDue(g) /\ ~LeaveDue(g)'
                 \/ group <= g /\ ~(group' <= g)
          PROVE  DueSets' # DueSets
      <3>1. \/ DueSets'.enter # DueSets.enter
            \/ DueSets'.leave # DueSets.leave
            \/ DueSets'.report # DueSets.report
        BY <1>1, <2>3 DEF DueSets
      <3> QED
        BY <3>1
    <2>4. ASSUME NEW s \in StepIds(plan),
                 \/ NotReached(s) /\ ~NotReached(s)'
                 \/ ExitDue(s) /\ ~ExitDue(s)'
                 \/ status[s] = "idle" /\ status'[s] # "idle"
                 \/ EndDue(s) /\ ~EndDue(s)'
                 \/ s \notin errs /\ s \in errs'
                 \/ /\ applied[s] < applied'[s]
                    /\ applied[s] < StepOf(s).items
          PROVE  DueSets' # DueSets
      <3>1. \/ DueSets'.step # DueSets.step
            \/ DueSets'.exit # DueSets.exit
            \/ DueSets'.begin # DueSets.begin
            \/ DueSets'.end # DueSets.end
            \/ DueSets'.error # DueSets.error
            \/ DueSets'.item # DueSets.item
        BY <1>1, <1>4, <2>4 DEF DueSets
      <3> QED
        BY <3>1
    <2> QED
      BY <2>1, <2>2, <2>3, <2>4 DEF OnePassed
  <1> QED
    BY <1>6, <1>7, DueIs

\* While Execute has steps before it, `Current` is one of them.
LEMMA CurrentIsStep ==
  ASSUME TypeOK, InGroup, pc = "steps", next <= StepCount
  PROVE  Current \in StepIds(plan)
  <1>1. group \in 1 .. Len(plan)
    BY DEF InGroup
  <1>2. next \in 1 .. Len(plan[group].steps)
    BY <1>1, GroupShape DEF StepCount, TypeOK
  <1> QED
    BY <1>1, <1>2, StepIdsDef DEF Current, TypeOK

\* What runStep and its goroutine do to one step is never due again.
LEMMA RunStepCounts ==
  ASSUME TypeOK, OrderInv, NEW s \in StepIds(plan), RunStep(s)
  PROVE  plan' = plan /\ NoneAgain /\ NoneRepeated /\ OnePassed
  <1>1. UNCHANGED <<pc, plan, group, next>>
    BY RunStepEffect
  <1>2. \A t \in StepIds(plan) : applied[t] \in Nat /\ StepOf(t).items \in Nat
    BY StepShape DEF TypeOK
  <1>3. NoneAgain
    BY <1>1, RunStepEffect
       DEF NoneAgain, EnterDue, LeaveDue, ExitDue, NotReached, AtGroup
  <1>4. CASE StartStep(s)
    <2>1. NoneRepeated
      BY <1>2, <1>4 DEF StartStep, StepVars, NoneRepeated, EndDue, TypeOK
    <2>2. status[s] = "idle" /\ status'[s] # "idle"
      BY <1>4 DEF StartStep, TypeOK
    <2> QED
      BY <1>1, <1>3, <2>1, <2>2 DEF OnePassed
  <1>5. CASE ApplyItem(s)
    <2>1. NoneRepeated
      BY <1>2, <1>5 DEF ApplyItem, StepVars, NoneRepeated, EndDue, TypeOK
    <2>2. applied[s] < applied'[s] /\ applied[s] < StepOf(s).items
      BY <1>2, <1>5 DEF ApplyItem, TypeOK
    <2> QED
      BY <1>1, <1>3, <2>1, <2>2 DEF OnePassed
  <1>6. CASE StepFails(s) \/ StepSucceeds(s)
    <2>1. NoneRepeated
      BY <1>2, <1>6
         DEF StepFails, StepSucceeds, StepVars, NoneRepeated, EndDue, TypeOK
    <2>2. EndDue(s) /\ ~EndDue(s)'
      BY <1>6 DEF StepFails, StepSucceeds, EndDue, TypeOK
    <2> QED
      BY <1>1, <1>3, <2>1, <2>2 DEF OnePassed
  <1>7. CASE AppendError(s)
    <2>1. NoneRepeated /\ s \notin errs /\ s \in errs'
      BY <1>2, <1>7 DEF AppendError, NoneRepeated, EndDue
    <2> QED
      BY <1>1, <1>3, <2>1 DEF OnePassed
  <1>8. CASE GoroutineExits(s)
    <2>1. NoneRepeated
      BY <1>2, <1>8 DEF GoroutineExits, NoneRepeated, EndDue
    <2>2. s \in live /\ s \notin live'
      BY <1>8 DEF GoroutineExits
    <2>3. pc = "steps" /\ s[1] = group /\ s[2] < next /\ s[2] \in Nat /\ next \in Nat
          /\ group \in Nat
      BY <2>2, StepIdsDef DEF OrderInv, LiveInv, TypeOK
    <2>4. ExitDue(s) /\ ~ExitDue(s)'
      BY <1>1, <2>2, <2>3 DEF ExitDue, NotReached, AtGroup
    <2> QED
      BY <1>1, <1>3, <2>1, <2>4 DEF OnePassed
  <1> QED
    BY <1>4, <1>5, <1>6, <1>7, <1>8 DEF RunStep

\* Once its rollout is rendered, whatever an execution does gets it past
\* something.
LEMMA ExecutionCounts ==
  ASSUME TypeOK, InGroup, OrderInv, [Next]_vars, pc \notin {"idle", "render"},
         <<pc, runVars>>' # <<pc, runVars>>
  PROVE  plan' = plan /\ NoneAgain /\ NoneRepeated /\ OnePassed
  <1> DEFINE Frame == UNCHANGED <<plan, status, applied, errs>>
  <1>1. /\ group \in Nat /\ next \in Nat /\ Len(plan) \in Nat
        /\ DOMAIN plan = 1 .. Len(plan)
        /\ \A s \in StepIds(plan) : s[1] \in Nat /\ s[2] \in Nat /\ s[1] \in 1 .. Len(plan)
        /\ \A s \in StepIds(plan) : applied[s] \in Nat
    BY OrderTypes, LenProperties DEF TypeOK
  <1>2. ASSUME Frame
        PROVE  NoneRepeated
    BY <1>1, <1>2 DEF NoneRepeated, EndDue
  <1>3. ASSUME pc' = "idle", Frame, group' = group, live' \subseteq live
        PROVE  plan' = plan /\ NoneAgain /\ NoneRepeated /\ OnePassed
    <2>1. NoneAgain
      BY <1>1, <1>3 DEF NoneAgain, EnterDue, LeaveDue, ExitDue, NotReached, AtGroup
    <2> QED
      BY <1>2, <1>3, <2>1 DEF OnePassed
  <1>4. CASE InitializeFeedback
    <2>1. Frame /\ UNCHANGED <<group, next, live>> /\ pc = "initialize"
      BY <1>4 DEF InitializeFeedback, runVars
    <2>2. pc' = "group" \/ pc' = "idle"
      BY <1>4 DEF InitializeFeedback, Goto, Return
    <2>3. CASE pc' = "group"
      <3>1. NoneAgain
        BY <2>1, <2>3 DEF NoneAgain, EnterDue, LeaveDue, ExitDue, NotReached, AtGroup
      <3> QED
        BY <1>2, <2>1, <2>3, <3>1 DEF OnePassed
    <2> QED
      BY <1>3, <2>1, <2>2, <2>3
  <1>5. CASE EnterGroup
    <2>1. /\ Frame /\ UNCHANGED <<group, live>>
          /\ pc = "group" /\ pc' = "steps" /\ next' = 1
          /\ group \in DOMAIN plan
      BY <1>1, <1>5 DEF EnterGroup, Goto, TypeOK
    <2>2. NoneAgain
      BY <1>1, <2>1 DEF NoneAgain, EnterDue, LeaveDue, ExitDue, NotReached, AtGroup
    <2>3. OnePassed
      BY <1>1, <2>1 DEF OnePassed, EnterDue, AtGroup
    <2> QED
      BY <1>2, <2>1, <2>2, <2>3
  <1>6. CASE AllGroupsDone \/ GroupFails
    BY <1>3, <1>6 DEF AllGroupsDone, GroupFails, Return, runVars
  <1>7. CASE Spawn
    <2>1. /\ Frame /\ UNCHANGED <<pc, group>> /\ pc = "steps"
          /\ live' = live \cup {Current} /\ next' = next + 1
      BY <1>7 DEF Spawn
    <2>2. Current \in StepIds(plan)
      BY <1>7, CurrentIsStep DEF Spawn
    <2>3. NoneAgain
      BY <1>1, <2>1
         DEF NoneAgain, EnterDue, LeaveDue, ExitDue, NotReached, AtGroup, Current
    <2>4. OnePassed
      BY <1>1, <2>1, <2>2 DEF OnePassed, NotReached, AtGroup, Current
    <2> QED
      BY <1>2, <2>1, <2>3, <2>4
  <1>8. CASE StepReturned
    <2>1. Frame /\ UNCHANGED <<group, live>> /\ pc = "steps"
      BY <1>8 DEF StepReturned
    <2>2. CASE pc' = "idle"
      BY <1>3, <2>1, <2>2
    <2>3. CASE UNCHANGED pc /\ next' = next + 1
      <3>1. Current \in StepIds(plan)
        BY <1>8, CurrentIsStep DEF StepReturned
      <3>2. NoneAgain
        BY <1>1, <2>1, <2>3
           DEF NoneAgain, EnterDue, LeaveDue, ExitDue, NotReached, AtGroup
      <3>3. OnePassed
        BY <1>1, <2>1, <2>3, <3>1 DEF OnePassed, NotReached, AtGroup, Current
      <3> QED
        BY <1>2, <2>1, <3>2, <3>3
    <2> QED
      BY <1>8, <2>2, <2>3 DEF StepReturned, Return
  <1>9. ASSUME Frame, UNCHANGED live, pc \in {"steps", "report"}, pc' = "group",
               group' = group + 1, group \in 1 .. Len(plan)
        PROVE  plan' = plan /\ NoneAgain /\ NoneRepeated /\ OnePassed
    <2>1. NoneAgain
      BY <1>1, <1>9 DEF NoneAgain, EnterDue, LeaveDue, ExitDue, NotReached, AtGroup
    <2>2. group <= group /\ ~(group' <= group)
      BY <1>1, <1>9
    <2> QED
      BY <1>1, <1>2, <1>9, <2>1, <2>2 DEF OnePassed
  <1>10. CASE GroupSucceeds
    <2>1. Frame /\ UNCHANGED live /\ pc = "steps" /\ group \in 1 .. Len(plan)
      BY <1>10 DEF GroupSucceeds, InGroup
    <2>2. CASE pc' = "report" /\ group' = group
      <3>1. NoneAgain
        BY <1>1, <2>1, <2>2
           DEF NoneAgain, EnterDue, LeaveDue, ExitDue, NotReached, AtGroup
      <3>2. OnePassed
        BY <1>1, <2>1, <2>2 DEF OnePassed, LeaveDue
      <3> QED
        BY <1>2, <2>1, <3>1, <3>2
    <2> QED
      BY <1>9, <1>10, <2>1, <2>2 DEF GroupSucceeds, Goto
  <1>11. CASE ReportGroup
    <2>1. Frame /\ UNCHANGED live /\ pc = "report" /\ group \in 1 .. Len(plan)
      BY <1>11 DEF ReportGroup, InGroup
    <2>2. \/ pc' = "group" /\ group' = group + 1
          \/ pc' = "idle" /\ group' = group
      BY <1>11 DEF ReportGroup, Goto, Return
    <2> QED
      BY <1>3, <1>9, <2>1, <2>2
  <1>12. CASE Crash
    BY <1>3, <1>12 DEF Crash, Return
  <1>13. ASSUME NEW s \in StepIds(plan), RunStep(s)
         PROVE  plan' = plan /\ NoneAgain /\ NoneRepeated /\ OnePassed
    BY <1>13, RunStepCounts
  <1>14. CASE Environment \/ UNCHANGED vars
    BY <1>14 DEF Environment, vars, runVars
  <1>15. CASE Trigger \/ RenderFails \/ PrintResult \/ Render
    BY <1>15 DEF Trigger, RenderFails, PrintResult, Render
  <1> QED
    BY <1>4, <1>5, <1>6, <1>7, <1>8, <1>10, <1>11, <1>12, <1>13, <1>14, <1>15
       DEF Next, Progress, Execute

\* Whatever an execution does once its rollout is rendered, it gets past
\* something it does not come to again.
THEOREM StepsCount == Spec => EveryStepCounts
  <1>1. ASSUME TypeOK, InGroup, OrderInv, [Next]_vars,
               pc \notin {"idle", "render"}, <<pc, runVars>>' # <<pc, runVars>>
        PROVE  Due' # Due /\ \A kind \in DOMAIN Due' : Due'[kind] \subseteq Due[kind]
    BY <1>1, ExecutionCounts, NextTypeOK, DueShrinks
  <1>2. TypeOK /\ InGroup /\ OrderInv /\ [Next]_vars =>
          [pc \notin {"idle", "render"} =>
             Due' # Due /\ \A kind \in DOMAIN Due' : Due'[kind] \subseteq Due[kind]
          ]_<<pc, runVars>>
    BY <1>1
  <1> QED
    BY <1>2, OrderInvariant, PTL DEF Spec, EveryStepCounts

\* The union of finite sets, one for each element of a finite set, is finite.
LEMMA FiniteUnion ==
  ASSUME NEW S, IsFiniteSet(S), NEW f, f = [x \in S |-> f[x]],
         \A x \in S : IsFiniteSet(f[x])
  PROVE  IsFiniteSet(UNION {f[x] : x \in S})
  <1> DEFINE T == {f[x] : x \in S}
  <1>1. f \in Surjection(S, T)
    <2>1. f \in [S -> T]
      OBVIOUS
    <2>2. \A t \in T : \E x \in S : f[x] = t
      OBVIOUS
    <2> HIDE DEF T
    <2> QED
      BY <2>1, <2>2 DEF Surjection
  <1>2. IsFiniteSet(T)
    <2> HIDE DEF T
    <2> QED
      BY <1>1, FS_Surjection
  <1>3. \A t \in T : IsFiniteSet(t)
    OBVIOUS
  <1> QED
    BY <1>2, <1>3, FS_UNION

\* A rollout has finitely many steps.
LEMMA FiniteSteps ==
  ASSUME NEW p \in Seq(Group)
  PROVE  IsFiniteSet(DOMAIN p) /\ IsFiniteSet(StepIds(p))
  <1> DEFINE ids == [g \in DOMAIN p |-> {<<g, i>> : i \in DOMAIN p[g].steps}]
  <1>1. IsFiniteSet(DOMAIN p)
    BY LenProperties, FS_Interval
  <1>2. ASSUME NEW g \in DOMAIN p
        PROVE  IsFiniteSet(ids[g])
    <2>1. p[g] \in Group
      BY LenProperties, ElementOfSeq
    <2>2. p[g].steps \in Seq(Step)
      BY <2>1 DEF Group
    <2>3. IsFiniteSet(DOMAIN p[g].steps)
      <3>1. /\ DOMAIN p[g].steps = 1 .. Len(p[g].steps)
            /\ 1 \in Int /\ Len(p[g].steps) \in Int
        BY <2>2, LenProperties
      <3>2. IsFiniteSet(1 .. Len(p[g].steps))
        BY <3>1, FS_Interval
      <3> QED
        BY <3>1, <3>2
    <2>4. IsFiniteSet({g} \X DOMAIN p[g].steps)
      BY <2>3, FS_Singleton, FS_Product
    <2>5. ids[g] = {g} \X DOMAIN p[g].steps
      OBVIOUS
    <2> QED
      BY <2>4, <2>5
  <1>3. IsFiniteSet(UNION {ids[g] : g \in DOMAIN p})
    <2>1. ids = [g \in DOMAIN p |-> ids[g]]
      OBVIOUS
    <2> HIDE DEF ids
    <2> QED
      BY <1>1, <1>2, <2>1, FiniteUnion
  <1>4. StepIds(p) = UNION {ids[g] : g \in DOMAIN p}
    BY DEF StepIds
  <1> QED
    BY <1>1, <1>3, <1>4

\* What is due of an execution is finite, whatever the plan, its steps and the
\* number of their items.
LEMMA FiniteDue ==
  ASSUME TypeOK
  PROVE  \A kind \in DOMAIN Due : IsFiniteSet(Due[kind])
  <1> DEFINE items == [s \in StepIds(plan) |-> {s} \X (applied[s] + 1 .. StepOf(s).items)]
  <1>1. IsFiniteSet(DOMAIN plan) /\ IsFiniteSet(StepIds(plan))
    BY FiniteSteps DEF TypeOK
  <1>2. \A U \in SUBSET DOMAIN plan : IsFiniteSet(U)
    BY <1>1, FS_Subset
  <1>3. \A U \in SUBSET StepIds(plan) : IsFiniteSet(U)
    BY <1>1, FS_Subset
  <1>4. IsFiniteSet(ItemsDue)
    <2>1. ASSUME NEW s \in StepIds(plan)
          PROVE  IsFiniteSet(items[s])
      <3>1. applied[s] + 1 \in Int /\ StepOf(s).items \in Int
        BY StepShape DEF TypeOK
      <3>2. IsFiniteSet(applied[s] + 1 .. StepOf(s).items)
        BY <3>1, FS_Interval
      <3>3. IsFiniteSet({s} \X (applied[s] + 1 .. StepOf(s).items))
        BY <3>2, FS_Singleton, FS_Product
      <3> QED
        BY <3>3
    <2>2. items = [s \in StepIds(plan) |-> items[s]]
      OBVIOUS
    <2>3. ItemsDue = UNION {items[s] : s \in StepIds(plan)}
      BY DEF ItemsDue
    <2> HIDE DEF items
    <2> QED
      BY <1>1, <2>1, <2>2, <2>3, FiniteUnion
  <1>5. IsFiniteSet({}) /\ IsFiniteSet({"execution"}) /\ IsFiniteSet({"feedback"})
    BY FS_EmptySet, FS_Singleton
  <1>6. /\ IsFiniteSet(DueSets.return) /\ IsFiniteSet(DueSets.initialize)
        /\ IsFiniteSet(DueSets.enter)  /\ IsFiniteSet(DueSets.leave)
        /\ IsFiniteSet(DueSets.report) /\ IsFiniteSet(DueSets.step)
        /\ IsFiniteSet(DueSets.begin)  /\ IsFiniteSet(DueSets.item)
        /\ IsFiniteSet(DueSets.end)    /\ IsFiniteSet(DueSets.error)
        /\ IsFiniteSet(DueSets.exit)
    <2>1. /\ DueSets.enter \in SUBSET DOMAIN plan
          /\ DueSets.leave \in SUBSET DOMAIN plan
          /\ DueSets.report \in SUBSET DOMAIN plan
          /\ DueSets.step \in SUBSET StepIds(plan)
          /\ DueSets.begin \in SUBSET StepIds(plan)
          /\ DueSets.end \in SUBSET StepIds(plan)
          /\ DueSets.error \in SUBSET StepIds(plan)
          /\ DueSets.exit \in SUBSET StepIds(plan)
          /\ DueSets.item = ItemsDue
      BY DEF DueSets
    <2>2. /\ DueSets.return \in {{}, {"execution"}}
          /\ DueSets.initialize \in {{}, {"feedback"}}
      BY DEF DueSets
    <2> QED
      BY <1>2, <1>3, <1>4, <1>5, <2>1, <2>2
  <1>7. DOMAIN DueSets = {"return", "initialize", "enter", "leave", "report",
                          "step", "begin", "item", "end", "error", "exit"}
    BY DEF DueSets
  <1> QED
    BY <1>6, <1>7, DueIs

\* So no execution goes on for ever: what it has to get past is always finite, and
\* with every step (StepsCount) it is less.
THEOREM DueIsFinite ==
  Spec => [](\A kind \in DOMAIN Due : IsFiniteSet(Due[kind]))
  <1>1. TypeOK => \A kind \in DOMAIN Due : IsFiniteSet(Due[kind])
    BY FiniteDue
  <1> QED
    BY <1>1, TypeCorrect, PTL

-----------------------------------------------------------------------------
(***************************************************************************)
(* The rollout implements StagedRollout.  To the order of the steps the    *)
(* refinement adds what is left of a step that has not begun, and where    *)
(* the collected errors come from.                                         *)
(***************************************************************************)

WalkInv ==
  /\ pc = "render" => plan = << >>
  /\ \A s \in StepIds(plan) : ~Begun(s) => applied[s] = 0
  /\ \A s \in errs : status[s] = "failed" /\ Parallel(s[1])

\* Every action keeps it.
LEMMA NextWalkInv ==
  TypeOK /\ InGroup /\ OrderInv /\ WalkInv /\ [Next]_vars => WalkInv'
  <1> SUFFICES ASSUME TypeOK, InGroup, OrderInv, WalkInv, [Next]_vars
               PROVE  WalkInv'
    OBVIOUS
  <1>1. CASE Trigger
    <2>1. StepIds(plan)' = {} /\ errs' = {} /\ plan' = << >>
      BY <1>1, NoStepIds DEF Trigger, Load
    <2> QED
      BY <2>1 DEF WalkInv
  <1>2. CASE Render
    <2>1. PICK p \in Plans : Load(p)
      BY <1>2 DEF Render
    <2>2. errs' = {} /\ pc' # "render"
      BY <1>2 DEF Render, InGroup, Goto
    <2> QED
      BY <2>1, <2>2 DEF Load, WalkInv
  <1>3. ASSUME UNCHANGED <<plan, status, applied, errs>>, pc' = "render" => pc = "render"
        PROVE  WalkInv'
    BY <1>3 DEF WalkInv, Begun, StepIds, Parallel
  <1>4. CASE RenderFails \/ PrintResult \/ InitializeFeedback \/ EnterGroup \/ AllGroupsDone
    BY <1>3, <1>4
       DEF RenderFails, PrintResult, InitializeFeedback, EnterGroup, AllGroupsDone,
           runVars, Goto, Return
  <1>5. CASE Spawn \/ StepReturned \/ GroupSucceeds \/ GroupFails \/ ReportGroup \/ Crash
    BY <1>3, <1>5
       DEF Spawn, StepReturned, GroupSucceeds, GroupFails, ReportGroup, Crash,
           runVars, Goto, Return
  <1>6. ASSUME NEW s \in StepIds(plan), RunStep(s)
        PROVE  WalkInv'
    <2>1. UNCHANGED <<pc, plan>> /\ StepIds(plan)' = StepIds(plan)
      BY <1>6, RunStepEffect DEF StepIds
    <2>2. \A t \in StepIds(plan) : status'[t] = "idle" => applied'[t] = 0
      BY <1>6 DEF TypeOK, WalkInv, Begun, RunStep, StartStep, ApplyItem, StepFails,
                  StepSucceeds, AppendError, GoroutineExits, StepVars
    <2>3. ASSUME NEW t \in errs'
          PROVE  status'[t] = "failed" /\ Parallel(t[1])'
      <3>1. Parallel(t[1])' = Parallel(t[1])
        BY <2>1 DEF Parallel
      <3>2. CASE t \in errs
        BY <1>6, <3>1, <3>2
           DEF TypeOK, WalkInv, RunStep, StartStep, ApplyItem, StepFails,
               StepSucceeds, AppendError, GoroutineExits, StepVars
      <3>3. CASE t \notin errs
        <4>1. t = s /\ AppendError(s)
          BY <1>6, <2>3, <3>3
             DEF RunStep, StartStep, ApplyItem, StepFails, StepSucceeds,
                 AppendError, GoroutineExits, StepVars
        <4> QED
          BY <3>1, <4>1 DEF AppendError, OrderInv, LiveInv
      <3> QED
        BY <3>2, <3>3
    <2> QED
      BY <2>1, <2>2, <2>3 DEF WalkInv, Begun
  <1>7. CASE Environment \/ UNCHANGED vars
    BY <1>3, <1>7 DEF Environment, vars, runVars
  <1> QED
    BY <1>1, <1>2, <1>4, <1>5, <1>6, <1>7 DEF Next, Progress, Execute

\* The invariants the refinement needs hold in every behavior.
LEMMA WalkInvariant == Spec => [](TypeOK /\ InGroup /\ OrderInv /\ WalkInv)
  <1>1. Init => WalkInv
    BY NoStepIds DEF Init, WalkInv
  <1> QED
    BY <1>1, OrderInvariant, NextWalkInv, PTL DEF Spec

\* Both modules name the same steps, and let the same ones pass.
LEMMA StagedSteps ==
  /\ \A p : Staged!Steps(p) = StepIds(p)
  /\ \A s : Staged!Of(s) = StepOf(s) /\ Staged!Joint(s) = Parallel(s[1])
  BY DEF Staged!Steps, StepIds, Staged!Of, StepOf, Staged!Joint, Parallel

\* What Passed says of a step in terms of the rollout.
LEMMA StagedPassed ==
  ASSUME TypeOK, NEW s \in StepIds(plan)
  PROVE  /\ Ended[s] = IF status[s] \in {"ok", "failed"} THEN status[s] ELSE "no"
         /\ Settled(s) => Staged!Passed(s)
         /\ Staged!Passed(s) => status[s] \in {"ok", "failed"}
         /\ status[s] = "failed" /\ (Parallel(s[1]) \/ ~Tolerated(s)) => ~Staged!Passed(s)
  BY StagedSteps DEF Ended, Settled, Staged!Passed, Tolerated, TypeOK

\* Where nothing of the steps changes, StagedRollout sees nothing of them change.
LEMMA StagedSame ==
  ASSUME UNCHANGED <<plan, status>>
  PROVE  Ended' = Ended
  BY DEF Ended, StepIds

\* A step is called only when it may act.
LEMMA CalledMayAct ==
  ASSUME TypeOK, InGroup, OrderInv, NEW s \in StepIds(plan), Called(s),
         status[s] \in {"idle", "running"}
  PROVE  Staged!MayAct(s)
  <1>1. pc = "steps" /\ s[1] = group /\ (~Parallel(group) => s = Current)
    BY DEF Called, OrderInv, LiveInv, Current
  <1>2. ASSUME NEW t \in StepIds(plan), Staged!Before(t, s)
        PROVE  Settled(t)
    <2>1. t[1] < group \/ (t[1] = group /\ t[2] < s[2] /\ ~Parallel(group))
      BY <1>1, <1>2, StagedSteps DEF Staged!Before
    <2> QED
      BY <1>1, <2>1 DEF OrderInv, PassedInv, Current
  <1>3. Ended[s] = "no"
    BY StagedPassed
  <1> QED
    BY <1>1, <1>2, <1>3, StagedPassed, StagedSteps DEF Staged!MayAct

\* The initial states are initial states of StagedRollout.
LEMMA StagedInit == Init => Staged!Init
  <1> SUFFICES ASSUME Init PROVE Staged!Init
    OBVIOUS
  <1>1. Ended = [s \in Staged!Steps(<< >>) |-> "no"]
    BY NoStepIds, StagedSteps DEF Init, Ended
  <1>2. applied = [s \in Staged!Steps(<< >>) |-> 0]
    BY NoStepIds, StagedSteps DEF Init
  <1> QED
    BY <1>1, <1>2 DEF Init, Staged!Init

\* What runStep and its goroutine do to a step is an action of StagedRollout, or
\* nothing that it sees.
LEMMA StagedRunStep ==
  ASSUME TypeOK, InGroup, OrderInv, NEW s \in StepIds(plan), RunStep(s)
  PROVE  [Staged!Next]_(Staged!vars)
  <1>1. UNCHANGED <<pc, plan, result>> /\ Called(s)
    BY RunStepEffect
  <1>2. s \in Staged!Steps(plan) /\ Staged!Of(s) = StepOf(s)
    BY StagedSteps
  <1>3. ASSUME UNCHANGED applied, Ended' = Ended
        PROVE  UNCHANGED Staged!vars
    BY <1>1, <1>3 DEF Staged!vars
  <1>4. CASE AppendError(s) \/ GoroutineExits(s)
    <2>1. UNCHANGED <<status, applied>>
      BY <1>4 DEF AppendError, GoroutineExits
    <2> QED
      BY <1>1, <1>3, <2>1, StagedSame
  <1>5. CASE StartStep(s)
    <2>1. Ended' = Ended /\ UNCHANGED applied
      BY <1>1, <1>5 DEF StartStep, Ended, StepIds, TypeOK
    <2> QED
      BY <1>3, <2>1
  <1>6. CASE ApplyItem(s)
    <2>1. Ended' = Ended
      BY <1>1, <1>6, StagedSame DEF ApplyItem
    <2>2. Staged!MayAct(s)
      BY <1>1, <1>6, CalledMayAct DEF ApplyItem
    <2>3. Staged!Act(s)
      BY <1>1, <1>2, <1>6, <2>1, <2>2 DEF ApplyItem, Staged!Act
    <2> QED
      BY <1>2, <2>3 DEF Staged!Next
  <1>7. CASE StepFails(s) \/ StepSucceeds(s)
    <2>1. Staged!MayAct(s)
      BY <1>1, <1>7, CalledMayAct DEF StepFails, StepSucceeds
    <2>2. StepIds(plan)' = StepIds(plan)
      BY <1>1 DEF StepIds
    <2>3. \/ StepFails(s) /\ status' = [status EXCEPT ![s] = "failed"]
          \/ StepSucceeds(s) /\ status' = [status EXCEPT ![s] = "ok"]
      BY <1>7 DEF StepFails, StepSucceeds
    <2>4. \/ StepFails(s) /\ Ended' = [Ended EXCEPT ![s] = "failed"]
          \/ StepSucceeds(s) /\ Ended' = [Ended EXCEPT ![s] = "ok"]
      BY <2>2, <2>3 DEF Ended, TypeOK
    <2>5. Staged!End(s)
      BY <1>1, <1>2, <2>1, <2>4 DEF StepFails, StepSucceeds, Staged!End
    <2> QED
      BY <1>2, <2>5 DEF Staged!Next
  <1> QED
    BY <1>4, <1>5, <1>6, <1>7 DEF RunStep

\* Every way out of Execute is one that StagedRollout allows.
LEMMA StagedReturn ==
  ASSUME UNCHANGED <<plan, status, applied>>, pc # "idle", pc' = "idle",
         Staged!MayReturn(result'),
         result' \in {"nil", "step error", "render error", "feedback error", "crashed"}
  PROVE  [Staged!Next]_(Staged!vars)
  <1>1. Ended' = Ended
    BY StagedSame
  <1>2. Staged!Return
    BY <1>1 DEF Staged!Return
  <1> QED
    BY <1>2 DEF Staged!Next

\* Every step is a step of StagedRollout, or one that it does not see.
LEMMA StagedStep ==
  ASSUME TypeOK, InGroup, OrderInv, WalkInv, [Next]_vars
  PROVE  [Staged!Next]_(Staged!vars)
  <1>1. CASE Trigger
    <2>1. /\ Ended' = [s \in Staged!Steps(<< >>) |-> "no"]
          /\ applied' = [s \in Staged!Steps(<< >>) |-> 0]
      BY <1>1, NoStepIds, StagedSteps DEF Trigger, Load, Ended
    <2>2. Staged!Begin
      BY <1>1, <2>1 DEF Trigger, Load, Staged!Begin, Staged!Fresh
    <2> QED
      BY <2>2 DEF Staged!Next
  <1>2. CASE RenderFails \/ PrintResult
    <2>1. plan = << >> /\ StepIds(plan) = {}
      BY <1>2, NoStepIds DEF RenderFails, PrintResult, WalkInv
    <2>2. Staged!MayReturn(result')
      BY <1>2, <2>1, StagedSteps
         DEF RenderFails, PrintResult, Return, Staged!MayReturn
    <2> QED
      BY <1>2, <2>2, StagedReturn DEF RenderFails, PrintResult, Return, runVars
  <1>3. CASE Render
    <2>1. PICK p \in Plans : Load(p)
      BY <1>3 DEF Render
    <2>2. /\ Ended' = [s \in Staged!Steps(p) |-> "no"]
          /\ applied' = [s \in Staged!Steps(p) |-> 0]
      BY <2>1, StagedSteps DEF Load, Ended
    <2>3. Staged!Render
      BY <1>3, <2>1, <2>2
         DEF Render, Goto, Load, WalkInv, Staged!Render, Staged!Fresh
    <2> QED
      BY <2>3 DEF Staged!Next
  <1>4. ASSUME UNCHANGED <<plan, status, applied, result>>, (pc = "idle") = (pc' = "idle")
        PROVE  UNCHANGED Staged!vars
    BY <1>4, StagedSame DEF Staged!vars
  <1>5. CASE InitializeFeedback
    <2>1. CASE pc' = "idle"
      <3>1. \A s \in StepIds(plan) : Ended[s] = "no" /\ applied[s] = 0 /\ ~Staged!Passed(s)
        BY <1>5, StagedPassed
           DEF InitializeFeedback, OrderInv, BegunInv, WalkInv, Begun
      <3>2. result' = "feedback error"
        BY <1>5, <2>1 DEF InitializeFeedback, Goto, Return
      <3>3. Staged!MayReturn(result')
        BY <3>1, <3>2, StagedSteps DEF Staged!MayReturn
      <3> QED
        BY <1>5, <2>1, <3>2, <3>3, StagedReturn DEF InitializeFeedback, runVars
    <2>2. CASE pc' = "group"
      BY <1>4, <1>5, <2>2 DEF InitializeFeedback, runVars, Goto, Return
    <2> QED
      BY <1>5, <2>1, <2>2 DEF InitializeFeedback, Goto, Return
  <1>6. CASE EnterGroup \/ Spawn \/ GroupSucceeds
    BY <1>4, <1>6 DEF EnterGroup, Spawn, GroupSucceeds, Goto
  <1>7. CASE AllGroupsDone
    <2>1. \A s \in StepIds(plan) : s[1] < group
      BY <1>7, OrderTypes DEF AllGroupsDone
    <2>2. \A s \in StepIds(plan) : Staged!Passed(s)
      BY <2>1, StagedPassed DEF OrderInv, PassedInv
    <2>3. Staged!MayReturn(result')
      BY <1>7, <2>2, StagedSteps DEF AllGroupsDone, Return, Staged!MayReturn
    <2> QED
      BY <1>7, <2>3, StagedReturn DEF AllGroupsDone, Return, runVars
  <1>8. CASE StepReturned
    <2>1. CASE pc' = "idle"
      <3>1. Current \in StepIds(plan) /\ Current[1] = group
        BY <1>8, CurrentIsStep DEF StepReturned, Current
      <3>2. status[Current] = "failed" /\ ~Tolerated(Current) /\ result' = "step error"
        BY <1>8, <2>1 DEF StepReturned, Return
      <3>3. Ended[Current] = "failed" /\ ~Staged!Passed(Current)
        BY <3>1, <3>2, StagedPassed
      <3>4. Staged!MayReturn(result')
        BY <3>1, <3>2, <3>3, StagedSteps DEF Staged!MayReturn
      <3> QED
        BY <1>8, <2>1, <3>2, <3>4, StagedReturn DEF StepReturned
    <2>2. CASE UNCHANGED <<pc, result>>
      BY <1>4, <1>8, <2>2 DEF StepReturned
    <2> QED
      BY <1>8, <2>1, <2>2 DEF StepReturned, Return
  <1>9. CASE GroupFails
    <2>1. PICK s \in errs : s[1] = group
      BY <1>9 DEF GroupFails, OfGroup
    <2>2. s \in StepIds(plan) /\ status[s] = "failed" /\ Parallel(s[1])
      BY <2>1 DEF WalkInv, TypeOK
    <2>3. Ended[s] = "failed" /\ ~Staged!Passed(s)
      BY <2>2, StagedPassed
    <2>4. Staged!MayReturn(result')
      BY <1>9, <2>2, <2>3, StagedSteps DEF GroupFails, Return, Staged!MayReturn
    <2> QED
      BY <1>9, <2>4, StagedReturn DEF GroupFails, Return, runVars
  <1>10. CASE ReportGroup
    <2>1. CASE pc' = "idle"
      <3>1. ASSUME NEW s \in StepIds(plan)
            PROVE  /\ s[1] <= group => Staged!Passed(s)
                   /\ ~(s[1] <= group) => /\ Ended[s] = "no"
                                          /\ applied[s] = 0
                                          /\ ~Staged!Passed(s)
        <4>1. s[1] \in Nat /\ group \in Nat
          BY OrderTypes
        <4>2. CASE s[1] <= group
          <5>1. pc = "report"
            BY <1>10 DEF ReportGroup
          <5>2. s[1] < group \/ s[1] = group
            BY <4>1, <4>2
          <5>3. Settled(s)
            BY <5>1, <5>2 DEF OrderInv, PassedInv
          <5> QED
            BY <4>2, <5>3, StagedPassed
        <4>3. CASE ~(s[1] <= group)
          <5>1. ~Begun(s)
            BY <4>3 DEF OrderInv, BegunInv
          <5> QED
            BY <4>3, <5>1, StagedPassed DEF WalkInv, Begun
        <4> QED
          BY <4>2, <4>3
      <3>2. result' = "feedback error"
        BY <1>10, <2>1 DEF ReportGroup, Goto, Return
      <3>3. /\ \A s, t \in StepIds(plan) :
                 s[1] = t[1] => (Staged!Passed(s) <=> Staged!Passed(t))
            /\ \A s \in StepIds(plan) :
                 Staged!Passed(s) \/ (Ended[s] = "no" /\ applied[s] = 0)
        BY <3>1
      <3>4. Staged!MayReturn(result')
        BY <3>2, <3>3, StagedSteps DEF Staged!MayReturn
      <3> QED
        BY <1>10, <2>1, <3>2, <3>4, StagedReturn DEF ReportGroup
    <2>2. CASE pc' = "group"
      BY <1>4, <1>10, <2>2 DEF ReportGroup, Goto, Return
    <2> QED
      BY <1>10, <2>1, <2>2 DEF ReportGroup, Goto, Return
  <1>11. CASE Crash
    <2>1. Staged!MayReturn(result')
      BY <1>11 DEF Crash, Return, Staged!MayReturn
    <2> QED
      BY <1>11, <2>1, StagedReturn DEF Crash, Return
  <1>12. ASSUME NEW s \in StepIds(plan), RunStep(s)
         PROVE  [Staged!Next]_(Staged!vars)
    BY <1>12, StagedRunStep
  <1>13. CASE Environment \/ UNCHANGED vars
    BY <1>4, <1>13 DEF Environment, vars, runVars
  <1> QED
    BY <1>1, <1>2, <1>3, <1>5, <1>6, <1>7, <1>8, <1>9, <1>10, <1>11, <1>12, <1>13
       DEF Next, Progress, Execute

\* Executions carry rollouts out stage by stage, for every rollout: no step acts
\* before what it has to wait for is passed, none after the return, and what
\* Execute returns tells what became of the steps.
THEOREM Implements == Spec => CarriesOutStages
  <1>1. TypeOK /\ InGroup /\ OrderInv /\ WalkInv /\ [Next]_vars
          => [Staged!Next]_(Staged!vars)
    BY StagedStep
  <1> QED
    BY <1>1, StagedInit, WalkInvariant, PTL DEF Spec, CarriesOutStages, Staged!Spec

=============================================================================
