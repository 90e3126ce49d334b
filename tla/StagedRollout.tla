---------------------------- MODULE StagedRollout ----------------------------
(***************************************************************************)
(* What Runner.Execute (rollout/rollout.go) promises of the steps of a     *)
(* rollout, without saying how it walks through them: a step acts only     *)
(* after everything it has to wait for has been passed, nothing acts after *)
(* Execute has returned, and what Execute returns tells what became of the *)
(* steps.  Rollout.tla implements it, with its goroutines, WaitGroups and  *)
(* collected errors.                                                       *)
(***************************************************************************)
EXTENDS Naturals, Sequences

CONSTANT Plans \* the rollouts that rendering may produce

VARIABLES
  running, \* is there an execution?
  plan,    \* the rollout that it carries out
  acted,   \* on how many items of its object each step has acted
  ended,   \* how each step has ended, if it has
  outcome  \* what the last execution returned

vars == <<running, plan, acted, ended, outcome>>

Steps(p) == UNION {{<<g, i>> : i \in DOMAIN p[g].steps} : g \in DOMAIN p}
Of(s)    == plan[s[1]].steps[s[2]]
Joint(s) == plan[s[1]].parallel

\* A rollout of which nothing has been done.
Fresh(p) ==
  /\ plan'  = p
  /\ acted' = [s \in Steps(p) |-> 0]
  /\ ended' = [s \in Steps(p) |-> "no"]

Init ==
  /\ running = FALSE
  /\ plan = << >>
  /\ acted = [s \in Steps(<< >>) |-> 0]
  /\ ended = [s \in Steps(<< >>) |-> "no"]
  /\ outcome = "none"

\* What comes after a step may go on: it succeeded, or its failure is one that
\* continueOnError lets pass, which it does not in a parallel group.
Passed(s) ==
  \/ ended[s] = "ok"
  \/ ended[s] = "failed" /\ Of(s).continueOnError /\ ~Joint(s)

\* A step waits for the groups before its own, and for the steps before it
\* unless its group is parallel.
Before(t, s) == t[1] < s[1] \/ (t[1] = s[1] /\ t[2] < s[2] /\ ~Joint(s))

MayAct(s) ==
  /\ running
  /\ ended[s] = "no"
  /\ \A t \in Steps(plan) : Before(t, s) => Passed(t)

-----------------------------------------------------------------------------

Begin ==
  /\ ~running
  /\ running' = TRUE
  /\ outcome' = "none"
  /\ Fresh(<< >>)

Render ==
  /\ running
  /\ plan = << >>
  /\ \E p \in Plans : Fresh(p)
  /\ UNCHANGED <<running, outcome>>

Act(s) ==
  /\ MayAct(s)
  /\ acted[s] < Of(s).items
  /\ acted' = [acted EXCEPT ![s] = @ + 1]
  /\ UNCHANGED <<running, plan, ended, outcome>>

\* A step succeeds after it has acted on every item.
End(s) ==
  /\ MayAct(s)
  /\ \/ acted[s] = Of(s).items /\ ended' = [ended EXCEPT ![s] = "ok"]
     \/ ended' = [ended EXCEPT ![s] = "failed"]
  /\ UNCHANGED <<running, plan, acted, outcome>>

\* What Execute may return: nil when every step is passed, the error of a step
\* when one of them ended with an error that is not let pass.  Nothing was done
\* when rendering fails; when the feedback fails no step is under way.
MayReturn(r) ==
  \/ r = "nil" /\ \A s \in Steps(plan) : Passed(s)
  \/ r = "step error" /\ \E s \in Steps(plan) : ended[s] = "failed" /\ ~Passed(s)
  \/ r = "render error" /\ plan = << >>
  \/ /\ r = "feedback error"
     /\ \A s, t \in Steps(plan) : s[1] = t[1] => (Passed(s) <=> Passed(t))
     /\ \A s \in Steps(plan) : Passed(s) \/ (ended[s] = "no" /\ acted[s] = 0)
  \/ r = "crashed"

Return ==
  /\ running
  /\ running' = FALSE
  /\ \E r \in {"nil", "step error", "render error", "feedback error", "crashed"} :
       MayReturn(r) /\ outcome' = r
  /\ UNCHANGED <<plan, acted, ended>>

Next ==
  \/ Begin \/ Render \/ Return
  \/ \E s \in Steps(plan) : Act(s) \/ End(s)

Spec == Init /\ [][Next]_vars

=============================================================================
