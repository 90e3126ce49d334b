\* The plans of rollout_groups; a parallel group with a tolerant step is among
\* them.
CONSTANTS
  A = A
  B = B
  Names <- MCNames
  Plans <- MCPlans
SPECIFICATION Spec
INVARIANT ContinueOnErrorHonoured
