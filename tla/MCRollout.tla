----------------------------- MODULE MCRollout ------------------------------
(***************************************************************************)
(* Rollout.tla for TLC: two group names, and a plan for every shape that   *)
(* the code distinguishes.                                                 *)
(***************************************************************************)
EXTENDS Rollout

CONSTANTS A, B

MCNames == {A, B}

\* A step on one object, one whose failure is tolerated, one on a list of two.
One    == [items |-> 1, continueOnError |-> FALSE]
Lax    == [items |-> 1, continueOnError |-> TRUE]
Listed == [items |-> 2, continueOnError |-> FALSE]

Serial(n, ss) == [name |-> n, parallel |-> FALSE, steps |-> ss]
Joint(n, ss)  == [name |-> n, parallel |-> TRUE, steps |-> ss]

MCPlans ==
  { << >>,                                          \* a rollout of no groups
    <<Serial(A, <<Listed, Lax, One>>), Serial(B, <<One>>)>>,
    <<Joint(A, <<Listed, Lax>>), Joint(B, <<One>>)>>,
    <<Serial(B, << >>), Joint(A, <<One, One, One>>)>>, \* an empty group
    <<Serial(A, <<Lax>>), Serial(A, <<One>>)>> }    \* two groups of one name

=============================================================================
