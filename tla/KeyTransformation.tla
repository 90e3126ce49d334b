-------------------------- MODULE KeyTransformation --------------------------
(***************************************************************************)
(* The key transformations of a resource (trigger/resource/handlers.go):   *)
(* before a key is enqueued, each of them may replace it, or drop it.      *)
(*                                                                         *)
(* A regular expression is a function from the keys it matches to what its *)
(* first group matches, a replacement one from those keys to what the      *)
(* expansion yields.  ResourceTrigger.tla knows of a key only what it is   *)
(* transformed into.                                                       *)
(***************************************************************************)
EXTENDS Sequences
LOCAL INSTANCE SequencesExt

CONSTANTS
  Strings, \* what keys may be transformed into on the way
  Empty,   \* the empty key, which is not enqueued
  Unset    \* a field that is not configured

\* newKeyTransformation fills in "replace", "(.*)" and "$1".
newKeyTransformation(config) ==
  LET regex == IF config.regex = Unset THEN [k \in Strings |-> k] ELSE config.regex
  IN [action      |-> IF config.action = Unset THEN "replace" ELSE config.action,
      regex       |-> regex,
      replacement |-> IF config.replacement = Unset THEN regex ELSE config.replacement]

MatchString(t, k) == k \in DOMAIN t.regex

\* "drop" drops what it does not match, as "keep" does; an action that is none
\* of the three changes nothing.
transform(t, k) ==
  IF t.action = "replace" /\ MatchString(t, k) THEN t.replacement[k]
  ELSE IF t.action \in {"drop", "keep"} /\ ~MatchString(t, k) THEN Empty
  ELSE k

\* All of them in turn, whether or not a key was dropped by an earlier one.
transformAll(configs, k) ==
  FoldLeft(LAMBDA cur, config : transform(newKeyTransformation(config), cur), k, configs)

=============================================================================
