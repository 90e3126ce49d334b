--------------------------- MODULE FieldComparison ---------------------------
(***************************************************************************)
(* The field comparisons of a success definition (checks/success_check.go, *)
(* 22-93 and 221-285): the paths that are read of an object, and what they *)
(* have to show.  The paths are kept in one map, where a path that appears *)
(* again loses its default.                                                *)
(*                                                                         *)
(* An object is what the query of each path yields, a sequence of          *)
(* sequences of values.  A value is a pair of its type and what it stands  *)
(* for: reflect.DeepEqual tells a float64 from an int64.                   *)
(***************************************************************************)
EXTENDS Naturals, Sequences, FiniteSetsExt

CONSTANTS
  Nil,    \* the default or static value that is not configured
  NoPath, \* the path that is not configured
  Error   \* instead of a result

Int64(n) == <<"int64", n>>

\* A number of a rollout is unmarshalled into an interface.
Float64(n) == <<"float64", n>>

findResult(results, default) ==
  IF Len(results) = 1 /\ Len(results[1]) = 1 THEN results[1][1]
  ELSE IF Len(results) = 0 /\ default # Nil THEN default
  ELSE Error

\* The paths that NewCheckRunner enters for a comparison.
PathsOf(ev) == {ev.path, ev.value.path} \ {NoPath}

Paths(evs) == UNION {PathsOf(evs[i]) : i \in DOMAIN evs}

\* The default of the entry of a path: that of the last comparison that enters
\* it; a path to compare with has none.
Default(evs, path) ==
  LET i == Max({j \in DOMAIN evs : path \in PathsOf(evs[j])})
  IN IF evs[i].value.path = path THEN Nil ELSE evs[i].default

currentValues(evs, object) ==
  [path \in Paths(evs) |-> findResult(object[path], Default(evs, path))]

\* What a comparison expects; a path comes before a static value.
Expected(value, values) ==
  IF value.path # NoPath THEN values[value.path]
  ELSE IF value.static = Nil THEN Int64(value.staticInt64)
  ELSE value.static

checkComparisons(evs, values) ==
  \A i \in DOMAIN evs : values[evs[i].path] = Expected(evs[i].value, values)

\* What the check of an object comes to: an error ends it.
Shows(evs, object) ==
  LET values == currentValues(evs, object)
  IN IF \E path \in Paths(evs) : values[path] = Error THEN Error
     ELSE checkComparisons(evs, values)

-----------------------------------------------------------------------------
(***************************************************************************)
(* What the comparisons come to without the map they share.                *)
(***************************************************************************)

\* The default with which a comparison enters one of its paths.
EnteredDefault(ev, path) == IF ev.value.path = path THEN Nil ELSE ev.default

\* No path is entered with two defaults, and none is compared with itself unless
\* it has no default.
OneDefault(evs) ==
  /\ \A i, j \in DOMAIN evs : \A path \in PathsOf(evs[i]) \cap PathsOf(evs[j]) :
       EnteredDefault(evs[i], path) = EnteredDefault(evs[j], path)
  /\ \A i \in DOMAIN evs : evs[i].value.path = evs[i].path => evs[i].default = Nil

\* One comparison against what the fields of the object show, by itself.
Meets(ev, object) ==
  LET v == findResult(object[ev.path], ev.default)
      w == IF ev.value.path # NoPath THEN findResult(object[ev.value.path], Nil)
           ELSE Expected(ev.value, << >>)
  IN IF Error \in {v, w} THEN Error ELSE v = w

=============================================================================
