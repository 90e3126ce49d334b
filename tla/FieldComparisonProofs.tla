----------------------- MODULE FieldComparisonProofs ------------------------
(***************************************************************************)
(* What the map of paths of a success definition (FieldComparison.tla)     *)
(* makes of any number of comparisons on any object.                       *)
(***************************************************************************)
EXTENDS FieldComparison, SequenceFacts

\* Every comparison has a path, and what it expects without one to compare with
\* is a value.
WellFormed(evs) ==
  \A i \in DOMAIN evs :
    /\ evs[i].path # NoPath
    /\ evs[i].value.path = NoPath => Expected(evs[i].value, << >>) # Error

\* The default a path ends up with is one that a comparison entered it with, and
\* so the one each of them entered it with, if they agree.
LEMMA DefaultIsEntered ==
  ASSUME NEW C, NEW evs \in Seq(C), OneDefault(evs),
         NEW i \in DOMAIN evs, NEW path \in PathsOf(evs[i])
  PROVE  Default(evs, path) = EnteredDefault(evs[i], path)
  <1> DEFINE entering == {j \in DOMAIN evs : path \in PathsOf(evs[j])}
  <1>1. DOMAIN evs = 1 .. Len(evs) /\ Len(evs) \in Nat
    BY LenProperties
  <1>2. \E k \in entering : \A l \in entering : l <= k
    <2>1. entering \in SUBSET (1 .. Len(evs)) /\ entering # {}
      BY <1>1
    <2> HIDE DEF entering
    <2> QED
      BY <1>1, <2>1, LastPlace
  <1>3. \E k \in entering : \A l \in entering : k >= l
    BY <1>1, <1>2
  <1>4. Max(entering) \in entering
    <2> HIDE DEF entering
    <2> QED
      BY <1>3 DEF Max
  <1>5. Default(evs, path) = EnteredDefault(evs[Max(entering)], path)
    BY Zenon DEF Default, EnteredDefault
  <1> QED
    BY <1>4, <1>5 DEF OneDefault

\* The comparisons of a definition are independent of each other, although they
\* share one map of paths (success_check.go:66-83): unless a path is entered there
\* with two defaults, the check shows an error if one comparison by itself does,
\* and otherwise succeeds if all of them do.
THEOREM ComparisonsAreIndependent ==
  ASSUME Error \notin BOOLEAN, NEW C, NEW evs \in Seq(C), NEW object,
         WellFormed(evs), OneDefault(evs)
  PROVE  Shows(evs, object) =
           IF \E i \in DOMAIN evs : Meets(evs[i], object) = Error THEN Error
           ELSE \A i \in DOMAIN evs : Meets(evs[i], object) = TRUE
  <1> DEFINE values  == currentValues(evs, object)
             Seen(i) == findResult(object[evs[i].path], evs[i].default)
             Met(i)  == IF evs[i].value.path # NoPath
                        THEN findResult(object[evs[i].value.path], Nil)
                        ELSE Expected(evs[i].value, << >>)
  <1>1. ASSUME NEW i \in DOMAIN evs
        PROVE  /\ evs[i].path \in Paths(evs)
               /\ values[evs[i].path] = Seen(i)
    <2>1. evs[i].path \in PathsOf(evs[i])
      BY DEF PathsOf, WellFormed
    <2>2. evs[i].path \in Paths(evs)
      BY <2>1 DEF Paths
    <2>3. Default(evs, evs[i].path) = evs[i].default
      BY <2>1, DefaultIsEntered DEF OneDefault, EnteredDefault
    <2> QED
      BY <2>2, <2>3 DEF currentValues
  <1>2. ASSUME NEW i \in DOMAIN evs
        PROVE  /\ evs[i].value.path # NoPath => evs[i].value.path \in Paths(evs)
               /\ Expected(evs[i].value, values) = Met(i)
    <2>1. CASE evs[i].value.path # NoPath
      <3>1. evs[i].value.path \in PathsOf(evs[i])
        BY <2>1 DEF PathsOf
      <3>2. evs[i].value.path \in Paths(evs)
        BY <3>1 DEF Paths
      <3>3. Default(evs, evs[i].value.path) = Nil
        BY <3>1, DefaultIsEntered DEF EnteredDefault
      <3> QED
        BY <2>1, <3>2, <3>3 DEF currentValues, Expected
    <2>2. CASE evs[i].value.path = NoPath
      BY <2>2 DEF Expected
    <2> QED
      BY <2>1, <2>2
  <1>3. ASSUME NEW i \in DOMAIN evs
        PROVE  /\ Meets(evs[i], object) = Error <=> Error \in {Seen(i), Met(i)}
               /\ Error \notin {Seen(i), Met(i)} =>
                    (Meets(evs[i], object) = TRUE <=> Seen(i) = Met(i))
    <2>1. Meets(evs[i], object) =
            IF Error \in {Seen(i), Met(i)} THEN Error ELSE Seen(i) = Met(i)
      BY Zenon DEF Meets
    <2> HIDE DEF Seen, Met
    <2> QED
      BY <2>1
  <1>4. (\E path \in Paths(evs) : values[path] = Error) <=>
          \E i \in DOMAIN evs : Meets(evs[i], object) = Error
    <2>1. ASSUME NEW path \in Paths(evs), values[path] = Error
          PROVE  \E i \in DOMAIN evs : Meets(evs[i], object) = Error
      <3>1. PICK i \in DOMAIN evs : path \in PathsOf(evs[i])
        BY DEF Paths
      <3>2. path = evs[i].path \/ (path = evs[i].value.path /\ path # NoPath)
        BY <3>1 DEF PathsOf
      <3>3. Seen(i) = Error \/ Met(i) = Error
        BY <1>1, <1>2, <2>1, <3>2 DEF Expected
      <3> QED
        BY <1>3, <3>3
    <2>2. ASSUME NEW i \in DOMAIN evs, Meets(evs[i], object) = Error
          PROVE  \E path \in Paths(evs) : values[path] = Error
      <3>1. Seen(i) = Error \/ Met(i) = Error
        BY <1>3, <2>2
      <3>2. CASE Seen(i) = Error
        BY <1>1, <3>2
      <3>3. CASE Met(i) = Error
        <4>1. evs[i].value.path # NoPath
          BY <3>3 DEF WellFormed
        <4>2. values[evs[i].value.path] = Error
          BY <1>2, <3>3, <4>1 DEF Expected
        <4> QED
          BY <1>2, <4>1, <4>2
      <3> QED
        BY <3>1, <3>2, <3>3
    <2> QED
      BY <2>1, <2>2
  <1>5. ASSUME ~ \E i \in DOMAIN evs : Meets(evs[i], object) = Error
        PROVE  checkComparisons(evs, values) =
                 \A i \in DOMAIN evs : Meets(evs[i], object) = TRUE
    <2>1. checkComparisons(evs, values) = \A i \in DOMAIN evs : Seen(i) = Met(i)
      BY <1>1, <1>2 DEF checkComparisons
    <2>2. \A i \in DOMAIN evs : Meets(evs[i], object) = TRUE <=> Seen(i) = Met(i)
      BY <1>3, <1>5
    <2> HIDE DEF Seen, Met, values
    <2> QED
      BY <2>1, <2>2
  <1>6. Shows(evs, object) =
          IF \E path \in Paths(evs) : values[path] = Error THEN Error
          ELSE checkComparisons(evs, values)
    BY Zenon DEF Shows
  <1> HIDE DEF values
  <1> QED
    BY <1>4, <1>5, <1>6

=============================================================================
