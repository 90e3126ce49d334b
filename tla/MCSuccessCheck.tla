--------------------------- MODULE MCSuccessCheck ----------------------------
(***************************************************************************)
(* SuccessCheck.tla for TLC, with the comparisons of a deployment as in    *)
(* the examples of the repository.                                         *)
(***************************************************************************)
EXTENDS SuccessCheck, TLC

CONSTANTS Old, New, Ready

MCValues == {Old, New, Ready}

\* A deployment: its controller has to notice its generation, and then to make
\* its replicas available; their number is not shown when it is 0.
CONSTANTS Generation, Observed, Unavailable, Nil, NoPath, Error

Comparison == INSTANCE FieldComparison

Found(v) == << <<v>> >>

Deployment(observed, unavailable) ==
  Generation :> Found(Comparison!Int64(2)) @@ Observed :> Found(Comparison!Int64(observed))
    @@ Unavailable :> unavailable

ObjectOf ==
  Old   :> Deployment(1, << >>) @@
  New   :> Deployment(2, Found(Comparison!Int64(1))) @@
  Ready :> Deployment(2, << >>)

ToPath(path) == [path |-> path, static |-> Nil, staticInt64 |-> 0]
ToStatic(v)  == [path |-> NoPath, static |-> v, staticInt64 |-> 0]

Zero == Comparison!Float64(0)

IsObserved  == [path |-> Generation, default |-> Nil, value |-> ToPath(Observed)]
IsAvailable == [path |-> Unavailable, default |-> Zero, value |-> ToStatic(Zero)]

Expecting(evs) == {v \in MCValues : Comparison!Shows(evs, ObjectOf[v]) = TRUE}

Defaults == {Nil, Zero, Comparison!Int64(0)}

SomeComparisons ==
  {[path |-> p, default |-> d, value |-> w] :
     p \in {Observed, Unavailable}, d \in Defaults,
     w \in {ToPath(Generation), ToPath(Unavailable), ToStatic(Zero), ToStatic(Nil)}}

SomeObjects ==
  {Deployment(1, found) :
     found \in {<< >>, << << >> >>, Found(Comparison!Int64(0)), Found(Comparison!Int64(2)),
               << <<Zero, Zero>> >>}}

\* The comparisons of a definition are independent of each other, although they
\* share the map of paths, unless a path is entered there with two defaults
\* (success_check.go:66-83).
ASSUME ComparisonsAreIndependent ==
  \A e, f \in SomeComparisons, object \in SomeObjects :
    LET all == {Comparison!Meets(e, object), Comparison!Meets(f, object)}
    IN Comparison!OneDefault(<< e, f >>) =>
         Comparison!Shows(<< e, f >>, object) =
           IF Error \in all THEN Error ELSE all = {TRUE}

\* The generation is observed and no replica is unavailable.
Plain(interval, timeout, progress) ==
  [interval |-> interval, timeout |-> timeout, progress |-> progress,
   expected |-> Expecting(<< IsObserved, IsAvailable >>), failure |-> << >>,
   reportTimeout |-> FALSE]

\* The generation is observed; failures and timeouts are reported.
Reported(interval, timeout, progress) ==
  [interval |-> interval, timeout |-> timeout, progress |-> progress,
   expected |-> Expecting(<< IsObserved >>), failure |-> << "reported" >>,
   reportTimeout |-> TRUE]

Failing(interval, timeout, progress, failure) ==
  [Plain(interval, timeout, progress) EXCEPT !.failure = failure]

ASSUME Expecting(<< IsObserved, IsAvailable >>) = {Ready}
ASSUME Expecting(<< IsObserved >>) = {New, Ready}

\* Two definitions; the progress timeout is less than the interval, or there
\* is none; there is no timeout; failures that end the check.
MCDefinitions ==
  { << Plain(2, 5, 3), Reported(1, 3, 2) >>, << Reported(3, 4, 2) >>,
    << Plain(2, 3, 0) >>, << Plain(2, 0, 3) >>, << >>,
    << Failing(2, 4, 3, << "unreported", "reported" >>) >>,
    << Failing(1, 2, 0, << "reported", "unknown" >>) >> }

=============================================================================
