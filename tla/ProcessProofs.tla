---------------------------- MODULE ProcessProofs ----------------------------
(***************************************************************************)
(* Theorems about Process.tla, for every set of configurations, triggers,  *)
(* rows and results.                                                       *)
(***************************************************************************)
EXTENDS Process, FiniteSetTheorems, SequenceTheorems, TLAPS

-----------------------------------------------------------------------------
(***************************************************************************)
(* The constants.                                                          *)
(***************************************************************************)

\* The server and the signal handler are actors of their own.
LEMMA ActorsDiffer ==
  /\ TriggerActors = Readers /\ Calls = Readers
  /\ Server \notin TriggerActors /\ Signal \notin TriggerActors
  /\ Nobody \notin Actors
  /\ Readers \subseteq Nat
<1>1. Cardinality(TriggerActors) \in Nat
  BY FlagsAssumption, FS_CardinalityType
<1> QED
  BY <1>1, FlagsAssumption, SMT DEF TriggerActors, Server, Signal, Nobody, Actors

\* What Configured is made of.
LEMMA IfType ==
  ASSUME NEW c \in BOOLEAN, NEW kind \in Kinds
  PROVE  /\ If(c, kind) \in Seq(Kinds)
         /\ c => Len(If(c, kind)) = 1 /\ If(c, kind)[1] = kind
         /\ ~c => Len(If(c, kind)) = 0
BY SMT DEF If

\* What is appended to a list of triggers by a flag.
LEMMA AppendIf ==
  ASSUME NEW s \in Seq(Kinds), NEW c \in BOOLEAN, NEW kind \in Kinds
  PROVE  /\ s \o If(c, kind) \in Seq(Kinds)
         /\ c => /\ Len(s \o If(c, kind)) = Len(s) + 1
                 /\ (s \o If(c, kind))[Len(s) + 1] = kind
         /\ ~c => s \o If(c, kind) = s
<1>1. If(c, kind) \in Seq(Kinds)
  BY IfType
<1>2. /\ s \o If(c, kind) \in Seq(Kinds)
      /\ Len(s \o If(c, kind)) = Len(s) + Len(If(c, kind))
      /\ \A i \in 1 .. Len(s) + Len(If(c, kind)) :
           (s \o If(c, kind))[i] = IF i <= Len(s) THEN s[i] ELSE If(c, kind)[i - Len(s)]
  BY <1>1, ConcatProperties
<1>3. Len(s) \in Nat
  BY LenProperties
<1>4. CASE c
  <2>1. Len(If(c, kind)) = 1 /\ If(c, kind)[1] = kind
    BY <1>4, IfType
  <2> QED
    <3>1. /\ Len(s \o If(c, kind)) = Len(s) + 1
          /\ Len(s) + 1 \in 1 .. Len(s) + Len(If(c, kind))
      BY <2>1, <1>2, <1>3, SMT
    <3>2. (s \o If(c, kind))[Len(s) + 1] = If(c, kind)[Len(s) + 1 - Len(s)]
      BY <3>1, <1>2, <1>3, SMT
    <3>3. Len(s) + 1 - Len(s) = 1
      BY <1>3, SMT
    <3> QED
      BY <3>1, <3>2, <3>3, <2>1, <1>2, <1>4
<1>5. CASE ~c
  <2>1. If(c, kind) = << >>
    BY <1>5 DEF If
  <2> QED
    BY <2>1, <1>2, <1>5, ConcatEmptySeq
<1> QED
  BY <1>4, <1>5

\* The triggers of a configuration, and the last of them.
LEMMA ConfiguredKinds ==
  ASSUME NEW f \in Flags
  PROVE  /\ Configured(f) \in Seq(Kinds)
         /\ Configured(f) # << >> =>
              LET last == Configured(f)[Len(Configured(f))]
              IN  /\ Len(Configured(f)) \in DOMAIN Configured(f)
                  /\ last \in Kinds
                  /\ last = "one-off" => f.oneOff
                  /\ last = "database" => f.database
<1> DEFINE r  == If(f.resource, "resource")
           ri == r \o If(f.interval, "interval")
           c  == ri \o If(f.database, "database")
<1>0. {f.oneOff, f.resource, f.interval, f.database} \subseteq BOOLEAN
  BY FlagsAssumption
<1>k. {"resource", "interval", "database", "one-off"} \subseteq Kinds
  BY DEF Kinds
<1>l. /\ {"resource", "interval", "database"} \subseteq Kinds \ {"one-off"}
      /\ "resource" # "database" /\ "interval" # "database"
  BY DEF Kinds
<1>r. /\ r \in Seq(Kinds)
      /\ f.resource => Len(r) = 1 /\ r[1] = "resource"
      /\ ~f.resource => Len(r) = 0
  BY <1>0, <1>k, IfType
<1> HIDE DEF r
<1>i. /\ ri \in Seq(Kinds)
      /\ f.interval => Len(ri) = Len(r) + 1 /\ ri[Len(r) + 1] = "interval"
      /\ ~f.interval => ri = r
  BY <1>0, <1>k, <1>r, AppendIf
<1> HIDE DEF ri
<1>d. /\ c \in Seq(Kinds)
      /\ f.database => Len(c) = Len(ri) + 1 /\ c[Len(ri) + 1] = "database"
      /\ ~f.database => c = ri
  BY <1>0, <1>k, <1>i, AppendIf
<1>1. CASE f.oneOff
  <2>1. Configured(f) = << "one-off" >>
    BY <1>1 DEF Configured
  <2> QED
    BY <2>1, <1>1, SMT DEF Kinds
<1>2. CASE ~f.oneOff
  <2>1. Configured(f) = (r \o If(f.interval, "interval")) \o If(f.database, "database")
    BY <1>2 DEF Configured, r
  <2>2. Configured(f) = c
    BY <2>1 DEF ri
  <2> HIDE DEF c
  <2>3. /\ Len(r) \in Nat /\ Len(ri) \in Nat /\ Len(c) \in Nat
        /\ DOMAIN c = 1 .. Len(c)
        /\ c # << >> => Len(c) # 0
    BY <1>r, <1>i, <1>d, LenProperties, EmptySeq
  <2>4. CASE c = << >>
    BY <2>2, <2>4, <1>d
  <2>5. CASE c # << >>
    <3>1. /\ Len(c) \in DOMAIN c
          /\ c[Len(c)] \in Kinds \ {"one-off"}
          /\ c[Len(c)] = "database" => f.database
      <4>1. CASE f.database
        BY <4>1, <1>d, <2>3, <1>l, SMT
      <4>2. CASE ~f.database /\ f.interval
        <5>1. c = ri
          BY <4>2, <1>d
        <5>2. Len(c) = Len(r) + 1 /\ c[Len(r) + 1] = "interval"
          BY <5>1, <4>2, <1>i
        <5> QED
          BY <5>2, <2>3, <1>l, SMT
      <4>3. CASE ~f.database /\ ~f.interval
        <5>1. c = r
          BY <4>3, <1>i, <1>d
        <5>2. f.resource /\ Len(c) = 1 /\ c[1] = "resource"
          BY <5>1, <2>3, <2>5, <1>r, <1>0
        <5> QED
          BY <5>2, <2>3, <1>l, SMT
      <4> QED
        BY <4>1, <4>2, <4>3, <1>0
    <3> QED
      BY <3>1, <2>2, <1>d
  <2> QED
    BY <2>4, <2>5
<1> QED
  BY <1>1, <1>2

-----------------------------------------------------------------------------
(***************************************************************************)
(* The source: what was committed comes last.                              *)
(***************************************************************************)

EndsWith(whole, end) ==
  /\ Len(whole) >= Len(end)
  /\ SubSeq(whole, Len(whole) - Len(end) + 1, Len(whole)) = end

SourceInv ==
  /\ SourceTypeOK
  /\ \A e \in Readers : EndsWith(res[e], isRead[e])

LEMMA ConcatEndsWith ==
  ASSUME NEW s \in Seq(Rows), NEW t \in Seq(Rows)
  PROVE  s \o t \in Seq(Rows) /\ EndsWith(s \o t, t)
<1>1. Len(s) \in Nat /\ Len(t) \in Nat
  BY LenProperties
<1>2. /\ s \o t \in Seq(Rows)
      /\ Len(s \o t) = Len(s) + Len(t)
      /\ \A i \in 1 .. Len(s) + Len(t) :
           (s \o t)[i] = IF i <= Len(s) THEN s[i] ELSE t[i - Len(s)]
  BY ConcatProperties
<1> DEFINE w == s \o t
           m == Len(w) - Len(t) + 1
           n == Len(w)
           u == SubSeq(w, m, n)
<1>3. m = Len(s) + 1 /\ n = Len(s) + Len(t) /\ n - m + 1 = Len(t)
  BY <1>1, <1>2
<1>4. \A i \in m .. n : w[i] \in Rows
  <2> TAKE i \in m .. n
  <2>1. i \in 1 .. Len(w)
    BY <1>1, <1>2, <1>3
  <2> HIDE DEF w
  <2> QED
    BY <2>1, <1>2, ElementOfSeq DEF w
<1>w. \A i \in 1 .. Len(s) + Len(t) :
        w[i] = IF i <= Len(s) THEN s[i] ELSE t[i - Len(s)]
  BY <1>2
<1> HIDE DEF w, m, n
<1>5. /\ m \in Int /\ n \in Int
      /\ Len(t) = (IF m <= n THEN n - m + 1 ELSE 0)
  BY <1>1, <1>3, SMT
<1>6. /\ u \in Seq(Rows)
      /\ Len(u) = Len(t)
      /\ \A i \in 1 .. Len(t) : u[i] = w[m + i - 1]
  BY <1>4, <1>5, <1>3, SubSeqProperties
<1> HIDE DEF u
<1>7. ASSUME NEW i \in 1 .. Len(t)
      PROVE  u[i] = t[i]
  <2>1. /\ m + i - 1 \in 1 .. Len(s) + Len(t)
        /\ ~(m + i - 1 <= Len(s))
        /\ m + i - 1 - Len(s) = i
    BY <1>1, <1>3, SMT
  <2>2. PICK j : j = m + i - 1
    OBVIOUS
  <2>3. w[j] = t[j - Len(s)]
    BY <2>1, <2>2, <1>w
  <2>4. u[i] = w[j] /\ j - Len(s) = i
    BY <2>1, <2>2, <1>5, <1>6, SMT
  <2> QED
    BY <2>3, <2>4
<1>8. u = t
  BY <1>6, <1>7, SeqEqual
<1>9. Len(w) >= Len(t)
  BY <1>1, <1>2, SMT DEF w
<1> QED
  BY <1>2, <1>8, <1>9 DEF EndsWith, u, m, n, w

LEMMA EmptyEndsWith == << >> \in Seq(Rows) /\ EndsWith(<< >>, << >>)
BY EmptySeq, SubSeqEmpty DEF EndsWith

\* Every operation on the source keeps the invariant.
LEMMA CollectKeeps ==
  ASSUME SourceInv, NEW e \in Readers, NEW rows \in Seq(Rows), Collect(e, rows)
  PROVE  SourceInv'
<1>1. res[e] \o rows \in Seq(Rows) /\ EndsWith(res[e] \o rows, rows)
  BY ConcatEndsWith DEF SourceInv, SourceTypeOK
<1>2. /\ res' = [res EXCEPT ![e] = res[e] \o rows]
      /\ isRead' = [isRead EXCEPT ![e] = rows]
      /\ table' = table
  BY DEF Collect
<1>3. SourceTypeOK'
  BY <1>1, <1>2 DEF SourceInv, SourceTypeOK
<1>4. \A d \in Readers : EndsWith(res'[d], isRead'[d])
  BY <1>1, <1>2 DEF SourceInv, SourceTypeOK
<1> QED
  BY <1>3, <1>4 DEF SourceInv, EndsWith

LEMMA PrefixesAreRows ==
  ASSUME NEW t \in Tables, NEW rows \in Prefixes(t)
  PROVE  rows \in Seq(Rows)
<1>1. t \in Seq(Rows)
  BY SourceAssumption
<1>2. PICK n \in 0 .. Len(t) : rows = SubSeq(t, 1, n)
  BY DEF Prefixes
<1>3. Len(t) \in Nat /\ \A i \in 1 .. n : t[i] \in Rows
  BY <1>1, <1>2, ElementOfSeq, LenProperties
<1> QED
  BY <1>2, <1>3, SubSeqProperties

LEMMA CommitKeeps ==
  ASSUME SourceInv, NEW e \in Readers, AttemptCommits(e)
  PROVE  SourceInv'
<1>1. PICK rows \in Tables : rows = table
  BY DEF SourceInv, SourceTypeOK
<1>2. rows \in Seq(Rows)
  BY <1>1, SourceAssumption
<1>3. Collect(e, rows)
  BY <1>1 DEF AttemptCommits, Collect
<1> QED
  BY <1>2, <1>3, CollectKeeps

LEMMA AttemptKeeps ==
  ASSUME SourceInv, NEW e \in Readers, AttemptIsRetried(e)
  PROVE  SourceInv'
<1>1. PICK t \in Tables : t = table
  BY DEF SourceInv, SourceTypeOK
<1>2. PICK rows \in Prefixes(t) : Collect(e, rows)
  BY <1>1 DEF AttemptIsRetried
<1> QED
  BY <1>2, PrefixesAreRows, CollectKeeps

LEMMA CloseKeeps ==
  ASSUME SourceInv, NEW e \in Readers, CloseSource(e)
  PROVE  SourceInv'
<1>1. /\ res' = [res EXCEPT ![e] = << >>]
      /\ isRead' = [isRead EXCEPT ![e] = << >>]
      /\ table' = table
  BY DEF CloseSource
<1>2. SourceTypeOK'
  BY <1>1, EmptyEndsWith DEF SourceInv, SourceTypeOK
<1>3. \A d \in Readers : EndsWith(res'[d], isRead'[d])
  BY <1>1, EmptyEndsWith DEF SourceInv, SourceTypeOK
<1> QED
  BY <1>2, <1>3 DEF SourceInv, EndsWith

LEMMA TableKeeps ==
  ASSUME SourceInv, NEW rows \in Tables, TableChanges(rows)
  PROVE  SourceInv'
BY DEF SourceInv, SourceTypeOK, TableChanges, EndsWith

LEMMA SourceUnchanged ==
  ASSUME SourceInv, UNCHANGED sourceVars
  PROVE  SourceInv'
BY DEF SourceInv, SourceTypeOK, sourceVars, EndsWith

-----------------------------------------------------------------------------
(***************************************************************************)
(* The database triggers: no key of an inner map is the name of a trigger, *)
(* so that Check never deletes the map of a trigger.                       *)
(***************************************************************************)

MapsTypeOK ==
  /\ DOMAIN activeTriggers \subseteq Names
  /\ \A t \in DOMAIN activeTriggers :
       /\ DOMAIN activeTriggers[t] \subseteq Keys
       /\ \A k \in DOMAIN activeTriggers[t] : activeTriggers[t][k] \in Runs
  /\ run \in [Runs -> Run \cup {Finished}]

PollTypeOK ==
  /\ poll \in [Pollers -> {"off", "wait", "check"} \cup InTransaction]
  /\ left \in [Pollers -> Payload]
  /\ array \in [Pollers -> Payload]

MapsApart ==
  \A t \in DOMAIN activeTriggers :
    DOMAIN activeTriggers[t] \cap DOMAIN activeTriggers = {}

PollersHaveMaps ==
  \A p \in Pollers : poll[p] # "off" => Name(p) \in DOMAIN activeTriggers

MapsInv == TriggerTypeOK /\ MapsApart /\ PollersHaveMaps

LEMMA TypeParts ==
  TriggerTypeOK <=> /\ result \in [Names -> Results]
                    /\ MapsTypeOK
                    /\ PollTypeOK
                    /\ served \in [Names -> [Keys -> Payload]]
BY DEF TriggerTypeOK, MapsTypeOK, PollTypeOK

\* What the maps look like after an entry was added.
LEMMA ScheduleKeeps ==
  ASSUME MapsTypeOK, MapsApart,
         NEW t \in Names, NEW k \in Keys, NEW payload \in Payload,
         ScheduleTriggerRun(t, k, payload)
  PROVE  /\ MapsTypeOK' /\ MapsApart'
         /\ DOMAIN activeTriggers' = DOMAIN activeTriggers
<1>1. CASE Scheduled(t, k)
  <2>1. UNCHANGED <<activeTriggers, run>>
    BY <1>1 DEF ScheduleTriggerRun
  <2> QED
    BY <2>1 DEF MapsTypeOK, MapsApart
<1>2. CASE ~Scheduled(t, k)
  <2>1. /\ t \in DOMAIN activeTriggers
        /\ k \notin DOMAIN activeTriggers
    BY <1>2 DEF ScheduleTriggerRun, Scheduled
  <2>2. PICK r \in Runs :
          /\ activeTriggers' = [activeTriggers EXCEPT ![t] = WithEntry(activeTriggers[t], k, r)]
          /\ run' = [run EXCEPT ![r] = [trigger |-> t, key |-> k, payload |-> payload]]
    <3>1. (CHOOSE r \in Free : TRUE) \in Runs
      BY <1>2 DEF ScheduleTriggerRun, Free
    <3> QED
      BY <1>2, <3>1 DEF ScheduleTriggerRun
  <2>3. /\ DOMAIN activeTriggers' = DOMAIN activeTriggers
        /\ activeTriggers'[t] = WithEntry(activeTriggers[t], k, r)
        /\ \A u \in DOMAIN activeTriggers : u # t => activeTriggers'[u] = activeTriggers[u]
    BY <2>1, <2>2
  <2>4. /\ DOMAIN WithEntry(activeTriggers[t], k, r) = {k} \cup DOMAIN activeTriggers[t]
        /\ \A j \in {k} \cup DOMAIN activeTriggers[t] :
             WithEntry(activeTriggers[t], k, r)[j] = IF j = k THEN r ELSE activeTriggers[t][j]
    BY DEF WithEntry
  <2>5. run' \in [Runs -> Run \cup {Finished}]
    BY <2>2 DEF MapsTypeOK, Run
  <2>6. \A u \in DOMAIN activeTriggers' :
          /\ DOMAIN activeTriggers'[u] \subseteq Keys
          /\ \A j \in DOMAIN activeTriggers'[u] : activeTriggers'[u][j] \in Runs
          /\ DOMAIN activeTriggers'[u] \cap DOMAIN activeTriggers' = {}
    <3> TAKE u \in DOMAIN activeTriggers'
    <3>1. CASE u = t
      BY <3>1, <2>1, <2>3, <2>4 DEF MapsTypeOK, MapsApart
    <3>2. CASE u # t
      BY <3>2, <2>3 DEF MapsTypeOK, MapsApart
    <3> QED
      BY <3>1, <3>2
  <2> QED
    BY <2>3, <2>5, <2>6 DEF MapsTypeOK, MapsApart
<1> QED
  BY <1>1, <1>2

\* Forgetting finished runs leaves the maps of triggers alone.
LEMMA ForgetKeeps ==
  ASSUME MapsTypeOK, MapsApart, NEW t \in Names,
         activeTriggers' = Without(activeTriggers, DoneKeys(t))
  PROVE  activeTriggers' = [u \in DOMAIN activeTriggers |-> activeTriggers[u]]
<1>1. DoneKeys(t) \cap DOMAIN activeTriggers = {}
  <2>1. CASE t \in DOMAIN activeTriggers
    BY <2>1 DEF DoneKeys, Entries, MapsApart
  <2>2. CASE t \notin DOMAIN activeTriggers
    BY <2>2 DEF DoneKeys, Entries, Nil
  <2> QED
    BY <2>1, <2>2
<1> QED
  BY <1>1 DEF Without

LEMMA ForgetTypes ==
  ASSUME MapsTypeOK, MapsApart, NEW t \in Names, run' = run,
         activeTriggers' = Without(activeTriggers, DoneKeys(t))
  PROVE  /\ MapsTypeOK' /\ MapsApart'
         /\ DOMAIN activeTriggers' = DOMAIN activeTriggers
<1>1. /\ DOMAIN activeTriggers' = DOMAIN activeTriggers
      /\ \A u \in DOMAIN activeTriggers : activeTriggers'[u] = activeTriggers[u]
  BY ForgetKeeps
<1> QED
  BY <1>1 DEF MapsTypeOK, MapsApart

\* The places of a goroutine and what it has read.
LEMMA GoesKeeps ==
  ASSUME PollTypeOK, NEW p \in Pollers,
         NEW place \in {"off", "wait", "check"} \cup InTransaction, Goes(p, place),
         UNCHANGED <<left, array>>
  PROVE  /\ PollTypeOK'
         /\ poll'[p] = place
         /\ \A q \in Pollers : q # p => poll'[q] = poll[q]
BY DEF Goes, PollTypeOK

LEMMA LeavesKeeps ==
  ASSUME PollTypeOK, NEW p \in Pollers,
         NEW place \in {"off", "wait", "check"} \cup InTransaction, Leaves(p, place)
  PROVE  /\ PollTypeOK'
         /\ poll'[p] = place
         /\ \A q \in Pollers : q # p => poll'[q] = poll[q]
<1>1. << >> \in Payload
  BY EmptySeq DEF Payload
<1> QED
  BY <1>1 DEF Leaves, Goes, PollTypeOK

LEMMA QueryKeeps ==
  ASSUME PollTypeOK, result \in [Names -> Results], NEW p \in Pollers, Query(p)
  PROVE  /\ PollTypeOK'
         /\ poll'[p] = "rows"
         /\ \A q \in Pollers : q # p => poll'[q] = poll[q]
<1>1. << >> \in Payload /\ result[Name(p)] \in Payload
  BY TriggerAssumption, EmptySeq DEF Payload, Pollers, Name
<1> QED
  BY <1>1 DEF Query, Goes, PollTypeOK, InTransaction

\* A goroutine that goes on has not returned, and neither has another.
SamePollers == \A p \in Pollers : poll'[p] = "off" <=> poll[p] = "off"

\* A step of a goroutine at p, seen in its parts.
LEMMA StepKeeps ==
  ASSUME MapsInv, NEW p \in Pollers, poll[p] # "off",
         UNCHANGED <<result, served>>,
         PollTypeOK', poll'[p] # "off", \A q \in Pollers : q # p => poll'[q] = poll[q],
         MapsTypeOK', MapsApart', DOMAIN activeTriggers' = DOMAIN activeTriggers
  PROVE  MapsInv' /\ SamePollers
<1>1. TriggerTypeOK'
  BY DEF MapsInv, TriggerTypeOK, PollTypeOK, MapsTypeOK
<1>2. SamePollers
  BY DEF SamePollers
<1>3. PollersHaveMaps'
  BY <1>2 DEF SamePollers, MapsInv, PollersHaveMaps
<1> QED
  BY <1>1, <1>2, <1>3 DEF MapsInv

LEMMA MapsUnchanged ==
  ASSUME MapsTypeOK, MapsApart, UNCHANGED <<activeTriggers, run>>
  PROVE  MapsTypeOK' /\ MapsApart' /\ DOMAIN activeTriggers' = DOMAIN activeTriggers
BY DEF MapsTypeOK, MapsApart

LEMMA TickKeeps ==
  ASSUME MapsInv, NEW p \in Pollers, Tick(p)
  PROVE  MapsInv' /\ SamePollers
<1>1. PollTypeOK' /\ poll'[p] = "check" /\ \A q \in Pollers : q # p => poll'[q] = poll[q]
  BY GoesKeeps, TypeParts DEF MapsInv, Tick
<1>2. MapsTypeOK' /\ MapsApart' /\ DOMAIN activeTriggers' = DOMAIN activeTriggers
  BY MapsUnchanged, TypeParts DEF MapsInv, Tick
<1> QED
  BY <1>1, <1>2, StepKeeps DEF Tick

LEMMA CheckKeeps ==
  ASSUME MapsInv, NEW p \in Pollers, NEW c \in BOOLEAN, Check(p, c)
  PROVE  MapsInv' /\ SamePollers
<1>1. PollTypeOK' /\ poll'[p] # "off" /\ \A q \in Pollers : q # p => poll'[q] = poll[q]
  <2>1. CASE c
    BY <2>1, QueryKeeps, TypeParts DEF MapsInv, Check
  <2>2. CASE ~c
    BY <2>2, LeavesKeeps, TypeParts DEF MapsInv, Check
  <2> QED
    BY <2>1, <2>2
<1>2. MapsTypeOK' /\ MapsApart' /\ DOMAIN activeTriggers' = DOMAIN activeTriggers
  BY ForgetTypes, TypeParts DEF MapsInv, Check, Pollers, Name
<1> QED
  BY <1>1, <1>2, StepKeeps DEF Check

\* The rows that a goroutine has still to look at, and those that it has grouped.
LEMMA HeadOfLeft ==
  ASSUME PollTypeOK, NEW p \in Pollers, left[p] # << >>
  PROVE  /\ Head(left[p]) \in Row /\ Tail(left[p]) \in Payload
         /\ Head(left[p]).key \in Keys
         /\ << Head(left[p]) >> \in Payload
         /\ Append(array[p], Head(left[p])) \in Payload
<1>1. left[p] \in Seq(Row) /\ array[p] \in Seq(Row)
  BY DEF PollTypeOK, Payload
<1>2. Head(left[p]) \in Row /\ Tail(left[p]) \in Payload
  BY <1>1, HeadTailProperties DEF Payload
<1>3. Append(array[p], Head(left[p])) \in Payload
  BY <1>1, <1>2, AppendProperties DEF Payload
<1>4. << Head(left[p]) >> \in Payload
  BY <1>2, SMT DEF Payload
<1> QED
  BY <1>2, <1>3, <1>4, TriggerAssumption

LEMMA NextRowKeeps ==
  ASSUME MapsInv, NEW p \in Pollers, NextRow(p)
  PROVE  MapsInv' /\ SamePollers
<1>0. /\ PollTypeOK /\ MapsTypeOK /\ MapsApart
      /\ left[p] # << >> /\ poll[p] = "rows" /\ UNCHANGED <<result, poll, served>>
  BY TypeParts DEF MapsInv, NextRow
<1>1. left' \in [Pollers -> Payload]
  BY <1>0, HeadOfLeft DEF NextRow, PollTypeOK
<1>2. CASE Name(p) \in Grouped
  <2>1. /\ array' = [array EXCEPT ![p] = Append(array[p], Head(left[p]))]
        /\ UNCHANGED <<activeTriggers, run>>
    BY <1>2 DEF NextRow
  <2>2. PollTypeOK'
    BY <2>1, <1>0, <1>1, HeadOfLeft DEF PollTypeOK
  <2> QED
    BY <2>1, <2>2, <1>0, MapsUnchanged, StepKeeps
<1>3. CASE Name(p) \notin Grouped
  <2>1. PICK t \in Names, k \in Keys, payload \in Payload :
          t = Name(p) /\ k = Head(left[p]).key /\ payload = << Head(left[p]) >>
    BY <1>0, HeadOfLeft DEF Pollers, Name
  <2>2. ScheduleTriggerRun(t, k, payload) /\ array' = array
    BY <1>3, <2>1 DEF NextRow, ScheduleTriggerRun
  <2>3. PollTypeOK'
    BY <2>2, <1>0, <1>1 DEF PollTypeOK
  <2> QED
    BY <2>2, <2>3, <1>0, ScheduleKeeps, StepKeeps
<1> QED
  BY <1>2, <1>3

LEMMA EndOfRowsKeeps ==
  ASSUME MapsInv, NEW p \in Pollers, EndOfRows(p)
  PROVE  MapsTypeOK' /\ MapsApart' /\ DOMAIN activeTriggers' = DOMAIN activeTriggers
<1>0. PollTypeOK /\ MapsTypeOK /\ MapsApart
  BY TypeParts DEF MapsInv
<1>1. CASE Name(p) \in Grouped
  <2>1. PICK t \in Names, payload \in Payload : t = Name(p) /\ payload = array[p]
    BY <1>0 DEF Pollers, Name, PollTypeOK
  <2>2. ScheduleTriggerRun(t, EmptyKey, payload)
    BY <1>1, <2>1 DEF EndOfRows, ScheduleTriggerRun
  <2> QED
    BY <2>2, <1>0, ScheduleKeeps, TriggerAssumption
<1>2. CASE Name(p) \notin Grouped
  BY <1>2, <1>0, MapsUnchanged DEF EndOfRows
<1> QED
  BY <1>1, <1>2

LEMMA LastRowKeeps ==
  ASSUME MapsInv, NEW p \in Pollers, LastRow(p)
  PROVE  MapsInv' /\ SamePollers
<1>1. PollTypeOK' /\ poll'[p] = "commit" /\ \A q \in Pollers : q # p => poll'[q] = poll[q]
  BY LeavesKeeps, TypeParts DEF MapsInv, LastRow, InTransaction
<1>2. MapsTypeOK' /\ MapsApart' /\ DOMAIN activeTriggers' = DOMAIN activeTriggers
  BY EndOfRowsKeeps DEF LastRow
<1> QED
  BY <1>1, <1>2, StepKeeps DEF LastRow, EndOfRows

LEMMA RowsBreakKeeps ==
  ASSUME MapsInv, NEW p \in Pollers, RowsBreak(p)
  PROVE  MapsInv' /\ SamePollers
<1>1. PollTypeOK' /\ poll'[p] # "off" /\ \A q \in Pollers : q # p => poll'[q] = poll[q]
  <2>1. CASE Query(p)
    BY <2>1, QueryKeeps, TypeParts DEF MapsInv
  <2>2. CASE Leaves(p, "wait")
    BY <2>2, LeavesKeeps, TypeParts DEF MapsInv
  <2> QED
    BY <2>1, <2>2 DEF RowsBreak
<1>2. MapsTypeOK' /\ MapsApart' /\ DOMAIN activeTriggers' = DOMAIN activeTriggers
  BY EndOfRowsKeeps DEF RowsBreak
<1> QED
  BY <1>1, <1>2, StepKeeps DEF RowsBreak, EndOfRows

LEMMA CommitTriggerKeeps ==
  ASSUME MapsInv, NEW p \in Pollers, Commit(p) \/ Fails(p)
  PROVE  MapsInv' /\ SamePollers
<1>0. /\ Leaves(p, "wait") /\ poll[p] # "off"
      /\ UNCHANGED <<result, activeTriggers, run, served>>
  BY DEF Commit, Fails, InTransaction
<1>1. PollTypeOK' /\ poll'[p] = "wait" /\ \A q \in Pollers : q # p => poll'[q] = poll[q]
  BY <1>0, LeavesKeeps, TypeParts DEF MapsInv
<1>2. MapsTypeOK' /\ MapsApart' /\ DOMAIN activeTriggers' = DOMAIN activeTriggers
  BY <1>0, MapsUnchanged, TypeParts DEF MapsInv
<1> QED
  BY <1>0, <1>1, <1>2, StepKeeps

LEMMA RetryKeeps ==
  ASSUME MapsInv, NEW p \in Pollers, Retry(p)
  PROVE  MapsInv' /\ SamePollers
<1>1. PollTypeOK' /\ poll'[p] = "rows" /\ \A q \in Pollers : q # p => poll'[q] = poll[q]
  BY QueryKeeps, TypeParts DEF MapsInv, Retry
<1>2. MapsTypeOK' /\ MapsApart' /\ DOMAIN activeTriggers' = DOMAIN activeTriggers
  BY MapsUnchanged, TypeParts DEF MapsInv, Retry
<1> QED
  BY <1>1, <1>2, StepKeeps DEF Retry

LEMMA PollerReturnsKeeps ==
  ASSUME MapsInv, NEW p \in Pollers, PollerReturns(p)
  PROVE  MapsInv' /\ \A q \in Pollers : poll'[q] # "off" => poll[q] # "off"
<1>1. PollTypeOK' /\ poll'[p] = "off" /\ \A q \in Pollers : q # p => poll'[q] = poll[q]
  BY GoesKeeps, TypeParts DEF MapsInv, PollerReturns
<1>2. TriggerTypeOK'
  BY <1>1 DEF PollerReturns, MapsInv, TriggerTypeOK, PollTypeOK
<1>3. MapsApart' /\ PollersHaveMaps'
  BY <1>1 DEF PollerReturns, MapsInv, MapsApart, PollersHaveMaps
<1> QED
  BY <1>1, <1>2, <1>3 DEF MapsInv

LEMMA StartTriggersKeeps ==
  ASSUME MapsInv, NEW names \in SUBSET Names, NEW calls \in SUBSET Calls,
         StartTriggers(names, calls)
  PROVE  /\ MapsInv'
         /\ \A p \in Pollers : poll'[p] # "off" <=> p[1] \in calls /\ p[2] \in names
<1>1. << >> \in Payload
  BY EmptySeq DEF Payload
<1>2. \A p \in Pollers : poll'[p] # "off" <=> p[1] \in calls /\ p[2] \in names
  BY DEF StartTriggers, Pollers
<1>3. PollTypeOK'
  BY <1>1 DEF StartTriggers, PollTypeOK
<1>4. /\ DOMAIN activeTriggers' = names
      /\ \A t \in names : DOMAIN activeTriggers'[t] = {}
  BY DEF StartTriggers, Nil
<1>5. TriggerTypeOK'
  BY <1>3, <1>4 DEF MapsInv, TriggerTypeOK, PollTypeOK, StartTriggers
<1> QED
  BY <1>2, <1>4, <1>5 DEF MapsInv, MapsApart, PollersHaveMaps, Name

LEMMA ResultChangesKeeps ==
  ASSUME MapsInv, NEW t \in Names, NEW rows \in Results, ResultChanges(t, rows)
  PROVE  MapsInv' /\ poll' = poll
BY DEF ResultChanges, pollVars, MapsInv, TriggerTypeOK, MapsApart, PollersHaveMaps

LEMMA TriggersUnchanged ==
  ASSUME MapsInv, UNCHANGED triggerVars
  PROVE  MapsInv' /\ poll' = poll
BY DEF triggerVars, pollVars, MapsInv, TriggerTypeOK, MapsApart, PollersHaveMaps

LEMMA RunSucceedsKeeps ==
  ASSUME MapsInv, NEW r \in Runs, NEW config \in Payload, RunSucceeds(r, config)
  PROVE  MapsInv' /\ poll' = poll
<1>1. run[r] \in Run
  BY DEF RunSucceeds, Done, MapsInv, TriggerTypeOK
<1>2. run' \in [Runs -> Run \cup {Finished}]
  BY DEF RunSucceeds, EndRun, MapsInv, TriggerTypeOK
<1>3. PICK t \in Names, k \in Keys : t = run[r].trigger /\ k = run[r].key
  BY <1>1 DEF Run
<1>4. served' = [served EXCEPT ![t] = [served[t] EXCEPT ![k] = config]]
  BY <1>3 DEF RunSucceeds
<1>5. served' \in [Names -> [Keys -> Payload]]
  BY <1>3, <1>4 DEF MapsInv, TriggerTypeOK
<1> QED
  BY <1>2, <1>5
  DEF RunSucceeds, pollVars, MapsInv, TriggerTypeOK, MapsApart, PollersHaveMaps

LEMMA RunFailsKeeps ==
  ASSUME MapsInv, NEW r \in Runs, RunFails(r)
  PROVE  MapsInv' /\ poll' = poll
BY DEF RunFails, EndRun, pollVars, MapsInv, TriggerTypeOK, MapsApart, PollersHaveMaps

\* No goroutine writes into a map that is nil.
LEMMA NobodyPanics ==
  ASSUME MapsInv, NEW p \in Pollers
  PROVE  ~Panics(p)
BY DEF Panics, WritesNilMap, NextKeys, MapsInv, PollersHaveMaps

-----------------------------------------------------------------------------
(***************************************************************************)
(* The inductive invariant.                                                *)
(***************************************************************************)

Executions == [TriggerActors -> {"none", "render", "roll out"}]

MainTypeOK ==
  /\ flags \in Flags
  /\ phase \in {"stopped", "running", "stopping"}
  /\ exit \in {"none", "0", "1", "killed", "panic", "nil map", "map race"}
  /\ triggers \in Seq(Kinds)
  /\ running \subseteq Actors
  /\ first \in [actor : Actors \cup {Nobody}, result : {"nil", "error"}]
  /\ execution \in Executions
  /\ rolledOut \in BOOLEAN
  /\ calm \in BOOLEAN

\* Nobody has collected rows who does not execute.
NobodyCollects ==
  \A e \in Readers : execution[e] = "none" => res[e] = << >> /\ isRead[e] = << >>

\* Nothing of a process is left once it has ended.
StoppedInv ==
  phase = "stopped" =>
    /\ running = {}
    /\ \A a \in TriggerActors : execution[a] = "none"
    /\ \A p \in Pollers : poll[p] = "off"

UpInv == Up => triggers = Configured(flags) /\ triggers # << >> /\ exit = "none"

\* Who executes is awaited, but for the worker of a resource trigger.
ExecutionInv ==
  \A a \in TriggerActors :
    execution[a] # "none" => /\ a \in DOMAIN triggers
                             /\ Runner(a) # "database"
                             /\ a \in running \/ Runner(a) = "resource"

\* The goroutines of database triggers are awaited, and until the process stops
\* there is one for each trigger.
PollersInv ==
  /\ \A p \in Pollers : poll[p] # "off" => p[1] \in running /\ Runner(p[1]) = "database"
  /\ phase = "running" =>
       \A a \in running \cap TriggerActors, t \in flags.names :
         Runner(a) = "database" => poll[<<a, t>>] # "off"

Unawaited == flags.database /\ flags.names = {}

\* Who may return first, and who of them returns nil.
MayBeFirst(a, r, out) ==
  /\ a \in {Server, Signal} \/ flags.oneOff \/ Unawaited
  /\ r = "nil" => (flags.oneOff /\ out) \/ Unawaited

FirstInv == Cancelled => MayBeFirst(first.actor, first.result, rolledOut)

ActorsInv ==
  /\ StoppedInv /\ UpInv /\ ExecutionInv /\ PollersInv /\ FirstInv
  /\ ExitIsTruthful /\ NeverNilMap

IInv == MainTypeOK /\ NobodyCollects /\ MapsInv /\ SourceInv /\ ActorsInv

LEMMA TypeOKParts ==
  TypeOK <=> SourceTypeOK /\ TriggerTypeOK /\ MainTypeOK /\ NobodyCollects
BY DEF TypeOK, MainTypeOK, NobodyCollects, Executions

\* What the trigger that all actors run says about the flags.
LEMMA RunnerFacts ==
  ASSUME IInv, Up, NEW a \in TriggerActors
  PROVE  /\ Runner(a) \in Kinds
         /\ Runner(a) = "one-off" => flags.oneOff
         /\ Runner(a) = "database" => flags.database
         /\ flags.names \in SUBSET Names
<1>1. PICK f \in Flags : f = flags
  BY DEF IInv, MainTypeOK
<1>2. triggers = Configured(f) /\ triggers # << >>
  BY <1>1 DEF IInv, ActorsInv, UpInv
<1>3. f.names \in SUBSET Names
  BY FlagsAssumption
<1> QED
  BY <1>1, <1>2, <1>3, ConfiguredKinds DEF Runner, RunBy

-----------------------------------------------------------------------------
(***************************************************************************)
(* Steps of Main and of the triggers' actors, by what they have in common. *)
(***************************************************************************)

\* No actor returns, and nothing ends.
LEMMA GroupGoesOn ==
  ASSUME IInv, UNCHANGED <<flags, phase, exit, triggers, running, first>>,
         rolledOut' \in BOOLEAN, rolledOut => rolledOut', calm' \in BOOLEAN,
         execution' \in Executions,
         \A a \in TriggerActors :
           execution'[a] # "none" =>
             \/ execution[a] # "none"
             \/ /\ Up /\ a \in DOMAIN triggers /\ Runner(a) # "database"
                /\ a \in running \/ Runner(a) = "resource",
         \A p \in Pollers : poll'[p] # "off" => poll[p] # "off",
         phase = "running" => SamePollers
  PROVE  MainTypeOK' /\ ActorsInv'
<1>0. MainTypeOK /\ ActorsInv
  BY DEF IInv
<1>1. MainTypeOK'
  BY <1>0 DEF MainTypeOK
<1>2. StoppedInv' /\ UpInv'
  BY <1>0 DEF ActorsInv, StoppedInv, UpInv, Up
<1>3. ExecutionInv'
  BY <1>0 DEF ActorsInv, ExecutionInv, Runner, RunBy
<1>4. PollersInv'
  <2>1. \A p \in Pollers : poll'[p] # "off" => p[1] \in running /\ Runner(p[1]) = "database"
    BY <1>0 DEF ActorsInv, PollersInv
  <2>2. ASSUME phase = "running", NEW a \in running \cap TriggerActors, NEW t \in flags.names,
               Runner(a) = "database"
        PROVE  poll'[<<a, t>>] # "off"
    <3>1. <<a, t>> \in Pollers
      <4>1. flags.names \subseteq Names
        BY <1>0, FlagsAssumption DEF MainTypeOK
      <4> QED
        BY <4>1, FlagsAssumption DEF Pollers
    <3>2. poll[<<a, t>>] # "off"
      BY <1>0, <2>2 DEF ActorsInv, PollersInv
    <3> QED
      BY <2>2, <3>1, <3>2 DEF SamePollers
  <2> QED
    BY <2>1, <2>2 DEF PollersInv, Runner, RunBy
<1>5. FirstInv' /\ ExitIsTruthful' /\ NeverNilMap'
  BY <1>0 DEF ActorsInv, FirstInv, MayBeFirst, Unawaited, Cancelled, ExitIsTruthful, NeverNilMap
<1> QED
  BY <1>1, <1>2, <1>3, <1>4, <1>5 DEF ActorsInv

\* An actor returns.
LEMMA ReturnKeeps ==
  ASSUME IInv, NEW a \in Actors, NEW r \in {"nil", "error"}, Return(a, r),
         rolledOut' \in BOOLEAN, rolledOut => rolledOut', calm' = calm,
         phase = "running" => MayBeFirst(a, r, rolledOut'),
         execution' \in Executions,
         \A b \in TriggerActors :
           execution'[b] # "none" => execution[b] # "none" /\ (b # a \/ Runner(b) = "resource"),
         poll' = poll,
         \A p \in Pollers : poll[p] # "off" => p[1] # a
  PROVE  MainTypeOK' /\ ActorsInv'
<1>0. /\ MainTypeOK /\ ActorsInv
      /\ a \in running /\ running' = running \ {a} /\ phase' = "stopping"
      /\ UNCHANGED <<flags, exit, triggers>>
      /\ first' = FirstOf(a, r)
  BY DEF IInv, Return
<1>1. Up
  BY <1>0 DEF ActorsInv, StoppedInv, Up
<1>2. first' = IF Cancelled THEN first ELSE [actor |-> a, result |-> r]
  BY <1>0 DEF FirstOf
<1>3. MainTypeOK'
  <2>1. [actor |-> a, result |-> r] \in [actor : Actors \cup {Nobody}, result : {"nil", "error"}]
    OBVIOUS
  <2>2. first' \in [actor : Actors \cup {Nobody}, result : {"nil", "error"}]
    BY <2>1, <1>0, <1>2, Zenon DEF MainTypeOK
  <2> QED
    BY <2>2, <1>0 DEF MainTypeOK
<1>4. StoppedInv' /\ UpInv'
  BY <1>0, <1>1 DEF ActorsInv, StoppedInv, UpInv, Up
<1>5. ExecutionInv'
  BY <1>0 DEF ActorsInv, ExecutionInv, Runner, RunBy
<1>6. PollersInv'
  BY <1>0 DEF ActorsInv, PollersInv, Runner, RunBy
<1>7. FirstInv'
  <2>1. MayBeFirst(first'.actor, first'.result, rolledOut')
    <3>1. CASE Cancelled
      <4>1. first' = first /\ MayBeFirst(first.actor, first.result, rolledOut)
        BY <3>1, <1>0, <1>2 DEF ActorsInv, FirstInv
      <4> QED
        BY <4>1 DEF MayBeFirst
    <3>2. CASE ~Cancelled
      <4>1. phase = "running" /\ first' = [actor |-> a, result |-> r]
        BY <3>2, <1>0, <1>1, <1>2 DEF Cancelled, Up, MainTypeOK
      <4> QED
        BY <4>1
    <3> QED
      BY <3>1, <3>2
  <2> QED
    BY <2>1, <1>0 DEF FirstInv, MayBeFirst, Unawaited
<1>8. ExitIsTruthful' /\ NeverNilMap'
  BY <1>0 DEF ActorsInv, ExitIsTruthful, NeverNilMap
<1> QED
  BY <1>3, <1>4, <1>5, <1>6, <1>7, <1>8 DEF ActorsInv

\* The process ends.
LEMMA ExitsKeeps ==
  ASSUME IInv, NEW how \in {"0", "1", "killed", "panic", "map race"}, Exits(how),
         how = "0" => (flags.oneOff /\ rolledOut) \/ Unawaited
  PROVE  IInv'
<1>0. /\ MainTypeOK /\ ActorsInv /\ SourceInv /\ MapsInv
      /\ phase' = "stopped" /\ exit' = how /\ running' = {}
      /\ execution' = [a \in TriggerActors |-> "none"]
      /\ res' = [e \in Readers |-> << >>]
      /\ isRead' = [e \in Readers |-> << >>]
      /\ UNCHANGED <<flags, triggers, first, rolledOut, calm, table>>
  BY DEF IInv, Exits
<1>1. /\ MapsInv'
      /\ \A p \in Pollers : poll'[p] = "off"
  <2>1. StartTriggers({}, {})
    BY DEF Exits, LoseTriggers
  <2>2. MapsInv' /\ \A p \in Pollers : poll'[p] # "off" <=> p[1] \in {} /\ p[2] \in {}
    BY <2>1, <1>0, {} \in SUBSET Names, {} \in SUBSET Calls, StartTriggersKeeps
  <2> QED
    BY <2>2
<1>2. SourceInv'
  <2>1. \A e \in Readers : EndsWith(res'[e], isRead'[e])
    BY <1>0, EmptyEndsWith
  <2>2. SourceTypeOK'
    BY <1>0, EmptyEndsWith DEF SourceInv, SourceTypeOK
  <2> QED
    BY <2>1, <2>2 DEF SourceInv, EndsWith
<1>3. MainTypeOK' /\ NobodyCollects'
  BY <1>0 DEF MainTypeOK, Executions, NobodyCollects
<1>4. StoppedInv' /\ UpInv' /\ ExecutionInv' /\ PollersInv' /\ FirstInv'
  BY <1>0, <1>1
  DEF StoppedInv, UpInv, Up, ExecutionInv, PollersInv, FirstInv, Cancelled
<1>5. ExitIsTruthful' /\ NeverNilMap'
  BY <1>0 DEF ExitIsTruthful, NeverNilMap, Unawaited
<1> QED
  BY <1>1, <1>2, <1>3, <1>4, <1>5 DEF IInv, ActorsInv

-----------------------------------------------------------------------------
(***************************************************************************)
(* The initial states, and one lemma per action.                           *)
(***************************************************************************)

LEMMA InitKeeps == Init => IInv
<1> SUFFICES ASSUME Init PROVE IInv
  OBVIOUS
<1>1. << >> \in Payload /\ << >> \in Seq(Kinds)
  BY EmptySeq DEF Payload
<1>2. PICK rows \in Results : result = [t \in Names |-> rows]
  BY DEF Init, TriggerInit
<1>3. TriggerTypeOK
  BY <1>1, <1>2 DEF Init, TriggerInit, TriggerTypeOK, Nil
<1>4. MapsInv
  BY <1>3 DEF Init, TriggerInit, MapsInv, MapsApart, PollersHaveMaps, Nil
<1>5. SourceInv
  BY EmptyEndsWith DEF Init, SourceInit, SourceInv, SourceTypeOK
<1>6. MainTypeOK
  BY <1>1 DEF Init, MainTypeOK, Executions, NoFirst
<1>7. NobodyCollects
  BY DEF Init, SourceInit, NobodyCollects
<1>8. ActorsInv
  BY DEF Init, TriggerInit, ActorsInv, StoppedInv, UpInv, Up, ExecutionInv, PollersInv,
         FirstInv, Cancelled, ExitIsTruthful, NeverNilMap
<1> QED
  BY <1>4, <1>5, <1>6, <1>7, <1>8 DEF IInv

\* Of Main, nothing changes.
LEMMA MainUnchanged ==
  ASSUME IInv, UNCHANGED <<mainVars, execution>>, calm' \in BOOLEAN,
         \A p \in Pollers : poll'[p] # "off" => poll[p] # "off",
         phase = "running" => SamePollers
  PROVE  MainTypeOK' /\ ActorsInv'
<1>1. /\ UNCHANGED <<flags, phase, exit, triggers, running, first, rolledOut, execution>>
      /\ rolledOut' \in BOOLEAN /\ execution' \in Executions
  BY DEF mainVars, IInv, MainTypeOK
<1> QED
  BY <1>1, GroupGoesOn

LEMMA CollectsUnchanged ==
  ASSUME IInv, UNCHANGED <<execution, res, isRead>>
  PROVE  NobodyCollects'
BY DEF IInv, NobodyCollects

LEMMA SetupFailsKeeps == IInv /\ SetupFails => IInv'
<1> SUFFICES ASSUME IInv, SetupFails PROVE IInv'
  OBVIOUS
<1>0. /\ phase = "stopped" /\ exit' \in {"1", "panic"}
      /\ UNCHANGED <<flags, phase, triggers, running, first, rolledOut, execution, calm>>
      /\ UNCHANGED sourceVars /\ UNCHANGED triggerVars
  BY DEF SetupFails, Setup, Connect
<1>1. MapsInv' /\ poll' = poll
  BY <1>0, TriggersUnchanged DEF IInv
<1>2. SourceInv'
  BY <1>0, SourceUnchanged DEF IInv
<1>3. MainTypeOK' /\ NobodyCollects'
  BY <1>0 DEF IInv, MainTypeOK, NobodyCollects, sourceVars
<1>4. ActorsInv'
  BY <1>0, <1>1
  DEF IInv, ActorsInv, StoppedInv, UpInv, Up, ExecutionInv, PollersInv, FirstInv, Cancelled,
      ExitIsTruthful, NeverNilMap, Runner, RunBy
<1> QED
  BY <1>1, <1>2, <1>3, <1>4 DEF IInv

LEMMA StartKeeps == IInv /\ Start => IInv'
<1> SUFFICES ASSUME IInv, Start PROVE IInv'
  OBVIOUS
<1>0. PICK f \in Flags, ts \in Seq(Kinds) : f = flags /\ ts = Configured(f)
  BY ConfiguredKinds DEF IInv, MainTypeOK
<1> DEFINE calls == {a \in DOMAIN ts : RunBy(a, ts) = "database"}
<1>1. /\ triggers' = ts /\ phase' = "running" /\ exit' = "none"
      /\ running' = {Server, Signal} \cup DOMAIN ts
      /\ first' = NoFirst /\ rolledOut' = FALSE
      /\ execution' = [a \in TriggerActors |->
                         IF a \in DOMAIN ts /\ RunBy(a, ts) = "one-off" THEN "render" ELSE "none"]
      /\ StartTriggers(f.names, calls)
      /\ UNCHANGED <<flags, calm>> /\ UNCHANGED sourceVars
  BY <1>0 DEF Start, StartTriggers
<1>2. /\ phase = "stopped" /\ ts # << >>
      /\ \A a \in TriggerActors : execution[a] = "none"
  BY <1>0 DEF Start, Setup, IInv, ActorsInv, StoppedInv
<1>3. DOMAIN ts \subseteq TriggerActors /\ f.names \in SUBSET Names
  BY <1>0, ActorsAssumption, FlagsAssumption
<1>4. calls \in SUBSET Calls
  BY <1>3, FlagsAssumption
<1>5. MapsInv' /\ \A p \in Pollers : poll'[p] # "off" <=> p[1] \in calls /\ p[2] \in f.names
  <2> HIDE DEF calls
  <2> QED
    BY <1>1, <1>3, <1>4, StartTriggersKeeps DEF IInv
<1>6. SourceInv'
  BY <1>1, SourceUnchanged DEF IInv
<1>7. MainTypeOK'
  <2>1. running' \subseteq Actors
    BY <1>1, <1>3 DEF Actors
  <2>2. execution' \in Executions
    BY <1>1 DEF Executions
  <2>3. first' \in [actor : Actors \cup {Nobody}, result : {"nil", "error"}]
    BY <1>1 DEF NoFirst
  <2> QED
    BY <2>1, <2>2, <2>3, <1>0, <1>1 DEF IInv, MainTypeOK
<1>8. NobodyCollects'
  BY <1>1, <1>2, ActorsDiffer DEF IInv, NobodyCollects, sourceVars
<1>9. ActorsInv'
  <2>1. StoppedInv' /\ UpInv' /\ FirstInv' /\ ExitIsTruthful' /\ NeverNilMap'
    BY <1>0, <1>1, <1>2
    DEF StoppedInv, UpInv, FirstInv, Cancelled, ExitIsTruthful, NeverNilMap
  <2>2. ExecutionInv'
    BY <1>1, <1>3 DEF ExecutionInv, Runner, RunBy
  <2>3. PollersInv'
    <3>1. \A p \in Pollers :
            poll'[p] # "off" => p[1] \in running' /\ RunBy(p[1], ts) = "database"
      BY <1>1, <1>5
    <3>2. \A a \in running' \cap TriggerActors, t \in f.names :
            RunBy(a, ts) = "database" => poll'[<<a, t>>] # "off"
      <4> TAKE a \in running' \cap TriggerActors, t \in f.names
      <4>1. a \in DOMAIN ts /\ <<a, t>> \in Pollers
        BY <1>1, <1>3, ActorsDiffer, FlagsAssumption DEF Pollers
      <4> QED
        BY <4>1, <1>5
    <3> QED
      BY <3>1, <3>2, <1>0, <1>1 DEF PollersInv, Runner, RunBy
  <2> QED
    BY <2>1, <2>2, <2>3 DEF ActorsInv
<1> QED
  BY <1>5, <1>6, <1>7, <1>8, <1>9 DEF IInv

\* An actor returns and nothing else changes.
LEMMA OnlyReturnKeeps ==
  ASSUME IInv, NEW a \in Actors, NEW r \in {"nil", "error"}, Return(a, r),
         UNCHANGED <<rolledOut, execution, calm>>,
         UNCHANGED sourceVars, UNCHANGED triggerVars,
         phase = "running" => MayBeFirst(a, r, rolledOut),
         a \in TriggerActors => execution[a] = "none" \/ Runner(a) = "resource",
         \A p \in Pollers : poll[p] # "off" => p[1] # a
  PROVE  IInv'
<1>1. MapsInv' /\ poll' = poll
  BY TriggersUnchanged DEF IInv
<1>2. SourceInv'
  BY SourceUnchanged DEF IInv
<1>3. MainTypeOK' /\ ActorsInv'
  BY <1>1, ReturnKeeps DEF IInv, MainTypeOK
<1>4. NobodyCollects'
  BY CollectsUnchanged DEF sourceVars
<1> QED
  BY <1>1, <1>2, <1>3, <1>4 DEF IInv

LEMMA ServerOrSignalKeeps == IInv /\ (ServerReturns \/ SignalReturns) => IInv'
<1> SUFFICES ASSUME IInv, ServerReturns \/ SignalReturns PROVE IInv'
  OBVIOUS
<1>1. PICK a \in {Server, Signal} :
        /\ Return(a, "error")
        /\ UNCHANGED <<rolledOut, execution, calm>>
        /\ UNCHANGED sourceVars /\ UNCHANGED triggerVars
  BY DEF ServerReturns, SignalReturns
<1>2. a \in Actors /\ a \notin TriggerActors
  BY <1>1, ActorsDiffer DEF Actors
<1>3. \A p \in Pollers : p[1] # a
  BY <1>2, FlagsAssumption DEF Pollers
<1> QED
  BY <1>1, <1>2, <1>3, OnlyReturnKeeps DEF MayBeFirst

LEMMA TriggerReturnsKeeps ==
  ASSUME IInv, NEW a \in TriggerActors, TriggerReturns(a)
  PROVE  IInv'
<1>1. /\ Return(a, "nil") /\ phase # "running" /\ a \in Actors
      /\ UNCHANGED <<rolledOut, execution, calm>>
      /\ UNCHANGED sourceVars /\ UNCHANGED triggerVars
      /\ Runner(a) # "database"
      /\ execution[a] = "none" \/ Runner(a) = "resource"
  BY DEF TriggerReturns, Cancelled, Idle, Actors
<1>2. \A p \in Pollers : poll[p] # "off" => p[1] # a
  BY <1>1 DEF IInv, ActorsInv, PollersInv
<1> QED
  BY <1>1, <1>2, OnlyReturnKeeps

LEMMA DatabaseReturnsKeeps ==
  ASSUME IInv, NEW a \in TriggerActors, DatabaseReturns(a)
  PROVE  IInv'
<1>1. /\ Return(a, "nil") /\ a \in Actors /\ a \in running
      /\ UNCHANGED <<rolledOut, execution, calm>>
      /\ UNCHANGED sourceVars /\ UNCHANGED triggerVars
      /\ Runner(a) = "database"
      /\ \A t \in Names : poll[<<a, t>>] = "off"
  BY DEF DatabaseReturns, Actors
<1>2. Up
  BY <1>1 DEF IInv, ActorsInv, StoppedInv, Up
<1>3. \A p \in Pollers : poll[p] # "off" => p[1] # a
  BY <1>1 DEF Pollers
<1>4. execution[a] = "none"
  BY <1>1 DEF IInv, ActorsInv, ExecutionInv
<1>5. flags.database /\ flags.names \in SUBSET Names
  BY <1>1, <1>2, RunnerFacts
<1>6. phase = "running" => flags.names = {}
  BY <1>1, <1>5 DEF IInv, ActorsInv, PollersInv
<1> QED
  BY <1>1, <1>3, <1>4, <1>5, <1>6, OnlyReturnKeeps DEF MayBeFirst, Unawaited

LEMMA GroupReturnsKeeps == IInv /\ GroupReturns => IInv'
<1> SUFFICES ASSUME IInv, GroupReturns PROVE IInv'
  OBVIOUS
<1>1. PICK how \in {"0", "1"} : Exits(how) /\ (how = "0" => first.result = "nil")
  BY DEF GroupReturns, Exits
<1>2. first.result = "nil" => (flags.oneOff /\ rolledOut) \/ Unawaited
  BY DEF GroupReturns, IInv, ActorsInv, FirstInv, Cancelled, MayBeFirst
<1> QED
  BY <1>1, <1>2, ExitsKeeps

LEMMA ExecutesKeeps ==
  ASSUME IInv, NEW a \in TriggerActors, Executes(a)
  PROVE  IInv'
<1>1. /\ UNCHANGED <<flags, phase, exit, triggers, running, first, rolledOut, calm>>
      /\ UNCHANGED sourceVars /\ UNCHANGED triggerVars
      /\ execution' = [execution EXCEPT ![a] = "render"]
      /\ Up /\ a \in DOMAIN triggers /\ Runner(a) # "database"
      /\ a \in running \/ Runner(a) = "resource"
  BY DEF Executes, mainVars
<1>2. MapsInv' /\ poll' = poll
  BY <1>1, TriggersUnchanged DEF IInv
<1>3. SourceInv'
  BY <1>1, SourceUnchanged DEF IInv
<1>4. rolledOut' \in BOOLEAN /\ calm' \in BOOLEAN /\ execution' \in Executions
  BY <1>1 DEF IInv, MainTypeOK, Executions
<1>5. /\ execution'[a] = "render"
      /\ \A b \in TriggerActors : b # a => execution'[b] = execution[b]
  BY <1>1 DEF IInv, MainTypeOK, Executions
<1>6. MainTypeOK' /\ ActorsInv'
  BY <1>1, <1>2, <1>4, <1>5, GroupGoesOn DEF SamePollers
<1>7. NobodyCollects'
  <2>1. UNCHANGED <<res, isRead>> /\ NobodyCollects
    BY <1>1 DEF sourceVars, IInv
  <2>2. \A e \in Readers : execution'[e] = "none" => execution[e] = "none"
    BY <1>5, ActorsDiffer
  <2> QED
    BY <2>1, <2>2 DEF NobodyCollects
<1> QED
  BY <1>2, <1>3, <1>6, <1>7 DEF IInv

LEMMA RenderKeeps ==
  ASSUME IInv, NEW a \in TriggerActors, Render(a) \/ RenderAgain(a)
  PROVE  IInv'
<1>1. /\ UNCHANGED <<flags, phase, exit, triggers, running, first, rolledOut, calm>>
      /\ UNCHANGED triggerVars
      /\ execution[a] = "render"
      /\ execution' \in {[execution EXCEPT ![a] = "roll out"], execution}
  BY DEF Render, RenderAgain, mainVars
<1>2. a \in Readers
  BY ActorsDiffer
<1>3. SourceInv' /\ \A e \in Readers : e # a => res'[e] = res[e] /\ isRead'[e] = isRead[e]
  <2>1. CASE AttemptCommits(a)
    BY <2>1, <1>2, CommitKeeps
    DEF IInv, AttemptCommits, Collect, SourceInv, SourceTypeOK
  <2>2. CASE AttemptIsRetried(a)
    BY <2>2, <1>2, AttemptKeeps
    DEF IInv, AttemptIsRetried, Collect, SourceInv, SourceTypeOK
  <2>3. CASE UNCHANGED sourceVars
    BY <2>3, SourceUnchanged DEF IInv, sourceVars
  <2> QED
    BY <2>1, <2>2, <2>3 DEF Render, RenderAgain
<1>4. MapsInv' /\ poll' = poll
  BY <1>1, TriggersUnchanged DEF IInv
<1>5. /\ rolledOut' \in BOOLEAN /\ calm' \in BOOLEAN /\ execution' \in Executions
      /\ \A b \in TriggerActors : b # a => execution'[b] = execution[b]
      /\ execution'[a] # "none"
  BY <1>1 DEF IInv, MainTypeOK, Executions
<1>6. MainTypeOK' /\ ActorsInv'
  BY <1>1, <1>4, <1>5, GroupGoesOn DEF SamePollers
<1>7. NobodyCollects'
  BY <1>3, <1>5, ActorsDiffer DEF IInv, NobodyCollects
<1> QED
  BY <1>3, <1>4, <1>6, <1>7 DEF IInv

LEMMA ExecutionEndsKeeps ==
  ASSUME IInv, NEW a \in TriggerActors, NEW r \in {"nil", "error"}, ExecutionEnds(a, r),
         execution[a] # "none", rolledOut' \in BOOLEAN, rolledOut => rolledOut',
         r = "nil" /\ Runner(a) = "one-off" => rolledOut'
  PROVE  IInv'
<1>1. /\ UNCHANGED calm /\ UNCHANGED triggerVars
      /\ execution' = [execution EXCEPT ![a] = "none"]
      /\ CloseSource(a)
  BY DEF ExecutionEnds
<1>2. SourceInv'
  BY <1>1, CloseKeeps, ActorsDiffer DEF IInv
<1>3. MapsInv' /\ poll' = poll
  BY <1>1, TriggersUnchanged DEF IInv
<1>4. /\ execution' \in Executions /\ calm' \in BOOLEAN
      /\ \A b \in TriggerActors : execution'[b] # "none" => execution[b] # "none" /\ b # a
      /\ \A b \in TriggerActors : b # a => execution'[b] = execution[b]
  BY <1>1 DEF IInv, MainTypeOK, Executions
<1>5. NobodyCollects'
  <2>1. NobodyCollects /\ SourceTypeOK
    BY DEF IInv, SourceInv
  <2>2. /\ res'[a] = << >> /\ isRead'[a] = << >>
        /\ \A e \in Readers : e # a => res'[e] = res[e] /\ isRead'[e] = isRead[e]
    BY <1>1, <2>1, ActorsDiffer DEF CloseSource, SourceTypeOK
  <2>3. \A e \in Readers : e # a => execution'[e] = execution[e]
    BY <1>4, ActorsDiffer
  <2> QED
    BY <2>1, <2>2, <2>3 DEF NobodyCollects
<1>6. MainTypeOK' /\ ActorsInv'
  <2>1. CASE a \in running /\ EndsBy(a, r)
    <3>1. Return(a, r) /\ a \in Actors /\ Runner(a) = "one-off"
      BY <2>1 DEF ExecutionEnds, EndsBy, Actors
    <3>2. Up
      BY <2>1 DEF IInv, ActorsInv, StoppedInv, Up
    <3>3. flags.oneOff
      BY <3>1, <3>2, RunnerFacts
    <3>4. \A p \in Pollers : poll[p] # "off" => p[1] # a
      BY <3>1 DEF IInv, ActorsInv, PollersInv
    <3>5. MayBeFirst(a, r, rolledOut')
      BY <3>1, <3>3 DEF MayBeFirst
    <3> QED
      BY <3>1, <3>4, <3>5, <1>1, <1>3, <1>4, ReturnKeeps
  <2>2. CASE ~(a \in running /\ EndsBy(a, r))
    BY <2>2, <1>1, <1>3, <1>4, GroupGoesOn DEF ExecutionEnds, SamePollers
  <2> QED
    BY <2>1, <2>2
<1> QED
  BY <1>2, <1>3, <1>5, <1>6 DEF IInv

LEMMA ExecutionStepsKeep ==
  ASSUME IInv, NEW a \in TriggerActors, ExecutionSteps(a)
  PROVE  IInv'
<1>1. CASE RolloutSucceeds(a)
  <2>1. rolledOut' = (rolledOut \/ Runner(a) = "one-off") /\ rolledOut \in BOOLEAN
    BY <1>1 DEF RolloutSucceeds, IInv, MainTypeOK
  <2> QED
    BY <1>1, <2>1, ExecutionEndsKeeps DEF RolloutSucceeds
<1>2. CASE ExecutionFails(a)
  BY <1>2, ExecutionEndsKeeps DEF ExecutionFails, IInv, MainTypeOK
<1>3. CASE Render(a)
  BY <1>3, RenderKeeps
<1> QED
  BY <1>1, <1>2, <1>3 DEF ExecutionSteps

\* The rest of the state, when database triggers move.
LEMMA RestUnchanged ==
  ASSUME IInv, UNCHANGED restVars, MapsInv',
         \A p \in Pollers : poll'[p] # "off" => poll[p] # "off",
         phase = "running" => SamePollers
  PROVE  IInv'
<1>1. /\ UNCHANGED <<mainVars, execution>> /\ calm' \in BOOLEAN
      /\ UNCHANGED sourceVars
  BY DEF restVars, IInv, MainTypeOK
<1>2. SourceInv' /\ NobodyCollects'
  BY <1>1, SourceUnchanged, CollectsUnchanged DEF IInv, sourceVars
<1> QED
  BY <1>1, <1>2, MainUnchanged DEF IInv

LEMMA PollersKeep ==
  ASSUME IInv, NEW p \in Pollers,
         Ticks(p) \/ PollSteps(p) \/ PollBreaks(p) \/ PollReturns(p)
  PROVE  IInv'
<1>1. CASE PollReturns(p)
  BY <1>1, PollerReturnsKeeps, RestUnchanged DEF PollReturns, Cancelled, IInv
<1>2. ASSUME MapsInv', SamePollers, UNCHANGED restVars
      PROVE  IInv'
  BY <1>2, RestUnchanged DEF SamePollers
<1>3. CASE Ticks(p)
  BY <1>3, <1>2, TickKeeps DEF Ticks, IInv
<1>4. CASE PollSteps(p)
  <2>1. PICK c \in BOOLEAN : c = Connected
    <3>1. PICK f \in Flags : f = flags
      BY DEF IInv, MainTypeOK
    <3>2. f.connects \in BOOLEAN
      BY FlagsAssumption
    <3> QED
      BY <3>1, <3>2 DEF Connected
  <2>2. CASE Check(p, Connected)
    <3>1. Check(p, c)
      BY <2>1, <2>2 DEF Check
    <3> QED
      BY <3>1, <1>4, <1>2, CheckKeeps DEF PollSteps, IInv
  <2> QED
    BY <2>2, <1>4, <1>2, NextRowKeeps, LastRowKeeps, CommitTriggerKeeps DEF PollSteps, IInv
<1>5. CASE PollBreaks(p)
  BY <1>5, <1>2, RowsBreakKeeps, RetryKeeps DEF PollBreaks, IInv
<1> QED
  BY <1>1, <1>3, <1>4, <1>5

LEMMA RunEndsKeeps ==
  ASSUME IInv, NEW r \in Runs, RunEnds(r)
  PROVE  IInv'
<1>1. CASE RunSucceeds(r, ReadConfig(run[r].payload))
  <2>1. PICK config \in Payload : config = ReadConfig(run[r].payload)
    BY <1>1, FlagsAssumption
    DEF ReadConfig, RunSucceeds, Done, Run, IInv, MapsInv, TriggerTypeOK
  <2>2. RunSucceeds(r, config)
    BY <1>1, <2>1 DEF RunSucceeds
  <2>3. MapsInv' /\ poll' = poll
    BY <2>2, RunSucceedsKeeps DEF IInv
  <2> QED
    BY <2>3, RestUnchanged DEF RunEnds, SamePollers
<1>2. CASE RunFails(r)
  <2>1. MapsInv' /\ poll' = poll
    BY <1>2, RunFailsKeeps DEF IInv
  <2> QED
    BY <2>1, RestUnchanged DEF RunEnds, SamePollers
<1> QED
  BY <1>1, <1>2 DEF RunEnds

LEMMA EndsUnasked ==
  IInv /\ (PanicsOnNil \/ NoticesRace \/ Killed) => IInv'
<1> SUFFICES ASSUME IInv, PanicsOnNil \/ NoticesRace \/ Killed
             PROVE  IInv'
  OBVIOUS
<1>1. ~Nils("nil map")
  BY NobodyPanics DEF Nils, IInv
<1>2. PICK how \in {"panic", "map race", "killed"} : Exits(how)
  BY <1>1 DEF PanicsOnNil, NoticesRace, Killed
<1> QED
  BY <1>2, ExitsKeeps

LEMMA OthersKeep == IInv /\ (Others \/ CalmDown) => IInv'
<1> SUFFICES ASSUME IInv, Others \/ CalmDown PROVE IInv'
  OBVIOUS
<1>1. /\ UNCHANGED <<mainVars, execution>> /\ calm' \in BOOLEAN
  BY DEF Others, CalmDown, IInv, MainTypeOK
<1>2. flags.names \subseteq Names
  BY FlagsAssumption DEF IInv, MainTypeOK
<1>3. MapsInv' /\ poll' = poll
  <2>1. CASE UNCHANGED triggerVars
    BY <2>1, TriggersUnchanged DEF IInv
  <2>2. ASSUME NEW t \in flags.names, NEW rows \in Results, ResultChanges(t, rows)
        PROVE  MapsInv' /\ poll' = poll
    BY <2>2, <1>2, ResultChangesKeeps DEF IInv
  <2> QED
    BY <2>1, <2>2 DEF Others, CalmDown
<1>4. SourceInv' /\ UNCHANGED <<res, isRead>>
  <2>1. CASE UNCHANGED sourceVars
    BY <2>1, SourceUnchanged DEF IInv, sourceVars
  <2>2. ASSUME NEW rows \in Tables, TableChanges(rows)
        PROVE  SourceInv' /\ UNCHANGED <<res, isRead>>
    BY <2>2, TableKeeps DEF IInv, TableChanges
  <2> QED
    BY <2>1, <2>2 DEF Others, CalmDown
<1>5. MainTypeOK' /\ ActorsInv'
  BY <1>1, <1>3, MainUnchanged DEF SamePollers
<1>6. NobodyCollects'
  BY <1>1, <1>4, CollectsUnchanged
<1> QED
  BY <1>3, <1>4, <1>5, <1>6 DEF IInv

LEMMA StutterKeeps == IInv /\ UNCHANGED vars => IInv'
<1> SUFFICES ASSUME IInv, UNCHANGED vars PROVE IInv'
  OBVIOUS
<1>1. UNCHANGED restVars /\ UNCHANGED triggerVars
  BY DEF vars, restVars
<1>2. MapsInv' /\ poll' = poll
  BY <1>1, TriggersUnchanged DEF IInv
<1> QED
  BY <1>1, <1>2, RestUnchanged DEF SamePollers

LEMMA NextKeeps == IInv /\ [Next]_vars => IInv'
<1> SUFFICES ASSUME IInv, [Next]_vars PROVE IInv'
  OBVIOUS
<1>1. CASE SetupFails \/ Start
  BY <1>1, SetupFailsKeeps, StartKeeps
<1>2. CASE ServerReturns \/ SignalReturns \/ GroupReturns
  BY <1>2, ServerOrSignalKeeps, GroupReturnsKeeps
<1>3. ASSUME NEW a \in TriggerActors,
             \/ TriggerReturns(a) \/ DatabaseReturns(a)
             \/ Executes(a) \/ RenderAgain(a) \/ ExecutionSteps(a)
      PROVE  IInv'
  BY <1>3, TriggerReturnsKeeps, DatabaseReturnsKeeps, ExecutesKeeps, RenderKeeps,
     ExecutionStepsKeep
<1>4. ASSUME NEW p \in Pollers, Ticks(p) \/ PollSteps(p) \/ PollBreaks(p) \/ PollReturns(p)
      PROVE  IInv'
  BY <1>4, PollersKeep
<1>5. ASSUME NEW r \in Runs, RunEnds(r)
      PROVE  IInv'
  BY <1>5, RunEndsKeeps
<1>6. CASE PanicsOnNil \/ NoticesRace \/ Killed
  BY <1>6, EndsUnasked
<1>7. CASE Others \/ CalmDown
  BY <1>7, OthersKeep
<1>8. CASE UNCHANGED vars
  BY <1>8, StutterKeeps
<1> QED
  BY <1>1, <1>2, <1>3, <1>4, <1>5, <1>6, <1>7, <1>8 DEF Next

-----------------------------------------------------------------------------
(***************************************************************************)
(* The theorems.                                                           *)
(***************************************************************************)

\* The invariant holds throughout.
THEOREM Invariant == Spec => []IInv
BY InitKeeps, NextKeeps, PTL DEF Spec

\* The variables keep their types, and nobody has collected rows for a rendering
\* that does not execute: the variable of one call of the source is not another's.
THEOREM TypeCorrect == Spec => []TypeOK
<1>1. IInv => TypeOK
  BY TypeOKParts DEF IInv, MapsInv, SourceInv
<1> QED
  BY <1>1, Invariant, PTL

\* Whatever keys rows have, names of triggers among them, no goroutine writes into
\* a map that is nil (database.go:140, 158, 165).
THEOREM MapsAreThere == Spec => []NeverNilMap
<1>1. IInv => NeverNilMap
  BY DEF IInv, ActorsInv
<1> QED
  BY <1>1, Invariant, PTL

\* A process ends with 0 only when its one-off execution was rolled out, or it
\* had no database trigger to wait for (cli.go:317).
THEOREM ExitCodeIsTruthful == Spec => []ExitIsTruthful
<1>1. IInv => ExitIsTruthful
  BY DEF IInv, ActorsInv
<1> QED
  BY <1>1, Invariant, PTL

\* No execution that fails ends a process that is to run for long.
THEOREM NoStopWithoutReason == Spec => []StopsForAReason
<1>1. IInv => StopsForAReason
  BY DEF IInv, ActorsInv, FirstInv, MayBeFirst, Unawaited, StopsForAReason
<1> QED
  BY <1>1, Invariant, PTL

\* However often a transaction is retried, the rows of the attempt that was
\* committed come last in what is rendered (crdb.go:88-116).
THEOREM CommittedRowsComeLast == Spec => []CommittedRowsAreLast
<1>1. IInv => CommittedRowsAreLast
  BY DEF IInv, SourceInv, EndsWith, CommittedRowsAreLast
<1> QED
  BY <1>1, Invariant, PTL

\* The only step that ends a process that stops, with an exit code, is the return
\* of the run group.
LEMMA EndsByGroup ==
  ASSUME IInv, [Next]_vars, Cancelled, exit' \in {"0", "1"}, phase' = "stopped"
  PROVE  running = {}
<1>1. phase = "stopping"
  BY DEF Cancelled
<1>2. CASE GroupReturns
  BY <1>2 DEF GroupReturns, Awaited
<1>3. CASE SetupFails \/ Start
  BY <1>1, <1>3 DEF SetupFails, Start
<1>4. CASE ServerReturns \/ SignalReturns
  BY <1>4 DEF ServerReturns, SignalReturns, Return
<1>5. ASSUME NEW a \in TriggerActors, TriggerReturns(a) \/ DatabaseReturns(a)
      PROVE  running = {}
  BY <1>5 DEF TriggerReturns, DatabaseReturns, Return
<1>6. ASSUME NEW a \in TriggerActors, Executes(a) \/ RenderAgain(a) \/ ExecutionSteps(a)
      PROVE  running = {}
  <2>1. phase' \in {"stopping", phase}
    BY <1>6
    DEF Executes, RenderAgain, ExecutionSteps, Render, RolloutSucceeds, ExecutionFails,
        ExecutionEnds, Return, mainVars
  <2> QED
    BY <2>1, <1>1
<1>7. CASE UNCHANGED mainVars
  BY <1>1, <1>7 DEF mainVars
<1>8. ASSUME NEW p \in Pollers, Ticks(p) \/ PollSteps(p) \/ PollBreaks(p) \/ PollReturns(p)
      PROVE  UNCHANGED mainVars
  BY <1>8 DEF Ticks, PollSteps, PollBreaks, PollReturns, restVars
<1>9. ASSUME NEW r \in Runs, RunEnds(r)
      PROVE  UNCHANGED mainVars
  BY <1>9 DEF RunEnds, restVars
<1>10. CASE PanicsOnNil \/ NoticesRace \/ Killed
  BY <1>10 DEF PanicsOnNil, NoticesRace, Killed, Exits
<1>11. (Others \/ CalmDown \/ UNCHANGED vars) => UNCHANGED mainVars
  BY DEF Others, CalmDown, vars
<1> QED
  BY <1>2, <1>3, <1>4, <1>5, <1>6, <1>7, <1>8, <1>9, <1>10, <1>11 DEF Next

\* A process that stops waits for executions of interval and one-off triggers, and
\* for the transactions of database triggers.
THEOREM ExecutionsAreAwaited == Spec => StopsBetweenExecutions
<1> DEFINE Awaits ==
      Cancelled /\ exit' \in {"0", "1"} /\ phase' = "stopped" =>
        /\ \A a \in DOMAIN triggers : execution[a] # "none" => Runner(a) = "resource"
        /\ \A p \in Pollers : poll[p] \notin InTransaction
<1>1. IInv /\ [Next]_vars => [Awaits]_vars
  <2> SUFFICES ASSUME IInv, [Next]_vars, Cancelled, exit' \in {"0", "1"}, phase' = "stopped"
               PROVE  /\ \A a \in DOMAIN triggers :
                           execution[a] # "none" => Runner(a) = "resource"
                      /\ \A p \in Pollers : poll[p] \notin InTransaction
    OBVIOUS
  <2>1. running = {}
    BY EndsByGroup
  <2>2. DOMAIN triggers \subseteq TriggerActors
    BY ActorsAssumption DEF Cancelled, IInv, MainTypeOK, ActorsInv, UpInv, Up
  <2>3. \A a \in DOMAIN triggers : execution[a] # "none" => Runner(a) = "resource"
    BY <2>1, <2>2 DEF IInv, ActorsInv, ExecutionInv
  <2>4. \A p \in Pollers : poll[p] \notin InTransaction
    BY <2>1 DEF IInv, ActorsInv, PollersInv, InTransaction
  <2> QED
    BY <2>3, <2>4
<1> QED
  BY <1>1, Invariant, PTL DEF Spec, StopsBetweenExecutions

-----------------------------------------------------------------------------
(***************************************************************************)
(* The runs of the database triggers: each works on one result.            *)
(***************************************************************************)

\* What a goroutine has grouped and has still to look at are the rows of one
\* result of its query.
OfOneResult(p) ==
  \E rows \in Results, n \in Nat :
    /\ Len(rows) = n + Len(left[p])
    /\ \A i \in 1 .. Len(left[p]) : left[p][i] = rows[n + i]
    /\ Name(p) \in Grouped =>
         /\ Len(array[p]) = n
         /\ \A i \in 1 .. n : array[p][i] = rows[i]

AttemptsInv == \A p \in Pollers : poll[p] = "rows" => OfOneResult(p)

RowsInv == AttemptsInv /\ RunsAreOfOneResult

\* Only this goroutine goes on.
OthersStay(p) ==
  \A q \in Pollers \ {p} :
    poll'[q] = poll[q] /\ left'[q] = left[q] /\ array'[q] = array[q]

LEMMA AttemptSame ==
  ASSUME NEW p \in Pollers, OfOneResult(p), left'[p] = left[p], array'[p] = array[p]
  PROVE  OfOneResult(p)'
<1>1. PICK rows \in Results, n \in Nat :
        /\ Len(rows) = n + Len(left[p])
        /\ \A i \in 1 .. Len(left[p]) : left[p][i] = rows[n + i]
        /\ Name(p) \in Grouped =>
             /\ Len(array[p]) = n
             /\ \A i \in 1 .. n : array[p][i] = rows[i]
  BY DEF OfOneResult
<1>2. /\ Len(rows) = n + Len(left'[p])
      /\ \A i \in 1 .. Len(left'[p]) : left'[p][i] = rows[n + i]
      /\ Name(p) \in Grouped =>
           /\ Len(array'[p]) = n
           /\ \A i \in 1 .. n : array'[p][i] = rows[i]
  BY <1>1
<1> QED
  BY <1>2 DEF OfOneResult, Name

LEMMA AttemptKept ==
  ASSUME AttemptsInv, NEW p \in Pollers, OthersStay(p),
         poll'[p] = "rows" => OfOneResult(p)'
  PROVE  AttemptsInv'
<1> SUFFICES ASSUME NEW q \in Pollers, q # p, poll'[q] = "rows"
             PROVE  OfOneResult(q)'
  BY DEF AttemptsInv
<1>1. poll[q] = "rows" /\ left'[q] = left[q] /\ array'[q] = array[q]
  BY DEF OthersStay
<1>2. OfOneResult(q)
  BY <1>1 DEF AttemptsInv
<1> QED
  BY <1>1, <1>2, AttemptSame

\* A call of the query begins with all rows of a result, and an empty array.
LEMMA QueryBegins ==
  ASSUME TriggerTypeOK, AttemptsInv, NEW p \in Pollers, Query(p)
  PROVE  AttemptsInv'
<1>1. /\ left' = [left EXCEPT ![p] = result[Name(p)]]
      /\ array' = [array EXCEPT ![p] = << >>]
      /\ poll' = [poll EXCEPT ![p] = "rows"]
  BY DEF Query, Goes
<1>2. OthersStay(p)
  BY <1>1 DEF OthersStay, TriggerTypeOK
<1>3. PICK rows \in Results : rows = left'[p]
  BY <1>1 DEF TriggerTypeOK, Pollers, Name
<1>4. Len(rows) \in Nat
  BY TriggerAssumption, LenProperties DEF Payload
<1>5. array'[p] = << >>
  BY <1>1 DEF TriggerTypeOK
<1>6. OfOneResult(p)'
  <2>1. /\ Len(rows) = 0 + Len(left'[p])
        /\ \A i \in 1 .. Len(left'[p]) : left'[p][i] = rows[0 + i]
    BY <1>3, <1>4
  <2>2. Len(array'[p]) = 0 /\ \A i \in 1 .. 0 : array'[p][i] = rows[i]
    BY <1>5, EmptySeq
  <2>3. 0 \in Nat
    OBVIOUS
  <2> QED
    BY <2>1, <2>2, <2>3 DEF OfOneResult
<1> QED
  BY <1>2, <1>6, AttemptKept

LEMMA LeavesAttempts ==
  ASSUME TriggerTypeOK, AttemptsInv, NEW p \in Pollers, NEW place, place # "rows",
         Leaves(p, place)
  PROVE  AttemptsInv'
<1>1. OthersStay(p) /\ poll'[p] = place
  BY DEF OthersStay, TriggerTypeOK, Leaves, Goes
<1> QED
  BY <1>1, AttemptKept

\* A run that is started keeps what the runs work on, if it works on the rows of
\* a result.
LEMMA ScheduledRun ==
  ASSUME TriggerTypeOK, RunsAreOfOneResult, NEW t, NEW k, NEW payload,
         NEW rows \in Results,
         [trigger |-> t, key |-> k, payload |-> payload] \in RunsOf(t, rows),
         ScheduleTriggerRun(t, k, payload)
  PROVE  RunsAreOfOneResult'
<1>1. CASE Scheduled(t, k)
  BY <1>1 DEF ScheduleTriggerRun, RunsAreOfOneResult, Done
<1>2. CASE ~Scheduled(t, k)
  <2>1. PICK r \in Runs :
          run' = [run EXCEPT ![r] = [trigger |-> t, key |-> k, payload |-> payload]]
    BY <1>2 DEF ScheduleTriggerRun, Free
  <2>2. run'[r] \in RunsOf(run'[r].trigger, rows)
    BY <2>1 DEF TriggerTypeOK
  <2>3. \A q \in Runs \ {r} : run'[q] = run[q]
    BY <2>1 DEF TriggerTypeOK
  <2> QED
    BY <2>2, <2>3 DEF RunsAreOfOneResult, Done
<1> QED
  BY <1>1, <1>2

\* At the end of its rows, early or not, the array has the first rows of a result.
LEMMA EndOfRowsOfOneResult ==
  ASSUME TriggerTypeOK, RowsInv, NEW p \in Pollers, EndOfRows(p)
  PROVE  RunsAreOfOneResult'
<1>1. CASE Name(p) \in Grouped
  <2>1. poll[p] = "rows" /\ ScheduleTriggerRun(Name(p), EmptyKey, array[p])
    BY <1>1 DEF EndOfRows
  <2>2. PICK rows \in Results, n \in Nat :
          /\ Len(rows) = n + Len(left[p])
          /\ Len(array[p]) = n
          /\ \A i \in 1 .. n : array[p][i] = rows[i]
    BY <1>1, <2>1 DEF RowsInv, AttemptsInv, OfOneResult
  <2>3. rows \in Seq(Row) /\ array[p] \in Seq(Row) /\ Len(left[p]) \in Nat
    BY TriggerAssumption, LenProperties DEF TriggerTypeOK, Payload
  <2>4. n \in 0 .. Len(rows)
    BY <2>2, <2>3
  <2>5. array[p] = SubSeq(rows, 1, n)
    <3>1. \A i \in 1 .. n : rows[i] \in Row
      BY <2>3, <2>4, LenProperties
    <3>2. /\ SubSeq(rows, 1, n) \in Seq(Row)
          /\ Len(SubSeq(rows, 1, n)) = n
          /\ \A i \in 1 .. n : SubSeq(rows, 1, n)[i] = rows[i]
      BY <3>1, SubSeqProperties
    <3> QED
      BY <2>2, <2>3, <3>2, SeqEqual
  <2>6. [trigger |-> Name(p), key |-> EmptyKey, payload |-> array[p]]
          \in RunsOf(Name(p), rows)
    BY <1>1, <2>4, <2>5 DEF RunsOf
  <2> QED
    BY <2>1, <2>6, ScheduledRun DEF RowsInv
<1>2. CASE Name(p) \notin Grouped
  BY <1>2 DEF EndOfRows, RowsInv, RunsAreOfOneResult, Done
<1> QED
  BY <1>1, <1>2

\* The next row of a result is grouped, or run by its key.
LEMMA NextRowOfOneResult ==
  ASSUME TriggerTypeOK, RowsInv, NEW p \in Pollers, NextRow(p)
  PROVE  RowsInv'
<1>1. /\ poll[p] = "rows" /\ left[p] # << >> /\ poll' = poll
      /\ left' = [left EXCEPT ![p] = Tail(left[p])]
  BY DEF NextRow
<1>2. PICK rows \in Results, n \in Nat :
        /\ Len(rows) = n + Len(left[p])
        /\ \A i \in 1 .. Len(left[p]) : left[p][i] = rows[n + i]
        /\ Name(p) \in Grouped =>
             /\ Len(array[p]) = n
             /\ \A i \in 1 .. n : array[p][i] = rows[i]
  BY <1>1 DEF RowsInv, AttemptsInv, OfOneResult
<1>3. left[p] \in Seq(Row) /\ array[p] \in Seq(Row)
  BY DEF TriggerTypeOK, Payload
<1>4. /\ Head(left[p]) \in Row
      /\ Len(left[p]) \in Nat \ {0}
      /\ Len(left'[p]) = Len(left[p]) - 1
      /\ \A i \in 1 .. Len(left'[p]) : left'[p][i] = left[p][i + 1]
      /\ Head(left[p]) = left[p][1]
  <2>1. left'[p] = Tail(left[p])
    BY <1>1 DEF TriggerTypeOK
  <2> QED
    BY <1>1, <1>3, <2>1, EmptySeq, HeadTailProperties, Head(left[p]) = left[p][1]
<1>5. Head(left[p]) = rows[n + 1]
  BY <1>2, <1>4
<1>6. /\ n + 1 \in Nat
      /\ Len(rows) = (n + 1) + Len(left'[p])
      /\ \A i \in 1 .. Len(left'[p]) : left'[p][i] = rows[(n + 1) + i]
  <2>1. Len(rows) = (n + 1) + Len(left'[p])
    <3>1. Len(rows) = n + Len(left[p])
      BY <1>2
    <3>2. Len(left[p]) \in Nat /\ Len(left'[p]) = Len(left[p]) - 1
      BY <1>4
    <3>3. \A k \in Nat : (n + 1) + (k - 1) = n + k
      OBVIOUS
    <3> QED
      BY <3>1, <3>2, <3>3
  <2>2. ASSUME NEW i \in 1 .. Len(left'[p])
        PROVE  left'[p][i] = rows[(n + 1) + i]
    <3>1. i + 1 \in 1 .. Len(left[p]) /\ n + (i + 1) = (n + 1) + i
      BY <1>4
    <3> QED
      BY <1>2, <1>4, <3>1
  <2> QED
    BY <2>1, <2>2
<1>7. CASE Name(p) \in Grouped
  <2>1. /\ array' = [array EXCEPT ![p] = Append(array[p], Head(left[p]))]
        /\ UNCHANGED <<activeTriggers, run>>
    BY <1>7 DEF NextRow
  <2>2. /\ Len(array'[p]) = n + 1
        /\ \A i \in 1 .. n : array'[p][i] = rows[i]
        /\ array'[p][n + 1] = rows[n + 1]
    <3>1. array'[p] = Append(array[p], Head(left[p]))
      BY <2>1 DEF TriggerTypeOK
    <3>2. /\ Len(array[p]) = n
          /\ \A i \in 1 .. n : array[p][i] = rows[i]
      BY <1>2, <1>7
    <3>3. Head(left[p]) \in Row /\ Head(left[p]) = rows[n + 1]
      BY <1>4, <1>5
    <3>4. /\ Len(Append(array[p], Head(left[p]))) = Len(array[p]) + 1
          /\ \A i \in 1 .. Len(array[p]) :
               Append(array[p], Head(left[p]))[i] = array[p][i]
          /\ Append(array[p], Head(left[p]))[Len(array[p]) + 1] = Head(left[p])
      BY <1>3, <3>3, AppendProperties
    <3> QED
      BY <3>1, <3>2, <3>3, <3>4
  <2>3. \A i \in 1 .. n + 1 : array'[p][i] = rows[i]
    BY <2>2
  <2>4. OfOneResult(p)'
    BY <1>6, <2>2, <2>3 DEF OfOneResult, Name
  <2>5. OthersStay(p)
    BY <1>1, <2>1 DEF OthersStay, TriggerTypeOK
  <2> QED
    BY <2>1, <2>4, <2>5, AttemptKept DEF RowsInv, RunsAreOfOneResult, Done
<1>8. CASE Name(p) \notin Grouped
  <2>1. /\ ScheduleTriggerRun(Name(p), Head(left[p]).key, << Head(left[p]) >>)
        /\ array' = array
    BY <1>8 DEF NextRow
  <2>2. OfOneResult(p)'
    BY <1>6, <1>8 DEF OfOneResult, Name
  <2>3. OthersStay(p)
    BY <1>1, <2>1 DEF OthersStay, TriggerTypeOK
  <2>4. n + 1 \in 1 .. Len(rows)
    BY <1>2, <1>4
  <2>5. [trigger |-> Name(p), key |-> Head(left[p]).key, payload |-> << Head(left[p]) >>]
          \in RunsOf(Name(p), rows)
    BY <1>5, <1>8, <2>4 DEF RunsOf
  <2>6. RunsAreOfOneResult'
    BY <2>1, <2>5, ScheduledRun DEF RowsInv
  <2> QED
    BY <2>2, <2>3, <2>6, AttemptKept DEF RowsInv
<1> QED
  BY <1>7, <1>8

\* A run that ends leaves the others as they are.
LEMMA EndsOfOneResult ==
  ASSUME TriggerTypeOK, RowsInv, NEW r \in Runs, EndRun(r), UNCHANGED pollVars
  PROVE  RowsInv'
<1>1. \A q \in Runs : run'[q] = run[q] \/ run'[q] = Finished
  BY DEF EndRun, TriggerTypeOK
<1>2. RunsAreOfOneResult'
  BY <1>1 DEF RowsInv, RunsAreOfOneResult, Done
<1>3. AttemptsInv'
  BY AttemptSame DEF RowsInv, AttemptsInv, pollVars
<1> QED
  BY <1>2, <1>3 DEF RowsInv

\* Nothing is read and nothing runs at first, and after the process was stopped.
LEMMA StartsOfOneResult ==
  ASSUME NEW names, NEW calls, StartTriggers(names, calls)
  PROVE  RowsInv'
BY DEF StartTriggers, RowsInv, AttemptsInv, RunsAreOfOneResult, Done

LEMMA PollersOfOneResult ==
  ASSUME TriggerTypeOK, RowsInv, NEW p \in Pollers,
         Ticks(p) \/ PollSteps(p) \/ PollBreaks(p) \/ PollReturns(p)
  PROVE  RowsInv'
<1>1. ASSUME UNCHANGED run
      PROVE  RunsAreOfOneResult'
  BY <1>1 DEF RowsInv, RunsAreOfOneResult, Done
<1>2. AttemptsInv
  BY DEF RowsInv
<1>3. CASE Tick(p) \/ PollerReturns(p)
  <2>1. OthersStay(p) /\ poll'[p] # "rows"
    BY <1>3 DEF Tick, PollerReturns, Goes, OthersStay, TriggerTypeOK
  <2> QED
    BY <1>1, <1>2, <1>3, <2>1, AttemptKept DEF Tick, PollerReturns, RowsInv
<1>4. CASE Check(p, Connected) \/ Commit(p) \/ Retry(p) \/ Fails(p)
  <2>1. Query(p) \/ Leaves(p, "wait")
    BY <1>4 DEF Check, Commit, Retry, Fails
  <2> QED
    BY <1>1, <1>2, <1>4, <2>1, QueryBegins, LeavesAttempts
    DEF Check, Commit, Retry, Fails, RowsInv
<1>5. CASE LastRow(p) \/ RowsBreak(p)
  <2>1. /\ EndOfRows(p)
        /\ Query(p) \/ Leaves(p, "wait") \/ Leaves(p, "commit")
    BY <1>5 DEF LastRow, RowsBreak
  <2> QED
    BY <1>2, <2>1, QueryBegins, LeavesAttempts, EndOfRowsOfOneResult DEF RowsInv
<1> QED
  BY <1>3, <1>4, <1>5, NextRowOfOneResult DEF Ticks, PollSteps, PollBreaks, PollReturns

LEMMA NextOfOneResult == IInv /\ RowsInv /\ [Next]_vars => RowsInv'
<1> SUFFICES ASSUME IInv, RowsInv, [Next]_vars PROVE RowsInv'
  OBVIOUS
<1>0. TriggerTypeOK
  BY DEF IInv, MapsInv
<1>1. ASSUME UNCHANGED <<pollVars, run>>
      PROVE  RowsInv'
  BY <1>1, AttemptSame DEF RowsInv, AttemptsInv, pollVars, RunsAreOfOneResult, Done
<1>2. ASSUME NEW how, Exits(how)
      PROVE  RowsInv'
  BY <1>2, StartsOfOneResult DEF Exits, LoseTriggers
<1>3. CASE SetupFails
  BY <1>1, <1>3 DEF SetupFails, triggerVars
<1>4. CASE Start
  BY <1>4, StartsOfOneResult DEF Start
<1>5. CASE ServerReturns \/ SignalReturns
  BY <1>1, <1>5 DEF ServerReturns, SignalReturns, triggerVars
<1>6. CASE GroupReturns \/ PanicsOnNil \/ NoticesRace \/ Killed
  BY <1>2, <1>6 DEF GroupReturns, PanicsOnNil, NoticesRace, Killed
<1>7. ASSUME NEW a \in TriggerActors,
             \/ TriggerReturns(a) \/ DatabaseReturns(a)
             \/ Executes(a) \/ RenderAgain(a) \/ ExecutionSteps(a)
      PROVE  RowsInv'
  <2>1. UNCHANGED triggerVars
    BY <1>7 DEF TriggerReturns, DatabaseReturns, Executes, RenderAgain, ExecutionSteps,
                Render, RolloutSucceeds, ExecutionFails, ExecutionEnds
  <2> QED
    BY <1>1, <2>1 DEF triggerVars
<1>8. ASSUME NEW p \in Pollers, Ticks(p) \/ PollSteps(p) \/ PollBreaks(p) \/ PollReturns(p)
      PROVE  RowsInv'
  BY <1>0, <1>8, PollersOfOneResult
<1>9. ASSUME NEW r \in Runs, RunEnds(r)
      PROVE  RowsInv'
  BY <1>0, <1>9, EndsOfOneResult DEF RunEnds, RunSucceeds, RunFails
<1>10. CASE Others \/ CalmDown
  BY <1>1, <1>10 DEF Others, CalmDown, triggerVars, ResultChanges
<1>11. CASE UNCHANGED vars
  BY <1>1, <1>11 DEF vars, triggerVars
<1> QED
  BY <1>3, <1>4, <1>5, <1>6, <1>7, <1>8, <1>9, <1>10, <1>11 DEF Next

\* Every run works on rows of one result of its trigger's query: a transaction
\* that is retried, or breaks off, after it has yielded some rows never leaves
\* them to a later attempt, or to another trigger.
THEOREM RunsHaveOneResult == Spec => []RunsAreOfOneResult
<1>1. Init => RowsInv
  BY DEF Init, TriggerInit, RowsInv, AttemptsInv, RunsAreOfOneResult, Done
<1>2. RowsInv => RunsAreOfOneResult
  BY DEF RowsInv
<1> QED
  BY <1>1, <1>2, NextOfOneResult, Invariant, PTL DEF Spec

=============================================================================
