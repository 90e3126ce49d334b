------------------------- MODULE ObjectActionsProofs -------------------------
(***************************************************************************)
(* Theorems about ObjectActions.tla, for every set of executions, objects, *)
(* manifests, values and plans: type correctness, and from the invariant   *)
(* about what an execution knows between its Get and its Update, the       *)
(* action properties.                                                      *)
(***************************************************************************)
EXTENDS ObjectActions, SequenceTheorems, TLAPS

-----------------------------------------------------------------------------
(***************************************************************************)
(* Data.                                                                   *)
(***************************************************************************)

\* A rendered object is never the absence of one: it has other fields.
LEMMA RenderedIsNotAbsent ==
  ASSUME NEW r \in Rendered
  PROVE  r # Absent
  <1>1. DOMAIN r = {"spec", "owned"}
    BY DEF Rendered
  <1>2. DOMAIN Absent = {"present"}
    BY DEF Absent
  <1> QED
    BY <1>1, <1>2

\* A stored object that is present has the fields of one.
LEMMA PresentIsStored ==
  ASSUME NEW o \in Objects, store \in [Objects -> Stored \cup {Absent}],
         Present(o)
  PROVE  store[o] \in Stored
  BY DEF Present, Absent

\* What the API server assigns, and what the preparations carry over, suits the
\* kind of the object.
LEMMA OwnedByKind ==
  ASSUME NEW k \in Kinds, NEW u \in OwnedBy(k)
  PROVE  /\ Assigned(k, u) \subseteq OwnedBy(k)
         /\ Unowned(k) \subseteq OwnedBy(k)
         /\ OwnedBy(k) \subseteq Owned
         /\ \A c \in OwnedBy(k) : Carry(k, c, u) \in OwnedBy(k)
  BY ValuesAssumption DEF Assigned, Unowned, OwnedBy, Owned, Carry, Kinds

\* The first and the other steps of an execution that has steps left.
LEMMA StepsLeft ==
  ASSUME NEW s \in Seq(Step), s # << >>
  PROVE  Head(s) \in Step /\ Tail(s) \in Seq(Step)
  BY HeadTailProperties

-----------------------------------------------------------------------------
(***************************************************************************)
(* What an execution knows.                                                *)
(***************************************************************************)

\* Between its Get and its Update, an execution that still has the stored
\* resourceVersion has seen the stored object, and has carried over what the
\* cluster owns of it.
Prepared(e) ==
  LET o == Object(e)
  IN  /\ Action(e) = "CreateOrUpdate"
      /\ snapshot[e] \in Stored
      /\ version[e][o] # "unset"
      /\ version[e][o] = "current" => store[o] = snapshot[e]
      /\ kind[o] \in {"Service", "Deployment"} /\ snapshot[e].owned \in Values
           => rendered[e][o].owned = snapshot[e].owned
      /\ kind[o] = "ServiceAccount"
           => snapshot[e].spec.meta # rendered[e][o].spec.meta

\* An execution that does not run has nothing left over.
ExecutionInv(e) ==
  /\ phase[e] = "idle" => todo[e] = << >> /\ rendered[e] = NoObjects
  /\ phase[e] # "idle" =>
       /\ todo[e] # << >>
       /\ rendered[e] \in [Objects -> Rendered]
  /\ phase[e] = "create" => Action(e) \in {"CreateOrUpdate", "CreateIfNotExist"}
  /\ phase[e] = "update" => Prepared(e)

IInv == TypeOK /\ \A e \in Executions : ExecutionInv(e)

\* The resourceVersions that execution x holds are told apart as before, or are
\* found to be out of date.
Remembers(x) ==
  \A q \in Objects :
    /\ version'[x][q] = "unset" => version[x][q] = "unset"
    /\ version'[x][q] = "current" =>
         version[x][q] = "current" /\ store'[q] = store[q]

Bystander(x) ==
  /\ phase'[x] = phase[x]
  /\ todo'[x] = todo[x]
  /\ rendered'[x] = rendered[x]
  /\ snapshot'[x] = snapshot[x]

\* The types of the variables that a write changes, and what it leaves to the
\* executions.
LEMMA WriteEffect ==
  ASSUME TypeOK, NEW o \in Objects, NEW new \in Stored \cup {Absent},
         phase' \in [Executions -> Phases], Write(o, new)
  PROVE  /\ store' \in [Objects -> Stored \cup {Absent}]
         /\ version' \in [Executions -> [Objects -> Versions]]
         /\ \A x \in Executions : phase'[x] # "idle" => Remembers(x)
  <1> USE DEF TypeOK
  <1>1. store' = [store EXCEPT ![o] = new]
    BY DEF Write
  <1> DEFINE V(x) == IF new # store[o] /\ version[x][o] = "current"
                     THEN [version[x] EXCEPT ![o] = "stale"] ELSE version[x]
  <1>2. version' = [x \in Executions |->
                      IF phase'[x] = "idle" THEN NoVersions ELSE V(x)]
    BY DEF Write, Keep
  <1>3. NoVersions \in [Objects -> Versions]
    BY DEF NoVersions, Versions
  <1>4. \A x \in Executions : V(x) \in [Objects -> Versions]
    BY DEF Versions
  <1>5. ASSUME NEW x \in Executions, phase'[x] # "idle"
        PROVE  Remembers(x)
    <2>1. version'[x] = V(x)
      BY <1>2, <1>5
    <2> HIDE DEF V
    <2> SUFFICES ASSUME NEW q \in Objects
                 PROVE  /\ version'[x][q] = "unset" => version[x][q] = "unset"
                        /\ version'[x][q] = "current" =>
                             version[x][q] = "current" /\ store'[q] = store[q]
      BY DEF Remembers
    <2>2. CASE q = o
      BY <1>1, <2>1, <2>2 DEF V
    <2>3. CASE q # o
      BY <1>1, <2>1, <2>3 DEF V
    <2> QED
      BY <2>2, <2>3
  <1> QED
    BY <1>1, <1>2, <1>3, <1>4, <1>5

\* The same for a step that writes nothing.
LEMMA NoWriteEffect ==
  ASSUME TypeOK, phase' \in [Executions -> Phases], NoWrite
  PROVE  /\ store' \in [Objects -> Stored \cup {Absent}]
         /\ version' \in [Executions -> [Objects -> Versions]]
         /\ \A x \in Executions : phase'[x] # "idle" => Remembers(x)
  <1>1. version' = [x \in Executions |->
                      IF phase'[x] = "idle" THEN NoVersions ELSE version[x]]
    BY DEF NoWrite, Keep
  <1>2. NoVersions \in [Objects -> Versions]
    BY DEF NoVersions, Versions
  <1> QED
    BY <1>1, <1>2 DEF TypeOK, NoWrite, Remembers

\* An execution that does nothing itself keeps its invariant.
LEMMA BystanderKeeps ==
  ASSUME TypeOK, NEW x \in Executions, ExecutionInv(x), Bystander(x),
         UNCHANGED kind, phase'[x] # "idle" => Remembers(x)
  PROVE  ExecutionInv(x)'
  <1>1. CASE phase[x] # "update"
    BY <1>1 DEF ExecutionInv, Bystander, Action, NoObjects
  <1>2. CASE phase[x] = "update"
    <2>1. /\ Prepared(x) /\ Remembers(x)
          /\ todo[x] # << >> /\ todo[x] \in Seq(Step)
      BY <1>2 DEF ExecutionInv, Bystander, TypeOK
    <2>2. Object(x) \in Objects /\ Object(x)' = Object(x) /\ Action(x)' = Action(x)
      BY <2>1, StepsLeft DEF Object, Action, Bystander, Step
    <2>3. Prepared(x)'
      BY <2>1, <2>2 DEF Prepared, Bystander, Remembers
    <2> QED
      BY <1>2, <2>3 DEF ExecutionInv, Bystander
  <1> QED
    BY <1>1, <1>2

-----------------------------------------------------------------------------
(***************************************************************************)
(* The steps of an execution.                                              *)
(***************************************************************************)

\* What the end of a step does to the execution that ran it; the others stand
\* by.
LEMMA StepDoneEffect ==
  ASSUME TypeOK, NEW e \in Executions, ExecutionInv(e), phase[e] # "idle",
         NEW objects \in [Objects -> Rendered], StepDone(e, objects)
  PROVE  /\ phase' \in [Executions -> Phases]
         /\ todo' \in [Executions -> Seq(Step)]
         /\ rendered' \in [Executions -> [Objects -> Rendered \cup {Absent}]]
         /\ snapshot' \in [Executions -> Stored \cup {Absent}]
         /\ outcome' \in [Executions -> {"none", "nil", "error"}]
         /\ ExecutionInv(e)'
         /\ \A x \in Executions \ {e} : Bystander(x)
         /\ rendered'[e] \in {objects, NoObjects}
  <1> USE DEF TypeOK, Phases
  <1>1. todo[e] # << >> /\ Tail(todo[e]) \in Seq(Step)
    BY StepsLeft DEF ExecutionInv
  <1>2. NoObjects \in [Objects -> Rendered \cup {Absent}]
    BY DEF NoObjects
  <1>3. CASE Tail(todo[e]) = << >>
    <2>1. /\ todo' = [todo EXCEPT ![e] = Tail(@)]
          /\ snapshot' = [snapshot EXCEPT ![e] = Absent]
          /\ phase' = [phase EXCEPT ![e] = "idle"]
          /\ outcome' = [outcome EXCEPT ![e] = "nil"]
          /\ rendered' = [rendered EXCEPT ![e] = NoObjects]
      BY <1>3 DEF StepDone
    <2>2. ExecutionInv(e)'
      BY <1>3, <2>1 DEF ExecutionInv, NoObjects
    <2> QED
      BY <1>1, <1>2, <2>1, <2>2 DEF Bystander
  <1>4. CASE Tail(todo[e]) # << >>
    <2>1. /\ todo' = [todo EXCEPT ![e] = Tail(@)]
          /\ snapshot' = [snapshot EXCEPT ![e] = Absent]
          /\ phase' = [phase EXCEPT ![e] = "ready"]
          /\ rendered' = [rendered EXCEPT ![e] = objects]
          /\ UNCHANGED outcome
      BY <1>4 DEF StepDone
    <2>2. objects \in [Objects -> Rendered \cup {Absent}]
      OBVIOUS
    <2> QED
      BY <1>1, <1>4, <2>1, <2>2 DEF ExecutionInv, Bystander
  <1> QED
    BY <1>3, <1>4

\* A step that fails ends its execution; the others stand by.
LEMMA StepFailsEffect ==
  ASSUME TypeOK, NEW e \in Executions, StepFails(e)
  PROVE  /\ phase' \in [Executions -> Phases]
         /\ todo' \in [Executions -> Seq(Step)]
         /\ rendered' \in [Executions -> [Objects -> Rendered \cup {Absent}]]
         /\ snapshot' \in [Executions -> Stored \cup {Absent}]
         /\ outcome' \in [Executions -> {"none", "nil", "error"}]
         /\ ExecutionInv(e)'
         /\ \A x \in Executions \ {e} : Bystander(x)
         /\ rendered'[e] = NoObjects
  <1>1. NoObjects \in [Objects -> Rendered \cup {Absent}]
    BY DEF NoObjects
  <1> QED
    BY <1>1 DEF StepFails, TypeOK, Phases, ExecutionInv, Bystander

\* What an execution writes is an object, and suits its kind.
LEMMA StoreEffect ==
  ASSUME TypeOK, NEW e \in Executions, NEW o \in Objects,
         rendered[e] \in [Objects -> Rendered],
         phase' \in [Executions -> Phases],
         \/ StoreCreated(e, o)
         \/ Present(o) /\ StoreUpdated(e, o)
         \/ Present(o) /\ StoreDeleted(o)
         \/ NoWrite
  PROVE  /\ store' \in [Objects -> Stored \cup {Absent}]
         /\ version' \in [Executions -> [Objects -> Versions]]
         /\ \A x \in Executions : phase'[x] # "idle" => Remembers(x)
         /\ \A q \in Objects :
              store'[q].present => store'[q].owned \in OwnedBy(kind[q])
  <1> DEFINE Result ==
        /\ store' \in [Objects -> Stored \cup {Absent}]
        /\ version' \in [Executions -> [Objects -> Versions]]
        /\ \A x \in Executions : phase'[x] # "idle" => Remembers(x)
        /\ \A q \in Objects :
             store'[q].present => store'[q].owned \in OwnedBy(kind[q])
  <1>1. rendered[e][o] \in Rendered /\ rendered[e][o].owned \in OwnedBy(kind[o])
    BY RenderedIsNotAbsent DEF TypeOK, OwnedOK
  <1>2. kind[o] \in Kinds /\ OwnedBy(kind[o]) \subseteq Owned
    BY <1>1, OwnedByKind DEF TypeOK
  <1>3. rendered[e][o].spec \in Manifest
    BY <1>1 DEF Rendered
  <1>4. \A new \in Stored \cup {Absent} :
          Write(o, new) /\ (new.present => new.owned \in OwnedBy(kind[o]))
            => Result
    <2> TAKE new \in Stored \cup {Absent}
    <2> HAVE Write(o, new) /\ (new.present => new.owned \in OwnedBy(kind[o]))
    <2>1. store' = [store EXCEPT ![o] = new]
      BY DEF Write
    <2> QED
      BY <2>1, WriteEffect DEF TypeOK, OwnedOK, Present
  <1> SUFFICES Result
    OBVIOUS
  <1> HIDE DEF Result
  <1>5. CASE StoreCreated(e, o)
    <2>1. PICK owned \in Assigned(kind[o], rendered[e][o].owned) :
            Write(o, [present |-> TRUE, spec |-> rendered[e][o].spec,
                      owned |-> owned, deleting |-> FALSE])
      BY <1>5 DEF StoreCreated
    <2>2. owned \in OwnedBy(kind[o]) /\ owned \in Owned
      BY <1>1, <1>2, OwnedByKind
    <2> DEFINE new == [present |-> TRUE, spec |-> rendered[e][o].spec,
                       owned |-> owned, deleting |-> FALSE]
    <2>3. new \in Stored /\ new.owned \in OwnedBy(kind[o])
      BY <1>3, <2>2 DEF Stored
    <2>4. Write(o, new)
      BY <2>1
    <2> HIDE DEF new
    <2> QED
      BY <1>4, <2>3, <2>4
  <1>6. CASE Present(o) /\ StoreUpdated(e, o)
    <2>1. CASE store[o].deleting
      <3>1. Write(o, Absent)
        BY <1>6, <2>1 DEF StoreUpdated
      <3>2. ~Absent.present
        BY DEF Absent
      <3> QED
        BY <1>4, <3>1, <3>2
    <2>2. CASE ~store[o].deleting
      <3>1. rendered[e][o].owned \in Owned
        BY <1>1, <1>2
      <3> DEFINE new == [present |-> TRUE, spec |-> rendered[e][o].spec,
                         owned |-> rendered[e][o].owned, deleting |-> FALSE]
      <3>2. new \in Stored /\ new.owned \in OwnedBy(kind[o])
        BY <1>1, <1>3, <3>1 DEF Stored
      <3>3. Write(o, new)
        BY <1>6, <2>2 DEF StoreUpdated
      <3> HIDE DEF new
      <3> QED
        BY <1>4, <3>2, <3>3
    <2> QED
      BY <2>1, <2>2
  <1>7. CASE Present(o) /\ StoreDeleted(o)
    <2>1. store[o] \in Stored /\ store[o].owned \in OwnedBy(kind[o])
      BY <1>7, PresentIsStored DEF TypeOK, OwnedOK
    <2> DEFINE new == [store[o] EXCEPT !.deleting = TRUE]
    <2>2. new \in Stored
      BY <2>1 DEF Stored
    <2>3. new.owned = store[o].owned
      BY <2>1 DEF Stored
    <2>4. Write(o, new)
      BY <1>7 DEF StoreDeleted
    <2> HIDE DEF new
    <2> QED
      BY <1>4, <2>1, <2>2, <2>3, <2>4
  <1>8. CASE NoWrite
    BY <1>8, NoWriteEffect DEF Result, NoWrite, TypeOK, OwnedOK, Present
  <1> QED
    BY <1>5, <1>6, <1>7, <1>8 DEF Result

\* A field of execution x's rendered objects suits its object's kind.
Suits(x) ==
  \A q \in Objects :
    rendered[x][q] # Absent => rendered[x][q].owned \in OwnedBy(kind[q])

\* A step keeps the invariant if every execution stands by or keeps its own.
LEMMA Assemble ==
  ASSUME IInv, UNCHANGED kind,
         /\ store' \in [Objects -> Stored \cup {Absent}]
         /\ desired' \in Manifest
         /\ calm' \in BOOLEAN
         /\ phase' \in [Executions -> Phases]
         /\ todo' \in [Executions -> Seq(Step)]
         /\ rendered' \in [Executions -> [Objects -> Rendered \cup {Absent}]]
         /\ version' \in [Executions -> [Objects -> Versions]]
         /\ snapshot' \in [Executions -> Stored \cup {Absent}]
         /\ outcome' \in [Executions -> {"none", "nil", "error"}],
         \A q \in Objects :
           store'[q].present => store'[q].owned \in OwnedBy(kind[q]),
         \A x \in Executions :
           \/ Bystander(x) /\ (phase'[x] # "idle" => Remembers(x))
           \/ ExecutionInv(x)' /\ Suits(x)'
  PROVE  IInv'
  <1>1. ASSUME NEW x \in Executions
        PROVE  ExecutionInv(x)' /\ Suits(x)'
    <2>1. CASE Bystander(x) /\ (phase'[x] # "idle" => Remembers(x))
      <3>1. ExecutionInv(x)'
        BY <2>1, BystanderKeeps DEF IInv
      <3>2. Suits(x)
        BY DEF IInv, TypeOK, OwnedOK, Suits
      <3>3. Suits(x)'
        BY <2>1, <3>2 DEF Suits, Bystander
      <3> QED
        BY <3>1, <3>3
    <2> QED
      BY <2>1
  <1>2. OwnedOK'
    BY <1>1 DEF OwnedOK, Suits, Present
  <1>3. TypeOK'
    BY <1>2 DEF IInv, TypeOK
  <1> QED
    BY <1>1, <1>3 DEF IInv

\* The end of a step, with what it wrote, keeps the invariant.
LEMMA EndKeeps ==
  ASSUME IInv, NEW e \in Executions, phase[e] # "idle", Rest,
         StepDone(e, rendered[e]) \/ StepFails(e),
         LET o == Object(e)
         IN  \/ StoreCreated(e, o)
             \/ Present(o) /\ StoreUpdated(e, o)
             \/ Present(o) /\ StoreDeleted(o)
             \/ NoWrite
  PROVE  IInv'
  <1>1. /\ TypeOK /\ ExecutionInv(e) /\ Suits(e)
        /\ rendered[e] \in [Objects -> Rendered]
        /\ todo[e] \in Seq(Step) /\ todo[e] # << >>
    BY DEF IInv, ExecutionInv, TypeOK, OwnedOK, Suits
  <1>2. Object(e) \in Objects
    BY <1>1, StepsLeft DEF Object, Step
  <1>3. /\ phase' \in [Executions -> Phases]
        /\ todo' \in [Executions -> Seq(Step)]
        /\ rendered' \in [Executions -> [Objects -> Rendered \cup {Absent}]]
        /\ snapshot' \in [Executions -> Stored \cup {Absent}]
        /\ outcome' \in [Executions -> {"none", "nil", "error"}]
        /\ ExecutionInv(e)'
        /\ \A x \in Executions \ {e} : Bystander(x)
        /\ rendered'[e] \in {rendered[e], NoObjects}
    <2>1. CASE StepDone(e, rendered[e])
      BY <1>1, <2>1, StepDoneEffect
    <2>2. CASE StepFails(e)
      BY <1>1, <2>2, StepFailsEffect
    <2> QED
      BY <2>1, <2>2
  <1>4. Suits(e)'
    BY <1>1, <1>3 DEF Suits, NoObjects, Rest
  <1>5. /\ store' \in [Objects -> Stored \cup {Absent}]
        /\ version' \in [Executions -> [Objects -> Versions]]
        /\ \A x \in Executions : phase'[x] # "idle" => Remembers(x)
        /\ \A q \in Objects :
             store'[q].present => store'[q].owned \in OwnedBy(kind[q])
    <2> DEFINE o == Object(e)
    <2>1. \/ StoreCreated(e, o)
          \/ Present(o) /\ StoreUpdated(e, o)
          \/ Present(o) /\ StoreDeleted(o)
          \/ NoWrite
      OBVIOUS
    <2>2. o \in Objects
      BY <1>2
    <2> HIDE DEF o
    <2> QED
      BY <1>1, <1>3, <2>1, <2>2, StoreEffect
  <1> QED
    BY <1>1, <1>3, <1>4, <1>5, Assemble DEF Rest, TypeOK

-----------------------------------------------------------------------------
(***************************************************************************)
(* The invariant.                                                          *)
(***************************************************************************)

\* The initial states satisfy the invariant.
LEMMA InitIInv == Init => IInv
  <1> SUFFICES ASSUME Init
               PROVE  IInv
    OBVIOUS
  <1>1. NoObjects \in [Objects -> Rendered \cup {Absent}]
    BY DEF NoObjects
  <1>2. NoVersions \in [Objects -> Versions]
    BY DEF NoVersions, Versions
  <1>3. OwnedOK
    BY DEF Init, OwnedOK, Present, Absent, NoObjects
  <1>4. TypeOK
    BY <1>1, <1>2, <1>3, DisturbedAssumption DEF Init, TypeOK, Phases
  <1> QED
    BY <1>4 DEF Init, IInv, ExecutionInv

\* An execution begins with the objects it has rendered.
LEMMA StartKeeps ==
  ASSUME IInv, NEW e \in Executions, Start(e)
  PROVE  IInv'
  <1>1. TypeOK
    BY DEF IInv
  <1>2. PICK p \in Plans : todo' = [todo EXCEPT ![e] = p]
    BY DEF Start
  <1>3. p \in Seq(Step) /\ p # << >>
    BY <1>2, PlansAssumption
  <1>4. PICK owned \in [Objects -> Owned] :
          /\ \A o \in Objects : owned[o] \in Unowned(kind[o])
          /\ rendered' = [rendered EXCEPT ![e] =
               [o \in Objects |-> [spec |-> desired, owned |-> owned[o]]]]
    BY DEF Start
  <1> DEFINE fresh == [o \in Objects |-> [spec |-> desired, owned |-> owned[o]]]
  <1>5. fresh \in [Objects -> Rendered]
    BY <1>1, <1>4 DEF Rendered, TypeOK
  <1>6. \A o \in Objects : fresh[o].owned \in OwnedBy(kind[o])
    BY <1>1, <1>4 DEF Unowned, OwnedBy, Owned, TypeOK
  <1>7. rendered' = [rendered EXCEPT ![e] = fresh]
    BY <1>4
  <1> HIDE DEF fresh
  <1>8. fresh \in [Objects -> Rendered \cup {Absent}]
    BY <1>5
  <1>9. NoVersions \in [Objects -> Versions]
    BY DEF NoVersions, Versions
  <1>10. /\ phase' = [phase EXCEPT ![e] = "ready"]
         /\ version' = [version EXCEPT ![e] = NoVersions]
         /\ outcome' = [outcome EXCEPT ![e] = "none"]
         /\ UNCHANGED <<store, kind, desired, calm, snapshot>>
    BY DEF Start
  <1>11. ExecutionInv(e)' /\ Suits(e)'
    BY <1>1, <1>2, <1>3, <1>5, <1>6, <1>7, <1>10
       DEF ExecutionInv, Suits, TypeOK
  <1>12. \A x \in Executions \ {e} : Bystander(x) /\ Remembers(x)
    BY <1>1, <1>2, <1>7, <1>10 DEF Bystander, Remembers, TypeOK
  <1>13. /\ phase' \in [Executions -> Phases]
         /\ todo' \in [Executions -> Seq(Step)]
         /\ rendered' \in [Executions -> [Objects -> Rendered \cup {Absent}]]
         /\ version' \in [Executions -> [Objects -> Versions]]
         /\ outcome' \in [Executions -> {"none", "nil", "error"}]
    BY <1>1, <1>2, <1>3, <1>7, <1>8, <1>9, <1>10 DEF TypeOK, Phases
  <1> QED
    BY <1>1, <1>10, <1>11, <1>12, <1>13, Assemble DEF TypeOK, OwnedOK, Present

\* The first half of CreateOrUpdate leaves a prepared object, or ends the step.
LEMMA GetFoundKeeps ==
  ASSUME IInv, NEW e \in Executions, GetFound(e)
  PROVE  IInv'
  <1> DEFINE o == Object(e)
             prepared == [rendered[e][o] EXCEPT
                            !.owned = Carry(kind[o], store[o].owned, @)]
             objects  == [rendered[e] EXCEPT ![o] = prepared]
             versions == [version EXCEPT ![e][o] = VersionOfCurrent(@)]
  <1>1. /\ TypeOK /\ ExecutionInv(e) /\ Suits(e)
        /\ phase[e] = "ready" /\ Action(e) = "CreateOrUpdate" /\ Present(o)
        /\ rendered[e] \in [Objects -> Rendered]
        /\ todo[e] \in Seq(Step) /\ todo[e] # << >>
    BY DEF IInv, ExecutionInv, TypeOK, OwnedOK, Suits, GetFound
  <1>2. o \in Objects
    BY <1>1, StepsLeft DEF Object, Step
  <1>3. /\ store[o] \in Stored
        /\ kind[o] \in Kinds
        /\ store[o].owned \in OwnedBy(kind[o])
    BY <1>1, <1>2, PresentIsStored DEF TypeOK, OwnedOK
  <1>4. /\ rendered[e][o] \in Rendered
        /\ rendered[e][o].owned \in OwnedBy(kind[o])
    BY <1>1, <1>2, RenderedIsNotAbsent DEF Suits
  <1>5. /\ prepared \in Rendered
        /\ prepared.owned = Carry(kind[o], store[o].owned, rendered[e][o].owned)
        /\ prepared.owned \in OwnedBy(kind[o])
        /\ prepared.spec = rendered[e][o].spec
    <2>1. Carry(kind[o], store[o].owned, rendered[e][o].owned)
            \in OwnedBy(kind[o]) \cap Owned
      BY <1>3, <1>4, OwnedByKind
    <2> QED
      BY <1>4, <2>1 DEF Rendered
  <1>6. /\ store[o].owned \in Values /\ kind[o] \in {"Service", "Deployment"}
             => prepared.owned = store[o].owned
        /\ kind[o] = "ServiceAccount" /\ NeedsUpdate(kind[o], store[o], prepared)
             => store[o].spec.meta # prepared.spec.meta
    <2>1. store[o].owned \in Values =>
            store[o].owned # "unset" /\ store[o].owned # "bare"
      BY ValuesAssumption
    <2> QED
      BY <1>5, <2>1 DEF Carry, NeedsUpdate
  <1>7. /\ IF NeedsUpdate(kind[o], store[o], prepared)
           THEN /\ phase' = [phase EXCEPT ![e] = "update"]
                /\ snapshot' = [snapshot EXCEPT ![e] = store[o]]
                /\ rendered' = [rendered EXCEPT ![e] = objects]
                /\ UNCHANGED <<todo, outcome>>
           ELSE StepDone(e, objects)
        /\ Keep(versions)
        /\ UNCHANGED store
        /\ Rest
    BY DEF GetFound
  <1> HIDE DEF prepared
  <1>8. /\ objects \in [Objects -> Rendered]
        /\ objects[o] = prepared
        /\ \A q \in Objects : objects[q].owned \in OwnedBy(kind[q])
    BY <1>1, <1>2, <1>4, <1>5, RenderedIsNotAbsent DEF Suits
  <1>9. /\ versions \in [Executions -> [Objects -> Versions]]
        /\ versions[e][o] = "current"
        /\ \A x \in Executions \ {e} : versions[x] = version[x]
    BY <1>1, <1>2 DEF TypeOK, Versions, VersionOfCurrent
  <1> HIDE DEF o, objects, versions
  <1>10. ASSUME phase' \in [Executions -> Phases]
         PROVE  /\ version' \in [Executions -> [Objects -> Versions]]
                /\ \A x \in Executions :
                     phase'[x] # "idle" => version'[x] = versions[x]
                /\ \A x \in Executions \ {e} : phase'[x] # "idle" => Remembers(x)
    <2>1. NoVersions \in [Objects -> Versions]
      BY DEF NoVersions, Versions
    <2> QED
      BY <1>7, <1>9, <1>10, <2>1 DEF Keep, Remembers
  <1>11. CASE NeedsUpdate(kind[o], store[o], prepared)
    <2>1. /\ phase' = [phase EXCEPT ![e] = "update"]
          /\ snapshot' = [snapshot EXCEPT ![e] = store[o]]
          /\ rendered' = [rendered EXCEPT ![e] = objects]
          /\ UNCHANGED <<todo, outcome>>
      BY <1>7, <1>11
    <2>2. objects \in [Objects -> Rendered \cup {Absent}]
      BY <1>8
    <2>3. /\ phase' \in [Executions -> Phases]
          /\ snapshot' \in [Executions -> Stored \cup {Absent}]
          /\ rendered' \in [Executions -> [Objects -> Rendered \cup {Absent}]]
          /\ phase'[e] = "update" /\ snapshot'[e] = store[o]
          /\ rendered'[e] = objects /\ todo'[e] = todo[e]
          /\ UNCHANGED <<kind, desired, calm, store>>
      BY <1>1, <1>3, <1>7, <2>1, <2>2 DEF TypeOK, Phases, Rest
    <2>4. version'[e][o] = "current"
      BY <1>9, <1>10, <2>3
    <2>5. Object(e)' = o /\ Action(e)' = Action(e)
      BY <2>3 DEF Object, Action, o
    <2>6. Prepared(e)'
      BY <1>1, <1>3, <1>6, <1>8, <1>11, <2>3, <2>4, <2>5 DEF Prepared
    <2>7. ExecutionInv(e)' /\ Suits(e)'
      BY <1>1, <1>8, <2>3, <2>6 DEF ExecutionInv, Suits
    <2>8. \A x \in Executions \ {e} :
            Bystander(x) /\ (phase'[x] # "idle" => Remembers(x))
      BY <1>1, <1>10, <2>1, <2>3 DEF Bystander, TypeOK
    <2> QED
      BY <1>1, <1>10, <2>1, <2>3, <2>7, <2>8, Assemble
         DEF TypeOK, OwnedOK, Present
  <1>12. CASE ~NeedsUpdate(kind[o], store[o], prepared)
    <2>1. StepDone(e, objects)
      BY <1>7, <1>12
    <2>2. /\ phase' \in [Executions -> Phases]
          /\ todo' \in [Executions -> Seq(Step)]
          /\ rendered' \in [Executions -> [Objects -> Rendered \cup {Absent}]]
          /\ snapshot' \in [Executions -> Stored \cup {Absent}]
          /\ outcome' \in [Executions -> {"none", "nil", "error"}]
          /\ ExecutionInv(e)'
          /\ \A x \in Executions \ {e} : Bystander(x)
          /\ rendered'[e] \in {objects, NoObjects}
      BY <1>1, <1>8, <2>1, StepDoneEffect
    <2>3. Suits(e)'
      BY <1>7, <1>8, <2>2 DEF Suits, NoObjects, Rest
    <2> QED
      BY <1>1, <1>7, <1>10, <2>2, <2>3, Assemble
         DEF TypeOK, OwnedOK, Present, Rest
  <1> QED
    BY <1>11, <1>12

\* Executions stand by while the cluster around them changes an object.
LEMMA ClusterKeeps ==
  ASSUME IInv, NEW o \in Objects,
         OthersWrite(o) \/ ControllerWrites(o) \/ Collect(o)
  PROVE  IInv'
  <1>1. /\ TypeOK
        /\ UNCHANGED <<execVars, kind, desired, calm>>
        /\ kind[o] \in Kinds
    BY DEF IInv, TypeOK, OthersWrite, ControllerWrites, Collect
  <1>2. phase' \in [Executions -> Phases]
    BY <1>1 DEF execVars, TypeOK
  <1>3. \A new \in Stored \cup {Absent} :
          Write(o, new) /\ (new.present => new.owned \in OwnedBy(kind[o])) => IInv'
    <2> TAKE new \in Stored \cup {Absent}
    <2> HAVE Write(o, new) /\ (new.present => new.owned \in OwnedBy(kind[o]))
    <2>1. store' = [store EXCEPT ![o] = new]
      BY DEF Write
    <2>2. \A q \in Objects :
            store'[q].present => store'[q].owned \in OwnedBy(kind[q])
      BY <1>1, <2>1 DEF TypeOK, OwnedOK, Present
    <2>3. /\ store' \in [Objects -> Stored \cup {Absent}]
          /\ version' \in [Executions -> [Objects -> Versions]]
          /\ \A x \in Executions : phase'[x] # "idle" => Remembers(x)
      BY <1>1, <1>2, WriteEffect
    <2> QED
      BY <1>1, <2>2, <2>3, Assemble DEF Bystander, execVars, TypeOK
  <1>4. ~Absent.present
    BY DEF Absent
  <1>5. ASSUME Present(o)
        PROVE  store[o] \in Stored /\ store[o].owned \in OwnedBy(kind[o])
    BY <1>1, <1>5, PresentIsStored DEF TypeOK, OwnedOK
  <1>6. CASE Write(o, Absent)
    BY <1>3, <1>4, <1>6
  <1>7. ASSUME ~Present(o), NEW spec \in Manifest, NEW owned \in Unowned(kind[o]),
               NEW assigned \in Assigned(kind[o], owned),
               Write(o, [present |-> TRUE, spec |-> spec, owned |-> assigned,
                         deleting |-> FALSE])
        PROVE  IInv'
    <2> DEFINE new == [present |-> TRUE, spec |-> spec, owned |-> assigned,
                       deleting |-> FALSE]
    <2>1. assigned \in OwnedBy(kind[o]) /\ OwnedBy(kind[o]) \subseteq Owned
      <3>1. "unset" \in OwnedBy(kind[o])
        BY DEF OwnedBy, Owned
      <3>2. owned \in OwnedBy(kind[o])
        BY <1>1, <1>7, <3>1, OwnedByKind
      <3> QED
        BY <1>1, <1>7, <3>2, OwnedByKind
    <2>2. new \in Stored /\ new.owned \in OwnedBy(kind[o])
      BY <2>1 DEF Stored
    <2>3. Write(o, new)
      BY <1>7
    <2> HIDE DEF new
    <2> QED
      BY <1>3, <2>2, <2>3
  <1>8. ASSUME Present(o), NEW spec \in Manifest,
               Write(o, [store[o] EXCEPT !.spec = spec])
        PROVE  IInv'
    <2> DEFINE new == [store[o] EXCEPT !.spec = spec]
    <2>1. new \in Stored /\ new.owned = store[o].owned
      BY <1>5, <1>8 DEF Stored
    <2>2. Write(o, new)
      BY <1>8
    <2> HIDE DEF new
    <2> QED
      BY <1>3, <1>5, <1>8, <2>1, <2>2
  <1>9. CASE Present(o) /\ StoreDeleted(o)
    <2> DEFINE new == [store[o] EXCEPT !.deleting = TRUE]
    <2>1. new \in Stored /\ new.owned = store[o].owned
      BY <1>5, <1>9 DEF Stored
    <2>2. Write(o, new)
      BY <1>9 DEF StoreDeleted
    <2> HIDE DEF new
    <2> QED
      BY <1>3, <1>5, <1>9, <2>1, <2>2
  <1>10. ASSUME Present(o), kind[o] = "Deployment", NEW r \in Values,
                Write(o, [store[o] EXCEPT !.owned = r])
         PROVE  IInv'
    <2> DEFINE new == [store[o] EXCEPT !.owned = r]
    <2>1. r \in OwnedBy(kind[o]) /\ r \in Owned
      BY <1>10 DEF OwnedBy, Owned
    <2>2. new \in Stored /\ new.owned \in OwnedBy(kind[o])
      BY <1>5, <1>10, <2>1 DEF Stored
    <2>3. Write(o, new)
      BY <1>10
    <2> HIDE DEF new
    <2> QED
      BY <1>3, <2>2, <2>3
  <1>11. CASE OthersWrite(o)
    BY <1>6, <1>7, <1>8, <1>9, <1>11 DEF OthersWrite
  <1>12. CASE ControllerWrites(o)
    BY <1>10, <1>12 DEF ControllerWrites
  <1>13. CASE Collect(o)
    BY <1>6, <1>13 DEF Collect
  <1> QED
    BY <1>11, <1>12, <1>13

\* The invariant is inductive.
LEMMA NextIInv == IInv /\ [Next]_vars => IInv'
  <1> SUFFICES ASSUME IInv, [Next]_vars
               PROVE  IInv'
    OBVIOUS
  <1>1. ASSUME NEW e \in Executions, Start(e)
        PROVE  IInv'
    BY <1>1, StartKeeps
  <1>2. ASSUME NEW e \in Executions, GetNotFound(e)
        PROVE  IInv'
    <2>1. /\ phase[e] = "ready"
          /\ phase' = [phase EXCEPT ![e] = "create"]
          /\ UNCHANGED <<store, version, todo, rendered, snapshot, outcome>>
          /\ UNCHANGED <<kind, desired, calm>>
      BY <1>2 DEF GetNotFound, Rest
    <2>2. TypeOK /\ ExecutionInv(e) /\ Suits(e)
      BY DEF IInv, TypeOK, OwnedOK, Suits
    <2>3. phase' \in [Executions -> Phases]
      BY <2>1, <2>2 DEF TypeOK, Phases
    <2>4. ExecutionInv(e)' /\ Suits(e)'
      BY <1>2, <2>1, <2>2 DEF ExecutionInv, Suits, TypeOK, GetNotFound, Action
    <2>5. \A x \in Executions \ {e} : Bystander(x) /\ Remembers(x)
      BY <2>1, <2>2 DEF Bystander, Remembers, TypeOK
    <2> QED
      BY <2>1, <2>2, <2>3, <2>4, <2>5, Assemble DEF TypeOK, OwnedOK, Present
  <1>3. ASSUME NEW e \in Executions, GetFound(e)
        PROVE  IInv'
    BY <1>3, GetFoundKeeps
  <1>4. ASSUME NEW e \in Executions, GetExisting(e)
        PROVE  IInv'
    BY <1>4, EndKeeps DEF GetExisting
  <1>5. ASSUME NEW e \in Executions, Create(e)
        PROVE  IInv'
    BY <1>5, EndKeeps DEF Create
  <1>6. ASSUME NEW e \in Executions, Update(e)
        PROVE  IInv'
    BY <1>6, EndKeeps DEF Update, UpdateAccepted
  <1>7. ASSUME NEW e \in Executions, Delete(e)
        PROVE  IInv'
    BY <1>7, EndKeeps DEF Delete
  <1>8. ASSUME NEW e \in Executions, CallFails(e)
        PROVE  IInv'
    BY <1>8, EndKeeps DEF CallFails, UpdateAccepted
  <1>9. ASSUME NEW o \in Objects, OthersWrite(o) \/ ControllerWrites(o) \/ Collect(o)
        PROVE  IInv'
    BY <1>9, ClusterKeeps
  <1>10. CASE ChangeConfig \/ BecomeCalm
    <2>1. /\ UNCHANGED <<store, version, phase, todo, rendered, snapshot, outcome,
                         kind>>
          /\ desired' \in Manifest /\ calm' \in BOOLEAN
      BY <1>10 DEF ChangeConfig, BecomeCalm, execVars, IInv, TypeOK
    <2>2. \A x \in Executions : Bystander(x) /\ Remembers(x)
      BY <2>1 DEF Bystander, Remembers
    <2> QED
      BY <2>1, <2>2, Assemble DEF IInv, TypeOK, OwnedOK, Present
  <1>11. CASE Crash
    <2>1. /\ NoObjects \in [Objects -> Rendered \cup {Absent}]
          /\ NoVersions \in [Objects -> Versions]
      BY DEF NoObjects, NoVersions, Versions
    <2>2. /\ phase' = [e \in Executions |-> "idle"]
          /\ todo' = [e \in Executions |-> << >>]
          /\ snapshot' = [e \in Executions |-> Absent]
          /\ outcome' = [e \in Executions |-> "none"]
          /\ rendered' = [e \in Executions |-> NoObjects]
          /\ version' = [e \in Executions |-> NoVersions]
          /\ UNCHANGED <<store, kind, desired, calm>>
      BY <1>11 DEF Crash
    <2>3. \A x \in Executions : ExecutionInv(x)' /\ Suits(x)'
      BY <2>2 DEF ExecutionInv, Suits, NoObjects
    <2>4. /\ phase' \in [Executions -> Phases]
          /\ todo' \in [Executions -> Seq(Step)]
          /\ snapshot' \in [Executions -> Stored \cup {Absent}]
          /\ outcome' \in [Executions -> {"none", "nil", "error"}]
          /\ rendered' \in [Executions -> [Objects -> Rendered \cup {Absent}]]
          /\ version' \in [Executions -> [Objects -> Versions]]
      BY <2>1, <2>2 DEF Phases
    <2> QED
      BY <2>2, <2>3, <2>4, Assemble DEF IInv, TypeOK, OwnedOK, Present
  <1>12. CASE UNCHANGED vars
    <2>1. \A x \in Executions : Bystander(x) /\ Remembers(x)
      BY <1>12 DEF vars, execVars, Bystander, Remembers
    <2> QED
      BY <1>12, <2>1, Assemble DEF vars, execVars, IInv, TypeOK, OwnedOK, Present
  <1> QED
    BY <1>1, <1>2, <1>3, <1>4, <1>5, <1>6, <1>7, <1>8, <1>9, <1>10, <1>11, <1>12
       DEF Next, Execute, Environment

\* The invariant holds in every behavior.
LEMMA Invariance == Spec => []IInv
  BY InitIInv, NextIInv, PTL DEF Spec

\* Objects, rendered or stored, and what the executions know of them keep their
\* types; the field that the cluster owns suits the kind of the object.
THEOREM TypeCorrect == Spec => []TypeOK
  <1>1. IInv => TypeOK
    BY DEF IInv
  <1> QED
    BY <1>1, Invariance, PTL

-----------------------------------------------------------------------------
(***************************************************************************)
(* What a step may do.                                                     *)
(***************************************************************************)

\* While execution e runs, only its own steps and a crash change where it is.
LEMMA OthersLeaveAlone ==
  ASSUME IInv, NEW e \in Executions, phase[e] # "idle", [Next]_vars
  PROVE  \/ Execute(e) \/ CallFails(e) \/ Crash
         \/ phase'[e] = phase[e] /\ todo'[e] = todo[e]
  <1> USE DEF IInv, TypeOK
  <1>1. ASSUME NEW x \in Executions, x # e, Start(x) \/ Execute(x) \/ CallFails(x)
        PROVE  phase'[e] = phase[e] /\ todo'[e] = todo[e]
    <2>1. CASE Start(x)
      BY <1>1, <2>1 DEF Start
    <2>2. ASSUME NEW objects, StepDone(x, objects)
          PROVE  phase'[e] = phase[e] /\ todo'[e] = todo[e]
      BY <1>1, <2>2 DEF StepDone
    <2>3. CASE StepFails(x)
      BY <1>1, <2>3 DEF StepFails
    <2>4. CASE GetFound(x)
      BY <1>1, <2>4 DEF GetFound, StepDone
    <2>5. CASE GetNotFound(x)
      BY <1>1, <2>5 DEF GetNotFound
    <2>6. CASE GetExisting(x) \/ Create(x) \/ Update(x) \/ Delete(x) \/ CallFails(x)
      <3>1. StepDone(x, rendered[x]) \/ StepFails(x)
        BY <2>6 DEF GetExisting, Create, Update, Delete, CallFails
      <3>2. CASE StepDone(x, rendered[x])
        BY <1>1, <3>2 DEF StepDone
      <3> QED
        BY <2>3, <3>1, <3>2
    <2> QED
      BY <1>1, <2>1, <2>4, <2>5, <2>6 DEF Execute
  <1>2. CASE Start(e)
    BY <1>2 DEF Start
  <1>3. ASSUME NEW o \in Objects, OthersWrite(o) \/ ControllerWrites(o) \/ Collect(o)
        PROVE  phase'[e] = phase[e] /\ todo'[e] = todo[e]
    BY <1>3 DEF OthersWrite, ControllerWrites, Collect, execVars
  <1>4. CASE ChangeConfig \/ BecomeCalm
    BY <1>4 DEF ChangeConfig, BecomeCalm, execVars
  <1>5. CASE UNCHANGED vars
    BY <1>5 DEF vars, execVars
  <1> QED
    BY <1>1, <1>2, <1>3, <1>4, <1>5 DEF Next, Environment

\* What an Update that changes the object overwrites, and with what.
LEMMA OverwriteEffect ==
  ASSUME IInv, [Next]_vars, NEW e \in Executions, Overwrites(e)
  PROVE  LET o == Object(e)
         IN  /\ o \in Objects
             /\ Prepared(e)
             /\ store[o] = snapshot[e]
             /\ store'[o] = IF store[o].deleting THEN Absent
                            ELSE [present |-> TRUE, spec |-> rendered[e][o].spec,
                                  owned |-> rendered[e][o].owned,
                                  deleting |-> FALSE]
  <1> DEFINE o == Object(e)
             new == IF store[o].deleting THEN Absent
                    ELSE [present |-> TRUE, spec |-> rendered[e][o].spec,
                          owned |-> rendered[e][o].owned, deleting |-> FALSE]
  <1>1. /\ TypeOK /\ ExecutionInv(e) /\ phase[e] = "update"
        /\ phase'[e] # "update" /\ store'[o] # store[o]
    BY DEF IInv, Overwrites
  <1>2. Prepared(e) /\ o \in Objects
    BY <1>1, StepsLeft DEF ExecutionInv, TypeOK, Object, Step
  <1>3. Execute(e) \/ CallFails(e)
    BY <1>1, OthersLeaveAlone DEF Crash
  <1>4. UpdateAccepted(e, o) /\ StoreUpdated(e, o)
    <2>1. CASE Execute(e)
      BY <1>1, <2>1 DEF Execute, GetNotFound, GetFound, GetExisting, Create,
                        Update, Delete, NoWrite
    <2>2. CASE CallFails(e)
      BY <1>1, <2>2 DEF CallFails, NoWrite
    <2> QED
      BY <1>3, <2>1, <2>2
  <1>5. version[e][o] = "current"
    BY <1>1, <1>2, <1>4 DEF UpdateAccepted, Prepared, TypeOK, Versions
  <1>6. Write(o, new)
    BY <1>4 DEF StoreUpdated
  <1> HIDE DEF new
  <1>7. store'[o] = new
    BY <1>1, <1>2, <1>6 DEF Write, TypeOK
  <1> QED
    BY <1>2, <1>5, <1>7 DEF Prepared, new

\* An update overwrites the object that its Get returned and no other version of
\* it, for any number of executions and other writers.
THEOREM NoUpdateIsLost == Spec => NoLostUpdate
  <1>1. IInv /\ [Next]_vars =>
          \A e \in Executions : Overwrites(e) => snapshot[e] = store[Object(e)]
    BY OverwriteEffect
  <1> QED
    BY <1>1, Invariance, PTL DEF Spec, NoLostUpdate

\* An update leaves the clusterIP of a Service and the revision of a Deployment
\* as it finds them.
THEOREM OwnedStays == Spec => OwnedIsKept
  <1> DEFINE Kept(e) ==
        LET old == store[Object(e)]
            new == store'[Object(e)]
        IN  Overwrites(e) /\ new.present /\ old.owned \in Values
              => new.owned = old.owned
  <1>1. ASSUME IInv, [Next]_vars, NEW e \in Executions
        PROVE  Kept(e)
    <2> SUFFICES ASSUME Overwrites(e), store'[Object(e)].present,
                        store[Object(e)].owned \in Values
                 PROVE  store'[Object(e)].owned = store[Object(e)].owned
      OBVIOUS
    <2> DEFINE o == Object(e)
    <2>1. /\ o \in Objects /\ Prepared(e) /\ store[o] = snapshot[e]
          /\ store'[o] = IF store[o].deleting THEN Absent
                         ELSE [present |-> TRUE, spec |-> rendered[e][o].spec,
                               owned |-> rendered[e][o].owned,
                               deleting |-> FALSE]
      BY <1>1, OverwriteEffect
    <2>2. store'[o].owned = rendered[e][o].owned
      BY <2>1 DEF Absent
    <2>3. snapshot[e].owned \in OwnedBy(kind[o]) /\ kind[o] \in Kinds
      BY <1>1, <2>1 DEF IInv, TypeOK, OwnedOK, Present, Prepared, Stored
    <2>4. kind[o] \in {"Service", "Deployment"}
      BY <2>1, <2>3, ValuesAssumption DEF OwnedBy, Kinds
    <2> QED
      BY <2>1, <2>2, <2>4 DEF Prepared
  <1>2. IInv /\ [Next]_vars => \A e \in Executions : Kept(e)
    BY <1>1
  <1> QED
    BY <1>2, Invariance, PTL DEF Spec, OwnedIsKept

\* A CreateOrUpdate that returns nil leaves the object as it was rendered, unless
\* it was already being deleted.
THEOREM UpsertIsEffective == Spec => UpsertTakesEffect
  <1> DEFINE Effective(e) ==
        LET o == Object(e)
        IN  Upserts(e) /\ ~(Present(o) /\ store[o].deleting)
              => LooksLike(o, store'[o], rendered[e][o].spec)
  <1>1. ASSUME IInv, [Next]_vars, NEW e \in Executions
        PROVE  Effective(e)
    <2> DEFINE o == Object(e)
    <2> SUFFICES ASSUME Upserts(e), ~(Present(o) /\ store[o].deleting)
                 PROVE  LooksLike(o, store'[o], rendered[e][o].spec)
      OBVIOUS
    <2>1. /\ TypeOK /\ ExecutionInv(e)
          /\ phase[e] # "idle" /\ Action(e) = "CreateOrUpdate"
          /\ todo'[e] # todo[e] /\ outcome'[e] # "error"
          /\ phase'[e] # "idle" \/ outcome'[e] = "nil"
      BY <1>1 DEF IInv, Upserts
    <2>2. /\ rendered[e] \in [Objects -> Rendered]
          /\ o \in Objects
      BY <2>1, StepsLeft DEF ExecutionInv, TypeOK, Object, Step
    <2>3. ~StepFails(e)
      BY <2>1 DEF StepFails, TypeOK
    <2>4. Execute(e)
      <3>1. Execute(e) \/ CallFails(e) \/ Crash
        BY <1>1, <2>1, OthersLeaveAlone
      <3>2. ~Crash
        BY <2>1 DEF Crash
      <3> QED
        BY <2>3, <3>1, <3>2 DEF CallFails
    <2>5. \A new : Write(o, new) => store'[o] = new
      BY <2>1, <2>2 DEF Write, TypeOK
    <2>6. CASE GetFound(e)
      <3> DEFINE prepared == [rendered[e][o] EXCEPT
                                !.owned = Carry(kind[o], store[o].owned, @)]
      <3>1. ~NeedsUpdate(kind[o], store[o], prepared)
        BY <2>1, <2>6 DEF GetFound
      <3>2. prepared.spec = rendered[e][o].spec
        BY <2>2 DEF Rendered
      <3>3. Present(o) /\ store'[o] = store[o]
        BY <2>6 DEF GetFound
      <3>4. kind[o] = "ServiceAccount" /\ store[o].spec.meta = prepared.spec.meta
        BY <3>1 DEF NeedsUpdate
      <3> QED
        BY <3>2, <3>3, <3>4 DEF LooksLike, Present
    <2>7. CASE Create(e)
      <3>1. StoreCreated(e, o)
        BY <2>3, <2>7 DEF Create
      <3>2. PICK owned \in Assigned(kind[o], rendered[e][o].owned) :
              Write(o, [present |-> TRUE, spec |-> rendered[e][o].spec,
                        owned |-> owned, deleting |-> FALSE])
        BY <3>1 DEF StoreCreated
      <3>3. store'[o] = [present |-> TRUE, spec |-> rendered[e][o].spec,
                         owned |-> owned, deleting |-> FALSE]
        BY <2>5, <3>2
      <3> QED
        BY <3>3 DEF LooksLike
    <2>8. CASE Update(e)
      <3>1. UpdateAccepted(e, o) /\ StoreUpdated(e, o)
        BY <2>3, <2>8 DEF Update
      <3>2. Write(o, [present |-> TRUE, spec |-> rendered[e][o].spec,
                      owned |-> rendered[e][o].owned, deleting |-> FALSE])
        BY <3>1 DEF StoreUpdated, UpdateAccepted
      <3>3. store'[o] = [present |-> TRUE, spec |-> rendered[e][o].spec,
                         owned |-> rendered[e][o].owned, deleting |-> FALSE]
        BY <2>5, <3>2
      <3> QED
        BY <3>3 DEF LooksLike
    <2>9. CASE GetNotFound(e) \/ GetExisting(e) \/ Delete(e)
      BY <2>1, <2>9 DEF GetNotFound, GetExisting, Delete
    <2> QED
      BY <2>4, <2>6, <2>7, <2>8, <2>9 DEF Execute
  <1>2. IInv /\ [Next]_vars => \A e \in Executions : Effective(e)
    BY <1>1
  <1> QED
    BY <1>2, Invariance, PTL DEF Spec, UpsertTakesEffect

-----------------------------------------------------------------------------
(***************************************************************************)
(* The actions implement AtomicActions.                                    *)
(***************************************************************************)

\* What an execution renders its objects to, with and without objects.
LEMMA ContentOf ==
  ASSUME NEW e \in Executions
  PROVE  /\ rendered[e] = NoObjects => Content(e) = Atomic!Nothing
         /\ rendered'[e] = NoObjects => Content(e)' = Atomic!Nothing
         /\ rendered[e] \in [Objects -> Rendered] =>
              Content(e) = [o \in Objects |-> rendered[e][o].spec]
         /\ rendered'[e] \in [Objects -> Rendered] =>
              Content(e)' = [o \in Objects |-> rendered'[e][o].spec]
  BY RenderedIsNotAbsent DEF Content, NoObjects, Atomic!Nothing

\* One execution's objects change.
LEMMA ContentElsewhere ==
  ASSUME NEW e \in Executions, NEW r, rendered' = [rendered EXCEPT ![e] = r],
         TypeOK
  PROVE  [x \in Executions |-> Content(x)]' =
           [[x \in Executions |-> Content(x)] EXCEPT ![e] = Content(e)']
  <1>1. \A x \in Executions \ {e} : Content(x)' = Content(x)
    BY DEF TypeOK, Content
  <1> HIDE DEF Content
  <1> QED
    BY <1>1

\* A step that fails ends the execution.
LEMMA FailureEnds ==
  ASSUME TypeOK, NEW e \in Executions, StepFails(e)
  PROVE  Atomic!Ends(e, "error")
  <1>1. /\ todo' = [todo EXCEPT ![e] = << >>]
        /\ outcome' = [outcome EXCEPT ![e] = "error"]
        /\ rendered' = [rendered EXCEPT ![e] = NoObjects]
    BY DEF StepFails
  <1>2. Content(e)' = Atomic!Nothing
    BY <1>1, ContentOf DEF TypeOK
  <1> QED
    BY <1>1, <1>2, ContentElsewhere DEF Atomic!Ends

\* How a step that returns nil leaves its execution, with rendered objects that
\* have the same contents.
LEMMA StepDoneIsAtomic ==
  ASSUME TypeOK, NEW e \in Executions, rendered[e] \in [Objects -> Rendered],
         NEW objects \in [Objects -> Rendered],
         \A o \in Objects : objects[o].spec = rendered[e][o].spec,
         StepDone(e, objects)
  PROVE  IF Tail(todo[e]) = << >> THEN Atomic!Ends(e, "nil")
         ELSE /\ todo' = [todo EXCEPT ![e] = Tail(@)]
              /\ UNCHANGED <<[x \in Executions |-> Content(x)], outcome>>
  <1>1. CASE Tail(todo[e]) = << >>
    <2>1. /\ todo' = [todo EXCEPT ![e] = << >>]
          /\ outcome' = [outcome EXCEPT ![e] = "nil"]
          /\ rendered' = [rendered EXCEPT ![e] = NoObjects]
      BY <1>1 DEF StepDone
    <2>2. Content(e)' = Atomic!Nothing
      BY <2>1, ContentOf DEF TypeOK
    <2> QED
      BY <1>1, <2>1, <2>2, ContentElsewhere DEF Atomic!Ends
  <1>2. CASE Tail(todo[e]) # << >>
    <2>1. /\ todo' = [todo EXCEPT ![e] = Tail(@)]
          /\ outcome' = outcome
          /\ rendered' = [rendered EXCEPT ![e] = objects]
      BY <1>2 DEF StepDone
    <2>2. Content(e)' = Content(e)
      <3>1. rendered'[e] = objects
        BY <2>1 DEF TypeOK
      <3>2. Content(e)' = [o \in Objects |-> objects[o].spec]
        BY <3>1, ContentOf
      <3>3. Content(e) = [o \in Objects |-> rendered[e][o].spec]
        BY ContentOf
      <3> HIDE DEF Content
      <3> QED
        BY <3>2, <3>3
    <2>3. [x \in Executions |-> Content(x)]' = [x \in Executions |-> Content(x)]
      BY <2>1, <2>2, ContentElsewhere
    <2> QED
      BY <1>2, <2>1, <2>3
  <1> QED
    BY <1>1, <1>2

\* A write of an object leaves the others alone.
LEMMA WritesOne ==
  ASSUME TypeOK, NEW o \in Objects, NEW new, Write(o, new)
  PROVE  store'[o] = new /\ Atomic!Untouched(o)
  BY DEF Write, TypeOK, Atomic!Untouched

\* What is written, by whichever call, is the effect of the step on the object as
\* it is at that moment.
LEMMA EffectOfCall ==
  ASSUME IInv, NEW e \in Executions, phase[e] # "idle",
         LET o == Object(e)
         IN  \/ phase[e] = "create" /\ CreateAccepted(e, o) /\ StoreCreated(e, o)
             \/ phase[e] = "update" /\ UpdateAccepted(e, o) /\ StoreUpdated(e, o)
             \/ /\ phase[e] = "ready" /\ Action(e) = "DeleteIfExist"
                /\ Present(o) /\ StoreDeleted(o)
  PROVE  Atomic!Acts(e)
  <1> DEFINE o == Object(e)
             m == rendered[e][o].spec
  <1>1. /\ TypeOK /\ ExecutionInv(e)
        /\ rendered[e] \in [Objects -> Rendered]
        /\ todo[e] \in Seq(Step) /\ todo[e] # << >>
    BY DEF IInv, ExecutionInv, TypeOK
  <1>2. o \in Objects /\ Action(e) \in Actions
    BY <1>1, StepsLeft DEF Object, Action, Step
  <1>3. Content(e)[o] = m
    BY <1>1, <1>2, ContentOf
  <1> SUFFICES /\ Atomic!Effect(Action(e), kind[o], m, store[o], store'[o])
               /\ Atomic!Untouched(o)
    BY <1>2, <1>3 DEF Atomic!Acts, Object, Action
  <1>4. CASE phase[e] = "create" /\ CreateAccepted(e, o) /\ StoreCreated(e, o)
    <2>1. PICK owned \in Assigned(kind[o], rendered[e][o].owned) :
            Write(o, [present |-> TRUE, spec |-> m, owned |-> owned,
                      deleting |-> FALSE])
      BY <1>4 DEF StoreCreated
    <2>2. /\ store'[o] = [present |-> TRUE, spec |-> m, owned |-> owned,
                          deleting |-> FALSE]
          /\ Atomic!Untouched(o)
      BY <1>1, <1>2, <2>1, WritesOne
    <2>3. ~store[o].present /\ Action(e) # "DeleteIfExist"
      BY <1>1, <1>4 DEF CreateAccepted, Present, ExecutionInv
    <2> QED
      BY <2>2, <2>3 DEF Atomic!Effect, Atomic!Rendered
  <1>5. CASE phase[e] = "update" /\ UpdateAccepted(e, o) /\ StoreUpdated(e, o)
    <2>1. Prepared(e) /\ version[e][o] = "current"
      BY <1>1, <1>2, <1>5 DEF ExecutionInv, UpdateAccepted, Prepared, TypeOK, Versions
    <2>2. store[o] = snapshot[e] /\ Present(o) /\ Action(e) = "CreateOrUpdate"
      BY <1>5, <2>1 DEF Prepared, UpdateAccepted
    <2>3. /\ store'[o] = IF store[o].deleting THEN Absent
                         ELSE [present |-> TRUE, spec |-> m,
                               owned |-> rendered[e][o].owned, deleting |-> FALSE]
          /\ Atomic!Untouched(o)
      BY <1>1, <1>2, <1>5, WritesOne DEF StoreUpdated
    <2>4. store[o].owned \in Values => rendered[e][o].owned = store[o].owned
      <3>1. store[o].owned \in OwnedBy(kind[o]) /\ kind[o] \in Kinds
        BY <1>1, <1>2, <2>2 DEF TypeOK, OwnedOK
      <3>2. store[o].owned \in Values => kind[o] \in {"Service", "Deployment"}
        BY <3>1, ValuesAssumption DEF OwnedBy, Kinds
      <3> QED
        BY <2>1, <2>2, <3>2 DEF Prepared
    <2>5. ~(kind[o] = "ServiceAccount" /\ m.meta = store[o].spec.meta)
      BY <2>1, <2>2 DEF Prepared
    <2>6. Atomic!Updated(kind[o], m, store[o], store'[o])
      BY <2>3, <2>4, <2>5 DEF Atomic!Updated, Atomic!Rendered, Absent
    <2> QED
      BY <2>2, <2>3, <2>6 DEF Atomic!Effect, Present
  <1>6. CASE /\ phase[e] = "ready" /\ Action(e) = "DeleteIfExist"
             /\ Present(o) /\ StoreDeleted(o)
    <2>1. /\ store'[o] = [store[o] EXCEPT !.deleting = TRUE]
          /\ Atomic!Untouched(o)
      BY <1>1, <1>2, <1>6, WritesOne DEF StoreDeleted
    <2> QED
      BY <1>6, <2>1 DEF Atomic!Effect, Present
  <1> QED
    BY <1>4, <1>5, <1>6

\* A step that finds nothing to do has the effect that its action is to have.
LEMMA EffectOfNothing ==
  ASSUME IInv, NEW e \in Executions, phase[e] # "idle", UNCHANGED store,
         LET o == Object(e)
         IN  \/ Action(e) = "CreateIfNotExist" /\ Present(o)
             \/ Action(e) = "DeleteIfExist" /\ ~Present(o)
             \/ /\ Action(e) = "CreateOrUpdate" /\ Present(o)
                /\ kind[o] = "ServiceAccount"
                /\ store[o].spec.meta = rendered[e][o].spec.meta
  PROVE  Atomic!Acts(e)
  <1> DEFINE o == Object(e)
  <1>1. /\ rendered[e] \in [Objects -> Rendered]
        /\ todo[e] \in Seq(Step) /\ todo[e] # << >>
    BY DEF IInv, ExecutionInv, TypeOK
  <1>2. o \in Objects
    BY <1>1, StepsLeft DEF Object, Step
  <1>3. Content(e)[o] = rendered[e][o].spec
    BY <1>1, <1>2, ContentOf
  <1>4. Atomic!Untouched(o)
    BY DEF Atomic!Untouched
  <1>5. Atomic!Effect(Action(e), kind[o], Content(e)[o], store[o], store'[o])
    BY <1>3 DEF Atomic!Effect, Atomic!Updated, Present
  <1> QED
    BY <1>2, <1>4, <1>5 DEF Atomic!Acts, Object, Action

\* The initial states are those of AtomicActions.
LEMMA AtomicInit == Init => Atomic!Init
  <1> SUFFICES ASSUME Init
               PROVE  Atomic!Init
    OBVIOUS
  <1>1. \A e \in Executions : Content(e) = Atomic!Nothing
    BY ContentOf DEF Init
  <1> QED
    BY <1>1 DEF Init, Atomic!Init, Absent

\* A step of an execution is a step of AtomicActions, or takes no effect yet.
LEMMA AtomicExecution ==
  ASSUME IInv, NEW e \in Executions, Start(e) \/ Execute(e) \/ CallFails(e)
  PROVE  Atomic!Start(e) \/ Atomic!Step(e) \/ Atomic!Fail(e) \/ UNCHANGED Atomic!vars
  <1> DEFINE o == Object(e)
             content == [x \in Executions |-> Content(x)]
  <1>1. /\ TypeOK /\ ExecutionInv(e)
        /\ phase[e] # "idle" => /\ rendered[e] \in [Objects -> Rendered]
                                /\ todo[e] \in Seq(Step) /\ todo[e] # << >>
                                /\ o \in Objects
    <2>1. TypeOK /\ ExecutionInv(e)
      BY DEF IInv
    <2> QED
      BY <2>1, StepsLeft DEF ExecutionInv, TypeOK, Object, Step
  <1>2. CASE Start(e)
    <2>1. PICK owned \in [Objects -> Owned] :
            rendered' = [rendered EXCEPT ![e] =
              [q \in Objects |-> [spec |-> desired, owned |-> owned[q]]]]
      BY <1>2 DEF Start
    <2> DEFINE fresh == [q \in Objects |-> [spec |-> desired, owned |-> owned[q]]]
    <2>2. fresh \in [Objects -> Rendered]
      BY <1>1 DEF TypeOK, Rendered
    <2>3. rendered'[e] = fresh /\ \A q \in Objects : fresh[q].spec = desired
      BY <1>1, <2>1 DEF TypeOK
    <2> HIDE DEF fresh
    <2>4. Content(e)' = [q \in Objects |-> desired]
      BY <2>2, <2>3, ContentOf
    <2>5. content' = [content EXCEPT ![e] = [q \in Objects |-> desired]]
      BY <1>1, <2>1, <2>4, ContentElsewhere
    <2> HIDE DEF content
    <2>6. Atomic!Start(e)
      BY <1>1, <1>2, <2>5 DEF Start, Atomic!Start, ExecutionInv, content
    <2> QED
      BY <2>6
  <1>3. CASE GetNotFound(e)
    BY <1>3 DEF GetNotFound, Rest, Atomic!vars, Atomic!execVars, Content
  <1>4. ASSUME StepDone(e, rendered[e]), Atomic!Acts(e), Rest, phase[e] # "idle"
        PROVE  Atomic!Step(e)
    BY <1>1, <1>4, StepDoneIsAtomic DEF Atomic!Step, Rest
  <1>5. ASSUME StepFails(e), Atomic!Acts(e) \/ UNCHANGED store, Rest,
               phase[e] # "idle"
        PROVE  Atomic!Fail(e)
    BY <1>1, <1>5, FailureEnds DEF Atomic!Fail, Rest
  <1>6. CASE GetFound(e)
    <2> DEFINE prepared == [rendered[e][o] EXCEPT
                              !.owned = Carry(kind[o], store[o].owned, @)]
               objects  == [rendered[e] EXCEPT ![o] = prepared]
    <2>1. /\ phase[e] = "ready" /\ Action(e) = "CreateOrUpdate" /\ Present(o)
          /\ IF NeedsUpdate(kind[o], store[o], prepared)
             THEN /\ rendered' = [rendered EXCEPT ![e] = objects]
                  /\ UNCHANGED <<todo, outcome>>
             ELSE StepDone(e, objects)
          /\ UNCHANGED store
          /\ Rest
      BY <1>6 DEF GetFound
    <2>2. prepared \in Rendered /\ prepared.spec = rendered[e][o].spec
      <3>1. /\ kind[o] \in Kinds
            /\ store[o].owned \in OwnedBy(kind[o])
            /\ rendered[e][o] \in Rendered
            /\ rendered[e][o].owned \in OwnedBy(kind[o])
        BY <1>1, <2>1, RenderedIsNotAbsent DEF TypeOK, OwnedOK
      <3>2. Carry(kind[o], store[o].owned, rendered[e][o].owned) \in Owned
        BY <3>1, OwnedByKind
      <3> QED
        BY <3>1, <3>2 DEF Rendered
    <2> HIDE DEF prepared
    <2>3. /\ objects \in [Objects -> Rendered]
          /\ \A q \in Objects : objects[q].spec = rendered[e][q].spec
      BY <1>1, <2>1, <2>2
    <2> HIDE DEF objects
    <2>4. CASE NeedsUpdate(kind[o], store[o], prepared)
      <3>1. rendered' = [rendered EXCEPT ![e] = objects] /\ rendered'[e] = objects
        BY <1>1, <2>1, <2>4 DEF TypeOK
      <3>2. Content(e)' = Content(e)
        <4>1. Content(e)' = [q \in Objects |-> objects[q].spec]
          BY <2>3, <3>1, ContentOf
        <4>2. Content(e) = [q \in Objects |-> rendered[e][q].spec]
          BY <1>1, <2>1, ContentOf
        <4> QED
          BY <2>3, <4>1, <4>2
      <3>3. content' = content
        BY <1>1, <3>1, <3>2, ContentElsewhere
      <3> QED
        BY <2>1, <2>4, <3>3 DEF Rest, Atomic!vars, Atomic!execVars
    <2>5. CASE ~NeedsUpdate(kind[o], store[o], prepared)
      <3>1. StepDone(e, objects)
        BY <2>1, <2>5
      <3>2. kind[o] = "ServiceAccount" /\ store[o].spec.meta = rendered[e][o].spec.meta
        BY <2>2, <2>5 DEF NeedsUpdate
      <3>3. Atomic!Acts(e)
        BY <2>1, <3>2, EffectOfNothing
      <3> QED
        BY <1>1, <2>1, <2>3, <3>1, <3>3, StepDoneIsAtomic DEF Atomic!Step, Rest
    <2> QED
      BY <2>4, <2>5
  <1>7. CASE GetExisting(e)
    <2>1. Atomic!Acts(e)
      BY <1>7, EffectOfNothing DEF GetExisting, NoWrite
    <2> QED
      BY <1>4, <1>7, <2>1 DEF GetExisting
  <1>8. CASE Create(e)
    <2>1. CASE StepDone(e, rendered[e]) /\ CreateAccepted(e, o) /\ StoreCreated(e, o)
      BY <1>4, <1>8, <2>1, EffectOfCall DEF Create
    <2>2. CASE StepFails(e) /\ NoWrite
      BY <1>5, <1>8, <2>2 DEF Create, NoWrite
    <2> QED
      BY <1>8, <2>1, <2>2 DEF Create
  <1>9. CASE Update(e)
    <2>1. CASE StepDone(e, rendered[e]) /\ UpdateAccepted(e, o) /\ StoreUpdated(e, o)
      BY <1>4, <1>9, <2>1, EffectOfCall DEF Update
    <2>2. CASE StepFails(e) /\ NoWrite
      BY <1>5, <1>9, <2>2 DEF Update, NoWrite
    <2> QED
      BY <1>9, <2>1, <2>2 DEF Update
  <1>10. CASE Delete(e)
    <2>1. Atomic!Acts(e)
      BY <1>10, EffectOfCall, EffectOfNothing DEF Delete, NoWrite
    <2> QED
      BY <1>4, <1>10, <2>1 DEF Delete
  <1>11. CASE CallFails(e)
    <2>1. Atomic!Acts(e) \/ UNCHANGED store
      BY <1>11, EffectOfCall DEF CallFails, NoWrite
    <2> QED
      BY <1>5, <1>11, <2>1 DEF CallFails
  <1> QED
    BY <1>2, <1>3, <1>6, <1>7, <1>8, <1>9, <1>10, <1>11 DEF Execute

\* Every step is a step of AtomicActions or a stutter.
LEMMA AtomicStep == IInv /\ [Next]_vars => [Atomic!Next]_(Atomic!vars)
  <1> SUFFICES ASSUME IInv, [Next]_vars
               PROVE  Atomic!Next \/ UNCHANGED Atomic!vars
    OBVIOUS
  <1>1. ASSUME NEW e \in Executions, Start(e) \/ Execute(e) \/ CallFails(e)
        PROVE  Atomic!Next \/ UNCHANGED Atomic!vars
    BY <1>1, AtomicExecution DEF Atomic!Next
  <1>2. ASSUME UNCHANGED execVars
        PROVE  UNCHANGED Atomic!execVars
    BY <1>2 DEF execVars, Atomic!execVars, Content
  <1>3. ASSUME NEW o \in Objects, OthersWrite(o) \/ ControllerWrites(o) \/ Collect(o)
        PROVE  Atomic!Others
    <2>1. UNCHANGED <<execVars, kind, desired>> /\ \E new : Write(o, new)
      BY <1>3 DEF OthersWrite, ControllerWrites, Collect, StoreDeleted
    <2>2. Atomic!Untouched(o)
      BY <2>1, WritesOne DEF IInv
    <2> QED
      BY <1>2, <2>1, <2>2 DEF Atomic!Others, IInv, TypeOK
  <1>4. CASE ChangeConfig \/ BecomeCalm
    <2>1. UNCHANGED <<execVars, kind, store>> /\ desired' \in Manifest
      BY <1>4 DEF ChangeConfig, BecomeCalm, IInv, TypeOK
    <2> QED
      BY <1>2, <2>1 DEF Atomic!Others, Atomic!Next
  <1>5. CASE Crash
    <2>1. \A e \in Executions : Content(e)' = Atomic!Nothing
      BY <1>5, ContentOf DEF Crash
    <2> QED
      BY <1>5, <2>1 DEF Crash, Atomic!Crash, Atomic!Next
  <1>6. CASE UNCHANGED vars
    BY <1>2, <1>6 DEF vars, Atomic!vars
  <1> QED
    BY <1>1, <1>3, <1>4, <1>5, <1>6 DEF Next, Environment, Atomic!Next

\* The actions implement AtomicActions: however the calls of any number of
\* executions and other writers interleave, fail or lose their response, and
\* whenever the process dies, each step of a rollout acts at once and on the
\* object as it is, or fails.
THEOREM Implements == Spec => ActsAtomically
  BY AtomicInit, AtomicStep, Invariance, PTL DEF Spec, ActsAtomically, Atomic!Spec

=============================================================================
