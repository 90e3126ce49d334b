------------------------ MODULE ResourceTriggerProofs ------------------------
(***************************************************************************)
(* Theorems about ResourceTrigger.tla, for every set of objects, resources *)
(* and keys, every configuration that satisfies its assumptions and every  *)
(* bound.                                                                  *)
(*                                                                         *)
(* None of the properties is inductive.  What makes them so:               *)
(*   - the work queue hands out every dirty key that is not worked on, and *)
(*     only the worker's key is worked on (QueueInv);                      *)
(*   - what an informer has seen, its copy agrees with (CacheInv);         *)
(*   - what the worker has read is complete where it uses it (StageInv);   *)
(*   - whoever is not done with the newest copies has something pending,   *)
(*     also in the middle of an execution (DebtInv);                       *)
(*   - a copy whose last change was handled is the object (CopiesInv), and *)
(*     of what was rolled out for an object that nothing is pending for,   *)
(*     only what its execution has still to write is missing (LeftInv).    *)
(***************************************************************************)
EXTENDS ResourceTrigger, TLAPS

InQueue(k) == \E i \in DOMAIN queue : queue[i] = k

DirtyInv == \A k \in dirty \ processing : InQueue(k)

QueueInv ==
  /\ processing = IF pc = "idle" THEN {} ELSE {key}
  /\ DirtyInv

CacheInv ==
  \A o \in Objects :
    Listed(o) /\ o \notin unseen => cache[o].spec = store[o].spec

StageInv ==
  /\ pc \in {"initialize", "roll out"} => unread = {}
  /\ pc = "report" => rolledOut[key].raw = copy.spec

\* Somebody will see that k has to be rolled out.
Pending(k) == Noted(k) \/ Queued(k)

Executing == pc \in {"render", "initialize", "roll out"}

\* A rollout of k is complete, or pending, or about to be made.
Covered(k) ==
  \/ ~Exists(cache[k])
  \/ Agrees(k, rolledOut[k], cache)
  \/ Pending(k)
  \/ Working(k)

\* A running execution of k is up to date, or will be repeated.
Repeated(k) == key = k /\ Executing => SoFarAgrees(k) \/ Pending(k)

DebtInv == \A k \in Triggered : Covered(k) /\ Repeated(k)

IInv == TypeOK /\ QueueInv /\ CacheInv /\ StageInv /\ DebtInv

-----------------------------------------------------------------------------
(***************************************************************************)
(* Sequences.                                                              *)
(***************************************************************************)

\* What is in a sequence stays in it when something is appended.
LEMMA OnAppend ==
  ASSUME NEW S
  PROVE  \A T : \A s \in Seq(S), x \in S :
           /\ (\E i \in DOMAIN s : s[i] \in T) =>
                \E i \in DOMAIN Append(s, x) : Append(s, x)[i] \in T
           /\ x \in T => \E i \in DOMAIN Append(s, x) : Append(s, x)[i] \in T
<1> TAKE T
<1> TAKE s \in Seq(S), x \in S
<1>1. /\ DOMAIN s = 1 .. Len(s)
      /\ DOMAIN Append(s, x) = 1 .. Len(s) + 1
      /\ Len(s) \in Nat
      /\ \A i \in 1 .. Len(s) : Append(s, x)[i] = s[i]
      /\ Append(s, x)[Len(s) + 1] = x
  OBVIOUS
<1> QED  BY <1>1

\* What is in a sequence is its head or in its tail.
LEMMA OnTail ==
  ASSUME NEW S
  PROVE  \A T : \A s \in Seq(S) :
           s # << >> /\ (\E i \in DOMAIN s : s[i] \in T) =>
             \/ Head(s) \in T
             \/ \E i \in DOMAIN Tail(s) : Tail(s)[i] \in T
<1> TAKE T
<1> TAKE s \in Seq(S)
<1> SUFFICES ASSUME s # << >>, NEW i \in DOMAIN s, s[i] \in T
             PROVE  \/ Head(s) \in T
                    \/ \E j \in DOMAIN Tail(s) : Tail(s)[j] \in T
  OBVIOUS
<1>1. CASE i = 1
  BY <1>1
<1>2. CASE i # 1
  <2>1. DOMAIN Tail(s) = 1 .. Len(s) - 1 /\ Len(s) \in Nat /\ i \in 1 .. Len(s)
    OBVIOUS
  <2>2. i - 1 \in DOMAIN Tail(s) /\ Tail(s)[i - 1] = s[i]
    BY <1>2, <2>1
  <2> QED  BY <2>2
<1> QED  BY <1>1, <1>2

-----------------------------------------------------------------------------
(***************************************************************************)
(* Types.                                                                  *)
(***************************************************************************)

\* The operations of the work queue keep its types.
LEMMA QueueTypes ==
  ASSUME QueueTypeOK
  PROVE  /\ \A k \in Keys : Add(k) /\ delayed' \subseteq Keys => QueueTypeOK'
         /\ \A k \in Keys : Get(k) => QueueTypeOK'
         /\ \A k \in Keys : Done(k) => QueueTypeOK'
         /\ \A k \in Keys : AddRateLimited(k) => QueueTypeOK'
         /\ \A k \in Keys : Due(k) => QueueTypeOK'
         /\ LoseQueue => QueueTypeOK'
         /\ UNCHANGED queueVars => QueueTypeOK'
<1> USE DEF QueueTypeOK
<1>1. \A k \in Keys : Add(k) /\ delayed' \subseteq Keys => QueueTypeOK'
  BY DEF Add
<1>2. \A k \in Keys : Get(k) => QueueTypeOK'
  BY DEF Get
<1>3. \A k \in Keys : Done(k) => QueueTypeOK'
  BY DEF Done
<1>4. \A k \in Keys : AddRateLimited(k) => QueueTypeOK'
  BY DEF AddRateLimited
<1>5. \A k \in Keys : Due(k) => QueueTypeOK'
  BY <1>1 DEF Due
<1>6. LoseQueue => QueueTypeOK'
  BY DEF LoseQueue
<1>7. UNCHANGED queueVars => QueueTypeOK'
  BY DEF queueVars
<1> QED  BY <1>1, <1>2, <1>3, <1>4, <1>5, <1>6, <1>7

\* Whatever is stored is of the right type.
LEMMA PutTypes ==
  ASSUME unseen \subseteq Objects
  PROVE  \A new \in [Objects -> Copy] :
           Put(new) => store' \in [Objects -> Copy] /\ unseen' \subseteq Objects
BY DEF Put

LEMMA Constants ==
  /\ Main \subseteq Objects
  /\ Main \subseteq Keys
  /\ Absent \in Copy
  /\ Nothing \in Snapshot
BY DEF Main, Absent, Copy, Nothing, Snapshot, Statuses

\* The writes of a status, and of what a rollout writes, store copies.
LEMMA WriteTypes ==
  ASSUME TypeOK
  PROVE  /\ \A s \in Statuses :
              key \in Main /\ PutStatus(s) =>
                store' \in [Objects -> Copy] /\ unseen' \subseteq Objects
         /\ \A objects \in SUBSET Objects :
              Write(objects) =>
                store' \in [Objects -> Copy] /\ unseen' \subseteq Objects
<1> USE DEF TypeOK
<1>1. ASSUME NEW s \in Statuses, key \in Main
      PROVE  [store EXCEPT ![key] = [spec |-> @.spec, status |-> s]]
               \in [Objects -> Copy]
  <2>1. key \in Objects /\ [spec |-> store[key].spec, status |-> s] \in Copy
    BY <1>1, Constants DEF Copy
  <2> QED  BY <2>1
<1>2. ASSUME NEW objects \in SUBSET Objects, NEW o \in Objects
      PROVE  (IF o \in objects THEN [spec |-> copy.spec, status |-> "none"]
                               ELSE store[o]) \in Copy
  BY DEF Copy, Statuses
<1>3. \A objects \in SUBSET Objects :
        Write(objects) =>
          store' \in [Objects -> Copy] /\ unseen' \subseteq Objects
  BY <1>2, PutTypes DEF Write
<1> QED  BY <1>1, <1>3, PutTypes DEF PutStatus

LEMMA ObjectTypes ==
  TypeOK => \A o \in Objects :
    Change(o) \/ Delete(o) \/ Observe(o) \/ Relist(o) => TypeOK'
<1> SUFFICES ASSUME TypeOK, NEW o \in Objects
             PROVE  Change(o) \/ Delete(o) \/ Observe(o) \/ Relist(o) => TypeOK'
  OBVIOUS
<1> USE DEF TypeOK
<1>1. ASSUME NEW type \in {"add", "update", "delete"},
             NEW changed \in BOOLEAN, Notify(o, type, changed)
      PROVE  notes' \in [Resources -> Seq(Note)]
  <2>1. [type |-> type, object |-> o, changed |-> changed] \in Note
    BY DEF Note
  <2>2. ResourceOf[o] \in Resources
    BY ConfigAssumption
  <2> QED  BY <1>1, <2>1, <2>2 DEF Notify
<1>2. CASE Change(o)
  <2>1. [spec |-> revision + 1, status |-> store[o].status] \in Copy
    BY DEF Copy
  <2>2. store' \in [Objects -> Copy] /\ unseen' \subseteq Objects
    <3>1. Put([store EXCEPT ![o] = [spec |-> revision + 1, status |-> @.status]])
      BY <1>2 DEF Change
    <3> QED  BY <2>1, <3>1, PutTypes
  <2>3. revision' \in Nat
    BY <1>2 DEF Change
  <2> QED  BY <1>2, <2>2, <2>3, QueueTypes DEF Change, informVars, workVars
<1>3. CASE Delete(o)
  <2>1. store' \in [Objects -> Copy] /\ unseen' \subseteq Objects
    BY <1>3, Constants, PutTypes DEF Delete
  <2> QED  BY <1>3, <2>1, QueueTypes DEF Delete, informVars, workVars
<1>4. CASE Observe(o)
  <2>1. notes' \in [Resources -> Seq(Note)]
    BY <1>1, <1>4 DEF Observe
  <2>2. cache' \in [Objects -> Copy] /\ unseen' \subseteq Objects
    BY <1>4 DEF Observe
  <2> QED  BY <1>4, <2>1, <2>2, QueueTypes DEF Observe, workVars
<1>5. CASE Relist(o)
  <2>1. notes' \in [Resources -> Seq(Note)]
    BY <1>1, <1>5 DEF Relist
  <2> QED  BY <1>5, <2>1, QueueTypes DEF Relist, serverVars, workVars
<1> QED  BY <1>2, <1>3, <1>4, <1>5

LEMMA HandleTypes ==
  TypeOK => \A r \in Resources : Handle(r) => TypeOK'
<1> SUFFICES ASSUME TypeOK, NEW r \in Resources, Handle(r)
             PROVE  TypeOK'
  OBVIOUS
<1> USE DEF TypeOK
<1>1. Head(notes[r]) \in Note /\ notes' \in [Resources -> Seq(Note)]
  <2>1. notes[r] \in Seq(Note) /\ notes[r] # << >>
    BY DEF Handle
  <2>2. Head(notes[r]) \in Note /\ Tail(notes[r]) \in Seq(Note)
    BY <2>1
  <2> QED  BY <2>2 DEF Handle
<1>2. QueueTypeOK'
  <2>1. \A o \in Objects : Enqueue(o) => QueueTypeOK'
    <3> TAKE o \in Objects
    <3>1. CASE KeyOf[o] = Dropped
      BY <3>1, QueueTypes DEF Enqueue
    <3>2. CASE KeyOf[o] # Dropped
      <4>1. KeyOf[o] \in Keys
        BY <3>2, ConfigAssumption
      <4> QED  BY <3>2, <4>1, QueueTypes DEF Enqueue, QueueTypeOK
    <3> QED  BY <3>1, <3>2
  <2>2. Head(notes[r]).object \in Objects
    BY <1>1 DEF Note
  <2>3. UNCHANGED queueVars \/ Enqueue(Head(notes[r]).object)
    BY DEF Handle
  <2> QED  BY <2>1, <2>2, <2>3, QueueTypes
<1> QED  BY <1>1, <1>2 DEF Handle, serverVars, workVars

\* What Succeed, Fail and Rest leave of the execution is of the right type.
LEMMA EndTypes ==
  TypeOK =>
    /\ Discard => /\ copy' \in Copy /\ lists' \in [Objects -> Nat]
                  /\ unread' \subseteq Resources
    /\ Succeed => QueueTypeOK' /\ pc' = "done" /\ key' = key
    /\ key \in Keys /\ Fail => QueueTypeOK' /\ pc' = "done" /\ key' = key
BY QueueTypes, Constants DEF TypeOK, Discard, Succeed, Fail, Goto, Nothing

LEMMA StatusTypes ==
  TypeOK => InitialStatus \in Statuses /\ "Finished" \in Statuses
BY DEF TypeOK, InitialStatus, Statuses, Copy

LEMMA StatusWriteTypes ==
  TypeOK /\ key \in Main => \A s \in Statuses :
    /\ WriteStatus(s) =>
         store' \in [Objects -> Copy] /\ unseen' \subseteq Objects
    /\ WriteStatusFails(s) =>
         /\ store' \in [Objects -> Copy] /\ unseen' \subseteq Objects
         /\ Fail
         /\ UNCHANGED <<revision, calm, informVars, writeStatus, rolledOut>>
BY WriteTypes DEF WriteStatus, WriteStatusFails, TypeOK

LEMMA WorkTypes == TypeOK /\ (Work \/ Crash) => TypeOK'
<1> SUFFICES ASSUME TypeOK
             PROVE  Work \/ Crash => TypeOK'
  OBVIOUS
<1>0. pc \in PCs /\ (pc # "idle" => key \in Keys)
      /\ (pc \notin {"idle", "sync", "done"} => key \in Main)
  BY DEF TypeOK
<1>1. ASSUME GetKey PROVE TypeOK'
  <2>1. PICK k \in Keys : Get(k) /\ key' = k
    BY <1>1 DEF GetKey
  <2>2. QueueTypeOK' /\ key' \in Keys
    BY <2>1, QueueTypes DEF TypeOK
  <2> QED  BY <1>1, <2>2 DEF GetKey, Goto, TypeOK, PCs, serverVars, informVars
<1>2. ASSUME SyncNotFound PROVE TypeOK'
  <2>1. Discard /\ Succeed
    BY <1>2 DEF SyncNotFound, Succeed
  <2> QED  BY <1>0, <1>2, <2>1, EndTypes
           DEF SyncNotFound, TypeOK, PCs, serverVars, informVars
<1>3. ASSUME SyncFound PROVE TypeOK'
  <2>1. key \in Main /\ copy' \in Copy
    BY <1>3, Constants DEF SyncFound, InStore, TypeOK
  <2> QED  BY <1>3, <2>1, QueueTypes
           DEF SyncFound, Goto, TypeOK, PCs, serverVars, informVars
<1>4. ASSUME NEW r \in Resources, ReadList(r) PROVE TypeOK'
  <2>1. lists' \in [Objects -> Nat]
    BY <1>4 DEF ReadList, TypeOK, Copy
  <2>2. /\ key' = key /\ key \in Main /\ key \in Keys
        /\ pc' \in {"render", "initialize", "roll out"}
    BY <1>0, <1>4, Constants DEF ReadList, Goto
  <2>3. QueueTypeOK' /\ unread' \subseteq Resources
    BY <1>4, QueueTypes DEF ReadList, TypeOK
  <2> QED  BY <1>4, <2>1, <2>2, <2>3
           DEF ReadList, TypeOK, PCs, serverVars, informVars
<1>5. ASSUME RenderFails PROVE TypeOK'
  <2>1. Discard /\ Fail /\ key \in Keys
    BY <1>0, <1>5 DEF RenderFails, Fail
  <2> QED  BY <1>5, <2>1, EndTypes
           DEF RenderFails, TypeOK, PCs, serverVars, informVars
<1>6. ASSUME InitializeStatus PROVE TypeOK'
  <2>1. key \in Main /\ key \in Keys
    BY <1>0, <1>6, Constants DEF InitializeStatus
  <2>2. /\ store' \in [Objects -> Copy] /\ unseen' \subseteq Objects
        /\ copy' \in Copy
    BY <1>6, <2>1, StatusTypes, StatusWriteTypes
       DEF InitializeStatus, TypeOK, Copy
  <2> QED  BY <1>6, <2>1, <2>2, QueueTypes
           DEF InitializeStatus, Goto, TypeOK, PCs, informVars
<1>7. ASSUME NEW s \in Statuses, WriteStatusFails(s), pc # "idle", key \in Main
      PROVE  TypeOK'
  <2>1. Discard /\ Fail /\ key \in Keys
    BY <1>0, <1>7 DEF WriteStatusFails, Fail
  <2>2. /\ store' \in [Objects -> Copy] /\ unseen' \subseteq Objects
        /\ UNCHANGED <<revision, calm, informVars, writeStatus, rolledOut>>
    BY <1>7, StatusWriteTypes
  <2> QED  BY <2>1, <2>2, EndTypes DEF TypeOK, PCs, informVars
<1>8. ASSUME InitializeFails PROVE TypeOK'
  BY <1>0, <1>7, <1>8, StatusTypes DEF InitializeFails
<1>9. ASSUME RollOut PROVE TypeOK'
  <2>1. key \in Main /\ key \in Keys
    BY <1>0, <1>9, Constants DEF RollOut
  <2>2. store' \in [Objects -> Copy] /\ unseen' \subseteq Objects
    BY <1>9, <2>1, OutputAssumption, WriteTypes DEF RollOut
  <2>3. rolledOut' \in [Main -> Snapshot]
    BY <1>9, <2>1 DEF RollOut, TypeOK, Snapshot, Copy
  <2>4. /\ QueueTypeOK' /\ pc' \in {"report", "done"} /\ key' = key
        /\ copy' \in Copy /\ lists' \in [Objects -> Nat]
        /\ unread' \subseteq Resources
    <3>1. CASE writeStatus
      BY <1>9, <3>1, QueueTypes DEF RollOut, Goto, TypeOK
    <3>2. CASE ~writeStatus
      <4>1. Discard /\ Succeed
        BY <1>9, <3>2 DEF RollOut, Succeed
      <4> QED  BY <4>1, EndTypes
    <3> QED  BY <3>1, <3>2
  <2> QED  BY <1>9, <2>1, <2>2, <2>3, <2>4 DEF RollOut, TypeOK, PCs, informVars
<1>10. ASSUME RollOutFails PROVE TypeOK'
  <2>1. key \in Main /\ key \in Keys /\ Discard /\ Fail
    BY <1>0, <1>10, Constants DEF RollOutFails, Fail
  <2>2. store' \in [Objects -> Copy] /\ unseen' \subseteq Objects
    BY <1>10, <2>1, OutputAssumption, WriteTypes DEF RollOutFails
  <2>3. rolledOut' \in [Main -> Snapshot]
    BY <1>10, <2>1, Constants DEF RollOutFails, TypeOK
  <2> QED  BY <1>10, <2>1, <2>2, <2>3, EndTypes
           DEF RollOutFails, TypeOK, PCs, informVars
<1>11. ASSUME Report PROVE TypeOK'
  <2>1. key \in Main /\ key \in Keys /\ Discard /\ Succeed
    BY <1>0, <1>11, Constants DEF Report, Succeed
  <2>2. store' \in [Objects -> Copy] /\ unseen' \subseteq Objects
    BY <1>11, <2>1, StatusTypes, StatusWriteTypes DEF Report
  <2> QED  BY <1>11, <2>1, <2>2, EndTypes DEF Report, TypeOK, PCs, informVars
<1>12. ASSUME ReportFails PROVE TypeOK'
  BY <1>0, <1>7, <1>12, StatusTypes DEF ReportFails
<1>13. ASSUME FinishKey PROVE TypeOK'
  <2>1. key \in Keys /\ Discard
    BY <1>0, <1>13 DEF FinishKey, Rest
  <2> QED  BY <1>13, <2>1, QueueTypes, EndTypes
           DEF FinishKey, Rest, TypeOK, PCs, serverVars, informVars
<1>14. ASSUME Crash PROVE TypeOK'
  <2>1. Discard
    BY <1>14 DEF Crash, Rest
  <2>2. /\ cache' \in [Objects -> Copy] /\ unseen' \subseteq Objects
        /\ notes' \in [Resources -> Seq(Note)]
    BY <1>14, Constants DEF Crash
  <2> QED  BY <1>14, <2>1, <2>2, QueueTypes, EndTypes
           DEF Crash, Rest, TypeOK, PCs
<1> QED  BY <1>1, <1>2, <1>3, <1>4, <1>5, <1>6, <1>8, <1>9, <1>10, <1>11,
            <1>12, <1>13, <1>14 DEF Work

LEMMA TypeStep == TypeOK /\ [Next]_vars => TypeOK'
<1> SUFFICES ASSUME TypeOK, [Next]_vars
             PROVE  TypeOK'
  OBVIOUS
<1>1. ASSUME NEW k \in Keys, DelayOver(k) PROVE TypeOK'
  BY <1>1, QueueTypes DEF DelayOver, TypeOK, serverVars, informVars, workVars
<1>2. ASSUME Calm PROVE TypeOK'
  BY <1>2, QueueTypes DEF Calm, TypeOK, informVars, workVars
<1>3. ASSUME UNCHANGED vars PROVE TypeOK'
  BY <1>3, QueueTypes DEF vars, TypeOK, serverVars, informVars, workVars
<1> QED  BY <1>1, <1>2, <1>3, ObjectTypes, HandleTypes, WorkTypes DEF Next

LEMMA TypeInit == Init => TypeOK
<1> SUFFICES ASSUME Init
             PROVE  TypeOK
  OBVIOUS
<1>1. QueueTypeOK
  BY DEF Init, QueueInit, QueueTypeOK
<1>2. store \in [Objects -> Copy]
  <2>1. {Absent, [spec |-> 1, status |-> "none"]} \subseteq Copy
    BY DEF Absent, Copy, Statuses
  <2> QED  BY <2>1 DEF Init
<1>3. cache \in [Objects -> Copy] /\ copy \in Copy
  BY Constants DEF Init
<1>4. notes \in [Resources -> Seq(Note)]
  BY DEF Init
<1>5. rolledOut \in [Main -> Snapshot] /\ lists \in [Objects -> Nat]
  BY Constants DEF Init, Nothing
<1> QED  BY <1>1, <1>2, <1>3, <1>4, <1>5 DEF Init, TypeOK, PCs

\* Types are correct, whatever the configuration.
THEOREM TypeCorrect == Spec => []TypeOK
BY TypeInit, TypeStep, PTL DEF Spec

-----------------------------------------------------------------------------
(***************************************************************************)
(* Nothing that is pending gets lost.                                      *)
(***************************************************************************)

\* Every key that is queued stays so, and k is.
KeepsAndHas(k) ==
  DirtyInv' /\ Queued(k)' /\ \A l \in Keys : Queued(l) => Queued(l)'

LEMMA AppendKeeps ==
  ASSUME QueueTypeOK
  PROVE  \A k \in Keys : queue' = Append(queue, k) =>
           InQueue(k)' /\ \A l \in Keys : InQueue(l) => InQueue(l)'
<1> SUFFICES ASSUME NEW k \in Keys, queue' = Append(queue, k)
             PROVE  InQueue(k)' /\ \A l \in Keys : InQueue(l) => InQueue(l)'
  OBVIOUS
<1>1. queue \in Seq(Keys)
  BY DEF QueueTypeOK
<1>2. \E i \in DOMAIN Append(queue, k) : Append(queue, k)[i] \in {k}
  BY <1>1, OnAppend
<1>3. ASSUME NEW l \in Keys, InQueue(l)
      PROVE  \E i \in DOMAIN Append(queue, k) : Append(queue, k)[i] \in {l}
  <2>1. \E i \in DOMAIN queue : queue[i] \in {l}
    BY <1>3 DEF InQueue
  <2> QED  BY <1>1, <2>1, OnAppend
<1> QED  BY <1>2, <1>3 DEF InQueue

LEMMA AddKeeps ==
  ASSUME QueueTypeOK, DirtyInv
  PROVE  /\ \A k \in Keys : Add(k) /\ UNCHANGED delayed => KeepsAndHas(k)
         /\ \A k \in Keys : Due(k) => KeepsAndHas(k)
         /\ \A k \in Keys : AddRateLimited(k) => KeepsAndHas(k)
<1>1. ASSUME NEW k \in Keys, Add(k)
      PROVE  /\ DirtyInv' /\ (InQueue(k)' \/ (k \in dirty' /\ k \in processing'))
             /\ \A l \in Keys : InQueue(l) => InQueue(l)'
             /\ \A l \in Keys : l \in dirty /\ l \in processing =>
                                l \in dirty' /\ l \in processing'
  <2>1. \A l \in Keys : l \in dirty /\ l \in processing =>
                        l \in dirty' /\ l \in processing'
    BY <1>1 DEF Add
  <2>2. CASE k \in dirty \cup processing
    <3>1. queue' = queue /\ dirty' = dirty \cup {k} /\ processing' = processing
      BY <1>1, <2>2 DEF Add
    <3>2. \A l : InQueue(l) <=> InQueue(l)'
      BY <3>1 DEF InQueue
    <3>3. DirtyInv'
      BY <2>2, <3>1, <3>2 DEF DirtyInv
    <3>4. InQueue(k)' \/ (k \in dirty' /\ k \in processing')
      BY <2>2, <3>1, <3>2 DEF DirtyInv
    <3> QED  BY <2>1, <3>2, <3>3, <3>4
  <2>3. CASE k \notin dirty \cup processing
    <3>1. queue' = Append(queue, k)
      BY <1>1, <2>3 DEF Add
    <3>2. InQueue(k)' /\ \A l \in Keys : InQueue(l) => InQueue(l)'
      BY <3>1, AppendKeeps
    <3>3. dirty' = dirty \cup {k} /\ processing' = processing
      BY <1>1 DEF Add
    <3>4. DirtyInv'
      BY <3>2, <3>3 DEF DirtyInv, QueueTypeOK
    <3> QED  BY <2>1, <3>2, <3>4
  <2> QED  BY <2>2, <2>3
<1>2. ASSUME NEW k \in Keys, Add(k), UNCHANGED delayed
      PROVE  KeepsAndHas(k)
  BY <1>1, <1>2 DEF KeepsAndHas, Queued, InQueue
<1>3. ASSUME NEW k \in Keys, Due(k)
      PROVE  KeepsAndHas(k)
  <2>1. \A l \in Keys \ {k} : l \in delayed => l \in delayed'
    BY <1>3 DEF Due
  <2> QED  BY <1>1, <1>3, <2>1 DEF Due, KeepsAndHas, Queued, InQueue
<1>4. ASSUME NEW k \in Keys, AddRateLimited(k)
      PROVE  KeepsAndHas(k)
  BY <1>4 DEF AddRateLimited, KeepsAndHas, Queued, DirtyInv, InQueue
<1> QED  BY <1>2, <1>3, <1>4

LEMMA GetKeeps ==
  ASSUME QueueTypeOK, DirtyInv
  PROVE  \A k \in Keys : Get(k) =>
           DirtyInv' /\ \A l \in Keys \ {k} : Queued(l) => Queued(l)'
<1> SUFFICES ASSUME NEW k \in Keys, Get(k)
             PROVE  DirtyInv' /\ \A l \in Keys \ {k} : Queued(l) => Queued(l)'
  OBVIOUS
<1>1. \A l \in Keys \ {k} : InQueue(l) => InQueue(l)'
  <2> TAKE l \in Keys \ {k}
  <2> HAVE InQueue(l)
  <2>1. queue \in Seq(Keys) /\ queue # << >> /\ Head(queue) \notin {l}
    BY DEF Get, QueueTypeOK
  <2>2. \E i \in DOMAIN queue : queue[i] \in {l}
    BY DEF InQueue
  <2>3. \E i \in DOMAIN Tail(queue) : Tail(queue)[i] \in {l}
    BY <2>1, <2>2, OnTail
  <2> QED  BY <2>3 DEF Get, InQueue
<1>2. /\ dirty' = dirty \ {k} /\ processing' = processing \cup {k}
      /\ delayed' = delayed
  BY DEF Get
<1>3. DirtyInv'
  BY <1>1, <1>2 DEF DirtyInv, QueueTypeOK
<1>4. \A l \in Keys \ {k} : Queued(l) => Queued(l)'
  BY <1>1, <1>2 DEF Queued, InQueue
<1> QED  BY <1>3, <1>4

\* A key that was added while it was worked on is queued again.
LEMMA DoneKeeps ==
  ASSUME QueueTypeOK, DirtyInv
  PROVE  \A k \in Keys : processing = {k} /\ Done(k) =>
           DirtyInv' /\ \A l \in Keys : Queued(l) => Queued(l)'
<1> SUFFICES ASSUME NEW k \in Keys, processing = {k}, Done(k)
             PROVE  DirtyInv' /\ \A l \in Keys : Queued(l) => Queued(l)'
  OBVIOUS
<1>1. processing' = {} /\ dirty' = dirty /\ delayed' = delayed
  BY DEF Done
<1>2. /\ k \in dirty => InQueue(k)'
      /\ \A l \in Keys : InQueue(l) => InQueue(l)'
  <2>1. CASE k \in dirty
    BY <2>1, AppendKeeps DEF Done
  <2>2. CASE k \notin dirty
    BY <2>2 DEF Done, InQueue
  <2> QED  BY <2>1, <2>2
<1>3. DirtyInv'
  BY <1>1, <1>2 DEF DirtyInv, QueueTypeOK
<1>4. \A l \in Keys : Queued(l) => Queued(l)'
  BY <1>1, <1>2 DEF Queued, InQueue
<1> QED  BY <1>3, <1>4

\* The notifications that will make the trigger look at k.
Calls(k) == {n \in Note : ~Ignored(n) /\ KeyOf[n.object] = k}

LEMMA NotedIsCalled ==
  TypeOK => \A k \in Keys :
    Noted(k) <=> \E r \in Resources : \E i \in DOMAIN notes[r] :
                   notes[r][i] \in Calls(k)
<1> SUFFICES ASSUME TypeOK
             PROVE  \A r \in Resources : \A i \in DOMAIN notes[r] :
                      notes[r][i] \in Note
  BY DEF Noted, Calls
<1> TAKE r \in Resources
<1>1. notes[r] \in Seq(Note)
  BY DEF TypeOK
<1> QED  BY <1>1

\* What an informer notifies is noted, and nothing is lost by that.
LEMMA NotifyNotes ==
  TypeOK => \A o \in Objects, type \in {"add", "update", "delete"},
               changed \in BOOLEAN, k \in Keys :
    TypeOK' /\ Notify(o, type, changed) =>
      /\ Noted(k) => Noted(k)'
      /\ KeyOf[o] = k /\ changed => Noted(k)'
<1> SUFFICES ASSUME TypeOK, TypeOK', NEW o \in Objects,
                    NEW type \in {"add", "update", "delete"},
                    NEW changed \in BOOLEAN, NEW k \in Keys,
                    Notify(o, type, changed)
             PROVE  /\ Noted(k) => Noted(k)'
                    /\ KeyOf[o] = k /\ changed => Noted(k)'
  OBVIOUS
<1> DEFINE n == [type |-> type, object |-> o, changed |-> changed]
           q == ResourceOf[o]
<1>1. /\ n \in Note /\ q \in Resources
      /\ \A r \in Resources : notes[r] \in Seq(Note)
      /\ notes \in [Resources -> Seq(Note)]
  BY ConfigAssumption DEF Note, TypeOK
<1>2. KeyOf[o] = k /\ changed => n \in Calls(k)
  BY <1>1 DEF Calls, Ignored
<1>3. notes' = [notes EXCEPT ![q] = Append(@, n)]
  BY DEF Notify
<1> HIDE DEF n, q
<1>4. notes'[q] = Append(notes[q], n)
  BY <1>1, <1>3
<1>5. \A r \in Resources \ {q} : notes'[r] = notes[r]
  BY <1>1, <1>3
<1>6. ASSUME Noted(k)
      PROVE  Noted(k)'
  <2>1. PICK r \in Resources : \E i \in DOMAIN notes[r] : notes[r][i] \in Calls(k)
    BY <1>6, NotedIsCalled
  <2>2. \E i \in DOMAIN notes'[r] : notes'[r][i] \in Calls(k)
    <3>1. CASE r = q
      BY <1>1, <1>4, <2>1, <3>1, OnAppend
    <3>2. CASE r # q
      BY <1>5, <2>1, <3>2
    <3> QED  BY <3>1, <3>2
  <2> QED  BY <2>2 DEF Noted, Calls
<1>7. ASSUME n \in Calls(k)
      PROVE  Noted(k)'
  <2>1. \E i \in DOMAIN notes'[q] : notes'[q][i] \in Calls(k)
    BY <1>1, <1>4, <1>7, OnAppend
  <2> QED  BY <1>1, <2>1 DEF Noted, Calls
<1> QED  BY <1>2, <1>6, <1>7

\* A handler that takes a notification of k queues k.
LEMMA HandleKeeps ==
  TypeOK /\ DirtyInv => \A r \in Resources :
    Handle(r) => DirtyInv' /\ \A k \in Keys : Pending(k) => Pending(k)'
<1> SUFFICES ASSUME TypeOK, DirtyInv, NEW r \in Resources, Handle(r)
             PROVE  DirtyInv' /\ \A k \in Keys : Pending(k) => Pending(k)'
  OBVIOUS
<1>0. PICK n : n = Head(notes[r])
  OBVIOUS
<1>1. /\ notes[r] \in Seq(Note) /\ notes[r] # << >> /\ n \in Note
      /\ n.object \in Objects
      /\ notes' = [notes EXCEPT ![r] = Tail(@)]
  <2>1. notes[r] \in Seq(Note) /\ notes[r] # << >>
    BY DEF Handle, TypeOK
  <2>2. n \in Note
    BY <1>0, <2>1
  <2> QED  BY <2>1, <2>2 DEF Handle, Note
<1>2. IF Ignored(n) THEN UNCHANGED queueVars ELSE Enqueue(n.object)
  BY <1>0 DEF Handle
<1>3. /\ DirtyInv' /\ \A k \in Keys : Queued(k) => Queued(k)'
      /\ \A k \in Keys : n \in Calls(k) => Queued(k)'
  <2>1. ASSUME UNCHANGED queueVars
        PROVE  DirtyInv' /\ \A k \in Keys : Queued(k) => Queued(k)'
    BY <2>1 DEF queueVars, DirtyInv, InQueue, Queued
  <2>2. CASE Ignored(n)
    BY <1>2, <2>1, <2>2 DEF Calls
  <2>3. CASE ~Ignored(n) /\ KeyOf[n.object] = Dropped
    <3>1. DirtyInv' /\ \A k \in Keys : Queued(k) => Queued(k)'
      BY <1>2, <2>1, <2>3 DEF Enqueue
    <3>2. \A k \in Keys : n \notin Calls(k)
      BY <2>3, ConfigAssumption DEF Calls
    <3> QED  BY <3>1, <3>2
  <2>4. CASE ~Ignored(n) /\ KeyOf[n.object] # Dropped
    <3>1. PICK k \in Keys : k = KeyOf[n.object]
      BY <1>1, <2>4, ConfigAssumption
    <3>2. Add(k) /\ UNCHANGED delayed
      BY <1>2, <2>4, <3>1 DEF Enqueue
    <3>3. KeepsAndHas(k)
      BY <3>2, AddKeeps DEF TypeOK
    <3> QED  BY <3>1, <3>3 DEF KeepsAndHas, Calls
  <2> QED  BY <2>2, <2>3, <2>4
<1>4. ASSUME NEW k \in Keys, Noted(k), n \notin Calls(k)
      PROVE  Noted(k)'
  <2>1. PICK q \in Resources : \E i \in DOMAIN notes[q] : notes[q][i] \in Calls(k)
    BY <1>4, NotedIsCalled
  <2>2. \E i \in DOMAIN notes'[q] : notes'[q][i] \in Calls(k)
    <3>1. CASE q = r
      <4>1. \E i \in DOMAIN Tail(notes[r]) : Tail(notes[r])[i] \in Calls(k)
        BY <1>0, <1>1, <1>4, <2>1, <3>1, OnTail
      <4> QED  BY <1>1, <3>1, <4>1 DEF TypeOK
    <3>2. CASE q # r
      BY <1>1, <2>1, <3>2 DEF TypeOK
    <3> QED  BY <3>1, <3>2
  <2> QED  BY <2>2 DEF Noted, Calls
<1> QED  BY <1>3, <1>4 DEF Pending

-----------------------------------------------------------------------------
(***************************************************************************)
(* The invariant, outside of the worker.                                   *)
(***************************************************************************)

\* What triggers k is k itself, among others.
LEMMA TriggeredKeys ==
  \A k \in Triggered :
    k \in Main /\ k \in Keys /\ k \in Objects /\ k \in Watched(k)
BY Constants DEF Triggered, Watched

\* A write makes stale only what its watch events are on the way for.
StoreKept == \A o \in Objects \ unseen' : o \notin unseen /\ store'[o] = store[o]

LEMMA PutKeeps ==
  /\ \A new : Put(new) => StoreKept
  /\ UNCHANGED <<store, unseen>> => StoreKept
BY DEF Put, StoreKept

LEMMA CacheKept == CacheInv /\ StoreKept /\ UNCHANGED cache => CacheInv'
BY DEF CacheInv, StoreKept, Listed

\* As long as nothing pending is lost, only news and the worker make debts.
LEMMA DebtKept ==
  DebtInv /\ UNCHANGED <<cache, rolledOut, workVars>>
    /\ (\A k \in Triggered : Pending(k) => Pending(k)') => DebtInv'
<1> SUFFICES ASSUME DebtInv, UNCHANGED <<cache, rolledOut, workVars>>,
                    NEW k \in Triggered, Pending(k) => Pending(k)'
             PROVE  Covered(k)' /\ Repeated(k)'
  BY DEF DebtInv
<1>1. Covered(k) /\ Repeated(k)
  BY DEF DebtInv
<1>2. /\ Working(k)' <=> Working(k)
      /\ SoFarAgrees(k)' <=> SoFarAgrees(k)
      /\ Agrees(k, rolledOut[k], cache)' <=> Agrees(k, rolledOut[k], cache)
  BY DEF Working, SoFarAgrees, Agrees, workVars
<1> QED  BY <1>1, <1>2 DEF Covered, Repeated, Executing, workVars

LEMMA QueueUnchanged ==
  UNCHANGED queueVars =>
    /\ DirtyInv => DirtyInv'
    /\ \A k \in Keys : Queued(k)' <=> Queued(k)
BY DEF queueVars, DirtyInv, InQueue, Queued

LEMMA PendingUnchanged ==
  UNCHANGED <<queueVars, notes>> =>
    \A k \in Keys : Pending(k)' <=> Pending(k)
BY QueueUnchanged DEF Pending, Noted

\* Clients write, and nobody has seen it yet.
LEMMA ClientStep ==
  IInv => \A o \in Objects : Change(o) \/ Delete(o) \/ Calm => IInv'
<1> SUFFICES ASSUME IInv, NEW o \in Objects, Change(o) \/ Delete(o) \/ Calm
             PROVE  IInv'
  OBVIOUS
<1>1. TypeOK'
  BY TypeStep DEF IInv, Next
<1>2. UNCHANGED <<informVars, queueVars, workVars, rolledOut>> /\ StoreKept
  BY PutKeeps DEF Change, Delete, Calm
<1>3. QueueInv'
  BY <1>2, QueueUnchanged DEF IInv, QueueInv, workVars, queueVars
<1>4. CacheInv'
  BY <1>2, CacheKept DEF IInv, informVars
<1>5. StageInv'
  BY <1>2 DEF IInv, StageInv, workVars
<1>6. DebtInv'
  BY <1>2, PendingUnchanged, DebtKept, TriggeredKeys DEF IInv, informVars
<1> QED  BY <1>1, <1>3, <1>4, <1>5, <1>6 DEF IInv

\* An informer takes a new copy, and whoever watches it is noted.
LEMMA ObserveStep == IInv => \A o \in Objects : Observe(o) => IInv'
<1> SUFFICES ASSUME IInv, NEW o \in Objects, Observe(o)
             PROVE  IInv'
  OBVIOUS
<1>1. TypeOK'
  BY TypeStep DEF IInv, Next
<1>2. QueueInv'
  BY QueueUnchanged DEF Observe, IInv, QueueInv, workVars, queueVars
<1>3. cache' = [cache EXCEPT ![o] = store[o]] /\ UNCHANGED store
      /\ unseen' = unseen \ {o} /\ cache \in [Objects -> Copy]
  BY DEF Observe, IInv, TypeOK
<1>4. CacheInv'
  BY <1>3 DEF IInv, CacheInv, Listed
<1>5. StageInv'
  BY DEF Observe, IInv, StageInv, workVars
<1>6. ASSUME NEW k \in Triggered
      PROVE  Covered(k)' /\ Repeated(k)'
  <2>1. PICK type \in {"add", "update", "delete"} : Notify(o, type, TRUE)
    BY DEF Observe
  <2>2. /\ Noted(k) => Noted(k)'
        /\ KeyOf[o] = k => Noted(k)'
    BY <1>1, <2>1, NotifyNotes, TriggeredKeys DEF IInv
  <2>3. Queued(k)' <=> Queued(k)
    BY QueueUnchanged, TriggeredKeys DEF Observe
  <2>4. Pending(k) => Pending(k)'
    BY <2>2, <2>3 DEF Pending
  <2>5. CASE KeyOf[o] = k
    BY <2>2, <2>5 DEF Pending, Covered, Repeated
  <2>6. CASE KeyOf[o] # k
    <3>1. /\ \A w \in Watched(k) : cache'[w] = cache[w]
          /\ k \in Watched(k)
      BY <1>3, <2>6, TriggeredKeys DEF Watched
    <3>2. UNCHANGED <<rolledOut, workVars>>
      BY DEF Observe
    <3>3. /\ SoFarAgrees(k)' <=> SoFarAgrees(k)
          /\ Agrees(k, rolledOut[k], cache)' <=> Agrees(k, rolledOut[k], cache)
      BY <3>1, <3>2 DEF SoFarAgrees, Agrees, workVars
    <3>4. Covered(k) /\ Repeated(k)
      BY DEF IInv, DebtInv
    <3> QED  BY <2>4, <3>1, <3>2, <3>3, <3>4
             DEF Covered, Repeated, Executing, Working, workVars
  <2> QED  BY <2>5, <2>6
<1> QED  BY <1>1, <1>2, <1>4, <1>5, <1>6 DEF IInv, DebtInv

\* A relist, a handler, or the end of a delay.
LEMMA QueueStep ==
  IInv => /\ \A o \in Objects : Relist(o) => IInv'
          /\ \A r \in Resources : Handle(r) => IInv'
          /\ \A k \in Keys : DelayOver(k) => IInv'
<1>1. ASSUME IInv, TypeOK', UNCHANGED <<serverVars, cache, workVars, rolledOut>>,
             DirtyInv', UNCHANGED processing,
             \A k \in Triggered : Pending(k) => Pending(k)'
      PROVE  IInv'
  <2>1. QueueInv'
    BY <1>1 DEF IInv, QueueInv, workVars
  <2>2. CacheInv'
    BY <1>1, CacheKept, PutKeeps DEF IInv, serverVars
  <2>3. StageInv'
    BY <1>1 DEF IInv, StageInv, workVars
  <2>4. DebtInv'
    BY <1>1, DebtKept DEF IInv
  <2> QED  BY <1>1, <2>1, <2>2, <2>3, <2>4 DEF IInv
<1>2. ASSUME IInv, NEW o \in Objects, Relist(o)
      PROVE  IInv'
  <2>1. TypeOK'
    BY <1>2, TypeStep DEF IInv, Next
  <2>2. Notify(o, "update", FALSE)
    BY <1>2 DEF Relist
  <2>3. \A k \in Triggered : Pending(k) => Pending(k)'
    BY <1>2, <2>1, <2>2, NotifyNotes, QueueUnchanged, TriggeredKeys
       DEF IInv, Relist, Pending
  <2> QED  BY <1>1, <1>2, <2>1, <2>3, QueueUnchanged
           DEF IInv, QueueInv, Relist, queueVars
<1>3. ASSUME IInv, NEW r \in Resources, Handle(r)
      PROVE  IInv'
  <2>1. TypeOK'
    BY <1>3, TypeStep DEF IInv, Next
  <2>2. DirtyInv' /\ \A k \in Keys : Pending(k) => Pending(k)'
    BY <1>3, HandleKeeps DEF IInv, QueueInv
  <2>3. UNCHANGED processing
    BY <1>3 DEF Handle, Enqueue, Add, queueVars
  <2> QED  BY <1>1, <1>3, <2>1, <2>2, <2>3, TriggeredKeys DEF Handle
<1>4. ASSUME IInv, NEW k \in Keys, DelayOver(k)
      PROVE  IInv'
  <2>1. TypeOK'
    BY <1>4, TypeStep DEF IInv, Next
  <2>2. KeepsAndHas(k)
    BY <1>4, AddKeeps DEF DelayOver, IInv, QueueInv, TypeOK
  <2>3. \A l \in Triggered : Pending(l) => Pending(l)'
    BY <1>4, <2>2, TriggeredKeys
       DEF KeepsAndHas, Pending, Noted, DelayOver, informVars
  <2>4. UNCHANGED processing
    BY <1>4 DEF DelayOver, Due, Add
  <2> QED  BY <1>1, <1>4, <2>1, <2>2, <2>3, <2>4
           DEF DelayOver, informVars, KeepsAndHas
<1> QED  BY <1>2, <1>3, <1>4

-----------------------------------------------------------------------------
(***************************************************************************)
(* The invariant, in the worker.                                           *)
(***************************************************************************)

\* The worker does not concern keys that it is not on.
LEMMA OthersKept ==
  \A k \in Triggered :
    /\ Covered(k) /\ Repeated(k)
    /\ UNCHANGED cache /\ rolledOut'[k] = rolledOut[k]
    /\ key # k /\ key' # k
    /\ Pending(k) => Pending(k)'
    => Covered(k)' /\ Repeated(k)'
BY DEF Covered, Repeated, Working, Agrees

\* An execution that fails queues its key.
LEMMA FailKeeps ==
  IInv /\ Fail /\ pc # "idle" /\ UNCHANGED notes =>
    /\ QueueInv'
    /\ \A k \in Triggered : Pending(k) => Pending(k)'
    /\ \A k \in Triggered : key = k => Pending(k)'
<1> SUFFICES ASSUME IInv, Fail, pc # "idle", UNCHANGED notes
             PROVE  /\ QueueInv'
                    /\ \A k \in Triggered : Pending(k) => Pending(k)'
                    /\ \A k \in Triggered : key = k => Pending(k)'
  OBVIOUS
<1>1. PICK k \in Keys : key = k
  BY DEF IInv, TypeOK
<1>2. KeepsAndHas(k)
  BY <1>1, AddKeeps DEF Fail, IInv, QueueInv, TypeOK
<1>3. \A l \in Triggered : Noted(l) => Noted(l)'
  BY DEF Noted
<1>4. processing' = processing /\ key' = key /\ pc' = "done"
  BY DEF Fail, AddRateLimited, Goto
<1> QED  BY <1>1, <1>2, <1>3, <1>4, TriggeredKeys
         DEF KeepsAndHas, Pending, IInv, QueueInv

\* What every failing action of the worker has in common.
LEMMA FailStep ==
  /\ IInv /\ TypeOK' /\ Fail /\ pc # "idle" /\ StoreKept
  /\ UNCHANGED <<cache, notes>>
  /\ \A k \in Triggered : key # k => rolledOut'[k] = rolledOut[k]
  => IInv'
<1> SUFFICES ASSUME IInv, TypeOK', Fail, pc # "idle", StoreKept,
                    UNCHANGED <<cache, notes>>,
                    \A k \in Triggered : key # k => rolledOut'[k] = rolledOut[k]
             PROVE  IInv'
  OBVIOUS
<1>1. QueueInv' /\ CacheInv'
  BY FailKeeps, CacheKept DEF IInv
<1>2. pc' = "done" /\ key' = key
  BY DEF Fail, Goto
<1>3. StageInv'
  BY <1>2 DEF StageInv
<1>4. ASSUME NEW k \in Triggered
      PROVE  Covered(k)' /\ Repeated(k)'
  <2>1. CASE key = k
    BY <2>1, FailKeeps DEF Covered, Repeated
  <2>2. CASE key # k
    BY <1>2, <2>2, FailKeeps, OthersKept DEF IInv, DebtInv
  <2> QED  BY <2>1, <2>2
<1> QED  BY <1>1, <1>3, <1>4 DEF IInv, DebtInv

LEMMA FailuresStep ==
  IInv /\ (RenderFails \/ InitializeFails \/ RollOutFails \/ ReportFails)
    => IInv'
<1>1. ASSUME IInv, RenderFails PROVE IInv'
  <2>1. TypeOK'
    BY <1>1, WorkTypes DEF IInv, Work
  <2> QED  BY <1>1, <2>1, FailStep, PutKeeps
           DEF RenderFails, serverVars, informVars
<1>2. ASSUME IInv, NEW s, WriteStatusFails(s), pc # "idle", TypeOK' PROVE IInv'
  BY <1>2, FailStep, PutKeeps DEF WriteStatusFails, PutStatus, informVars
<1>3. ASSUME IInv, InitializeFails \/ ReportFails PROVE IInv'
  <2>1. TypeOK'
    BY <1>3, WorkTypes DEF IInv, Work
  <2> QED  BY <1>2, <1>3, <2>1 DEF InitializeFails, ReportFails
<1>4. ASSUME IInv, RollOutFails PROVE IInv'
  <2>1. TypeOK'
    BY <1>4, WorkTypes DEF IInv, Work
  <2>2. StoreKept
    BY <1>4, PutKeeps DEF RollOutFails, Write
  <2>3. \A k \in Triggered : key # k => rolledOut'[k] = rolledOut[k]
    BY <1>4, TriggeredKeys DEF RollOutFails, IInv, TypeOK
  <2> QED  BY <1>4, <2>1, <2>2, <2>3, FailStep DEF RollOutFails, informVars
<1> QED  BY <1>1, <1>3, <1>4

\* What the steps of a running execution have in common: the key stays.
LEMMA ExecutionStep ==
  /\ IInv /\ TypeOK' /\ StoreKept /\ StageInv'
  /\ UNCHANGED <<cache, notes, queueVars, key>>
  /\ pc # "idle" /\ pc' # "idle"
  /\ \A k \in Triggered :
       /\ key # k => rolledOut'[k] = rolledOut[k]
       /\ key = k => Covered(k)' /\ Repeated(k)'
  => IInv'
<1> SUFFICES ASSUME IInv, TypeOK', StoreKept, StageInv',
                    UNCHANGED <<cache, notes, queueVars, key>>,
                    pc # "idle", pc' # "idle",
                    \A k \in Triggered :
                      /\ key # k => rolledOut'[k] = rolledOut[k]
                      /\ key = k => Covered(k)' /\ Repeated(k)'
             PROVE  IInv'
  OBVIOUS
<1>1. QueueInv'
  BY QueueUnchanged DEF IInv, QueueInv, queueVars
<1>2. CacheInv'
  BY CacheKept DEF IInv
<1>3. ASSUME NEW k \in Triggered
      PROVE  Covered(k)' /\ Repeated(k)'
  <2>1. Pending(k)' <=> Pending(k)
    BY PendingUnchanged, TriggeredKeys
  <2>2. CASE key # k
    BY <2>1, <2>2, OthersKept DEF IInv, DebtInv
  <2> QED  BY <2>2
<1> QED  BY <1>1, <1>2, <1>3 DEF IInv, DebtInv

\* The key that the worker takes is not queued any more, but worked on.
LEMMA GetStep == IInv /\ GetKey => IInv'
<1> SUFFICES ASSUME IInv, GetKey
             PROVE  IInv'
  OBVIOUS
<1>1. TypeOK'
  BY WorkTypes DEF IInv, Work
<1>2. PICK k \in Keys : Get(k) /\ key' = k
  BY DEF GetKey
<1>3. DirtyInv' /\ \A l \in Keys \ {k} : Queued(l) => Queued(l)'
  BY <1>2, GetKeeps DEF IInv, QueueInv, TypeOK
<1>4. /\ pc = "idle" /\ pc' = "sync"
      /\ UNCHANGED <<serverVars, cache, notes, rolledOut>>
  BY DEF GetKey, Goto, informVars
<1>5. QueueInv'
  BY <1>2, <1>3, <1>4 DEF IInv, QueueInv, Get
<1>6. CacheInv' /\ StageInv'
  BY <1>4, CacheKept, PutKeeps DEF IInv, StageInv, serverVars
<1>7. ASSUME NEW l \in Triggered
      PROVE  Covered(l)' /\ Repeated(l)'
  <2>1. CASE l = k
    BY <1>2, <1>4, <2>1 DEF Covered, Working, Repeated, Executing
  <2>2. CASE l # k
    <3>1. Pending(l) => Pending(l)'
      BY <1>3, <1>4, <2>2, TriggeredKeys DEF Pending, Noted
    <3>2. ~Working(l)
      BY <1>4 DEF Working
    <3>3. Covered(l)
      BY DEF IInv, DebtInv
    <3> QED  BY <1>2, <1>4, <2>2, <3>1, <3>2, <3>3
             DEF Covered, Agrees, Repeated
  <2> QED  BY <2>1, <2>2
<1> QED  BY <1>1, <1>5, <1>6, <1>7 DEF IInv, DebtInv

LEMMA SyncStep == IInv /\ (SyncNotFound \/ SyncFound) => IInv'
<1>1. ASSUME IInv, SyncNotFound PROVE IInv'
  <2>1. TypeOK'
    BY <1>1, WorkTypes DEF IInv, Work
  <2>2. /\ UNCHANGED <<serverVars, cache, notes, queueVars, key, rolledOut>>
        /\ pc = "sync" /\ pc' = "done"
    BY <1>1 DEF SyncNotFound, Succeed, Goto, informVars
  <2>3. StoreKept /\ StageInv'
    BY <2>2, PutKeeps DEF StageInv, serverVars
  <2>4. ASSUME NEW k \in Triggered, key = k
        PROVE  Covered(k)' /\ Repeated(k)'
    <3>1. ~Exists(cache[k])
      BY <1>1, <2>4, TriggeredKeys DEF SyncNotFound, InStore
    <3> QED  BY <2>2, <3>1 DEF Covered, Repeated, Executing
  <2> QED  BY <1>1, <2>1, <2>2, <2>3, <2>4, ExecutionStep
<1>2. ASSUME IInv, SyncFound PROVE IInv'
  <2>1. TypeOK'
    BY <1>2, WorkTypes DEF IInv, Work
  <2>2. /\ UNCHANGED <<serverVars, cache, notes, queueVars, key, rolledOut>>
        /\ pc = "sync" /\ pc' = "render"
        /\ copy' = cache[key] /\ unread' = Resources
    BY <1>2 DEF SyncFound, Goto, informVars
  <2>3. StoreKept /\ StageInv'
    BY <2>2, PutKeeps DEF StageInv, serverVars
  <2>4. ASSUME NEW k \in Triggered, key = k
        PROVE  Covered(k)' /\ Repeated(k)'
    <3>1. \A o \in Watched(k) : ResourceOf[o] \in Resources
      BY ConfigAssumption DEF Watched
    <3>2. SoFarAgrees(k)'
      BY <2>2, <2>4, <3>1 DEF SoFarAgrees
    <3> QED  BY <2>2, <2>4, <3>2 DEF Covered, Working, Repeated
  <2> QED  BY <1>2, <2>1, <2>2, <2>3, <2>4, ExecutionStep
<1> QED  BY <1>1, <1>2

\* What is read while rendering is what the informers show.
LEMMA ReadStep == IInv => \A r \in Resources : ReadList(r) => IInv'
<1> SUFFICES ASSUME IInv, NEW r \in Resources, ReadList(r)
             PROVE  IInv'
  OBVIOUS
<1>1. TypeOK'
  BY WorkTypes DEF IInv, Work
<1>2. /\ UNCHANGED <<serverVars, cache, notes, queueVars, key, copy, rolledOut>>
      /\ pc = "render" /\ pc' \in {"render", "initialize", "roll out"}
      /\ unread' # {} => pc' = "render"
      /\ unread' = unread \ {r}
      /\ lists' = [o \in Objects |->
                     IF ResourceOf[o] = r THEN cache[o].spec ELSE lists[o]]
  BY DEF ReadList, Goto, informVars
<1>3. StoreKept /\ StageInv'
  BY <1>2, PutKeeps DEF StageInv, serverVars
<1>4. ASSUME NEW k \in Triggered, key = k
      PROVE  Covered(k)' /\ Repeated(k)'
  <2>1. SoFarAgrees(k) => SoFarAgrees(k)'
    BY <1>2 DEF SoFarAgrees, Watched
  <2>2. Pending(k)' <=> Pending(k)
    BY <1>2, PendingUnchanged, TriggeredKeys
  <2>3. Covered(k) /\ Repeated(k)
    BY DEF IInv, DebtInv
  <2>4. SoFarAgrees(k)' \/ Pending(k)'
    BY <1>2, <1>4, <2>1, <2>2, <2>3 DEF Repeated, Executing
  <2> QED  BY <1>2, <1>4, <2>4 DEF Covered, Working, Repeated
<1> QED  BY <1>1, <1>2, <1>3, <1>4, ExecutionStep

LEMMA StatusStep == IInv /\ (InitializeStatus \/ Report) => IInv'
<1>1. ASSUME IInv, InitializeStatus PROVE IInv'
  <2>1. TypeOK'
    BY <1>1, WorkTypes DEF IInv, Work
  <2>2. /\ UNCHANGED <<cache, notes, queueVars, key, lists, unread, rolledOut>>
        /\ pc = "initialize" /\ pc' = "roll out"
        /\ copy'.spec = copy.spec
    BY <1>1 DEF InitializeStatus, Goto, informVars
  <2>3. StoreKept
    BY <1>1, PutKeeps DEF InitializeStatus, WriteStatus, PutStatus
  <2>4. StageInv'
    BY <1>1, <2>2 DEF IInv, StageInv
  <2>5. ASSUME NEW k \in Triggered, key = k
        PROVE  Covered(k)' /\ Repeated(k)'
    <3>1. SoFarAgrees(k)' <=> SoFarAgrees(k)
      BY <2>2 DEF SoFarAgrees
    <3>2. Pending(k)' <=> Pending(k)
      BY <2>2, PendingUnchanged, TriggeredKeys
    <3>3. SoFarAgrees(k) \/ Pending(k)
      BY <1>1, <2>2, <2>5 DEF IInv, DebtInv, Repeated, Executing
    <3> QED  BY <2>2, <2>5, <3>1, <3>2, <3>3 DEF Covered, Working, Repeated
  <2> QED  BY <1>1, <2>1, <2>2, <2>3, <2>4, <2>5, ExecutionStep
<1>2. ASSUME IInv, Report PROVE IInv'
  <2>1. TypeOK'
    BY <1>2, WorkTypes DEF IInv, Work
  <2>2. /\ UNCHANGED <<cache, notes, queueVars, key, rolledOut>>
        /\ pc = "report" /\ pc' = "done"
    BY <1>2 DEF Report, Succeed, Goto, informVars
  <2>3. StoreKept
    BY <1>2, PutKeeps DEF Report, WriteStatus, PutStatus
  <2>4. StageInv'
    BY <2>2 DEF StageInv
  <2>5. ASSUME NEW k \in Triggered, key = k
        PROVE  Covered(k)' /\ Repeated(k)'
    <3>1. Pending(k)' <=> Pending(k)
      BY <2>2, PendingUnchanged, TriggeredKeys
    <3>2. ~Exists(cache[k]) \/ Agrees(k, rolledOut[k], cache) \/ Pending(k)
      BY <1>2, <2>2 DEF IInv, DebtInv, Covered, Working
    <3> QED  BY <2>2, <3>1, <3>2 DEF Covered, Agrees, Repeated, Executing
  <2> QED  BY <1>2, <2>1, <2>2, <2>3, <2>4, <2>5, ExecutionStep
<1> QED  BY <1>1, <1>2

\* A rollout that was up to date pays the debt.
LEMMA RollOutStep == IInv /\ RollOut => IInv'
<1> SUFFICES ASSUME IInv, RollOut
             PROVE  IInv'
  OBVIOUS
<1>1. TypeOK'
  BY WorkTypes DEF IInv, Work
<1>2. pc = "roll out" /\ key \in Main /\ rolledOut \in [Main -> Snapshot]
  BY DEF RollOut, IInv, TypeOK, PCs
<1>3. /\ UNCHANGED <<cache, notes, queueVars, key>>
      /\ pc' \in {"report", "done"}
      /\ pc' = "report" => copy' = copy
      /\ rolledOut'[key].raw = copy.spec /\ rolledOut'[key].lists = lists
      /\ \A k \in Main : key # k => rolledOut'[k] = rolledOut[k]
  BY <1>2 DEF RollOut, Succeed, Goto, informVars
<1>4. StoreKept
  BY PutKeeps DEF RollOut, Write
<1>5. StageInv'
  BY <1>3 DEF StageInv
<1>6. ASSUME NEW k \in Triggered, key = k
      PROVE  Covered(k)' /\ Repeated(k)'
  <2>1. Pending(k)' <=> Pending(k)
    BY <1>3, PendingUnchanged, TriggeredKeys
  <2>2. SoFarAgrees(k) \/ Pending(k)
    BY <1>2, <1>6 DEF IInv, DebtInv, Repeated, Executing
  <2>3. SoFarAgrees(k) => Agrees(k, rolledOut[k], cache)'
    <3>1. unread = {}
      BY <1>2 DEF IInv, StageInv
    <3>2. rolledOut'[k].raw = copy.spec /\ rolledOut'[k].lists = lists
      BY <1>3, <1>6
    <3> QED  BY <1>3, <3>1, <3>2 DEF SoFarAgrees, Agrees
  <2> QED  BY <1>3, <2>1, <2>2, <2>3 DEF Covered, Repeated, Executing
<1> QED  BY <1>1, <1>2, <1>3, <1>4, <1>5, <1>6, ExecutionStep, TriggeredKeys

\* Done queues the key again if it was added in the meantime.
LEMMA FinishStep == IInv /\ FinishKey => IInv'
<1> SUFFICES ASSUME IInv, FinishKey
             PROVE  IInv'
  OBVIOUS
<1>1. TypeOK'
  BY WorkTypes DEF IInv, Work
<1>2. PICK k \in Keys : k = key
  BY DEF FinishKey, IInv, TypeOK
<1>3. /\ Done(k) /\ pc = "done" /\ pc' = "idle" /\ key' = Dropped
      /\ processing = {k} /\ UNCHANGED <<serverVars, cache, notes, rolledOut>>
  BY <1>2 DEF FinishKey, Rest, IInv, QueueInv, informVars
<1>4. DirtyInv' /\ \A l \in Keys : Queued(l) => Queued(l)'
  BY <1>3, DoneKeeps DEF IInv, QueueInv, TypeOK
<1>5. QueueInv'
  BY <1>3, <1>4 DEF QueueInv, Done
<1>6. CacheInv' /\ StageInv'
  BY <1>3, CacheKept, PutKeeps DEF IInv, StageInv, serverVars
<1>7. ASSUME NEW l \in Triggered
      PROVE  Covered(l)' /\ Repeated(l)'
  <2>1. Pending(l) => Pending(l)'
    BY <1>3, <1>4, TriggeredKeys DEF Pending, Noted
  <2>2. Covered(l) /\ ~Working(l)
    BY <1>3 DEF IInv, DebtInv, Working
  <2> QED  BY <1>3, <2>1, <2>2 DEF Covered, Agrees, Repeated, Executing
<1> QED  BY <1>1, <1>5, <1>6, <1>7 DEF IInv, DebtInv

\* A new process has seen nothing.
LEMMA CrashStep == IInv /\ Crash => IInv'
<1> SUFFICES ASSUME IInv, Crash
             PROVE  IInv'
  OBVIOUS
<1>1. TypeOK'
  BY WorkTypes DEF IInv
<1>2. QueueInv' /\ StageInv'
  BY DEF Crash, LoseQueue, Rest, QueueInv, DirtyInv, StageInv
<1>3. \A o \in Objects : ~Exists(cache[o])' /\ cache'[o].spec = 0
  BY DEF Crash, Absent, Exists
<1>4. CacheInv'
  BY <1>3 DEF Crash, CacheInv, Exists
<1>5. DebtInv'
  BY <1>3, TriggeredKeys DEF Crash, Rest, DebtInv, Covered, Repeated, Executing
<1> QED  BY <1>1, <1>2, <1>4, <1>5 DEF IInv

LEMMA IInvInit == Init => IInv
<1> SUFFICES ASSUME Init
             PROVE  IInv
  OBVIOUS
<1>1. QueueInv /\ StageInv
  BY DEF Init, QueueInit, QueueInv, DirtyInv, StageInv
<1>2. \A o \in Objects : ~Exists(cache[o]) /\ cache[o].spec = 0
  BY DEF Init, Absent, Exists
<1>3. CacheInv
  BY <1>2 DEF Init, CacheInv, Exists
<1>4. DebtInv
  BY <1>2, TriggeredKeys DEF Init, DebtInv, Covered, Repeated, Executing
<1> QED  BY <1>1, <1>3, <1>4, TypeInit DEF IInv

LEMMA IInvStep == IInv /\ [Next]_vars => IInv'
<1> SUFFICES ASSUME IInv, [Next]_vars
             PROVE  IInv'
  OBVIOUS
<1>1. ASSUME UNCHANGED vars PROVE IInv'
  <2>1. TypeOK'
    BY <1>1, TypeStep DEF IInv
  <2>2. UNCHANGED <<serverVars, informVars, queueVars, workVars, rolledOut>>
    BY <1>1 DEF vars
  <2>3. QueueInv' /\ StageInv'
    BY <2>2, QueueUnchanged
       DEF IInv, QueueInv, StageInv, workVars, queueVars
  <2>4. CacheInv'
    BY <2>2, CacheKept, PutKeeps DEF IInv, serverVars, informVars
  <2>5. DebtInv'
    BY <2>2, PendingUnchanged, DebtKept, TriggeredKeys DEF IInv, informVars
  <2> QED  BY <2>1, <2>3, <2>4, <2>5 DEF IInv
<1>2. ASSUME Calm PROVE IInv'
  <2>1. CASE Objects = {}
    <3>1. TypeOK'
      BY <1>2, TypeStep DEF IInv
    <3>2. UNCHANGED <<informVars, queueVars, workVars, rolledOut>>
      BY <1>2 DEF Calm
    <3>3. QueueInv' /\ StageInv'
      BY <3>2, QueueUnchanged
         DEF IInv, QueueInv, StageInv, workVars, queueVars
    <3>4. CacheInv' /\ DebtInv'
      BY <2>1, TriggeredKeys DEF CacheInv, DebtInv
    <3> QED  BY <3>1, <3>3, <3>4 DEF IInv
  <2>2. CASE Objects # {}
    BY <1>2, <2>2, ClientStep
  <2> QED  BY <2>1, <2>2
<1> QED  BY <1>1, <1>2, ClientStep, ObserveStep, QueueStep, GetStep, SyncStep,
            ReadStep, StatusStep, RollOutStep, FailuresStep, FinishStep,
            CrashStep DEF Next, Work

LEMMA Invariance == Spec => []IInv
BY IInvInit, IInvStep, PTL DEF Spec

-----------------------------------------------------------------------------
(***************************************************************************)
(* What follows.                                                           *)
(***************************************************************************)

\* No change is forgotten: a key whose last rollout does not agree with the
\* informers is notified, queued, or being worked on with nothing out of date.
THEOREM ForgetsNothing == Spec => []NothingForgotten
<1>1. IInv => NothingForgotten
  BY DEF IInv, DebtInv, Covered, Pending, NothingForgotten
<1> QED  BY <1>1, Invariance, PTL

\* Only the report of a rollout makes a status "Finished".
LEMMA FinishedStep ==
  IInv /\ [Next]_vars =>
    \A k \in Main :
      store'[k].status = "Finished" /\ store[k].status # "Finished" =>
        rolledOut[k].raw = store'[k].spec
<1> SUFFICES ASSUME IInv, [Next]_vars, NEW k \in Main,
                    store'[k].status = "Finished", store[k].status # "Finished"
             PROVE  rolledOut[k].raw = store'[k].spec
  OBVIOUS
<1>1. k \in Objects /\ store \in [Objects -> Copy]
  BY Constants DEF IInv, TypeOK
<1>2. store' # store
  OBVIOUS
<1>3. ASSUME NEW s \in Statuses, MayWrite, PutStatus(s),
             s = "Finished" => pc = "report"
      PROVE  rolledOut[k].raw = store'[k].spec
  <2>1. store' = [store EXCEPT ![key] = [spec |-> store[key].spec,
                                         status |-> s]]
    BY <1>3 DEF PutStatus, Put
  <2>2. k = key /\ s = "Finished" /\ store'[k].spec = store[k].spec
    BY <1>1, <2>1
  <2>3. pc = "report" /\ copy = store[k]
    BY <1>3, <2>2 DEF MayWrite
  <2> QED  BY <2>2, <2>3 DEF IInv, StageInv
<1>4. ASSUME NEW objects \in SUBSET Objects, Write(objects)
      PROVE  FALSE
  BY <1>1, <1>4 DEF Write, Put
<1>5. ASSUME NEW o \in Objects, Change(o) \/ Delete(o) \/ Observe(o) \/ Relist(o)
      PROVE  FALSE
  <2>1. CASE Change(o)
    BY <1>1, <2>1 DEF Change, Put
  <2>2. CASE Delete(o)
    BY <1>1, <2>2 DEF Delete, Put, Absent
  <2>3. CASE Observe(o) \/ Relist(o)
    BY <1>2, <2>3 DEF Observe, Relist, serverVars
  <2> QED  BY <1>5, <2>1, <2>2, <2>3
<1>6. InitialStatus # "Finished" \/ copy.status = InitialStatus
  BY DEF InitialStatus
<1>7. CASE InitializeStatus \/ InitializeFails
  BY <1>2, <1>3, <1>6, <1>7, StatusTypes
     DEF InitializeStatus, InitializeFails, WriteStatus, WriteStatusFails, IInv
<1>8. CASE Report \/ ReportFails
  BY <1>2, <1>3, <1>8, StatusTypes
     DEF Report, ReportFails, WriteStatus, WriteStatusFails, IInv
<1>9. CASE RollOut \/ RollOutFails
  <2>1. key \in Main
    BY <1>9 DEF RollOut, RollOutFails, IInv, TypeOK, PCs
  <2> QED  BY <1>4, <1>9, <2>1, OutputAssumption DEF RollOut, RollOutFails
<1> QED  BY <1>2, <1>5, <1>7, <1>8, <1>9
         DEF Next, Work, Handle, DelayOver, GetKey, SyncNotFound, SyncFound,
             ReadList, RenderFails, FinishKey, Crash, Calm, vars, serverVars

\* A status that becomes "Finished" is the status of what was rolled out.
THEOREM FinishedIsTruthful == Spec => FinishedIsOfThisContent
<1> DEFINE Truthful ==
             \A k \in Main :
               store'[k].status = "Finished" /\ store[k].status # "Finished" =>
                 rolledOut[k].raw = store'[k].spec
<1>1. IInv /\ [Next]_vars => [Truthful]_vars
  BY FinishedStep
<1> HIDE DEF Truthful
<1>2. Spec => [][Truthful]_vars
  BY <1>1, Invariance, PTL DEF Spec
<1> QED  BY <1>2 DEF Truthful, FinishedIsOfThisContent

-----------------------------------------------------------------------------
(***************************************************************************)
(* The trigger implements a Reconciler.                                    *)
(***************************************************************************)

AbsServed == [k \in Triggered |-> Served(k)]

LEMMA AbsTypes == TypeOK => Abstract!TypeOK
<1> SUFFICES ASSUME TypeOK
             PROVE  Abstract!TypeOK
  OBVIOUS
<1>1. ASSUME NEW k \in Triggered
      PROVE  Wanted(k) \in Snapshot \cup {Nothing} /\ Served(k) \in Snapshot
  <2>1. \A o \in Objects : store[o].spec \in Nat
    BY DEF TypeOK, Copy
  <2>2. Wanted(k) \in Snapshot \cup {Nothing}
    BY <2>1, TriggeredKeys DEF Wanted, Only, Snapshot
  <2>3. rolledOut[k] \in Snapshot
    BY TriggeredKeys DEF TypeOK
  <2> QED  BY <2>2, <2>3 DEF Served, Only, Snapshot
<1> QED  BY <1>1 DEF Abstract!TypeOK

\* A key that nobody has to roll out, and who looks like it, is not owed: the
\* informers show what the API server holds, and the invariant does the rest.
LEMMA NotOwedIsSettled ==
  IInv => \A k \in Triggered : ~Owed(k) => Wanted(k) \in {Nothing, Served(k)}
<1> SUFFICES ASSUME IInv, NEW k \in Triggered, ~Owed(k), Exists(store[k])
             PROVE  Wanted(k) = Served(k)
  BY DEF Wanted
<1>1. \A o \in Watched(k) : cache[o].spec = store[o].spec
  BY DEF Owed, IInv, CacheInv, Watched
<1>2. Exists(cache[k]) /\ ~Pending(k) /\ ~Working(k)
  BY <1>1, TriggeredKeys DEF Exists, Owed, Pending
<1>3. Agrees(k, rolledOut[k], cache)
  BY <1>2 DEF IInv, DebtInv, Covered
<1>4. rolledOut[k].raw = store[k].spec
  BY <1>1, <1>3, TriggeredKeys DEF Agrees
<1>5. \A o \in Watched(k) : rolledOut[k].lists[o] = store[o].spec
  BY <1>1, <1>3 DEF Agrees
<1>6. Only(k, [o \in Objects |-> store[o].spec]) = Only(k, rolledOut[k].lists)
  BY <1>5 DEF Only
<1> QED  BY <1>4, <1>6 DEF Wanted, Served

LEMMA AbsConsistent == IInv => Abstract!Consistent
BY AbsTypes, NotOwedIsSettled
   DEF IInv, Abstract!Consistent, Abstract!Settled

\* Only a rollout serves, and only the key that it is for.
LEMMA OnlyRolloutsServe ==
  IInv /\ [Next]_vars =>
    \/ UNCHANGED rolledOut
    \/ /\ pc = "roll out" /\ key \in Main
       /\ \A k \in Main : key # k => rolledOut'[k] = rolledOut[k]
<1> SUFFICES ASSUME IInv, [Next]_vars, rolledOut' # rolledOut
             PROVE  /\ pc = "roll out" /\ key \in Main
                    /\ \A k \in Main : key # k => rolledOut'[k] = rolledOut[k]
  OBVIOUS
<1>1. RollOut \/ RollOutFails
  BY DEF Next, Work, Handle, DelayOver, GetKey, SyncNotFound, SyncFound,
         ReadList, RenderFails, InitializeStatus, InitializeFails, Report,
         ReportFails, WriteStatusFails, FinishKey, Crash, Calm, Change, Delete,
         Observe, Relist, vars
<1>2. pc = "roll out" /\ key \in Main
  BY <1>1 DEF RollOut, RollOutFails, IInv, TypeOK, PCs
<1> QED  BY <1>1, <1>2 DEF RollOut, RollOutFails, IInv, TypeOK

LEMMA AbsStep ==
  IInv /\ [Next]_vars /\ Abstract!Consistent' => Abstract!Next
<1> SUFFICES ASSUME IInv, [Next]_vars, Abstract!Consistent'
             PROVE  Abstract!Next
  OBVIOUS
<1>1. Abstract!Consistent'
  OBVIOUS
<1>2. CASE UNCHANGED rolledOut
  <2>1. \A k \in Triggered : Served(k)' = Served(k)
    BY <1>2 DEF Served, Only
  <2>2. AbsServed' = AbsServed
    BY <2>1 DEF AbsServed
  <2> QED  BY <1>1, <2>2 DEF Abstract!Next, Abstract!Change, AbsServed
<1>3. CASE ~ UNCHANGED rolledOut
  <2>1. /\ pc = "roll out" /\ key \in Main
        /\ \A k \in Main : key # k => rolledOut'[k] = rolledOut[k]
    BY <1>3, OnlyRolloutsServe
  <2>2. \A k \in Triggered : key # k => Served(k)' = Served(k)
    BY <2>1, TriggeredKeys DEF Served, Only
  <2>3. CASE key \notin Triggered
    <3>1. AbsServed' = AbsServed
      BY <2>2, <2>3 DEF AbsServed
    <3> QED  BY <1>1, <3>1 DEF Abstract!Next, Abstract!Change, AbsServed
  <2>4. CASE key \in Triggered
    <3>1. PICK k \in Triggered : k = key
      BY <2>4
    <3>2. Owed(k)
      BY <2>1, <3>1
         DEF IInv, DebtInv, Repeated, Executing, Pending, Owed, Working
    <3>3. \A l \in Triggered \ {k} : AbsServed'[l] = AbsServed[l]
      BY <2>2, <3>1 DEF AbsServed
    <3>4. Abstract!Serve(k)
      BY <1>1, <3>2, <3>3 DEF Abstract!Serve, AbsServed
    <3> QED  BY <3>4 DEF Abstract!Next
  <2> QED  BY <2>3, <2>4
<1> QED  BY <1>2, <1>3

LEMMA AbsInit == Init => Abstract!Init
<1> SUFFICES ASSUME Init
             PROVE  Abstract!Init
  OBVIOUS
<1>1. Abstract!Consistent
  BY IInvInit, AbsConsistent
<1>2. ASSUME NEW k \in Triggered
      PROVE  Served(k) = Nothing
  <2>1. rolledOut[k] = Nothing
    BY TriggeredKeys DEF Init
  <2> QED  BY <2>1 DEF Served, Only, Nothing
<1> QED  BY <1>1, <1>2 DEF Abstract!Init

\* The trigger implements Reconciler: it rolls out only what is owed, and
\* whatever happens, every key is either owed or rolled out from what the API
\* server holds.
THEOREM Implements == Spec => Reconciles
<1>1. IInv /\ [Next]_vars /\ Abstract!Consistent' => [Abstract!Next]_(Abstract!vars)
  BY AbsStep
<1> QED  BY <1>1, AbsInit, AbsConsistent, Invariance, PTL
         DEF Spec, Reconciles, Abstract!Spec

-----------------------------------------------------------------------------
(***************************************************************************)
(* No key is left behind.                                                  *)
(***************************************************************************)

\* An informer's copy that is not about to change is the stored object.
CopiesInv ==
  \A o \in Objects :
    Listed(o) /\ o \notin unseen =>
      cache[o] = store[o] \/ (~Exists(cache[o]) /\ ~Exists(store[o]))

\* Something that k watches has changed, and k will be looked at.
Stirred(k) == Watched(k) \cap unseen # {} \/ Pending(k)

OutputIsThere(k) ==
  \A o \in OutputOf[k] \cap Watched(k) : cache[o].spec = cache[k].spec

StatusSaysSo(k) == writeStatus => cache[k].status = "Finished"

On(k, stages) == key = k /\ pc \in stages

ToRollOut == {"sync", "render", "initialize", "roll out"}

\* What an execution still has to write is what is missing.
LeftInv ==
  \A k \in Triggered :
    Exists(cache[k]) /\ ~Stirred(k) =>
      /\ On(k, {"render", "initialize", "roll out", "report"}) => copy = cache[k]
      /\ On(k, ToRollOut) \/ OutputIsThere(k)
      /\ On(k, ToRollOut \cup {"report"}) \/ StatusSaysSo(k)

\* Only the worker takes a key, and only a crash makes the process forget one.
LEMMA PendingStays ==
  ASSUME IInv, Next, ~Crash, NEW k \in Triggered, Pending(k), ~(GetKey /\ key' = k)
  PROVE  Pending(k)'
<1>1. TypeOK /\ TypeOK' /\ DirtyInv /\ k \in Keys
  BY TypeStep, TriggeredKeys DEF IInv, QueueInv
<1>2. ASSUME UNCHANGED <<queueVars, notes>>
      PROVE  Pending(k)'
  BY <1>1, <1>2, PendingUnchanged
<1>3. ASSUME NEW o \in Objects, Change(o) \/ Delete(o)
      PROVE  Pending(k)'
  BY <1>2, <1>3 DEF Change, Delete, informVars
<1>4. CASE Calm \/ SyncNotFound \/ SyncFound \/ InitializeStatus \/ RollOut \/ Report
  BY <1>2, <1>4 DEF Calm, SyncNotFound, SyncFound, InitializeStatus, RollOut, Report,
                    Succeed, informVars
<1>5. ASSUME NEW r \in Resources, ReadList(r)
      PROVE  Pending(k)'
  BY <1>2, <1>5 DEF ReadList, informVars
<1>6. ASSUME NEW o \in Objects, Observe(o) \/ Relist(o)
      PROVE  Pending(k)'
  <2>1. PICK type \in {"add", "update", "delete"}, changed \in BOOLEAN :
          Notify(o, type, changed)
    BY <1>6 DEF Observe, Relist
  <2>2. Noted(k) => Noted(k)'
    BY <1>1, <2>1, NotifyNotes
  <2>3. Queued(k) => Queued(k)'
    BY <1>1, <1>6, QueueUnchanged DEF Observe, Relist
  <2> QED  BY <2>2, <2>3 DEF Pending
<1>7. ASSUME NEW r \in Resources, Handle(r)
      PROVE  Pending(k)'
  BY <1>1, <1>7, HandleKeeps
<1>8. ASSUME NEW l \in Keys, DelayOver(l)
      PROVE  Pending(k)'
  <2>1. KeepsAndHas(l) /\ UNCHANGED notes
    BY <1>1, <1>8, AddKeeps DEF DelayOver, TypeOK, informVars
  <2> QED  BY <1>1, <2>1 DEF KeepsAndHas, Pending, Noted
<1>9. CASE GetKey
  <2>1. PICK l \in Keys : Get(l) /\ key' = l
    BY <1>9 DEF GetKey
  <2>2. Queued(k) => Queued(k)'
    BY <1>1, <1>9, <2>1, GetKeeps DEF TypeOK
  <2>3. UNCHANGED notes
    BY <1>9 DEF GetKey, informVars
  <2> QED  BY <2>2, <2>3 DEF Pending, Noted
<1>10. CASE RenderFails \/ InitializeFails \/ RollOutFails \/ ReportFails
  <2>1. Fail /\ pc # "idle" /\ UNCHANGED notes
    BY <1>10 DEF RenderFails, InitializeFails, RollOutFails, ReportFails,
                 WriteStatusFails, informVars
  <2> QED  BY <2>1, FailKeeps
<1>11. CASE FinishKey
  <2>1. processing = {key} /\ Done(key) /\ key \in Keys /\ UNCHANGED notes
    BY <1>11 DEF FinishKey, IInv, QueueInv, TypeOK, informVars
  <2>2. Queued(k) => Queued(k)'
    BY <1>1, <2>1, DoneKeeps DEF TypeOK
  <2> QED  BY <2>1, <2>2 DEF Pending, Noted
<1> QED  BY <1>3, <1>4, <1>5, <1>6, <1>7, <1>8, <1>9, <1>10, <1>11 DEF Next, Work

\* What is stored changes, and nobody has been told; or an informer is told.
LEMMA StoreSteps ==
  IInv /\ Next /\ ~Crash =>
    \/ StoreKept /\ UNCHANGED cache
    \/ \E o \in Objects : Observe(o)
<1>1. ASSUME NEW s, WriteStatus(s) \/ WriteStatusFails(s)
      PROVE  StoreKept
  BY <1>1, PutKeeps DEF WriteStatus, WriteStatusFails, PutStatus
<1>2. RollOut \/ RollOutFails => StoreKept
  BY PutKeeps DEF RollOut, RollOutFails, Write
<1>3. InitializeStatus \/ InitializeFails \/ Report \/ ReportFails => StoreKept
  BY <1>1 DEF InitializeStatus, InitializeFails, Report, ReportFails
<1>4. \A o \in Objects : Change(o) \/ Delete(o) => StoreKept
  BY PutKeeps DEF Change, Delete
<1> QED
  BY <1>2, <1>3, <1>4, PutKeeps
     DEF Next, Work, Change, Delete, Relist, Handle, DelayOver, GetKey, SyncNotFound,
         SyncFound, ReadList, RenderFails, InitializeStatus, InitializeFails, RollOut,
         RollOutFails, Report, ReportFails, WriteStatusFails, FinishKey, Calm,
         serverVars, informVars

\* After a step, k is stirred, or the worker takes it, or it was not stirred before
\* and all that it watches is as it was.
LEMMA Undisturbed ==
  ASSUME IInv, Next, ~Crash, NEW k \in Triggered, ~Stirred(k)', ~(GetKey /\ key' = k)
  PROVE  /\ ~Stirred(k)
         /\ \A o \in Watched(k) : cache'[o] = cache[o] /\ store'[o] = store[o]
<1>1. ~Pending(k)' /\ Watched(k) \cap unseen' = {}
  BY DEF Stirred, Watched, Listed
<1>2. ~Pending(k)
  BY <1>1, PendingStays
<1>3. CASE StoreKept /\ UNCHANGED cache
  BY <1>1, <1>2, <1>3 DEF StoreKept, Stirred, Watched
<1>4. ASSUME NEW o \in Objects, Observe(o)
      PROVE  /\ ~Stirred(k)
             /\ \A w \in Watched(k) : cache'[w] = cache[w] /\ store'[w] = store[w]
  <2>0. TypeOK'
    BY TypeStep DEF IInv
  <2>1. PICK type \in {"add", "update", "delete"} : Notify(o, type, TRUE)
    BY <1>4 DEF Observe
  <2>2. KeyOf[o] # k
    BY <1>1, <2>0, <2>1, NotifyNotes, TriggeredKeys DEF Pending, IInv
  <2>3. o \notin Watched(k)
    BY <2>2 DEF Watched
  <2>4. /\ cache' = [cache EXCEPT ![o] = store[o]] /\ cache \in [Objects -> Copy]
        /\ unseen' = unseen \ {o} /\ store' = store
    BY <1>4 DEF Observe, IInv, TypeOK
  <2> QED  BY <1>1, <1>2, <2>3, <2>4 DEF Stirred, Watched
<1> QED  BY <1>3, <1>4, StoreSteps

\* CopiesInv is preserved.
LEMMA CopiesStep == IInv /\ CopiesInv /\ [Next]_vars => CopiesInv'
<1> SUFFICES ASSUME IInv, CopiesInv, [Next]_vars
             PROVE  CopiesInv'
  OBVIOUS
<1>1. CASE Crash
  BY <1>1 DEF Crash, CopiesInv, Exists, Absent
<1>2. CASE StoreKept /\ UNCHANGED cache
  BY <1>2 DEF StoreKept, CopiesInv, Listed
<1>3. ASSUME NEW o \in Objects, Observe(o)
      PROVE  CopiesInv'
  <2>1. /\ cache' = [cache EXCEPT ![o] = store[o]] /\ cache \in [Objects -> Copy]
        /\ unseen' = unseen \ {o} /\ store' = store
    BY <1>3 DEF Observe, IInv, TypeOK
  <2> QED  BY <2>1 DEF CopiesInv, Listed
<1>4. CASE UNCHANGED vars
  BY <1>4 DEF vars, serverVars, informVars, CopiesInv, Listed
<1> QED  BY <1>1, <1>2, <1>3, <1>4, StoreSteps

\* A status that had to be written has made the stored object another one.
LEMMA StatusWritten ==
  ASSUME TypeOK, NEW s, WriteStatus(s), key \in Main, store'[key] = store[key]
  PROVE  copy.status = s
<1>1. CASE copy.status # s
  <2>1. copy = store[key] /\ store' = [store EXCEPT ![key] = [spec |-> @.spec, status |-> s]]
    BY <1>1 DEF WriteStatus, MayWrite, PutStatus, Put
  <2>2. store'[key].status = s
    BY <2>1, Constants DEF TypeOK
  <2> QED  BY <1>1, <2>1, <2>2
<1> QED  BY <1>1

\* LeftInv is preserved while the worker is on k and nothing disturbs it.
LEMMA WorkLeaves ==
  ASSUME IInv, CopiesInv, LeftInv, Work, NEW k \in Triggered, key = k, pc # "idle",
         ~Stirred(k), ~Stirred(k)', Exists(cache[k]),
         \A o \in Watched(k) : cache'[o] = cache[o] /\ store'[o] = store[o]
  PROVE  /\ On(k, {"render", "initialize", "roll out", "report"})' => copy' = cache'[k]
         /\ On(k, ToRollOut)' \/ OutputIsThere(k)'
         /\ On(k, ToRollOut \cup {"report"})' \/ StatusSaysSo(k)'
<1>1. /\ k \in Main /\ k \in Objects /\ k \in Keys /\ k \in Watched(k)
      /\ cache'[k] = cache[k] /\ store'[k] = store[k]
  BY TriggeredKeys
<1>2. /\ On(k, {"render", "initialize", "roll out", "report"}) => copy = cache[k]
      /\ On(k, ToRollOut) \/ OutputIsThere(k)
      /\ On(k, ToRollOut \cup {"report"}) \/ StatusSaysSo(k)
  BY DEF LeftInv
<1>3. OutputIsThere(k) => OutputIsThere(k)'
  BY <1>1 DEF OutputIsThere, Watched, Listed
<1>4. writeStatus' = writeStatus
  BY DEF Work, GetKey, SyncNotFound, SyncFound, ReadList, RenderFails, InitializeStatus,
         InitializeFails, RollOut, RollOutFails, Report, ReportFails, WriteStatusFails,
         FinishKey
<1>5. StatusSaysSo(k) => StatusSaysSo(k)'
  BY <1>1, <1>4 DEF StatusSaysSo
<1>6. ~GetKey /\ ~SyncNotFound
  BY <1>1 DEF GetKey, SyncNotFound, InStore
<1>7. ~(RenderFails \/ InitializeFails \/ RollOutFails \/ ReportFails)
  <2>1. Fail /\ UNCHANGED notes => FALSE
    BY FailKeeps DEF Stirred
  <2> QED  BY <2>1 DEF RenderFails, InitializeFails, RollOutFails, ReportFails,
                       WriteStatusFails, informVars
<1>8. CASE SyncFound
  BY <1>1, <1>8 DEF SyncFound, Goto, On, ToRollOut
<1>9. ASSUME NEW r \in Resources, ReadList(r)
      PROVE  /\ key' = k /\ copy' = copy /\ pc = "render"
             /\ pc' \in {"render", "initialize", "roll out"}
  BY <1>9 DEF ReadList, Goto
<1>10. CASE \E r \in Resources : ReadList(r)
  BY <1>1, <1>2, <1>9, <1>10 DEF On, ToRollOut
<1>11. CASE InitializeStatus
  <2>1. copy.status = InitialStatus
    BY <1>1, <1>11, StatusWritten DEF InitializeStatus, IInv
  <2>2. copy \in Copy
    BY DEF IInv, TypeOK
  <2>3. copy' = copy
    BY <1>11, <2>1, <2>2 DEF InitializeStatus, Copy
  <2> QED  BY <1>1, <1>2, <1>11, <2>3 DEF InitializeStatus, Goto, On, ToRollOut
<1>12. CASE RollOut
  <2>1. pc = "roll out" /\ copy = cache[k] /\ key' = k
    BY <1>2, <1>12 DEF RollOut, Succeed, On
  <2>2. \/ pc' = "report" /\ copy' = copy
        \/ pc' = "done" /\ ~writeStatus
    BY <1>12 DEF RollOut, Goto, Succeed
  <2>3. ASSUME NEW o \in OutputOf[k] \cap Watched(k)
        PROVE  cache[o].spec = cache[k].spec
    <3>1. o \in Objects /\ Listed(o) /\ o \notin unseen
      BY DEF Watched, Stirred
    <3>2. store'[o].spec = copy.spec
      BY <1>12, <3>1 DEF RollOut, Write, Put
    <3>3. cache[o].spec = store[o].spec
      BY <3>1 DEF IInv, CacheInv
    <3> QED  BY <2>1, <3>2, <3>3
  <2>4. OutputIsThere(k)'
    BY <1>3, <2>3 DEF OutputIsThere
  <2>5. pc' = "done" => StatusSaysSo(k)'
    BY <1>4, <2>2 DEF StatusSaysSo
  <2> QED  BY <1>1, <2>1, <2>2, <2>4, <2>5 DEF On
<1>13. CASE Report
  <2>1. /\ pc = "report" /\ pc' = "done" /\ copy = cache[k]
        /\ copy.status = "Finished"
    BY <1>1, <1>2, <1>13, StatusWritten DEF Report, Succeed, Goto, On, IInv
  <2>2. StatusSaysSo(k)'
    BY <1>5, <2>1 DEF StatusSaysSo
  <2> QED  BY <1>2, <1>3, <2>1, <2>2 DEF On, ToRollOut
<1>14. CASE FinishKey
  BY <1>2, <1>3, <1>5, <1>14 DEF FinishKey, Rest, On, ToRollOut
<1> QED  BY <1>6, <1>7, <1>8, <1>10, <1>11, <1>12, <1>13, <1>14 DEF Work

\* LeftInv is preserved.
LEMMA LeftStep == IInv /\ CopiesInv /\ LeftInv /\ [Next]_vars => LeftInv'
<1> SUFFICES ASSUME IInv, CopiesInv, LeftInv, [Next]_vars, NEW k \in Triggered,
                    Exists(cache[k])', ~Stirred(k)'
             PROVE  /\ On(k, {"render", "initialize", "roll out", "report"})' => copy' = cache'[k]
                    /\ On(k, ToRollOut)' \/ OutputIsThere(k)'
                    /\ On(k, ToRollOut \cup {"report"})' \/ StatusSaysSo(k)'
  BY DEF LeftInv
<1>0. k \in Main /\ k \in Objects /\ k \in Keys /\ k \in Watched(k)
  BY TriggeredKeys
<1>1. CASE Crash
  BY <1>0, <1>1 DEF Crash, Exists, Absent
<1>2. CASE GetKey /\ key' = k
  BY <1>2 DEF GetKey, Goto, On, ToRollOut
<1>3. ASSUME UNCHANGED writeStatus, ~Stirred(k),
             \A o \in Watched(k) : cache'[o] = cache[o],
             \/ UNCHANGED <<pc, key, copy>>
             \/ ~On(k, PCs \ {"idle"}) /\ ~On(k, PCs \ {"idle"})'
      PROVE  /\ On(k, {"render", "initialize", "roll out", "report"})' => copy' = cache'[k]
             /\ On(k, ToRollOut)' \/ OutputIsThere(k)'
             /\ On(k, ToRollOut \cup {"report"})' \/ StatusSaysSo(k)'
  <2>1. cache'[k] = cache[k] /\ Exists(cache[k])
    BY <1>0, <1>3 DEF Exists
  <2>2. OutputIsThere(k)' <=> OutputIsThere(k)
    BY <1>3, <2>1 DEF OutputIsThere, Watched, Listed
  <2>3. StatusSaysSo(k)' <=> StatusSaysSo(k)
    BY <1>3, <2>1 DEF StatusSaysSo
  <2> QED  BY <1>3, <2>1, <2>2, <2>3 DEF LeftInv, On, ToRollOut, PCs
<1>4. CASE UNCHANGED vars
  <2>1. /\ UNCHANGED <<unseen, notes, queueVars, cache, writeStatus, pc, key, copy>>
    BY <1>4 DEF vars, serverVars, informVars, workVars
  <2>2. ~Stirred(k)
    BY <1>0, <2>1, PendingUnchanged DEF Stirred, Watched, Listed
  <2> QED  BY <1>3, <2>1, <2>2
<1>5. CASE Next /\ ~Crash /\ ~(GetKey /\ key' = k)
  <2>1. /\ ~Stirred(k)
        /\ \A o \in Watched(k) : cache'[o] = cache[o] /\ store'[o] = store[o]
    BY <1>5, Undisturbed
  <2>2. CASE Work
    <3>1. CASE key = k /\ pc # "idle"
      BY <1>0, <2>1, <2>2, <3>1, WorkLeaves DEF Exists
    <3>2. CASE key # k \/ pc = "idle"
      <4>1. writeStatus' = writeStatus
        BY <2>2 DEF Work, GetKey, SyncNotFound, SyncFound, ReadList, RenderFails, InitializeStatus,
                    InitializeFails, RollOut, RollOutFails, Report, ReportFails, WriteStatusFails,
                    FinishKey
      <4>2. \/ key' = key /\ pc # "idle"
            \/ GetKey /\ pc = "idle"
            \/ pc' = "idle"
        BY <2>2 DEF Work, GetKey, SyncNotFound, SyncFound, ReadList, RenderFails, InitializeStatus,
                    InitializeFails, RollOut, RollOutFails, Report, ReportFails, WriteStatusFails,
                    FinishKey, Rest, Fail, Succeed
      <4> QED  BY <1>3, <1>5, <2>1, <3>2, <4>1, <4>2 DEF On
    <3> QED  BY <3>1, <3>2
  <2>3. CASE ~Work
    <3>1. UNCHANGED <<writeStatus, workVars>>
      BY <1>5, <2>3 DEF Next, Change, Delete, Observe, Relist, Handle, DelayOver, Calm
    <3> QED  BY <1>3, <2>1, <3>1 DEF workVars
  <2> QED  BY <2>2, <2>3
<1> QED  BY <1>1, <1>2, <1>4, <1>5

LEMMA LeftInit == Init => CopiesInv /\ LeftInv
<1> SUFFICES ASSUME Init
             PROVE  CopiesInv /\ LeftInv
  OBVIOUS
<1>1. \A o \in Objects : ~Exists(cache[o])
  BY DEF Init, Exists, Absent
<1>2. \A o \in Objects : o \notin unseen => ~Exists(store[o])
  BY DEF Init
<1>3. CopiesInv
  BY <1>1, <1>2 DEF CopiesInv
<1>4. \A k \in Triggered : ~Exists(cache[k])
  BY <1>1, TriggeredKeys
<1>5. LeftInv
  BY <1>4 DEF LeftInv
<1> QED  BY <1>3, <1>5

LEMMA LeftInvariance == Spec => [](IInv /\ CopiesInv /\ LeftInv)
<1>1. IInv /\ CopiesInv /\ LeftInv /\ [Next]_vars => IInv' /\ CopiesInv' /\ LeftInv'
  BY IInvStep, CopiesStep, LeftStep
<1> QED  BY <1>1, IInvInit, LeftInit, PTL DEF Spec

\* Whatever there was of writes, drift, conflicts, failures and restarts: an object
\* that is not up to date is still to be rolled out, or is being rolled out.
THEOREM LeavesNoneBehind == Spec => []NoneIsLeftBehind
<1>1. ASSUME IInv, CopiesInv, LeftInv, NEW k \in Triggered, Exists(store[k]),
             ~Owed(k), key # k
      PROVE  UpToDate(k)
  <2>1. k \in Objects /\ k \in Watched(k) /\ ~Stirred(k) /\ ~Working(k)
    BY <1>1, TriggeredKeys DEF Owed, Stirred, Pending
  <2>2. \A o \in Watched(k) : cache[o].spec = store[o].spec
    BY <1>1, <2>1 DEF IInv, CacheInv, Watched, Stirred
  <2>3. cache[k] = store[k] /\ Exists(cache[k])
    BY <1>1, <2>1 DEF CopiesInv, Watched, Stirred
  <2>4. Agrees(k, rolledOut[k], cache)
    BY <1>1, <2>1, <2>3 DEF IInv, DebtInv, Covered, Stirred
  <2>5. Agrees(k, rolledOut[k], store)
    BY <2>1, <2>2, <2>4 DEF Agrees
  <2>6. OutputIsThere(k) /\ StatusSaysSo(k)
    BY <1>1, <2>1, <2>3 DEF LeftInv, On
  <2> QED  BY <2>1, <2>2, <2>3, <2>5, <2>6 DEF UpToDate, OutputIsThere, StatusSaysSo
<1>2. IInv /\ CopiesInv /\ LeftInv => NoneIsLeftBehind
  BY <1>1 DEF NoneIsLeftBehind
<1> QED  BY <1>2, LeftInvariance, PTL

=============================================================================
