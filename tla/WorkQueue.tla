------------------------------ MODULE WorkQueue ------------------------------
(***************************************************************************)
(* The rate limiting work queue of client-go, as trigger/resource uses it: *)
(* handlers Add keys, one worker Gets a key, works on it and calls Done,   *)
(* and a key whose work failed is added again after a delay.  A key that   *)
(* is added while it is worked on is queued again by Done.                 *)
(*                                                                         *)
(* The module holds state and operations; ResourceTrigger.tla calls them.  *)
(* The length of a delay is left out, and with it Forget, which only       *)
(* resets it.                                                              *)
(***************************************************************************)
EXTENDS Naturals, Sequences

CONSTANT
  Keys        \* the keys that may be queued

VARIABLES
  queue,      \* the keys to be handed out, in this order
  dirty,      \* the keys that have to be worked on
  processing, \* the keys that are worked on
  delayed     \* the keys that will be added when their delay is over

queueVars == <<queue, dirty, processing, delayed>>

QueueTypeOK ==
  /\ queue \in Seq(Keys)
  /\ dirty \subseteq Keys
  /\ processing \subseteq Keys
  /\ delayed \subseteq Keys

QueueInit ==
  /\ queue = << >>
  /\ dirty = {}
  /\ processing = {}
  /\ delayed = {}

\* A key that is dirty already is not added twice; one that is worked on waits
\* for Done.
Add(k) ==
  /\ dirty' = dirty \cup {k}
  /\ queue' = IF k \in dirty \cup processing THEN queue ELSE Append(queue, k)
  /\ UNCHANGED processing

Get(k) ==
  /\ queue # << >>
  /\ k = Head(queue)
  /\ queue' = Tail(queue)
  /\ dirty' = dirty \ {k}
  /\ processing' = processing \cup {k}
  /\ UNCHANGED delayed

Done(k) ==
  /\ processing' = processing \ {k}
  /\ queue' = IF k \in dirty THEN Append(queue, k) ELSE queue
  /\ UNCHANGED <<dirty, delayed>>

AddRateLimited(k) ==
  /\ delayed' = delayed \cup {k}
  /\ UNCHANGED <<queue, dirty, processing>>

\* The delay of a key is over.
Due(k) ==
  /\ k \in delayed
  /\ delayed' = delayed \ {k}
  /\ Add(k)

\* The queue is lost with its process.
LoseQueue ==
  /\ queue' = << >>
  /\ dirty' = {}
  /\ processing' = {}
  /\ delayed' = {}

\* Key k will be handed out without anybody adding it.
Queued(k) ==
  \/ \E i \in DOMAIN queue : queue[i] = k
  \/ k \in dirty /\ k \in processing
  \/ k \in delayed

=============================================================================
