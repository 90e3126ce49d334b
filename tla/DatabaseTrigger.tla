--------------------------- MODULE DatabaseTrigger ---------------------------
(***************************************************************************)
(* The database trigger (trigger/database): for each configured trigger, a *)
(* goroutine runs its query from time to time, and starts a run for each   *)
(* row, or one for the array of all rows.  Runs are goroutines that nobody *)
(* waits for.  They are kept in a map of maps, by the name of the trigger  *)
(* and the key of the row; the code takes the outer map for an inner one   *)
(* in two places.                                                          *)
(*                                                                         *)
(* The module has no specification of its own: Process.tla composes its    *)
(* operations, and may call Run more than once.                            *)
(***************************************************************************)
EXTENDS Naturals, Sequences

CONSTANTS
  Calls,    \* who may call Run
  Names,    \* the names that triggers may have
  Grouped,  \* those whose rows are grouped to an array
  Keys,     \* the keys of rows, as strings; they may be names of triggers
  EmptyKey, \* the key of the run of an array
  Results,  \* the results that a trigger's query may have
  Runs      \* the runs there may be at a time: bounds the goroutines

VARIABLES
  result,         \* the result that each trigger's query has
  activeTriggers, \* the maps; an entry is the TriggerRun that was started last
  run,            \* what each TriggerRun works on, until it is done
  poll,           \* where the goroutine of each trigger is, for each call of Run
  left,           \* the rows that its query has still to yield
  array,          \* the rows that it has grouped
  served          \* the payload that was rolled out last, by trigger and key

pollVars    == <<poll, left, array>>
triggerVars == <<result, activeTriggers, run, pollVars, served>>

Row      == UNION {{rows[i] : i \in 1 .. Len(rows)} : rows \in Results}
Payload  == Seq(Row)
Run      == [trigger : Names, key : Keys, payload : Payload]
Finished == [trigger |-> EmptyKey, key |-> EmptyKey, payload |-> << >>]

ASSUME TriggerAssumption ==
  /\ Grouped \subseteq Names
  /\ EmptyKey \in Keys
  /\ Results \subseteq Payload
  /\ \A row \in Row : row.key \in Keys

Pollers == Calls \X Names
Name(p) == p[2]

InTransaction == {"rows", "commit"}

TriggerTypeOK ==
  /\ result \in [Names -> Results]
  /\ DOMAIN activeTriggers \subseteq Names
  /\ \A t \in DOMAIN activeTriggers :
       /\ DOMAIN activeTriggers[t] \subseteq Keys
       /\ \A k \in DOMAIN activeTriggers[t] : activeTriggers[t][k] \in Runs
  /\ run \in [Runs -> Run \cup {Finished}]
  /\ poll \in [Pollers -> {"off", "wait", "check"} \cup InTransaction]
  /\ left \in [Pollers -> Payload]
  /\ array \in [Pollers -> Payload]
  /\ served \in [Names -> [Keys -> Payload]]

\* A map without entries; one that is nil reads like it.
Nil == [k \in {} |-> {}]

TriggerInit ==
  /\ \E rows \in Results : result = [t \in Names |-> rows]
  /\ activeTriggers = Nil
  /\ run = [r \in Runs |-> Finished]
  /\ poll = [p \in Pollers |-> "off"]
  /\ left = [p \in Pollers |-> << >>]
  /\ array = [p \in Pollers |-> << >>]
  /\ served = [t \in Names |-> [k \in Keys |-> << >>]]

\* NewTrigger, and a call of Run by each of `calls`.
StartTriggers(names, calls) ==
  /\ activeTriggers' = [t \in names |-> Nil]
  /\ run' = [r \in Runs |-> Finished]
  /\ poll' = [p \in Pollers |-> IF p \in calls \X names THEN "wait" ELSE "off"]
  /\ left' = [p \in Pollers |-> << >>]
  /\ array' = [p \in Pollers |-> << >>]
  /\ UNCHANGED <<result, served>>

\* The process is gone.
LoseTriggers == StartTriggers({}, {})

\* Other clients of the database.
ResultChanges(t, rows) ==
  /\ rows # result[t]
  /\ result' = [result EXCEPT ![t] = rows]
  /\ UNCHANGED <<activeTriggers, run, pollVars, served>>

-----------------------------------------------------------------------------
(***************************************************************************)
(* The goroutine of a trigger.                                             *)
(***************************************************************************)

Goes(p, place) == poll' = [poll EXCEPT ![p] = place]

\* The query's rows are closed, and with them what was grouped.
Leaves(p, place) ==
  /\ Goes(p, place)
  /\ left' = [left EXCEPT ![p] = << >>]
  /\ array' = [array EXCEPT ![p] = << >>]

\* Mutant of Query: the array belongs to the transaction, not to one call of its
\* function.
QueryKeepsArray(p) ==
  /\ Goes(p, "rows")
  /\ left' = [left EXCEPT ![p] = result[Name(p)]]
  /\ UNCHANGED array

\* The function of a transaction runs the query.
Query(p) ==
  /\ Goes(p, "rows")
  /\ left' = [left EXCEPT ![p] = result[Name(p)]]
  /\ array' = [array EXCEPT ![p] = << >>]

\* The context is done.
PollerReturns(p) ==
  /\ poll[p] = "wait"
  /\ Goes(p, "off")
  /\ UNCHANGED <<result, activeTriggers, run, left, array, served>>

\* The ticker of runTrigger ticks.
Tick(p) ==
  /\ poll[p] = "wait"
  /\ Goes(p, "check")
  /\ UNCHANGED <<result, activeTriggers, run, left, array, served>>

Done(r) == run[r] = Finished

Entries(t) == IF t \in DOMAIN activeTriggers THEN activeTriggers[t] ELSE Nil

DoneKeys(t) == {k \in DOMAIN Entries(t) : Done(Entries(t)[k])}

Without(f, keys) == [k \in DOMAIN f \ keys |-> f[k]]

\* checkTrigger deletes the keys of runs that are done, from the outer map, and
\* begins a transaction; or returns an error, without a connection.
Check(p, isConnected) ==
  /\ poll[p] = "check"
  /\ activeTriggers' = Without(activeTriggers, DoneKeys(Name(p)))
  /\ IF isConnected THEN Query(p) ELSE Leaves(p, "wait")
  /\ UNCHANGED <<result, run, served>>

\* The identity of a TriggerRun that nothing refers to.
Free ==
  {r \in Runs : /\ Done(r)
                /\ \A t \in DOMAIN activeTriggers :
                     \A k \in DOMAIN activeTriggers[t] : activeTriggers[t][k] # r}

\* Mutant of Scheduled: the maps are told apart here, although not in Check.
ScheduledOfTrigger(t, k) == k \in DOMAIN Entries(t)

\* ScheduleTriggerRun looks its key up in the outer map.
Scheduled(t, k) == k \in DOMAIN activeTriggers

\* It would write into a map that is nil, and panic.
WritesNilMap(t, k) == ~Scheduled(t, k) /\ t \notin DOMAIN activeTriggers

WithEntry(f, k, r) == [j \in DOMAIN f \cup {k} |-> IF j = k THEN r ELSE f[j]]

ScheduleTriggerRun(t, k, payload) ==
  IF Scheduled(t, k) THEN UNCHANGED <<activeTriggers, run>>
  ELSE /\ t \in DOMAIN activeTriggers
       /\ Free # {}
       /\ LET r == CHOOSE r \in Free : TRUE
          IN /\ activeTriggers' = [activeTriggers EXCEPT ![t] = WithEntry(@, k, r)]
             /\ run' = [run EXCEPT ![r] = [trigger |-> t, key |-> k, payload |-> payload]]

NextRow(p) ==
  /\ poll[p] = "rows"
  /\ left[p] # << >>
  /\ left' = [left EXCEPT ![p] = Tail(@)]
  /\ IF Name(p) \in Grouped
     THEN array' = [array EXCEPT ![p] = Append(@, Head(left[p]))]
          /\ UNCHANGED <<activeTriggers, run>>
     ELSE ScheduleTriggerRun(Name(p), Head(left[p]).key, << Head(left[p]) >>)
          /\ UNCHANGED array
  /\ UNCHANGED <<result, poll, served>>

\* rows.Next returns false.
EndOfRows(p) ==
  /\ poll[p] = "rows"
  /\ IF Name(p) \in Grouped
     THEN ScheduleTriggerRun(Name(p), EmptyKey, array[p])
     ELSE UNCHANGED <<activeTriggers, run>>
  /\ UNCHANGED <<result, served>>

LastRow(p) == left[p] = << >> /\ EndOfRows(p) /\ Leaves(p, "commit")

\* It also does after an error, which nobody looks at: rows are missing, and the
\* transaction cannot be committed.  It is retried, or fails.
RowsBreak(p) ==
  /\ left[p] # << >>
  /\ EndOfRows(p)
  /\ Query(p) \/ Leaves(p, "wait")

\* The keys that the goroutine may be about to schedule.
NextKeys(p) ==
  IF poll[p] # "rows" THEN {}
  ELSE IF Name(p) \in Grouped THEN {EmptyKey}
  ELSE IF left[p] # << >> THEN {Head(left[p]).key} ELSE {}

Panics(p) == \E k \in NextKeys(p) : WritesNilMap(Name(p), k)

Commit(p) ==
  /\ poll[p] = "commit"
  /\ Leaves(p, "wait")
  /\ UNCHANGED <<result, activeTriggers, run, served>>

\* The transaction is retried: its function is called again.
Retry(p) ==
  /\ poll[p] = "commit"
  /\ Query(p)
  /\ UNCHANGED <<result, activeTriggers, run, served>>

\* An error ends the transaction: the query's, a value that cannot be decoded,
\* a key column that is not there, the commit's.
Fails(p) ==
  /\ poll[p] \in InTransaction
  /\ Leaves(p, "wait")
  /\ UNCHANGED <<result, activeTriggers, run, served>>

\* The maps that a goroutine reads or writes next, and those that it writes.
Outer == <<"outer">>
Inner(t) == <<"inner", t>>
Touches(p) == IF poll[p] = "check" \/ NextKeys(p) # {} THEN {Outer, Inner(Name(p))} ELSE {}
Writes(p)  == (IF poll[p] = "check" /\ DoneKeys(Name(p)) # {} THEN {Outer} ELSE {})
              \cup (IF NextKeys(p) # {} THEN {Inner(Name(p))} ELSE {})

\* Two goroutines are at one map at a time, and one of them writes.
Race(p, q) == p # q /\ Writes(p) \cap Touches(q) # {}

-----------------------------------------------------------------------------
(***************************************************************************)
(* The goroutine of a TriggerRun.                                          *)
(***************************************************************************)

EndRun(r) == run' = [run EXCEPT ![r] = Finished]

\* The rollout of `config` is complete.
RunSucceeds(r, config) ==
  /\ ~Done(r)
  /\ EndRun(r)
  /\ served' = [served EXCEPT ![run[r].trigger][run[r].key] = config]
  /\ UNCHANGED <<result, activeTriggers, pollVars>>

\* An error is only logged.
RunFails(r) ==
  /\ ~Done(r)
  /\ EndRun(r)
  /\ UNCHANGED <<result, activeTriggers, pollVars, served>>

=============================================================================
