---------------------------- MODULE DatabaseSource ----------------------------
(***************************************************************************)
(* A database source (source/crdb.go): rendering reads the result of a     *)
(* query.  The function of the transaction may be called several times, as *)
(* the transaction is retried; what it collects, it collects in a variable *)
(* outside of it.                                                          *)
(*                                                                         *)
(* An attempt reads one snapshot and touches nothing else, so it is one    *)
(* step.  The module has no specification of its own: Process.tla composes *)
(* its operations.                                                         *)
(***************************************************************************)
EXTENDS Naturals, Sequences

CONSTANTS
  Readers, \* the executions that read the source
  Tables,  \* the results that its query may have
  MaxRead  \* bound on the rows that attempts which are retried have collected


VARIABLES
  table,  \* the result that the query has
  res,    \* the rows that each reader has collected
  isRead  \* the rows that the last attempt of each reader has read

sourceVars == <<table, res, isRead>>

Rows == UNION {{rows[i] : i \in 1 .. Len(rows)} : rows \in Tables}

ASSUME SourceAssumption == MaxRead \in Nat /\ Tables \subseteq Seq(Rows)

SourceTypeOK ==
  /\ table \in Tables
  /\ res \in [Readers -> Seq(Rows)]
  /\ isRead \in [Readers -> Seq(Rows)]

SourceInit ==
  /\ table \in Tables
  /\ res = [e \in Readers |-> << >>]
  /\ isRead = [e \in Readers |-> << >>]

\* Other clients of the database.
TableChanges(rows) ==
  /\ rows # table
  /\ table' = rows
  /\ UNCHANGED <<res, isRead>>

\* What rows.Next may have yielded before an attempt ends.
Prefixes(rows) == {SubSeq(rows, 1, n) : n \in 0 .. Len(rows)}

\* Mutant of Collect: the result is written by position, and so only grows.
CollectByPosition(e, rows) ==
  /\ res' = [res EXCEPT ![e] =
               IF Len(rows) > Len(@) THEN rows ELSE rows \o SubSeq(@, Len(rows) + 1, Len(@))]
  /\ isRead' = [isRead EXCEPT ![e] = rows]
  /\ UNCHANGED table

Collect(e, rows) ==
  /\ res' = [res EXCEPT ![e] = @ \o rows]
  /\ isRead' = [isRead EXCEPT ![e] = rows]
  /\ UNCHANGED table

\* Every row was read, and the transaction is committed.
AttemptCommits(e) == Collect(e, table)

\* The transaction has to be retried; the function will be called again.
AttemptIsRetried(e) ==
  \E rows \in Prefixes(table) :
    /\ rows # << >>
    /\ Len(res[e]) + Len(rows) <= MaxRead
    /\ Collect(e, rows)

\* Mutant of CloseSource: the variable belongs to the source, not to the call.
CloseSourceKept(e) == UNCHANGED sourceVars

\* The call is over.
CloseSource(e) ==
  /\ res' = [res EXCEPT ![e] = << >>]
  /\ isRead' = [isRead EXCEPT ![e] = << >>]
  /\ UNCHANGED table

=============================================================================
