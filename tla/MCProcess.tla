------------------------------ MODULE MCProcess ------------------------------
(***************************************************************************)
(* Process.tla for TLC: the configurations that tell its parts apart.      *)
(***************************************************************************)
EXTENDS Process, TLC

CONSTANTS A, G, X, None, DB, Other

RowOf(k, v) == [key |-> k, value |-> v]

\* A is the name of a trigger, X is not.
MCResults == { << RowOf(X, 1) >>, << RowOf(A, 1), RowOf(X, 2) >> }

MCFileContent == << >>

MCTables == { << "old" >>, << "new", "newer" >> }

\* No trigger, no database.
Bare == [oneOff |-> FALSE, resource |-> FALSE, interval |-> FALSE, database |-> FALSE,
         names |-> {}, source |-> FALSE, connects |-> FALSE, connections |-> << >>,
         file |-> FALSE]

With(f) == f @@ Bare

Connecting == [connects |-> TRUE, connections |-> << DB >>]

OneOffs   == { With([oneOff |-> TRUE, resource |-> TRUE, source |-> TRUE] @@ Connecting) }
Intervals == { With([interval |-> TRUE, source |-> TRUE] @@ Connecting),
               With([interval |-> TRUE, resource |-> TRUE]) }
Alone     == { With([resource |-> TRUE]) }
Databases == { With([database |-> TRUE, names |-> {A}] @@ Connecting),
               With([database |-> TRUE, names |-> {G}] @@ Connecting),
               With([database |-> TRUE] @@ Connecting),
               With([database |-> TRUE, interval |-> TRUE, names |-> {A}, file |-> TRUE]
                    @@ Connecting) }
Broken    == { Bare,
               With([database |-> TRUE, names |-> {A}]),
               With([database |-> TRUE, names |-> {A}, connects |-> TRUE]),
               With([interval |-> TRUE, source |-> TRUE]),
               With([interval |-> TRUE, connects |-> TRUE, connections |-> << DB, DB >>]),
               With([interval |-> TRUE, connects |-> TRUE, connections |-> << DB, Other >>]) }

MCFlags == OneOffs \cup Intervals \cup Alone \cup Databases \cup Broken

=============================================================================
