---------------------------- MODULE HistoryTable ----------------------------
(***************************************************************************)
(* The operation_history table that internal/operations/history.go keeps   *)
(* in SQLite: what the statements of InsertRun, UpdateRun, Prune and the   *)
(* three listings do to a table and answer from it.  A table is a set of   *)
(* rows.  A row's output column is written together with its exit code, so *)
(* "finished" stands for "finished_at, exit_code and output are not NULL". *)
(***************************************************************************)
EXTENDS Integers, FiniteSets

CONSTANTS
  Names,        \* the operation names a row may carry
  MaxHistory    \* maxHistoryPerOperation: how many rows of a name Prune keeps

ASSUME HistoryAssumption == MaxHistory \in Nat \ {0}

Row == [id : Nat, name : Names, started : Nat, finished : BOOLEAN, exit : Int]

RowsOf(table, name) == {row \in table : row.name = name}

(***************************************************************************)
(* The statements that change the table.  started_at has a resolution of a *)
(* second, and the statement leaves every other column NULL.               *)
(***************************************************************************)
Inserted(table, id, name, now) ==
  table \cup {[id |-> id, name |-> name, started |-> now,
               finished |-> FALSE, exit |-> 0]}

Finish(row, code) == [row EXCEPT !.finished = TRUE, !.exit = code]

Updated(table, id, code) ==
  {row \in table : row.id # id}
    \cup {Finish(row, code) : row \in {r \in table : r.id = id}}

(***************************************************************************)
(* The sets of rows that ORDER BY started_at DESC LIMIT n may select: SQL  *)
(* leaves the order of rows with equal started_at open.                    *)
(***************************************************************************)
Newest(table, n) ==
  {top \in SUBSET table :
     /\ Cardinality(top) = n \/ (top = table /\ Cardinality(table) < n)
     /\ \A row \in top, rest \in table \ top : row.started >= rest.started}

(* Mutated: the name is missing from the DELETE's WHERE clause, or the     *)
(* LIMIT is one too high.                                                  *)
PrunedOfAnyName(table, name) == Newest(table, MaxHistory)

PrunedOffByOne(table, name) ==
  {{row \in table : row.name = name => row \in kept} :
     kept \in Newest(RowsOf(table, name), MaxHistory + 1)}

(* The tables that Prune(name) may leave. *)
Pruned(table, name) ==
  {{row \in table : row.name = name => row \in kept} :
     kept \in Newest(RowsOf(table, name), MaxHistory)}

(***************************************************************************)
(* The answers of a listing.  rows.Scan reads output into a Go string, and *)
(* database/sql refuses to convert NULL to a string: one unfinished row    *)
(* among the selected ones makes the whole listing fail.                   *)
(***************************************************************************)
Answer(rows) == [ok |-> \A row \in rows : row.finished, rows |-> rows]

ListHistory(table, name, limit) ==
  {Answer(top) : top \in Newest(RowsOf(table, name), limit)}

ListAllHistory(table, limit) == {Answer(top) : top \in Newest(table, limit)}

(* operation_name LIKE '%:%': the names of apps' operations. *)
ListAllAppHistory(table, appNames, limit) ==
  {Answer(top) : top \in Newest({row \in table : row.name \in appNames}, limit)}

=============================================================================
