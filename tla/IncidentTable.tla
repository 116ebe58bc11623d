--------------------------- MODULE IncidentTable ---------------------------
(***************************************************************************)
(* The incidents table as the alerter uses it.  A table is a record of two *)
(* sets of rows: resolved_at IS NULL (open) and resolved_at set (resolved).*)
(* The value, threshold and duration columns are abstracted away; the      *)
(* start time is kept because one backend picks the row to close by it.    *)
(***************************************************************************)
EXTENDS Integers

CONSTANT Backend    \* which implementation of storage.Storage is in use

ASSUME BackendAssumption == Backend \in {"sqlite", "postgres"}

EmptyTable == [open |-> {}, resolved |-> {}]

OpenRows(T, host, metric) ==
  {r \in T.open : r.host = host /\ r.metric = metric}

\* Every row ever inserted for the host and the metric.
RowsOf(T, host, metric) ==
  {r \in T.open \cup T.resolved : r.host = host /\ r.metric = metric}

\* Variant: an insert that ignores a host and metric it has seen before.
InsertedOnce(T, row) ==
  IF RowsOf(T, row.host, row.metric) # {} THEN T ELSE [T EXCEPT !.open = @ \cup {row}]

Inserted(T, row) == [T EXCEPT !.open = @ \cup {row}]

Latest(rows) == {r \in rows : \A q \in rows : q.startedAt <= r.startedAt}

\* Variant: the UPDATE without its host condition.
HitsAnyHost(T, host, metric) == {{r \in T.open : r.metric = metric}}

\* The row sets one UPDATE may hit: SQLite resolves every open row of the
\* host and metric, Postgres one row with the latest start (ORDER BY ...
\* LIMIT 1, ties in any order).
Hits(T, host, metric) ==
  LET rows == OpenRows(T, host, metric)
  IN  IF Backend = "sqlite" \/ rows = {}
      THEN {rows}
      ELSE {{r} : r \in Latest(rows)}

Closed(T, hit) == [open |-> T.open \ hit, resolved |-> T.resolved \cup hit]

=============================================================================
