----------------------------- MODULE RuleTable -----------------------------
(***************************************************************************)
(* The rules table and how the alerter looks a rule up.  The host column   *)
(* is left out: getRuleThreshold never compares it.  A table is a record   *)
(* of its rows and of the last id its sequence gave out.                   *)
(***************************************************************************)
EXTENDS Integers

Metrics == {"cpu", "ram", "disk"}

Setting == [metric : Metrics, threshold : Int, count : Int, enabled : BOOLEAN]

RuleRow ==
  [id : Nat, metric : Metrics, threshold : Int, count : Int, enabled : BOOLEAN]

EmptyRules == [rows |-> {}, seq |-> 0]

RowWith(id, s) ==
  [id |-> id, metric |-> s.metric, threshold |-> s.threshold,
   count |-> s.count, enabled |-> s.enabled]

\* What a metric is compared with when no rule names it; the same numbers
\* are the rows InitRules inserts.
DefaultSetting(metric) ==
  CASE metric = "cpu"  -> [metric |-> "cpu", threshold |-> 60, count |-> 3, enabled |-> TRUE]
    [] metric = "ram"  -> [metric |-> "ram", threshold |-> 80, count |-> 1, enabled |-> TRUE]
    [] metric = "disk" -> [metric |-> "disk", threshold |-> 85, count |-> 1, enabled |-> TRUE]

Added(T, s) == [rows |-> T.rows \cup {RowWith(T.seq + 1, s)}, seq |-> T.seq + 1]

Updated(T, id, s) ==
  [T EXCEPT !.rows = {IF r.id = id THEN RowWith(id, s) ELSE r : r \in @}]

Deleted(T, id) == [T EXCEPT !.rows = {r \in @ : r.id # id}]

\* InitRules run by one process alone: the three default rows, and only into
\* an empty table.
Initialised(T) ==
  IF T.rows = {}
  THEN Added(Added(Added(T, DefaultSetting("cpu")), DefaultSetting("ram")),
             DefaultSetting("disk"))
  ELSE T

\* What InitRules may leave when one of its statements fails: it returns at
\* once and keeps the rows it has inserted.  Also its full result.
InitOutcomes(T) ==
  LET one == Added(T, DefaultSetting("cpu"))
      two == Added(one, DefaultSetting("ram"))
  IN  {T, Initialised(T)} \cup (IF T.rows = {} THEN {one, two} ELSE {})

\* Variant: the last row of the metric decides.
LookupLast(rows, metric) ==
  LET named == {r \in rows : r.metric = metric}
  IN  IF named = {}
      THEN DefaultSetting(metric)
      ELSE CHOOSE r \in named : \A q \in named : q.id <= r.id

\* The first row of the metric in id order decides; without one the default.
Lookup(rows, metric) ==
  LET named == {r \in rows : r.metric = metric}
  IN  IF named = {}
      THEN DefaultSetting(metric)
      ELSE CHOOSE r \in named : \A q \in named : r.id <= q.id

=============================================================================
