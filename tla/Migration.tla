----------------------------- MODULE Migration -----------------------------
(***************************************************************************)
(* cmd/migrate: copies the SQLite tables into PostgreSQL, one after the    *)
(* other.  A numbered table is copied from a watermark: the largest id in  *)
(* PostgreSQL, compared with ids of SQLite although each database numbers  *)
(* its rows itself.  The mutes are truncated and copied whole.  The        *)
(* services may write to either database meanwhile, the process may end at *)
(* any statement, and an operator may run it again.                        *)
(***************************************************************************)
EXTENDS Integers, Sequences, FiniteSets

CONSTANTS
  Stored,       \* rows of each table in SQLite when the story begins
  Muted,        \* hosts muted in SQLite
  MaxRuns,      \* bound: runs of migrate
  MaxFailures,  \* bound: statements that fail, or crashes
  MaxWrites,    \* bound: rows the services add to SQLite
  MaxDeletes,   \* bound: rows the rules page deletes from either
  MaxForeign    \* bound: rows and mutes the services add to PostgreSQL

\* main migrates them in this order.
Order    == <<"metrics", "speedtest", "rules", "mutes", "incidents">>
Numbered == {"metrics", "speedtest", "rules", "incidents"}

ASSUME MigrationAssumption ==
  /\ Stored \in [Numbered -> Nat]
  /\ {MaxRuns, MaxFailures, MaxWrites, MaxDeletes, MaxForeign} \subseteq Nat

VARIABLES
  source,     \* SQLite: ids of the rows of each numbered table
  last,       \* SQLite: the last id its AUTOINCREMENT gave out
  target,     \* PostgreSQL: rows, each with its id and the source id it copies
  seq,        \* PostgreSQL: the last id its identity column gave out
  muted,      \* muted hosts in SQLite and in PostgreSQL
  at,         \* index into Order
  step,       \* what main does next at that table, or how it ended
  watermark,  \* the id read from PostgreSQL
  data        \* ids or hosts read from SQLite

\* History: rows in SQLite when this run began; of each table, how many rows
\* were deleted in SQLite, how many ids PostgreSQL gave to rows of the services
\* or burned in a failed COPY, and the rows deleted there; and what has been
\* spent of each bound.
VARIABLES began, deleted, foreign, burned, dropped, spent

databases == <<source, last, target, seq, muted>>
process   == <<at, step, watermark, data>>
history   == <<began, deleted, foreign, burned, dropped>>
vars      == <<databases, process, history, spent>>

Limits == [runs |-> MaxRuns, failures |-> MaxFailures, writes |-> MaxWrites,
           deletes |-> MaxDeletes, foreign |-> MaxForeign]

Spend(what) ==
  /\ spent[what] < Limits[what]
  /\ spent' = [spent EXCEPT ![what] = @ + 1]

Table == Order[at]
None  == 0      \* the source of a row that is no copy

Ids(t) == {r.id : r \in target[t]}

\* Columns a SELECT names that SQLite's CREATE TABLE does not have, and
\* columns PostgreSQL wants that a COPY does not name.
Unknown(t) == IF t = "incidents" THEN {"notified"} ELSE {}
Omitted(t) == IF t = "metrics" THEN {"disk_pct", "disk_free"} ELSE {}

Init ==
  /\ source = [t \in Numbered |-> 1..Stored[t]]
  /\ last = Stored
  /\ target = [t \in Numbered |-> {}]
  /\ seq = [t \in Numbered |-> 0]
  /\ muted = [sqlite |-> Muted, postgres |-> {}]
  /\ at = 1 /\ step = "off" /\ watermark = 0 /\ data = {}
  /\ began = source
  /\ deleted = [t \in Numbered |-> 0]
  /\ foreign = [t \in Numbered |-> 0]
  /\ burned = [t \in Numbered |-> 0]
  /\ dropped = [t \in Numbered |-> {}]
  /\ spent = [what \in DOMAIN Limits |-> 0]

-----------------------------------------------------------------------------
(* The services beside the migration.                                       *)

\* A service that still uses SQLite adds a row.
WriteSource(t) ==
  /\ Spend("writes")
  /\ source' = [source EXCEPT ![t] = @ \cup {last[t] + 1}]
  /\ last' = [last EXCEPT ![t] = @ + 1]
  /\ UNCHANGED <<target, seq, muted, process, history>>

\* Only rules are ever deleted; AUTOINCREMENT does not give their ids again.
DeleteRule(id) ==
  /\ id \in source["rules"]
  /\ Spend("deletes")
  /\ source' = [source EXCEPT !["rules"] = @ \ {id}]
  /\ deleted' = [deleted EXCEPT !["rules"] = @ + 1]
  /\ UNCHANGED <<last, target, seq, muted, process, began, foreign, burned, dropped>>

\* A service that already uses PostgreSQL adds a row; InitRules is the first.
WriteTarget(t) ==
  /\ Spend("foreign")
  /\ target' = [target EXCEPT ![t] = @ \cup {[id |-> seq[t] + 1, from |-> None]}]
  /\ seq' = [seq EXCEPT ![t] = @ + 1]
  /\ foreign' = [foreign EXCEPT ![t] = @ + 1]
  /\ UNCHANGED <<source, last, muted, process, began, deleted, burned, dropped>>

\* The rules page on PostgreSQL deletes a row.
DropRule(row) ==
  /\ row \in target["rules"]
  /\ Spend("deletes")
  /\ target' = [target EXCEPT !["rules"] = @ \ {row}]
  /\ dropped' = [dropped EXCEPT !["rules"] = @ \cup {row}]
  /\ UNCHANGED <<source, last, seq, muted, process, began, deleted, foreign, burned>>

\* The bot on PostgreSQL mutes a host.
MuteTarget(host) ==
  /\ Spend("foreign")
  /\ muted' = [muted EXCEPT !.postgres = @ \cup {host}]
  /\ UNCHANGED <<source, last, target, seq, process, history>>

-----------------------------------------------------------------------------
(* The migration.                                                           *)

Running == step \in {"begin", "select", "copy"}

Run ==
  /\ ~Running
  /\ Spend("runs")
  /\ at' = 1 /\ step' = "begin" /\ watermark' = 0 /\ data' = {}
  /\ began' = source
  /\ UNCHANGED <<databases, deleted, foreign, burned, dropped>>

\* os.Exit(1) after the first error, or the process dies.
Fail ==
  /\ step' = "failed"
  /\ watermark' = 0 /\ data' = {}
  /\ UNCHANGED at

\* The next table, or the end.
Advance ==
  /\ IF at = Len(Order)
     THEN step' = "done" /\ UNCHANGED at
     ELSE step' = "begin" /\ at' = at + 1
  /\ watermark' = 0 /\ data' = {}

\* getMaxID
MaxId(t) ==
  IF target[t] = {} THEN 0 ELSE CHOOSE n \in Ids(t) : \A m \in Ids(t) : m <= n

ReadWatermark ==
  /\ step = "begin" /\ Table \in Numbered
  /\ watermark' = MaxId(Table)
  /\ step' = "select"
  /\ UNCHANGED <<databases, at, data, history, spent>>

TruncateMutes ==
  /\ step = "begin" /\ Table = "mutes"
  /\ muted' = [muted EXCEPT !.postgres = {}]
  /\ step' = "select"
  /\ UNCHANGED <<source, last, target, seq, at, watermark, data, history, spent>>

\* Variants: WHERE id >= watermark, and one row too few.
NewAndLast(t) == {id \in source[t] : id >= watermark}
NewButOne(t)  == {id \in source[t] : id > watermark + 1}

\* WHERE id > watermark
New(t) == {id \in source[t] : id > watermark}

Selected == IF Table = "mutes" THEN muted.sqlite ELSE New(Table)

\* The SELECT; a column SQLite does not have is an error, and without rows the
\* table is done.
SelectRows ==
  /\ step = "select" /\ Unknown(Table) = {}
  /\ IF Selected = {}
     THEN Advance
     ELSE data' = Selected /\ step' = "copy" /\ UNCHANGED <<at, watermark>>
  /\ UNCHANGED <<databases, history, spent>>

SelectUnknown ==
  /\ step = "select" /\ Unknown(Table) # {}
  /\ Fail
  /\ UNCHANGED <<databases, history, spent>>

\* Variant: the COPY numbers the rows from 1, whatever the table holds.
CopiesFromOne(first) ==
  {[id |-> Cardinality({j \in data : j <= id}), from |-> id] : id \in data}

\* The COPY numbers the rows anew, in the order of their old ids.
Copies(first) ==
  {[id |-> first + Cardinality({j \in data : j <= id}), from |-> id] : id \in data}

CopyRows ==
  /\ step = "copy" /\ Table \in Numbered /\ Omitted(Table) = {}
  /\ target' = [target EXCEPT ![Table] = @ \cup Copies(seq[Table])]
  /\ seq' = [seq EXCEPT ![Table] = @ + Cardinality(data)]
  /\ Advance
  /\ UNCHANGED <<source, last, muted, history, spent>>

\* The host is the primary key of mutes: one that the bot has muted since the
\* TRUNCATE makes the COPY fail.
CopyMutes ==
  /\ step = "copy" /\ Table = "mutes"
  /\ IF data \cap muted.postgres = {}
     THEN muted' = [muted EXCEPT !.postgres = @ \cup data] /\ Advance
     ELSE UNCHANGED muted /\ Fail
  /\ UNCHANGED <<source, last, target, seq, history, spent>>

\* A COPY that fails stores nothing, but the ids it took are gone.
Burn ==
  \E n \in 0..Cardinality(data) :
    /\ seq' = [seq EXCEPT ![Table] = @ + n]
    /\ burned' = [burned EXCEPT ![Table] = @ + n]

CopyOmitted ==
  /\ step = "copy" /\ Table \in Numbered /\ Omitted(Table) # {}
  /\ Burn
  /\ Fail
  /\ UNCHANGED <<source, last, target, muted, began, deleted, foreign, dropped, spent>>

\* A statement fails although it is right, or the process dies before the next.
FailStatement ==
  /\ Running
  /\ Spend("failures")
  /\ IF step = "copy" /\ Table \in Numbered THEN Burn ELSE UNCHANGED <<seq, burned>>
  /\ Fail
  /\ UNCHANGED <<source, last, target, muted, began, deleted, foreign, dropped>>

Next ==
  \/ \E t \in Numbered : WriteSource(t) \/ WriteTarget(t)
  \/ \E id \in source["rules"] : DeleteRule(id)
  \/ \E row \in target["rules"] : DropRule(row)
  \/ \E host \in Muted : MuteTarget(host)
  \/ Run \/ ReadWatermark \/ TruncateMutes
  \/ SelectRows \/ SelectUnknown
  \/ CopyRows \/ CopyMutes \/ CopyOmitted \/ FailStatement

Spec == Init /\ [][Next]_vars

-----------------------------------------------------------------------------
(* Properties.                                                              *)

\* Every variable has its type; PostgreSQL's ids are unique and its sequence
\* is past them; at "copy" there is something to copy.
TypeOK ==
  /\ \A t \in Numbered :
       /\ source[t] \subseteq 1..last[t]
       /\ target[t] \subseteq [id : 1..seq[t], from : 0..last[t]]
       /\ \A r, q \in target[t] : r.id = q.id => r = q
  /\ DOMAIN source = Numbered /\ DOMAIN target = Numbered
  /\ last \in [Numbered -> Nat] /\ seq \in [Numbered -> Nat]
  /\ muted.sqlite = Muted /\ muted.postgres \subseteq Muted
  /\ at \in DOMAIN Order
  /\ step \in {"off", "begin", "select", "copy", "done", "failed"}
  /\ watermark \in Nat
  /\ step = "copy" <=> data # {}
  /\ began \in [Numbered -> SUBSET Nat]
  /\ deleted \in [Numbered -> Nat] /\ foreign \in [Numbered -> Nat]
  /\ burned \in [Numbered -> Nat]
  /\ \A t \in Numbered : dropped[t] \subseteq [id : Nat, from : Nat]
  /\ spent \in [DOMAIN Limits -> Nat]

CopiesOf(t, id) == {r \in target[t] : r.from = id}

\* What makes the two databases number a row differently.
Skewed(t) == deleted[t] + foreign[t] + burned[t] > 0 \/ dropped[t] # {}

\* As long as nothing makes the numbers drift, the target holds a prefix of
\* the source, each row once and under its own id, however often the migration
\* is broken off and run again beside services that go on writing to SQLite.
CopiedOnce ==
  \A t \in Numbered :
    ~Skewed(t) => \E n \in 0..last[t] :
                    target[t] = {[id |-> id, from |-> id] : id \in 1..n}

\* The tables the present run has finished.
Finished == {t \in Numbered : \E i \in 1..(at - 1) : Order[i] = t}

Missed(t) ==
  {id \in began[t] \cap source[t] : \A r \in target[t] \cup dropped[t] : r.from # id}

\* Rows that were there when the run began and that it passed over: each has
\* an id behind it that PostgreSQL gave to a row of its own, burned, or has
\* given up.
MissedBounded ==
  \A t \in Finished :
    Cardinality(Missed(t)) <= foreign[t] + burned[t] + Cardinality(dropped[t])

DroppedCopies(t, id) == {r \in dropped[t] : r.from = id}

\* Of all the copies ever made of a row, every one but the first has a deleted
\* row behind it.  One deleted in SQLite leaves a gap in its ids that keeps the
\* watermark below the row; when the copy is deleted in PostgreSQL and was the
\* last, the watermark falls and the next run brings the row back.
RepeatsBounded ==
  \A t \in Numbered : \A id \in 1..last[t] :
    Cardinality(CopiesOf(t, id) \cup DroppedCopies(t, id))
      <= 1 + deleted[t] + Cardinality(DroppedCopies(t, id))

\* A migration fails only because a statement failed that was right, or the
\* bot muted a host under it.
FailsOnlyOnError ==
  step = "failed" => spent.failures + spent.foreign > 0
=============================================================================
