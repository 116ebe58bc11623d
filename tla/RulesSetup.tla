----------------------------- MODULE RulesSetup -----------------------------
(***************************************************************************)
(* InitRules of storage.Storage when several processes start together.     *)
(* The alerter, the dashboard and the bot each count the rows of the rules *)
(* table and, having found none, insert the three default rules, one       *)
(* statement after the other and in no transaction.  Meanwhile the rules   *)
(* page of a dashboard that is already up edits the same table.            *)
(***************************************************************************)
EXTENDS RuleTable, FiniteSets

CONSTANTS
  Processes,    \* processes that call InitRules, "dashboard" and "bot" among them
  Settings,     \* rules the rules page may save
  MaxCrashes,   \* bound: crashes
  MaxFailures,  \* bound: statements of InitRules that fail
  MaxEdits      \* bound: edits through the rules page

ASSUME RulesSetupAssumption ==
  /\ IsFiniteSet(Processes) /\ Settings \subseteq Setting
  /\ {MaxCrashes, MaxFailures, MaxEdits} \subseteq Nat

VARIABLES
  ruleDb,   \* rules table
  stage,    \* of each process: "off", the metric it inserts next, or "up"
  spent     \* what has been used of each bound

vars == <<ruleDb, stage, spent>>

Limits == [crashes |-> MaxCrashes, failures |-> MaxFailures, edits |-> MaxEdits]

Spend(what) ==
  /\ spent[what] < Limits[what]
  /\ spent' = [spent EXCEPT ![what] = @ + 1]

Init ==
  /\ ruleDb = EmptyRules
  /\ stage = [p \in Processes |-> "off"]
  /\ spent = [what \in DOMAIN Limits |-> 0]

Enter(p, next) == stage' = [stage EXCEPT ![p] = next]

\* Variant: the defaults inserted whatever the table holds.
CountIgnored(p) ==
  /\ stage[p] = "off"
  /\ Enter(p, "cpu")
  /\ UNCHANGED <<ruleDb, spent>>

\* SELECT COUNT(*): only an empty table is filled.
CountRules(p) ==
  /\ stage[p] = "off"
  /\ Enter(p, IF ruleDb.rows = {} THEN "cpu" ELSE "up")
  /\ UNCHANGED <<ruleDb, spent>>

\* Variant: one insert too many.
NextStagePast(m) == CASE m = "cpu" -> "ram" [] m = "ram" -> "disk" [] m = "disk" -> "temp"

NextStage(m) == CASE m = "cpu" -> "ram" [] m = "ram" -> "disk" [] m = "disk" -> "up"

\* One of the three INSERTs.
InsertDefault(p) ==
  /\ stage[p] \in Metrics
  /\ ruleDb' = Added(ruleDb, DefaultSetting(stage[p]))
  /\ Enter(p, NextStage(stage[p]))
  /\ UNCHANGED spent

\* A statement fails: the alerter and the dashboard return from main, the bot
\* does not look at the error.
FailStatement(p) ==
  /\ stage[p] \in Metrics \cup {"off"}
  /\ Spend("failures")
  /\ Enter(p, IF p = "bot" THEN "up" ELSE "off")
  /\ UNCHANGED ruleDb

\* The process ends, inside InitRules or later, and may start again.
Crash(p) ==
  /\ stage[p] # "off"
  /\ Spend("crashes")
  /\ Enter(p, "off")
  /\ UNCHANGED ruleDb

\* The rules page: POST, PUT and DELETE of /api/rules.
EditRules ==
  /\ \E p \in Processes : p = "dashboard" /\ stage[p] = "up"
  /\ Spend("edits")
  /\ \/ \E s \in Settings : ruleDb' = Added(ruleDb, s)
     \/ \E s \in Settings, r \in ruleDb.rows : ruleDb' = Updated(ruleDb, r.id, s)
     \/ \E r \in ruleDb.rows : ruleDb' = Deleted(ruleDb, r.id)
  /\ UNCHANGED stage

Next ==
  \/ \E p \in Processes :
       CountRules(p) \/ InsertDefault(p) \/ FailStatement(p) \/ Crash(p)
  \/ EditRules

Spec == Init /\ [][Next]_vars

-----------------------------------------------------------------------------
(* Properties.                                                              *)

\* Every variable has its type; ids are unique and the sequence is past them.
TypeOK ==
  /\ ruleDb \in [rows : SUBSET RuleRow, seq : Nat]
  /\ \A r \in ruleDb.rows : r.id \in 1..ruleDb.seq
  /\ \A r, q \in ruleDb.rows : r.id = q.id => r = q
  /\ stage \in [Processes -> Metrics \cup {"off", "up"}]
  /\ spent \in [DOMAIN Limits -> Nat]

\* What the alerter compares a metric with.
InForce(rows, m) ==
  LET r == Lookup(rows, m)
  IN  [threshold |-> r.threshold, count |-> r.count, enabled |-> r.enabled]

\* The race leaves duplicates, but never more rows of a metric than there are
\* processes, however often each is restarted (before anybody edits).
DuplicatesBounded ==
  spent.edits = 0 =>
    \A m \in Metrics :
      Cardinality({r \in ruleDb.rows : r.metric = m}) <= Cardinality(Processes)

\* A late InitRules never changes the rule in force: not the one a user has
\* just edited, and not one a user has deleted.
InitNeverOverrides ==
  [][\A p \in Processes :
       InsertDefault(p) =>
         \A m \in Metrics : InForce(ruleDb'.rows, m) = InForce(ruleDb.rows, m)]_vars
=============================================================================
