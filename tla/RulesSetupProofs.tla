-------------------------- MODULE RulesSetupProofs --------------------------
(***************************************************************************)
(* Proofs about InitRules run by several processes at once, for every      *)
(* finite set of processes, all settings of the rules page and every value *)
(* of the bounds.                                                          *)
(***************************************************************************)
EXTENDS RulesSetup, FiniteSetTheorems, NaturalsInduction, WellFoundedInduction, TLAPS

-----------------------------------------------------------------------------
(* Types.                                                                   *)

\* The three kinds of disturbance.
LEMMA LimitsDomain == DOMAIN Limits = {"crashes", "failures", "edits"}
BY DEF Limits

\* Spending from a bound keeps the account well formed, and never gives back.
LEMMA SpendType ==
  ASSUME TypeOK, NEW what \in DOMAIN Limits, Spend(what)
  PROVE  /\ spent' \in [DOMAIN Limits -> Nat]
         /\ spent'[what] = spent[what] + 1
         /\ \A other \in DOMAIN Limits : other # what => spent'[other] = spent[other]
<1>. DEFINE D == DOMAIN Limits
<1>1. spent \in [D -> Nat] /\ spent' = [spent EXCEPT ![what] = spent[what] + 1] /\ what \in D
  BY DEF TypeOK, Spend
<1>. HIDE DEF D
<1>2. /\ spent' \in [D -> Nat] /\ spent'[what] = spent[what] + 1
      /\ \A other \in D : other # what => spent'[other] = spent[other]
  BY <1>1
<1>. QED  BY <1>2 DEF D

\* A row of the rules table with the id it is given.
LEMMA RowWithType ==
  ASSUME NEW id \in Nat, NEW s \in Setting
  PROVE  /\ RowWith(id, s) \in RuleRow /\ RowWith(id, s).id = id
         /\ RowWith(id, s).metric = s.metric /\ RowWith(id, s).threshold = s.threshold
         /\ RowWith(id, s).count = s.count /\ RowWith(id, s).enabled = s.enabled
BY DEF RowWith, RuleRow, Setting

\* The defaults are rules the page could have saved.
LEMMA DefaultType ==
  ASSUME NEW m \in Metrics
  PROVE  DefaultSetting(m) \in Setting /\ DefaultSetting(m).metric = m
BY DEF Metrics, DefaultSetting, Setting

Numbered(T) ==
  /\ T \in [rows : SUBSET RuleRow, seq : Nat]
  /\ \A r \in T.rows : r.id \in 1..T.seq
  /\ \A r, q \in T.rows : r.id = q.id => r = q

\* An added row has an id no other row has.
LEMMA AddedNumbered ==
  ASSUME NEW T, Numbered(T), NEW s \in Setting
  PROVE  /\ Numbered(Added(T, s))
         /\ Added(T, s).rows = T.rows \cup {RowWith(T.seq + 1, s)}
         /\ \A r \in T.rows : r.id < T.seq + 1
<1>. DEFINE new == RowWith(T.seq + 1, s)
<1>1. T.seq \in Nat /\ new \in RuleRow /\ new.id = T.seq + 1
  BY RowWithType DEF Numbered
<1>2. Added(T, s).rows = T.rows \cup {new} /\ Added(T, s).seq = T.seq + 1
      /\ Added(T, s) = [rows |-> T.rows \cup {new}, seq |-> T.seq + 1]
  BY DEF Added
<1>. HIDE DEF new
<1>3. \A r \in T.rows : r.id \in Nat /\ r.id < T.seq + 1
  BY <1>1 DEF Numbered
<1>4. \A r \in T.rows \cup {new} : r.id \in 1..(T.seq + 1)
  BY <1>1 DEF Numbered
<1>5. \A r, q \in T.rows \cup {new} : r.id = q.id => r = q
  BY <1>1, <1>3 DEF Numbered
<1>6. Added(T, s) \in [rows : SUBSET RuleRow, seq : Nat]
  BY <1>1, <1>2 DEF Numbered
<1>. QED  BY <1>2, <1>3, <1>4, <1>5, <1>6 DEF Numbered, new

\* A rewritten row keeps its id.
LEMMA UpdatedNumbered ==
  ASSUME NEW T, Numbered(T), NEW s \in Setting, NEW r \in T.rows
  PROVE  Numbered(Updated(T, r.id, s))
<1>. DEFINE new == RowWith(r.id, s)
            rows == {IF q.id = r.id THEN new ELSE q : q \in T.rows}
<1>1. r.id \in Nat /\ new \in RuleRow /\ new.id = r.id /\ r.id \in 1..T.seq
  BY RowWithType DEF Numbered, RuleRow
<1>2. Updated(T, r.id, s) = [rows |-> rows, seq |-> T.seq]
  BY SMTT(30) DEF Updated, Numbered
<1>. HIDE DEF new
<1>3. /\ rows \subseteq RuleRow
      /\ \A q \in rows : q.id \in 1..T.seq
      /\ \A p, q \in rows : p.id = q.id => p = q
  BY <1>1 DEF Numbered
<1>. HIDE DEF rows
<1>. QED  BY <1>2, <1>3 DEF Numbered

\* Deleting only removes rows.
LEMMA DeletedNumbered ==
  ASSUME NEW T, Numbered(T), NEW id
  PROVE  Numbered(Deleted(T, id))
BY DEF Numbered, Deleted

\* One step per action.
LEMMA StepType == TypeOK /\ [Next]_vars => TypeOK'
<1>. SUFFICES ASSUME TypeOK, [Next]_vars PROVE TypeOK'
  OBVIOUS
<1>. USE LimitsDomain
<1>0. Numbered(ruleDb) /\ (Numbered(ruleDb)' <=> Numbered(ruleDb'))
  BY DEF TypeOK, Numbered
<1>s. ASSUME NEW p \in Processes, NEW next \in Metrics \cup {"off", "up"}, Enter(p, next)
      PROVE  stage' \in [Processes -> Metrics \cup {"off", "up"}]
  BY <1>s DEF Enter, TypeOK
<1>1. ASSUME NEW p \in Processes, CountRules(p) PROVE TypeOK'
  BY <1>1, <1>s DEF CountRules, TypeOK, Metrics
<1>2. ASSUME NEW p \in Processes, InsertDefault(p) PROVE TypeOK'
  <2>1. Numbered(ruleDb')
    BY <1>0, <1>2, AddedNumbered, DefaultType DEF InsertDefault
  <2>2. NextStage(stage[p]) \in Metrics \cup {"off", "up"}
    BY <1>2 DEF InsertDefault, NextStage, Metrics
  <2>. QED  BY <1>2, <1>s, <2>1, <2>2 DEF InsertDefault, TypeOK, Numbered
<1>3. ASSUME NEW p \in Processes, FailStatement(p) PROVE TypeOK'
  BY <1>3, <1>s, SpendType DEF FailStatement, TypeOK
<1>4. ASSUME NEW p \in Processes, Crash(p) PROVE TypeOK'
  BY <1>4, <1>s, SpendType DEF Crash, TypeOK
<1>5. CASE EditRules
  <2>1. Numbered(ruleDb')
    BY <1>0, <1>5, AddedNumbered, UpdatedNumbered, DeletedNumbered, RulesSetupAssumption
    DEF EditRules
  <2>2. spent' \in [DOMAIN Limits -> Nat] /\ stage' = stage
    BY <1>5, SpendType DEF EditRules
  <2>. QED  BY <2>1, <2>2 DEF TypeOK, Numbered
<1>6. CASE UNCHANGED vars
  BY <1>6 DEF TypeOK, vars
<1>. QED  BY <1>1, <1>2, <1>3, <1>4, <1>5, <1>6 DEF Next

\* An empty table and processes that are off.
LEMMA InitType == Init => TypeOK
BY DEF Init, TypeOK, EmptyRules

\* Ids stay unique and below the sequence, whoever inserts, edits or deletes.
THEOREM TypeCorrect == Spec => []TypeOK
BY InitType, StepType, PTL DEF Spec

-----------------------------------------------------------------------------
(* Duplicates.                                                              *)

\* Where a process that is still to insert the default of m may stand.
Before(m) == IF m = "cpu" THEN {"cpu"} ELSE IF m = "ram" THEN {"cpu", "ram"} ELSE Metrics

\* The rows of m, and the processes that will add another one.
RowsOf(m)    == {r \in ruleDb.rows : r.metric = m}
Inserters(m) == {p \in Processes : stage[p] \in Before(m)}

\* Every row there is, and every row to come, has a process of its own.
RowsAccounted ==
  spent.edits = 0 =>
    \A m \in Metrics :
      /\ IsFiniteSet(RowsOf(m))
      /\ Cardinality(RowsOf(m)) + Cardinality(Inserters(m)) <= Cardinality(Processes)

\* Processes can be counted.
LEMMA InsertersCounted ==
  ASSUME NEW m
  PROVE  /\ IsFiniteSet(Inserters(m))
         /\ Cardinality(Inserters(m)) \in Nat /\ Cardinality(Processes) \in Nat
         /\ Cardinality(Inserters(m)) <= Cardinality(Processes)
BY RulesSetupAssumption, FS_Subset, FS_CardinalityType DEF Inserters

\* A process that leaves, or a statement that fails, takes only processes away.
LEMMA FewerInserters ==
  ASSUME TypeOK, NEW p \in Processes, NEW next \in {"off", "up"}, Enter(p, next), NEW m \in Metrics
  PROVE  /\ Cardinality(Inserters(m))' <= Cardinality(Inserters(m))
         /\ Cardinality(Inserters(m))' \in Nat
<1>1. \A q \in Processes : stage'[q] = IF q = p THEN next ELSE stage[q]
  BY DEF Enter, TypeOK
<1>2. next \notin Before(m)
  BY DEF Before, Metrics
<1>3. Inserters(m)' \subseteq Inserters(m)
  BY <1>1, <1>2 DEF Inserters
<1>. QED  BY <1>3, InsertersCounted, FS_Subset, FS_CardinalityType

\* One step per action.
LEMMA StepAccounted == TypeOK /\ RowsAccounted /\ [Next]_vars => RowsAccounted'
<1>. SUFFICES ASSUME TypeOK, RowsAccounted, [Next]_vars, spent'.edits = 0, NEW m \in Metrics
              PROVE  /\ IsFiniteSet(RowsOf(m)')
                     /\ Cardinality(RowsOf(m))' + Cardinality(Inserters(m))' <= Cardinality(Processes)
  BY DEF RowsAccounted
<1>. USE LimitsDomain
<1>n. /\ IsFiniteSet(Inserters(m))
      /\ Cardinality(Inserters(m)) \in Nat /\ Cardinality(Processes) \in Nat
      /\ Cardinality(Inserters(m)) <= Cardinality(Processes)
  BY InsertersCounted
<1>a. spent.edits = 0 =>
        /\ IsFiniteSet(RowsOf(m)) /\ Cardinality(RowsOf(m)) \in Nat
        /\ Cardinality(RowsOf(m)) + Cardinality(Inserters(m)) <= Cardinality(Processes)
  BY FS_CardinalityType DEF RowsAccounted
<1>1. ASSUME NEW p \in Processes, CountRules(p), ruleDb.rows # {}
      PROVE  /\ IsFiniteSet(RowsOf(m)')
             /\ Cardinality(RowsOf(m))' + Cardinality(Inserters(m))' <= Cardinality(Processes)
  <2>1. Enter(p, "up") /\ UNCHANGED <<ruleDb, spent>>
    BY <1>1 DEF CountRules
  <2>2. RowsOf(m)' = RowsOf(m)
    BY <2>1 DEF RowsOf
  <2>. QED  BY <1>a, <1>n, <2>1, <2>2, FewerInserters
<1>2. ASSUME NEW p \in Processes, CountRules(p), ruleDb.rows = {}
      PROVE  /\ IsFiniteSet(RowsOf(m)')
             /\ Cardinality(RowsOf(m))' + Cardinality(Inserters(m))' <= Cardinality(Processes)
  <2>1. RowsOf(m)' = {}
    BY <1>2 DEF CountRules, RowsOf
  <2>2. Inserters(m)' \subseteq Processes
    BY DEF Inserters
  <2>3. Cardinality(Inserters(m)') \in Nat /\ Cardinality(Inserters(m)') <= Cardinality(Processes)
    BY <2>2, RulesSetupAssumption, FS_Subset, FS_CardinalityType
  <2>. QED  BY <1>n, <2>1, <2>3, FS_EmptySet
<1>3. ASSUME NEW p \in Processes, InsertDefault(p)
      PROVE  /\ IsFiniteSet(RowsOf(m)')
             /\ Cardinality(RowsOf(m))' + Cardinality(Inserters(m))' <= Cardinality(Processes)
  <2>. DEFINE d == stage[p]
              new == RowWith(ruleDb.seq + 1, DefaultSetting(d))
  <2>1. d \in Metrics /\ ruleDb' = Added(ruleDb, DefaultSetting(d)) /\ Enter(p, NextStage(d))
        /\ UNCHANGED spent
    BY <1>3 DEF InsertDefault
  <2>2. new.metric = d
    BY <2>1, RowWithType, DefaultType DEF TypeOK
  <2>3. ruleDb'.rows = ruleDb.rows \cup {new}
    BY <2>1 DEF Added
  <2>. HIDE DEF new
  <2>4. RowsOf(m)' = IF m = d THEN RowsOf(m) \cup {new} ELSE RowsOf(m)
    BY <2>2, <2>3 DEF RowsOf
  <2>5. \A q \in Processes : stage'[q] = IF q = p THEN NextStage(d) ELSE stage[q]
    BY <2>1 DEF Enter, TypeOK
  <2>6. Inserters(m)' = IF m = d THEN Inserters(m) \ {p} ELSE Inserters(m)
    BY <2>1, <2>5 DEF Inserters, Before, NextStage, Metrics
  <2>7. p \in Inserters(d)
    BY <2>1 DEF Inserters, Before, Metrics
  <2>8. CASE m # d
    BY <1>a, <2>1, <2>4, <2>6, <2>8
  <2>9. CASE m = d
    <3>1. /\ IsFiniteSet(RowsOf(m) \cup {new})
          /\ Cardinality(RowsOf(m) \cup {new}) \in Nat
          /\ Cardinality(RowsOf(m) \cup {new}) <= Cardinality(RowsOf(m)) + 1
      <4>1. IsFiniteSet(RowsOf(m)) /\ Cardinality(RowsOf(m)) \in Nat
        BY <1>a, <2>1
      <4>2. /\ IsFiniteSet(RowsOf(m) \cup {new})
            /\ Cardinality(RowsOf(m) \cup {new}) = IF new \in RowsOf(m) THEN Cardinality(RowsOf(m))
                                                    ELSE Cardinality(RowsOf(m)) + 1
        BY <4>1, FS_AddElement
      <4>. QED  BY <4>1, <4>2
    <3>2. Cardinality(Inserters(m) \ {p}) = Cardinality(Inserters(m)) - 1
      BY <1>n, <2>7, <2>9, FS_RemoveElement
    <3>. QED  BY <1>a, <1>n, <2>1, <2>4, <2>6, <2>9, <3>1, <3>2
  <2>. QED  BY <2>8, <2>9
<1>4. ASSUME NEW p \in Processes, FailStatement(p) \/ Crash(p)
      PROVE  /\ IsFiniteSet(RowsOf(m)')
             /\ Cardinality(RowsOf(m))' + Cardinality(Inserters(m))' <= Cardinality(Processes)
  <2>1. (Enter(p, "off") \/ Enter(p, "up")) /\ UNCHANGED ruleDb
    BY <1>4 DEF FailStatement, Crash
  <2>2. spent'.edits = spent.edits
    BY <1>4, SpendType DEF FailStatement, Crash
  <2>3. RowsOf(m)' = RowsOf(m)
    BY <2>1 DEF RowsOf
  <2>. QED  BY <1>a, <1>n, <2>1, <2>2, <2>3, FewerInserters
<1>5. CASE EditRules
  <2>1. spent'.edits = spent.edits + 1 /\ spent.edits \in Nat
    BY <1>5, SpendType DEF EditRules, TypeOK
  <2>. QED  BY <2>1
<1>6. CASE UNCHANGED vars
  BY <1>6, <1>a DEF vars, RowsOf, Inserters
<1>. QED  BY <1>1, <1>2, <1>3, <1>4, <1>5, <1>6 DEF Next

\* Until somebody edits the rules, a metric has no more rows than there are
\* processes, however they interleave, fail and are started again.
THEOREM DuplicatesBoundedAlways == Spec => []DuplicatesBounded
<1>1. Init => TypeOK /\ RowsAccounted
  <2>. SUFFICES ASSUME Init, NEW m \in Metrics
                PROVE  /\ IsFiniteSet(RowsOf(m))
                       /\ Cardinality(RowsOf(m)) + Cardinality(Inserters(m)) <= Cardinality(Processes)
    BY InitType DEF RowsAccounted
  <2>1. RowsOf(m) = {}
    BY DEF Init, EmptyRules, RowsOf
  <2>. QED  BY <2>1, InsertersCounted, FS_EmptySet
<1>2. TypeOK /\ RowsAccounted /\ [Next]_vars => TypeOK' /\ RowsAccounted'
  BY StepType, StepAccounted
<1>3. ASSUME RowsAccounted PROVE DuplicatesBounded
  <2>. SUFFICES ASSUME spent.edits = 0, NEW m \in Metrics
                PROVE  Cardinality({r \in ruleDb.rows : r.metric = m}) <= Cardinality(Processes)
    BY DEF DuplicatesBounded
  <2>1. /\ IsFiniteSet(RowsOf(m))
        /\ Cardinality(RowsOf(m)) + Cardinality(Inserters(m)) <= Cardinality(Processes)
    BY <1>3 DEF RowsAccounted
  <2>2. Cardinality(RowsOf(m)) \in Nat
    BY <2>1, FS_CardinalityType
  <2>. QED  BY <2>1, <2>2, InsertersCounted DEF RowsOf
<1>. QED  BY <1>1, <1>2, <1>3, PTL DEF Spec

-----------------------------------------------------------------------------
(* The rule in force.                                                       *)

\* Among numbered rows there is one with the least number.
LEMMA LeastRow ==
  ASSUME NEW rows, rows # {}, \A r \in rows : r.id \in Nat
  PROVE  \E r \in rows : \A q \in rows : r.id <= q.id
<1>. DEFINE ids == {r.id : r \in rows}
            less == OpToRel(<, Nat)
<1>1. ids \subseteq Nat /\ ids # {}
  OBVIOUS
<1>2. IsWellFoundedOn(less, Nat)
  BY NatLessThanWellFounded
<1>3. \A x, y \in Nat : <<y, x>> \in less <=> y < x
  BY DEF OpToRel
<1>. HIDE DEF less, ids
<1>4. \E x \in ids : \A y \in ids : ~(<<y, x>> \in less)
  BY <1>1, <1>2, WFMin
<1>5. PICK x \in ids : \A y \in ids : ~(<<y, x>> \in less)
  BY <1>4
<1>6. ASSUME NEW y \in ids
      PROVE  x <= y
  <2>1. x \in Nat /\ y \in Nat
    BY <1>1
  <2>2. ~(y < x)
    BY <2>1, <1>3, <1>5
  <2>. QED  BY <2>1, <2>2
<1>7. \E z \in ids : \A y \in ids : z <= y
  BY <1>6
<1>. QED  BY <1>7 DEF ids

\* The rows that name a metric, and the one that decides.
Naming(rows, m) == {r \in rows : r.metric = m}

\* Lookup finds the naming row whose id is the least.
LEMMA LookupFirst ==
  ASSUME NEW rows, NEW m, NEW r \in Naming(rows, m),
         \A q \in Naming(rows, m) : q # r => r.id < q.id,
         \A q \in rows : q.id \in Nat
  PROVE  Lookup(rows, m) = r
<1>1. \A q \in Naming(rows, m) : q.id \in Nat
  BY DEF Naming
<1>2. \A q \in Naming(rows, m) : (\A p \in Naming(rows, m) : q.id <= p.id) <=> q = r
  BY <1>1
<1>3. (CHOOSE q \in Naming(rows, m) : \A p \in Naming(rows, m) : q.id <= p.id) = r
  BY <1>2
<1>4. Naming(rows, m) # {}
  OBVIOUS
<1>. QED  BY <1>3, <1>4 DEF Lookup, Naming

\* A row with a larger id than all others does not change which rule decides,
\* unless it is the first, and then it is the default.
LEMMA AddedKeepsRule ==
  ASSUME NEW T, Numbered(T), NEW d \in Metrics, NEW m \in Metrics
  PROVE  InForce(Added(T, DefaultSetting(d)).rows, m) = InForce(T.rows, m)
<1>. DEFINE new == RowWith(T.seq + 1, DefaultSetting(d))
            rows == Added(T, DefaultSetting(d)).rows
<1>1. /\ Numbered(Added(T, DefaultSetting(d))) /\ rows = T.rows \cup {new}
      /\ \A r \in T.rows : r.id < T.seq + 1
  BY DefaultType, AddedNumbered
<1>2. /\ T.seq \in Nat /\ new.id = T.seq + 1 /\ new.metric = d
      /\ new.threshold = DefaultSetting(d).threshold
      /\ new.count = DefaultSetting(d).count
      /\ new.enabled = DefaultSetting(d).enabled
  BY DefaultType, RowWithType DEF Numbered
<1>3. \A r \in T.rows : r.id \in Nat
  BY DEF Numbered
<1>. HIDE DEF new, rows
<1>4. Naming(rows, m) = IF m = d THEN Naming(T.rows, m) \cup {new} ELSE Naming(T.rows, m)
  BY <1>1, <1>2 DEF Naming
<1>5. \A r \in rows : r.id \in Nat
  BY <1>1, <1>2, <1>3
<1>6. CASE Naming(T.rows, m) # {}
  <2>1. PICK r \in Naming(T.rows, m) : \A q \in Naming(T.rows, m) : r.id <= q.id
    <3>1. \A q \in Naming(T.rows, m) : q.id \in Nat
      BY <1>3 DEF Naming
    <3>. QED  BY <1>6, <3>1, LeastRow
  <2>2. \A q \in Naming(T.rows, m) : q # r => r.id < q.id
    BY <1>3, <2>1 DEF Naming, Numbered
  <2>3. \A q \in Naming(rows, m) : q # r => r.id < q.id
    BY <1>1, <1>2, <1>4, <2>2 DEF Naming
  <2>4. r \in Naming(rows, m)
    BY <1>4
  <2>5. Lookup(T.rows, m) = r
    BY <1>3, <2>2, LookupFirst
  <2>6. Lookup(rows, m) = r
    BY <1>5, <2>3, <2>4, LookupFirst
  <2>. QED  BY <2>5, <2>6 DEF InForce, rows
<1>7. CASE Naming(T.rows, m) = {} /\ m = d
  <2>1. Naming(rows, m) = {new}
    BY <1>4, <1>7
  <2>2. Lookup(rows, m) = new
    BY <1>5, <2>1, LookupFirst
  <2>3. Lookup(T.rows, m) = DefaultSetting(m)
    BY <1>7 DEF Lookup, Naming
  <2>. QED  BY <1>2, <1>7, <2>2, <2>3 DEF InForce, rows
<1>8. CASE Naming(T.rows, m) = {} /\ m # d
  <2>1. Naming(rows, m) = {}
    BY <1>4, <1>8
  <2>2. Lookup(rows, m) = DefaultSetting(m) /\ Lookup(T.rows, m) = DefaultSetting(m)
    BY <1>8, <2>1 DEF Lookup, Naming
  <2>. QED  BY <2>2 DEF InForce, rows
<1>. QED  BY <1>6, <1>7, <1>8

\* However late a process inserts its defaults, after however many edits and
\* deletions: the rule each metric is compared with stays the same.
THEOREM InitNeverOverridesAlways == Spec => InitNeverOverrides
<1>1. ASSUME TypeOK
      PROVE  \A p \in Processes :
               InsertDefault(p) =>
                 \A m \in Metrics : InForce(ruleDb'.rows, m) = InForce(ruleDb.rows, m)
  <2>. SUFFICES ASSUME NEW p \in Processes, InsertDefault(p), NEW m \in Metrics
                PROVE  InForce(ruleDb'.rows, m) = InForce(ruleDb.rows, m)
    OBVIOUS
  <2>1. Numbered(ruleDb) /\ stage[p] \in Metrics
        /\ ruleDb' = Added(ruleDb, DefaultSetting(stage[p]))
    BY <1>1 DEF TypeOK, Numbered, InsertDefault
  <2>. QED  BY <2>1, AddedKeepsRule
<1>. QED  BY <1>1, TypeCorrect, PTL DEF InitNeverOverrides
=============================================================================
