-------------------------- MODULE MigrationProofs --------------------------
(***************************************************************************)
(* Proofs about the migration: what is copied once, what may be passed     *)
(* over and what may be copied again, for tables of every size, every      *)
(* number of runs, failures, writes and deletions.                         *)
(***************************************************************************)
EXTENDS Migration, FiniteSetTheorems, FunctionTheorems, NaturalsInduction,
        WellFoundedInduction, TLAPS

-----------------------------------------------------------------------------
(* Counting.                                                                *)

\* A part of a finite set is not larger than the set.
LEMMA Part ==
  ASSUME NEW S, NEW T, IsFiniteSet(T), S \subseteq T
  PROVE  /\ IsFiniteSet(S) /\ Cardinality(S) <= Cardinality(T)
         /\ Cardinality(S) \in Nat /\ Cardinality(T) \in Nat
BY FS_Subset, FS_CardinalityType

\* A stretch of ids.
LEMMA Stretch ==
  ASSUME NEW a \in Nat, NEW b \in Nat
  PROVE  /\ IsFiniteSet((a + 1)..b)
         /\ Cardinality((a + 1)..b) = IF b <= a THEN 0 ELSE b - a
         /\ Cardinality((a + 1)..b) \in Nat
<1>1. a + 1 \in Int /\ b \in Int
  OBVIOUS
<1>2. IsFiniteSet((a + 1)..b) /\ Cardinality((a + 1)..b) = IF a + 1 > b THEN 0 ELSE b - (a + 1) + 1
  BY <1>1, FS_Interval
<1>3. Cardinality((a + 1)..b) \in Nat
  BY <1>2, FS_CardinalityType
<1>. QED  BY <1>2, <1>3

\* A set below a, and the ids from there to b.
LEMMA Extended ==
  ASSUME NEW a \in Nat, NEW b \in Nat, a <= b, NEW S, S \subseteq 1..a
  PROVE  /\ IsFiniteSet(S) /\ Cardinality(S) \in Nat
         /\ IsFiniteSet(S \cup (a + 1)..b)
         /\ Cardinality(S \cup (a + 1)..b) = Cardinality(S) + b - a
<1>1. IsFiniteSet(1..a)
  BY FS_Interval
<1>2. IsFiniteSet(S) /\ Cardinality(S) \in Nat
  BY <1>1, Part
<1>3. IsFiniteSet((a + 1)..b) /\ Cardinality((a + 1)..b) = b - a
  BY Stretch
<1>4. S \cap (a + 1)..b = {}
  OBVIOUS
<1>. DEFINE T == (a + 1)..b
<1>. HIDE DEF T
<1>5. IsFiniteSet(T) /\ S \cap T = {} /\ Cardinality(T) = b - a
  BY <1>3, <1>4 DEF T
<1>6. IsFiniteSet(S \cup T) /\ Cardinality(S \cup T) = Cardinality(S) + Cardinality(T) - Cardinality(S \cap T)
  BY <1>2, <1>5, FS_Union
<1>7. IsFiniteSet(S \cup T) /\ Cardinality(S \cup T) = Cardinality(S) + b - a
  <2>1. Cardinality(S \cap T) = 0
    BY <1>5, FS_EmptySet
  <2>. QED  BY <2>1, <1>2, <1>5, <1>6
<1>. QED  BY <1>2, <1>7 DEF T

\* One element more.
LEMMA OneMore ==
  ASSUME NEW S, IsFiniteSet(S), NEW x
  PROVE  /\ IsFiniteSet(S \cup {x}) /\ Cardinality(S \cup {x}) <= Cardinality(S) + 1
         /\ Cardinality(S \cup {x}) \in Nat /\ Cardinality(S) \in Nat
<1>1. /\ IsFiniteSet(S \cup {x})
      /\ Cardinality(S \cup {x}) = IF x \in S THEN Cardinality(S) ELSE Cardinality(S) + 1
  BY FS_AddElement
<1>2. Cardinality(S) \in Nat
  BY FS_CardinalityType
<1>. QED  BY <1>1, <1>2

\* Two finite sets together.
LEMMA Together ==
  ASSUME NEW S, NEW T, IsFiniteSet(S), IsFiniteSet(T)
  PROVE  /\ IsFiniteSet(S \cup T)
         /\ Cardinality(S \cup T) <= Cardinality(S) + Cardinality(T)
         /\ Cardinality(S \cup T) \in Nat /\ Cardinality(S) \in Nat /\ Cardinality(T) \in Nat
<1>1. IsFiniteSet(S \cap T)
  BY FS_Intersection
<1>2. Cardinality(S \cap T) \in Nat /\ Cardinality(S) \in Nat /\ Cardinality(T) \in Nat
  BY <1>1, FS_CardinalityType
<1>3. IsFiniteSet(S \cup T)
      /\ Cardinality(S \cup T) = Cardinality(S) + Cardinality(T) - Cardinality(S \cap T)
  BY FS_Union
<1>4. Cardinality(S \cup T) \in Nat
  BY <1>3, FS_CardinalityType
<1>. QED  BY <1>2, <1>3, <1>4

\* Numbers that are not all above a bound have a largest one.
LEMMA GreatestNat ==
  ASSUME NEW S, S \subseteq Nat, S # {}, NEW n \in Nat, \A x \in S : x <= n
  PROVE  \E m \in S : \A x \in S : x <= m
<1>. DEFINE bounds == {b \in Nat : \A x \in S : x <= b}
            less   == OpToRel(<, Nat)
<1>1. bounds \subseteq Nat /\ bounds # {}
  OBVIOUS
<1>2. IsWellFoundedOn(less, Nat)
  BY NatLessThanWellFounded
<1>3. \A x, y \in Nat : <<y, x>> \in less <=> y < x
  BY DEF OpToRel
<1>4. \A b \in Nat : b \in bounds <=> \A x \in S : x <= b
  OBVIOUS
<1>. HIDE DEF less, bounds
<1>5. \E b \in bounds : \A c \in bounds : ~(<<c, b>> \in less)
  BY <1>1, <1>2, WFMin
<1>6. PICK b \in bounds : \A c \in bounds : ~(<<c, b>> \in less)
  BY <1>5
<1>7. b \in Nat /\ \A x \in S : x <= b
  BY <1>1, <1>4, <1>6
<1>8. b \in S
  <2>1. SUFFICES ASSUME b \notin S PROVE FALSE
    OBVIOUS
  <2>2. \A x \in S : x <= b - 1
    BY <2>1, <1>7
  <2>3. PICK x \in S : TRUE
    OBVIOUS
  <2>4. b - 1 \in Nat
    BY <2>2, <2>3, <1>7
  <2>5. b - 1 \in bounds
    BY <2>2, <2>4, <1>4
  <2>6. <<b - 1, b>> \in less
    BY <2>4, <1>3, <1>7
  <2>. QED  BY <2>5, <2>6, <1>6
<1>. QED  BY <1>7, <1>8

\* Rows with ids of their own, none beyond n, are finitely many.
LEMMA RowsFinite ==
  ASSUME NEW T, NEW n \in Nat, \A r \in T : r.id \in 1..n,
         \A r, q \in T : r.id = q.id => r = q
  PROVE  IsFiniteSet(T)
<1>. DEFINE number == [r \in T |-> r.id]
<1>1. IsFiniteSet(1..n)
  BY FS_Interval
<1>2. number \in Injection(T, 1..n)
  BY DEF Injection, IsInjective
<1>. HIDE DEF number
<1>. QED  BY <1>1, <1>2, FS_Injection

\* The place of f in a set of ids.
Rank(D, f) == Cardinality({j \in D : j <= f})

\* The ids between w and f that are not in the set.
Holes(D, w, f) == ((w + 1)..f) \ D

\* In the stretch behind w a member's place falls behind its distance from w by
\* the number of holes before it.
LEMMA RankGaps ==
  ASSUME NEW w \in Nat, NEW top \in Nat, NEW D, D \subseteq (w + 1)..top,
         NEW f \in Nat, f \in D
  PROVE  /\ Rank(D, f) \in 1..Cardinality(D) /\ Cardinality(D) \in Nat
         /\ Cardinality(Holes(D, w, f)) \in Nat
         /\ Rank(D, f) + Cardinality(Holes(D, w, f)) = f - w
         /\ Cardinality(Holes(D, w, f)) <= f - w - 1
<1>. DEFINE upTo == {j \in D : j <= f}
<1>1. f \in Nat /\ w < f /\ f <= top
  OBVIOUS
<1>2. IsFiniteSet((w + 1)..top) /\ Cardinality((w + 1)..top) = top - w
  BY <1>1, Stretch
<1>3. IsFiniteSet(D) /\ Cardinality(D) \in Nat /\ Cardinality(D) <= top - w
  BY <1>2, Part
<1>4. /\ IsFiniteSet(upTo) /\ Cardinality(upTo) <= Cardinality(D) /\ Cardinality(upTo) \in Nat
      /\ upTo # {} /\ f \in upTo
  <2>1. upTo \subseteq D /\ f \in upTo
    BY <1>1
  <2>. HIDE DEF upTo
  <2>. QED  BY <2>1, <1>3, Part
<1>5. Cardinality(upTo) # 0
  BY <1>4, FS_EmptySet
<1>6. IsFiniteSet((w + 1)..f) /\ Cardinality((w + 1)..f) = f - w
  BY <1>1, Stretch
<1>7. ((w + 1)..f) \cap D = upTo
  <2>1. \A j \in D : j \in (w + 1)..f <=> j <= f
    BY <1>1
  <2>. QED  BY <2>1
<1>8. /\ IsFiniteSet(Holes(D, w, f))
      /\ Cardinality(Holes(D, w, f)) = Cardinality((w + 1)..f) - Cardinality(((w + 1)..f) \cap D)
  BY <1>6, FS_Difference DEF Holes
<1>9. Cardinality(Holes(D, w, f)) = f - w - Cardinality(upTo)
  BY <1>6, <1>7, <1>8
<1>10. Cardinality(Holes(D, w, f)) \in Nat
  BY <1>8, FS_CardinalityType
<1>. HIDE DEF upTo
<1>11. Rank(D, f) = Cardinality(upTo)
  BY DEF Rank, upTo
<1>. QED  BY <1>1, <1>3, <1>4, <1>5, <1>8, <1>9, <1>10, <1>11

\* A later member has a later place.
LEMMA RankGrows ==
  ASSUME NEW w \in Nat, NEW top \in Nat, NEW D, D \subseteq (w + 1)..top,
         NEW f \in D, NEW g \in D, f < g
  PROVE  Rank(D, f) < Rank(D, g)
<1>. DEFINE low  == {j \in D : j <= f}
            high == {j \in D : j <= g}
<1>1. IsFiniteSet((w + 1)..top)
  BY Stretch
<1>2. IsFiniteSet(D)
  BY <1>1, Part
<1>3. high \subseteq D /\ low \subseteq high /\ g \in high /\ g \notin low
  <2>1. f \in Nat /\ g \in Nat /\ \A j \in D : j \in Nat
    OBVIOUS
  <2>2. \A j \in D : j <= f => j <= g
    BY <2>1
  <2>3. ~(g <= f) /\ g <= g
    BY <2>1
  <2>. QED  BY <2>2, <2>3
<1>. HIDE DEF low, high
<1>4. IsFiniteSet(high) /\ Cardinality(high) \in Nat
  BY <1>2, <1>3, Part
<1>5. Cardinality(low) <= Cardinality(high) /\ Cardinality(low) \in Nat
  BY <1>3, <1>4, Part
<1>6. Cardinality(low) # Cardinality(high)
  BY <1>3, <1>4, FS_Subset
<1>. QED  BY <1>4, <1>5, <1>6 DEF Rank, low, high

-----------------------------------------------------------------------------
(* The inductive invariant.                                                 *)

Rows == [id : Nat, from : Nat]

\* The variables are functions and records where TypeOK only looks into them;
\* the rows SQLite had, and what is to be copied, come from SQLite.
Shapes ==
  /\ source \in [Numbered -> SUBSET Nat]
  /\ target \in [Numbered -> SUBSET Rows]
  /\ dropped \in [Numbered -> SUBSET Rows]
  /\ muted \in [sqlite : SUBSET Muted, postgres : SUBSET Muted]
  /\ \A t \in Numbered : began[t] \subseteq 1..last[t]
  /\ step = "copy" /\ Table = "mutes" => data \subseteq Muted

\* A dropped row has an id of its own too.
DroppedApart(t) ==
  /\ dropped[t] \subseteq [id : 1..seq[t], from : 0..last[t]]
  /\ \A r, q \in dropped[t] : r.id = q.id => r = q
  /\ \A r \in target[t], q \in dropped[t] : r.id # q.id

\* Ids that SQLite gave out and no longer has.
Gaps(t) == (1..last[t]) \ source[t]

GapsDeleted(t) == Cardinality(Gaps(t)) <= deleted[t]

\* Ids that PostgreSQL gave out and that are not those of a copy in the table.
Bad(t) == {i \in 1..seq[t] : \A r \in target[t] : r.id = i => r.from = None}

BadCounted(t) == Cardinality(Bad(t)) <= foreign[t] + burned[t] + Cardinality(dropped[t])

\* Up to k: ids that a row of SQLite has, or may yet get, and no copy stems from.
Skipped(t, k) ==
  {f \in 1..k : /\ f \in source[t] \/ last[t] < f
                /\ \A r \in target[t] \cup dropped[t] : r.from # f}

SkippedBounded(t) ==
  \A k \in 0..seq[t] : Cardinality(Skipped(t, k)) <= Cardinality(Bad(t) \cap 1..k)

Before(t, r) == {q \in CopiesOf(t, r.from) : q.id < r.id}

\* The further a copy's id is behind the id it copies, and the more copies of
\* the row come before it, the more rows were deleted.
CopiesSpaced(t) ==
  \A r \in target[t] : r.from # None =>
    /\ Cardinality(Before(t, r)) <= deleted[t]
    /\ Cardinality(Before(t, r)) + r.from - r.id <= deleted[t]

Straight(t) ==
  ~Skewed(t) => /\ seq[t] <= last[t]
                /\ target[t] = {[id |-> id, from |-> id] : id \in 1..seq[t]}

TableInv(t) ==
  /\ DroppedApart(t) /\ GapsDeleted(t) /\ BadCounted(t)
  /\ SkippedBounded(t) /\ CopiesSpaced(t) /\ Straight(t)

\* Behind the watermark PostgreSQL holds no copy.
WatermarkAhead ==
  step \in {"select", "copy"} => \A t \in Numbered : t = Table =>
    /\ watermark <= seq[t]
    /\ (watermark + 1)..seq[t] \subseteq Bad(t)

\* What is to be copied are the rows behind the watermark up to some id, but
\* for those deleted meanwhile; it includes all there were when the run began.
DataComplete ==
  step = "copy" => \A t \in Numbered : t = Table =>
    \E top \in 0..last[t] :
      /\ began[t] \subseteq 1..top
      /\ data \subseteq (watermark + 1)..top
      /\ source[t] \cap (watermark + 1)..top \subseteq data

\* What a finished table was left without is not beyond PostgreSQL's ids.
PassedOver == \A t \in Finished : \A f \in Missed(t) : f <= seq[t]

IInv ==
  /\ TypeOK /\ Shapes
  /\ \A t \in Numbered : TableInv(t)
  /\ WatermarkAhead /\ DataComplete /\ PassedOver
-----------------------------------------------------------------------------
(* What the steps do to a table.                                            *)

\* The rows of a table have their types; ids and places are natural numbers.
LEMMA TableTypes ==
  ASSUME TypeOK, Shapes, NEW t \in Numbered
  PROVE  /\ last[t] \in Nat /\ seq[t] \in Nat /\ deleted[t] \in Nat
         /\ foreign[t] \in Nat /\ burned[t] \in Nat
         /\ source[t] \subseteq 1..last[t]
         /\ \A r \in target[t] : r.id \in 1..seq[t] /\ r.from \in 0..last[t]
         /\ \A r \in target[t] \cup dropped[t] : r \in Rows /\ r.id \in Nat /\ r.from \in Nat
         /\ IsFiniteSet(target[t])
<1>1. /\ last[t] \in Nat /\ seq[t] \in Nat /\ deleted[t] \in Nat
      /\ foreign[t] \in Nat /\ burned[t] \in Nat
      /\ source[t] \subseteq 1..last[t]
      /\ target[t] \subseteq [id : 1..seq[t], from : 0..last[t]]
      /\ \A r, q \in target[t] : r.id = q.id => r = q
  BY DEF TypeOK
<1>2. target[t] \subseteq Rows /\ dropped[t] \subseteq Rows
  BY DEF Shapes
<1>3. \A r \in target[t] : r.id \in 1..seq[t] /\ r.from \in 0..last[t]
  BY <1>1
<1>4. IsFiniteSet(target[t])
  BY <1>1, <1>3, RowsFinite
<1>. QED  BY <1>1, <1>2, <1>3, <1>4 DEF Rows

\* What is counted is finite.
LEMMA Counted ==
  ASSUME TypeOK, Shapes, NEW t \in Numbered
  PROVE  /\ Bad(t) \subseteq 1..seq[t] /\ IsFiniteSet(Bad(t)) /\ Cardinality(Bad(t)) \in Nat
         /\ Gaps(t) \subseteq 1..last[t] /\ IsFiniteSet(Gaps(t)) /\ Cardinality(Gaps(t)) \in Nat
         /\ \A k \in Nat : /\ IsFiniteSet(Skipped(t, k)) /\ Cardinality(Skipped(t, k)) \in Nat
                           /\ Skipped(t, k) \subseteq 1..k
         /\ \A r : /\ IsFiniteSet(Before(t, r)) /\ Cardinality(Before(t, r)) \in Nat
                   /\ Before(t, r) \subseteq target[t]
<1>1. \A n \in Nat : IsFiniteSet(1..n)
  BY FS_Interval
<1>2. Bad(t) \subseteq 1..seq[t] /\ Gaps(t) \subseteq 1..last[t] /\ seq[t] \in Nat /\ last[t] \in Nat
  BY TableTypes DEF Bad, Gaps
<1>3. ASSUME NEW k \in Nat
      PROVE  /\ IsFiniteSet(Skipped(t, k)) /\ Cardinality(Skipped(t, k)) \in Nat
             /\ Skipped(t, k) \subseteq 1..k
  <2>1. Skipped(t, k) \subseteq 1..k
    BY DEF Skipped
  <2>. QED  BY <2>1, <1>1, Part
<1>4. ASSUME NEW r
      PROVE  /\ IsFiniteSet(Before(t, r)) /\ Cardinality(Before(t, r)) \in Nat
             /\ Before(t, r) \subseteq target[t]
  <2>1. Before(t, r) \subseteq target[t]
    BY DEF Before, CopiesOf
  <2>. QED  BY <2>1, TableTypes, Part
<1>5. /\ IsFiniteSet(Bad(t)) /\ Cardinality(Bad(t)) \in Nat
      /\ IsFiniteSet(Gaps(t)) /\ Cardinality(Gaps(t)) \in Nat
  BY <1>1, <1>2, Part
<1>. QED  BY <1>2, <1>3, <1>4, <1>5

\* Nothing happens to the table.
LEMMA TableKept ==
  ASSUME NEW t \in Numbered, TableInv(t),
         source'[t] = source[t], last'[t] = last[t], target'[t] = target[t],
         seq'[t] = seq[t], deleted'[t] = deleted[t], foreign'[t] = foreign[t],
         burned'[t] = burned[t], dropped'[t] = dropped[t]
  PROVE  TableInv(t)'
<1>1. DroppedApart(t)' /\ GapsDeleted(t)' /\ BadCounted(t)'
  BY DEF TableInv, DroppedApart, GapsDeleted, BadCounted, Gaps, Bad
<1>2. SkippedBounded(t)'
  <2>1. \A k : Skipped(t, k)' = Skipped(t, k)
    BY DEF Skipped
  <2>2. Bad(t)' = Bad(t)
    BY DEF Bad
  <2>. QED  BY <2>1, <2>2 DEF TableInv, SkippedBounded
<1>3. CopiesSpaced(t)'
  <2>1. \A r : Before(t, r)' = Before(t, r)
    BY DEF Before, CopiesOf
  <2>. QED  BY <2>1 DEF TableInv, CopiesSpaced
<1>4. Straight(t)'
  BY DEF TableInv, Straight, Skewed
<1>. QED  BY <1>1, <1>2, <1>3, <1>4 DEF TableInv

\* A row more in SQLite: an id that had to be reckoned with is now in use.
LEMMA SourceGrows ==
  ASSUME TypeOK, Shapes, NEW t \in Numbered, TableInv(t),
         source'[t] = source[t] \cup {last[t] + 1}, last'[t] = last[t] + 1,
         target'[t] = target[t],
         seq'[t] = seq[t], deleted'[t] = deleted[t], foreign'[t] = foreign[t],
         burned'[t] = burned[t], dropped'[t] = dropped[t]
  PROVE  TableInv(t)'
<1>0. last[t] \in Nat /\ source[t] \subseteq 1..last[t]
  BY TableTypes
<1>1. DroppedApart(t)'
  <2>1. \A r \in dropped[t] : r \in [id : 1..seq[t], from : 0..(last[t] + 1)]
    BY <1>0 DEF TableInv, DroppedApart
  <2>. QED  BY <2>1 DEF TableInv, DroppedApart
<1>2. GapsDeleted(t)'
  <2>1. Gaps(t)' = Gaps(t)
    BY <1>0 DEF Gaps
  <2>. QED  BY <2>1 DEF TableInv, GapsDeleted
<1>3. Bad(t)' = Bad(t)
  BY DEF Bad
<1>4. BadCounted(t)'
  BY <1>3 DEF TableInv, BadCounted
<1>5. SkippedBounded(t)'
  <2>1. ASSUME NEW k \in Nat PROVE Skipped(t, k)' = Skipped(t, k)
    <3>1. \A f \in 1..k : (f \in source[t] \cup {last[t] + 1} \/ last[t] + 1 < f)
                            <=> (f \in source[t] \/ last[t] < f)
      BY <1>0
    <3>. QED  BY <3>1 DEF Skipped
  <2>2. seq[t] \in Nat
    BY TableTypes
  <2>. QED  BY <2>1, <2>2, <1>3 DEF TableInv, SkippedBounded
<1>6. CopiesSpaced(t)'
  <2>1. \A r : Before(t, r)' = Before(t, r)
    BY DEF Before, CopiesOf
  <2>. QED  BY <2>1 DEF TableInv, CopiesSpaced
<1>7. Straight(t)'
  <2>1. seq[t] <= last[t] => seq[t] <= last[t] + 1
    BY TableTypes
  <2>. QED  BY <2>1 DEF TableInv, Straight, Skewed
<1>. QED  BY <1>1, <1>2, <1>4, <1>5, <1>6, <1>7 DEF TableInv

\* A row less in SQLite: one gap more, one id less to reckon with.
LEMMA SourceShrinks ==
  ASSUME TypeOK, Shapes, NEW t \in Numbered, TableInv(t),
         NEW id, source'[t] = source[t] \ {id}, deleted'[t] = deleted[t] + 1,
         last'[t] = last[t], target'[t] = target[t], seq'[t] = seq[t],
         foreign'[t] = foreign[t], burned'[t] = burned[t], dropped'[t] = dropped[t]
  PROVE  TableInv(t)'
<1>1. DroppedApart(t)'
  BY DEF TableInv, DroppedApart
<1>2. GapsDeleted(t)'
  <2>1. Gaps(t)' \subseteq Gaps(t) \cup {id}
    BY DEF Gaps
  <2>2. /\ IsFiniteSet(Gaps(t) \cup {id}) /\ Cardinality(Gaps(t) \cup {id}) <= Cardinality(Gaps(t)) + 1
        /\ Cardinality(Gaps(t)) \in Nat
    BY Counted, OneMore
  <2>3. /\ Cardinality(Gaps(t)') <= Cardinality(Gaps(t) \cup {id})
        /\ Cardinality(Gaps(t)') \in Nat /\ Cardinality(Gaps(t) \cup {id}) \in Nat
    BY <2>1, <2>2, Part
  <2>4. Cardinality(Gaps(t)) <= deleted[t] /\ deleted[t] \in Nat
    BY TableTypes DEF TableInv, GapsDeleted
  <2>. QED  BY <2>2, <2>3, <2>4 DEF GapsDeleted
<1>3. Bad(t)' = Bad(t)
  BY DEF Bad
<1>4. BadCounted(t)'
  BY <1>3 DEF TableInv, BadCounted
<1>5. SkippedBounded(t)'
  <2>1. seq[t] \in Nat
    BY TableTypes
  <2>2. ASSUME NEW k \in 0..seq[t]
        PROVE  Cardinality(Skipped(t, k)') <= Cardinality(Bad(t) \cap 1..k)
    <3>1. Skipped(t, k)' \subseteq Skipped(t, k)
      BY DEF Skipped
    <3>2. IsFiniteSet(Skipped(t, k))
      BY <2>1, Counted
    <3>3. /\ Cardinality(Skipped(t, k)') <= Cardinality(Skipped(t, k))
          /\ Cardinality(Skipped(t, k)') \in Nat /\ Cardinality(Skipped(t, k)) \in Nat
      BY <3>1, <3>2, Part
    <3>4. Cardinality(Skipped(t, k)) <= Cardinality(Bad(t) \cap 1..k)
      BY DEF TableInv, SkippedBounded
    <3>5. IsFiniteSet(Bad(t) \cap 1..k) /\ Cardinality(Bad(t) \cap 1..k) \in Nat
      BY Counted, FS_Intersection, FS_CardinalityType
    <3>. QED  BY <3>3, <3>4, <3>5
  <2>. QED  BY <2>2, <1>3 DEF SkippedBounded
<1>6. CopiesSpaced(t)'
  <2>1. ASSUME NEW r \in target[t], r.from # None
        PROVE  /\ Cardinality(Before(t, r)') <= deleted[t] + 1
               /\ Cardinality(Before(t, r)') + r.from - r.id <= deleted[t] + 1
    <3>1. Before(t, r)' = Before(t, r)
      BY DEF Before, CopiesOf
    <3>2. /\ Cardinality(Before(t, r)) <= deleted[t]
          /\ Cardinality(Before(t, r)) + r.from - r.id <= deleted[t]
      BY <2>1 DEF TableInv, CopiesSpaced
    <3>3. /\ deleted[t] \in Nat /\ Cardinality(Before(t, r)) \in Nat
          /\ r.from \in Nat /\ r.id \in Nat
      BY Counted, TableTypes
    <3>. QED  BY <3>1, <3>2, <3>3
  <2>. QED  BY <2>1 DEF CopiesSpaced
<1>7. Straight(t)'
  <2>1. /\ deleted[t] \in Nat /\ foreign'[t] \in Nat /\ burned'[t] \in Nat
    BY TableTypes
  <2>2. deleted'[t] + foreign'[t] + burned'[t] > 0
    BY <2>1
  <2>. QED  BY <2>2 DEF Straight, Skewed
<1>. QED  BY <1>1, <1>2, <1>4, <1>5, <1>6, <1>7 DEF TableInv

\* Of the copies of a row one is the last: all others come before it.
LEMMA LastCopy ==
  ASSUME TypeOK, Shapes, NEW t \in Numbered, NEW f
  PROVE  /\ IsFiniteSet(CopiesOf(t, f)) /\ Cardinality(CopiesOf(t, f)) \in Nat
         /\ CopiesOf(t, f) # {} =>
              \E q \in CopiesOf(t, f) : Cardinality(Before(t, q)) = Cardinality(CopiesOf(t, f)) - 1
<1>. DEFINE old    == CopiesOf(t, f)
            places == {q.id : q \in old}
<1>1. /\ seq[t] \in Nat /\ IsFiniteSet(target[t])
      /\ \A r \in target[t] : r.id \in 1..seq[t] /\ r.id \in Nat
  BY TableTypes
<1>2. old \subseteq target[t]
  BY DEF CopiesOf
<1>3. IsFiniteSet(old) /\ Cardinality(old) \in Nat
  BY <1>1, <1>2, Part
<1>4. ASSUME old # {}
      PROVE  \E q \in old : Cardinality(Before(t, q)) = Cardinality(old) - 1
  <2>1. places \subseteq Nat /\ places # {} /\ \A n \in places : n <= seq[t]
    BY <1>1, <1>2, <1>4
  <2>2. \E n \in places : \A x \in places : x <= n
    <3>. HIDE DEF places
    <3>. QED  BY <2>1, <1>1, GreatestNat
  <2>3. PICK q \in old : \A p \in old : p.id <= q.id
    BY <2>2
  <2>4. q \in target[t] /\ q.from = f /\ q.id \in Nat
    BY <1>1 DEF CopiesOf
  <2>5. Before(t, q) = old \ {q}
    <3>1. ASSUME NEW p \in old PROVE p.id < q.id <=> p # q
      <4>1. p.id <= q.id /\ p \in target[t] /\ p.id \in Nat
        BY <2>3, <1>1, <1>2
      <4>2. p.id = q.id => p = q
        BY <4>1, <2>4 DEF TypeOK
      <4>. QED  BY <4>1, <4>2, <2>4
    <3>2. CopiesOf(t, q.from) = old
      BY <2>4
    <3>. QED  BY <3>1, <3>2 DEF Before
  <2>6. Cardinality(Before(t, q)) = Cardinality(old) - 1
    <3>. HIDE DEF old
    <3>. QED  BY <2>5, <1>3, FS_RemoveElement
  <2>. QED  BY <2>6
<1>. QED  BY <1>3, <1>4

\* If up to some id no more is skipped than is bad, this stays so when all
\* further ids are bad.
LEMMA Stretched ==
  ASSUME NEW a \in Nat, NEW k \in Nat, a <= k, NEW S, NEW B, S \subseteq 1..a, B \subseteq 1..a,
         Cardinality(S) <= Cardinality(B),
         NEW S2, S2 \subseteq S \cup (a + 1)..k, NEW B2, B2 \subseteq 1..k,
         B \cup (a + 1)..k \subseteq B2
  PROVE  Cardinality(S2) <= Cardinality(B2)
<1>1. /\ IsFiniteSet(S \cup (a + 1)..k) /\ Cardinality(S) \in Nat
      /\ Cardinality(S \cup (a + 1)..k) = Cardinality(S) + k - a
  BY Extended
<1>2. Cardinality(B) \in Nat /\ Cardinality(B \cup (a + 1)..k) = Cardinality(B) + k - a
  BY Extended
<1>3. Cardinality(S2) <= Cardinality(S) + k - a /\ Cardinality(S2) \in Nat
  BY <1>1, Part
<1>4. IsFiniteSet(1..k)
  BY FS_Interval
<1>5. IsFiniteSet(B2) /\ Cardinality(B2) \in Nat
  BY <1>4, Part
<1>6. Cardinality(B) + k - a <= Cardinality(B2)
  BY <1>2, <1>5, Part
<1>. QED  BY <1>1, <1>2, <1>3, <1>5, <1>6

\* Ids that PostgreSQL gives away and that are no copy's are bad: they make up
\* for the ids they let the watermark skip.
LEMMA SeqGrows ==
  ASSUME TypeOK, Shapes, NEW t \in Numbered, TableInv(t), NEW n \in Nat,
         seq'[t] = seq[t] + n, foreign'[t] + burned'[t] = foreign[t] + burned[t] + n,
         target[t] \subseteq target'[t],
         \A r \in target'[t] : r.from # None => r \in target[t],
         source'[t] = source[t], last'[t] = last[t], deleted'[t] = deleted[t],
         dropped'[t] = dropped[t]
  PROVE  GapsDeleted(t)' /\ BadCounted(t)' /\ SkippedBounded(t)' /\ CopiesSpaced(t)'
<1>1. /\ seq[t] \in Nat /\ foreign[t] \in Nat /\ burned[t] \in Nat
      /\ \A r \in target[t] : r.id \in 1..seq[t]
  BY TableTypes
<1>2. GapsDeleted(t)'
  BY DEF TableInv, GapsDeleted, Gaps
<1>3. Bad(t)' = Bad(t) \cup (seq[t] + 1)..(seq[t] + n)
  <2>1. ASSUME NEW i \in 1..seq[t]
        PROVE  (\A r \in target'[t] : r.id = i => r.from = None)
                 <=> (\A r \in target[t] : r.id = i => r.from = None)
    OBVIOUS
  <2>2. ASSUME NEW i \in (seq[t] + 1)..(seq[t] + n), NEW r \in target'[t], r.id = i
        PROVE  r.from = None
    <3>1. r \notin target[t]
      BY <1>1, <2>2
    <3>. QED  BY <3>1
  <2>3. 1..(seq[t] + n) = 1..seq[t] \cup (seq[t] + 1)..(seq[t] + n)
    BY <1>1
  <2>. QED  BY <2>1, <2>2, <2>3 DEF Bad
<1>4. Bad(t) \subseteq 1..seq[t]
  BY DEF Bad
<1>5. BadCounted(t)'
  <2>1. /\ Cardinality(Bad(t)') = Cardinality(Bad(t)) + n /\ Cardinality(Bad(t)) \in Nat
    <3>1. seq[t] + n \in Nat /\ seq[t] <= seq[t] + n
      BY <1>1
    <3>2. /\ Cardinality(Bad(t) \cup (seq[t] + 1)..(seq[t] + n)) = Cardinality(Bad(t)) + (seq[t] + n) - seq[t]
          /\ Cardinality(Bad(t)) \in Nat
      BY <1>1, <1>4, <3>1, Extended
    <3>. QED  BY <1>1, <1>3, <3>2
  <2>2. Cardinality(Bad(t)) <= foreign[t] + burned[t] + Cardinality(dropped[t])
    BY DEF TableInv, BadCounted
  <2>3. Cardinality(dropped[t]) \in Nat
    <3>1. \A r, q \in dropped[t] : r.id = q.id => r = q
      BY DEF TableInv, DroppedApart
    <3>2. \A r \in dropped[t] : r.id \in 1..seq[t]
      BY DEF TableInv, DroppedApart
    <3>. QED  BY <3>1, <3>2, <1>1, RowsFinite, FS_CardinalityType
  <2>4. foreign'[t] + burned'[t] + Cardinality(dropped[t])
          = foreign[t] + burned[t] + n + Cardinality(dropped[t])
    OBVIOUS
  <2>. QED  BY <1>1, <2>1, <2>2, <2>3, <2>4 DEF BadCounted
<1>6. SkippedBounded(t)'
  <2>1. \A k \in Nat : Skipped(t, k)' \subseteq Skipped(t, k)
    BY DEF Skipped
  <2>2. ASSUME NEW k \in 0..seq[t]
        PROVE  Cardinality(Skipped(t, k)') <= Cardinality(Bad(t)' \cap 1..k)
    <3>1. Cardinality(Skipped(t, k)) <= Cardinality(Bad(t) \cap 1..k)
      BY DEF TableInv, SkippedBounded
    <3>2. /\ Skipped(t, k)' \subseteq Skipped(t, k) \cup (k + 1)..k
          /\ (Bad(t) \cap 1..k) \cup (k + 1)..k \subseteq Bad(t)' \cap 1..k
      <4>1. (k + 1)..k = {}
        BY <1>1
      <4>. QED  BY <4>1, <1>1, <2>1, <1>3
    <3>3. Skipped(t, k) \subseteq 1..k /\ k \in Nat
      BY <1>1 DEF Skipped
    <3>. QED  BY <3>1, <3>2, <3>3, Stretched
  <2>3. ASSUME NEW k \in (seq[t] + 1)..(seq[t] + n)
        PROVE  Cardinality(Skipped(t, k)') <= Cardinality(Bad(t)' \cap 1..k)
    <3>. DEFINE s == seq[t]
    <3>1. s \in Nat /\ k \in Nat /\ s <= k /\ k <= s + n
      BY <1>1
    <3>2. Cardinality(Skipped(t, s)) <= Cardinality(Bad(t))
      <4>1. Bad(t) \cap 1..seq[t] = Bad(t)
        BY <1>4
      <4>. QED  BY <4>1, <1>1 DEF TableInv, SkippedBounded
    <3>3. Skipped(t, s) \subseteq 1..s
      BY DEF Skipped
    <3>4. Skipped(t, k)' \subseteq Skipped(t, s) \cup (s + 1)..k
      <4>1. Skipped(t, k) \subseteq Skipped(t, s) \cup (s + 1)..k
        BY <3>1 DEF Skipped
      <4>. QED  BY <4>1, <2>1, <3>1
    <3>5. Bad(t) \cup (s + 1)..k \subseteq Bad(t)' \cap 1..k
      BY <1>3, <1>4, <3>1
    <3>6. Bad(t) \subseteq 1..s
      BY <1>4
    <3>. HIDE DEF s
    <3>. QED  BY <3>1, <3>2, <3>3, <3>4, <3>5, <3>6, Stretched
  <2>4. seq'[t] = seq[t] + n
    OBVIOUS
  <2>5. 0..(seq[t] + n) = 0..seq[t] \cup (seq[t] + 1)..(seq[t] + n)
    BY <1>1
  <2>. QED  BY <2>2, <2>3, <2>4, <2>5 DEF SkippedBounded
<1>7. CopiesSpaced(t)'
  <2>1. \A r : r.from # None => CopiesOf(t, r.from)' = CopiesOf(t, r.from)
    BY DEF CopiesOf
  <2>2. \A r : r.from # None => Before(t, r)' = Before(t, r)
    BY <2>1 DEF Before
  <2>. QED  BY <2>2 DEF TableInv, CopiesSpaced
<1>. QED  BY <1>2, <1>5, <1>6, <1>7

\* A row leaves PostgreSQL: its id may turn bad, and one more row is dropped.
LEMMA TargetShrinks ==
  ASSUME TypeOK, Shapes, NEW t \in Numbered, TableInv(t), NEW row \in target[t],
         target'[t] = target[t] \ {row}, dropped'[t] = dropped[t] \cup {row},
         source'[t] = source[t], last'[t] = last[t], seq'[t] = seq[t],
         deleted'[t] = deleted[t], foreign'[t] = foreign[t], burned'[t] = burned[t]
  PROVE  TableInv(t)'
<1>1. /\ seq[t] \in Nat /\ row.id \in 1..seq[t] /\ foreign[t] \in Nat /\ burned[t] \in Nat
      /\ target[t] \subseteq [id : 1..seq[t], from : 0..last[t]]
      /\ \A r, q \in target[t] : r.id = q.id => r = q
  BY TableTypes DEF TypeOK
<1>2. /\ \A r \in dropped[t] : r.id \in 1..seq[t]
      /\ \A r, q \in dropped[t] : r.id = q.id => r = q
      /\ dropped[t] \subseteq [id : 1..seq[t], from : 0..last[t]]
      /\ \A r \in target[t], q \in dropped[t] : r.id # q.id
  BY DEF TableInv, DroppedApart
<1>3. DroppedApart(t)'
  <2>1. dropped'[t] \subseteq [id : 1..seq[t], from : 0..last[t]]
    BY <1>1, <1>2
  <2>2. \A r, q \in dropped'[t] : r.id = q.id => r = q
    BY <1>1, <1>2
  <2>3. \A r \in target'[t], q \in dropped'[t] : r.id # q.id
    BY <1>1, <1>2
  <2>. QED  BY <2>1, <2>2, <2>3 DEF DroppedApart
<1>4. GapsDeleted(t)'
  BY DEF TableInv, GapsDeleted, Gaps
<1>5. Bad(t)' \subseteq Bad(t) \cup {row.id} /\ Bad(t) \subseteq Bad(t)'
  BY DEF Bad
<1>6. IsFiniteSet(dropped[t]) /\ row \notin dropped[t]
  BY <1>1, <1>2, RowsFinite
<1>7. BadCounted(t)'
  <2>1. /\ IsFiniteSet(Bad(t)) /\ Cardinality(Bad(t)) <= foreign[t] + burned[t] + Cardinality(dropped[t])
    BY Counted DEF TableInv, BadCounted
  <2>2. /\ IsFiniteSet(Bad(t) \cup {row.id}) /\ Cardinality(Bad(t)) \in Nat
        /\ Cardinality(Bad(t) \cup {row.id}) <= Cardinality(Bad(t)) + 1
        /\ Cardinality(Bad(t) \cup {row.id}) \in Nat
    BY <2>1, OneMore
  <2>3. Cardinality(Bad(t)') <= Cardinality(Bad(t) \cup {row.id}) /\ Cardinality(Bad(t)') \in Nat
    BY <2>2, <1>5, Part
  <2>4. /\ Cardinality(dropped'[t]) = Cardinality(dropped[t]) + 1 /\ Cardinality(dropped[t]) \in Nat
    BY <1>6, FS_AddElement, FS_CardinalityType
  <2>. QED  BY <1>1, <2>1, <2>2, <2>3, <2>4 DEF BadCounted
<1>8. SkippedBounded(t)'
  <2>1. target'[t] \cup dropped'[t] = target[t] \cup dropped[t]
    OBVIOUS
  <2>2. \A k \in Nat : Skipped(t, k)' = Skipped(t, k)
    BY <2>1 DEF Skipped
  <2>3. ASSUME NEW k \in 0..seq[t]
        PROVE  Cardinality(Skipped(t, k)') <= Cardinality(Bad(t)' \cap 1..k)
    <3>1. Cardinality(Skipped(t, k)) <= Cardinality(Bad(t) \cap 1..k)
      BY DEF TableInv, SkippedBounded
    <3>2. k \in Nat /\ Skipped(t, k) \subseteq 1..k /\ (k + 1)..k = {}
      BY <1>1 DEF Skipped
    <3>3. /\ Skipped(t, k)' \subseteq Skipped(t, k) \cup (k + 1)..k
          /\ (Bad(t) \cap 1..k) \cup (k + 1)..k \subseteq Bad(t)' \cap 1..k
      BY <3>2, <2>2, <1>5
    <3>. QED  BY <3>1, <3>2, <3>3, Stretched
  <2>. QED  BY <2>3 DEF SkippedBounded
<1>9. CopiesSpaced(t)'
  <2>1. ASSUME NEW r \in target'[t], r.from # None
        PROVE  /\ Cardinality(Before(t, r)') <= deleted[t]
               /\ Cardinality(Before(t, r)') + r.from - r.id <= deleted[t]
    <3>1. Before(t, r)' \subseteq Before(t, r)
      BY DEF Before, CopiesOf
    <3>2. IsFiniteSet(Before(t, r))
      BY Counted
    <3>3. /\ Cardinality(Before(t, r)') <= Cardinality(Before(t, r))
          /\ Cardinality(Before(t, r)') \in Nat /\ Cardinality(Before(t, r)) \in Nat
      BY <3>1, <3>2, Part
    <3>4. /\ Cardinality(Before(t, r)) <= deleted[t]
          /\ Cardinality(Before(t, r)) + r.from - r.id <= deleted[t]
      BY <2>1 DEF TableInv, CopiesSpaced
    <3>5. deleted[t] \in Nat /\ r.from \in Nat /\ r.id \in Nat
      BY TableTypes
    <3>. QED  BY <3>3, <3>4, <3>5
  <2>. QED  BY <2>1 DEF CopiesSpaced
<1>10. Straight(t)'
  BY DEF Straight, Skewed
<1>. QED  BY <1>3, <1>4, <1>7, <1>8, <1>9, <1>10 DEF TableInv

-----------------------------------------------------------------------------
(* The copy.                                                                *)

\* The places in a batch are 1, 2, ... without a hole.
LEMMA RankOnto ==
  ASSUME NEW w \in Nat, NEW top \in Nat, NEW D, D \subseteq (w + 1)..top
  PROVE  /\ IsFiniteSet(D) /\ Cardinality(D) \in Nat /\ Cardinality(D) <= IF top <= w THEN 0 ELSE top - w
         /\ \A f \in D : Rank(D, f) \in 1..Cardinality(D)
         /\ \A f, g \in D : Rank(D, f) = Rank(D, g) => f = g
         /\ \A n \in 1..Cardinality(D) : \E f \in D : Rank(D, f) = n
<1>. DEFINE n    == Cardinality(D)
            rank == [f \in D |-> Rank(D, f)]
<1>1. /\ IsFiniteSet((w + 1)..top)
      /\ Cardinality((w + 1)..top) = IF top <= w THEN 0 ELSE top - w
  BY Stretch
<1>2. IsFiniteSet(D) /\ n \in Nat /\ n <= IF top <= w THEN 0 ELSE top - w
  BY <1>1, Part
<1>3. \A f \in D : Rank(D, f) \in 1..n
  <2>1. \A f \in D : f \in Nat
    OBVIOUS
  <2>. QED  BY <2>1, RankGaps
<1>4. \A f, g \in D : Rank(D, f) = Rank(D, g) => f = g
  <2>1. SUFFICES ASSUME NEW f \in D, NEW g \in D, Rank(D, f) = Rank(D, g), f # g PROVE FALSE
    OBVIOUS
  <2>2. f \in Nat /\ g \in Nat
    OBVIOUS
  <2>3. Rank(D, f) \in Nat /\ Rank(D, g) \in Nat
    BY <1>2, <1>3
  <2>4. CASE f < g
    <3>1. Rank(D, f) < Rank(D, g)
      BY <2>4, RankGrows
    <3>. QED  BY <3>1, <2>1, <2>3
  <2>5. CASE g < f
    <3>1. Rank(D, g) < Rank(D, f)
      BY <2>5, RankGrows
    <3>. QED  BY <3>1, <2>1, <2>3
  <2>. QED  BY <2>1, <2>2, <2>4, <2>5
<1>5. IsFiniteSet(1..n) /\ Cardinality(1..n) = n
  <2>1. n \in Int /\ 1 \in Int
    BY <1>2
  <2>2. IsFiniteSet(1..n) /\ Cardinality(1..n) = IF 1 > n THEN 0 ELSE n - 1 + 1
    BY <2>1, FS_Interval
  <2>. QED  BY <2>2, <1>2
<1>6. rank \in Injection(D, 1..n)
  BY <1>3, <1>4 DEF Injection, IsInjective
<1>7. rank \in Surjection(D, 1..n)
  <2>1. Cardinality(D) = Cardinality(1..n)
    BY <1>5
  <2>. HIDE DEF n, rank
  <2>. QED  BY <2>1, <1>5, <1>6, FS_Injection
<1>8. \A i \in 1..n : \E f \in D : Rank(D, f) = i
  BY <1>7 DEF Surjection
<1>. QED  BY <1>2, <1>3, <1>4, <1>8

\* A batch: behind w there is no copy yet; D is what SQLite has behind w, up to
\* top, but for rows deleted since.
IsBatch(t, w, top, D) ==
  /\ w \in Nat /\ w <= seq[t] /\ (w + 1)..seq[t] \subseteq Bad(t)
  /\ top \in 0..last[t] /\ D \subseteq (w + 1)..top
  /\ source[t] \cap (w + 1)..top \subseteq D

CopyOf(t, D, f) == [id |-> seq[t] + Rank(D, f), from |-> f]

\* The step that copies it.
CopiesBatch(t, D) ==
  /\ target'[t] = target[t] \cup {CopyOf(t, D, f) : f \in D}
  /\ seq'[t] = seq[t] + Cardinality(D)
  /\ source'[t] = source[t] /\ last'[t] = last[t] /\ deleted'[t] = deleted[t]
  /\ foreign'[t] = foreign[t] /\ burned'[t] = burned[t] /\ dropped'[t] = dropped[t]

\* The new rows have new ids, all there are, and stem from the batch.
LEMMA BatchRows ==
  ASSUME TypeOK, Shapes, NEW t \in Numbered, NEW w, NEW top, NEW D, IsBatch(t, w, top, D)
  PROVE  /\ seq[t] \in Nat /\ last[t] \in Nat /\ w \in Nat /\ top \in Nat /\ top <= last[t]
         /\ IsFiniteSet(D) /\ Cardinality(D) \in Nat
         /\ Cardinality(D) <= IF top <= w THEN 0 ELSE top - w
         /\ \A f \in D : /\ f \in Nat /\ w < f /\ f <= top /\ Rank(D, f) \in Nat
                         /\ CopyOf(t, D, f).from = f /\ CopyOf(t, D, f).id = seq[t] + Rank(D, f)
                         /\ CopyOf(t, D, f).id \in (seq[t] + 1)..(seq[t] + Cardinality(D))
         /\ \A f, g \in D : CopyOf(t, D, f).id = CopyOf(t, D, g).id => f = g
         /\ \A i \in (seq[t] + 1)..(seq[t] + Cardinality(D)) : \E f \in D : CopyOf(t, D, f).id = i
<1>1. /\ w \in Nat /\ top \in Nat /\ top <= last[t] /\ D \subseteq (w + 1)..top
      /\ seq[t] \in Nat /\ last[t] \in Nat
  BY TableTypes DEF IsBatch
<1>2. /\ IsFiniteSet(D) /\ Cardinality(D) \in Nat
      /\ Cardinality(D) <= IF top <= w THEN 0 ELSE top - w
      /\ \A f \in D : Rank(D, f) \in 1..Cardinality(D)
      /\ \A f, g \in D : Rank(D, f) = Rank(D, g) => f = g
      /\ \A n \in 1..Cardinality(D) : \E f \in D : Rank(D, f) = n
  BY <1>1, RankOnto
<1>3. ASSUME NEW f \in D
      PROVE  /\ f \in Nat /\ w < f /\ f <= top /\ Rank(D, f) \in Nat
             /\ CopyOf(t, D, f).from = f /\ CopyOf(t, D, f).id = seq[t] + Rank(D, f)
             /\ CopyOf(t, D, f).id \in (seq[t] + 1)..(seq[t] + Cardinality(D))
  BY <1>1, <1>2 DEF CopyOf
<1>4. ASSUME NEW f \in D, NEW g \in D, CopyOf(t, D, f).id = CopyOf(t, D, g).id
      PROVE  f = g
  <2>1. seq[t] + Rank(D, f) = seq[t] + Rank(D, g)
    BY <1>3, <1>4
  <2>2. Rank(D, f) = Rank(D, g)
    BY <2>1, <1>1, <1>3
  <2>. QED  BY <2>2, <1>2
<1>5. ASSUME NEW i \in (seq[t] + 1)..(seq[t] + Cardinality(D))
      PROVE  \E f \in D : CopyOf(t, D, f).id = i
  <2>1. i - seq[t] \in 1..Cardinality(D)
    BY <1>1, <1>2
  <2>2. PICK f \in D : Rank(D, f) = i - seq[t]
    BY <2>1, <1>2
  <2>3. CopyOf(t, D, f).id = i
    BY <2>2, <1>1, <1>3
  <2>. QED  BY <2>3
<1>. QED  BY <1>1, <1>2, <1>3, <1>4, <1>5

\* The table stays numbered.
LEMMA BatchNumbered ==
  ASSUME TypeOK, Shapes, NEW t \in Numbered, TableInv(t),
         NEW w, NEW top, NEW D, IsBatch(t, w, top, D), CopiesBatch(t, D)
  PROVE  /\ target'[t] \subseteq [id : 1..seq'[t], from : 0..last'[t]]
         /\ \A r, q \in target'[t] : r.id = q.id => r = q
         /\ DroppedApart(t)'
<1>. DEFINE s == seq[t]
<1>1. /\ s \in Nat /\ last[t] \in Nat /\ top <= last[t] /\ top \in Nat /\ Cardinality(D) \in Nat
      /\ \A f \in D : /\ f \in Nat /\ f <= top
                      /\ CopyOf(t, D, f).id \in (s + 1)..(s + Cardinality(D))
      /\ \A f, g \in D : CopyOf(t, D, f).id = CopyOf(t, D, g).id => f = g
  BY BatchRows
<1>2. /\ target[t] \subseteq [id : 1..s, from : 0..last[t]]
      /\ \A r, q \in target[t] : r.id = q.id => r = q
  BY DEF TypeOK
<1>3. target'[t] \subseteq [id : 1..seq'[t], from : 0..last'[t]]
  <2>1. seq'[t] = s + Cardinality(D) /\ last'[t] = last[t]
    BY DEF CopiesBatch
  <2>2. ASSUME NEW f \in D PROVE CopyOf(t, D, f) \in [id : 1..(s + Cardinality(D)), from : 0..last[t]]
    <3>1. s + Rank(D, f) \in (s + 1)..(s + Cardinality(D))
      BY <1>1 DEF CopyOf
    <3>2. s + Rank(D, f) \in 1..(s + Cardinality(D)) /\ f \in 0..last[t]
      BY <1>1, <3>1
    <3>. QED  BY <3>2 DEF CopyOf
  <2>3. ASSUME NEW r \in target[t] PROVE r \in [id : 1..(s + Cardinality(D)), from : 0..last[t]]
    BY <1>1, <1>2
  <2>. QED  BY <2>1, <2>2, <2>3 DEF CopiesBatch
<1>4. \A r, q \in target'[t] : r.id = q.id => r = q
  <2>1. \A r \in target[t] : r.id \in 1..s
    BY <1>2
  <2>2. \A r \in target[t], f \in D : r.id # CopyOf(t, D, f).id
    BY <2>1, <1>1
  <2>3. \A f, g \in D : CopyOf(t, D, f).id = CopyOf(t, D, g).id => CopyOf(t, D, f) = CopyOf(t, D, g)
    BY <1>1
  <2>. QED  BY <1>2, <2>2, <2>3 DEF CopiesBatch
<1>5. DroppedApart(t)'
  <2>1. /\ dropped'[t] = dropped[t] /\ last'[t] = last[t] /\ seq'[t] = s + Cardinality(D)
        /\ dropped[t] \subseteq [id : 1..s, from : 0..last[t]]
        /\ \A r, q \in dropped[t] : r.id = q.id => r = q
        /\ \A r \in target[t], q \in dropped[t] : r.id # q.id
    BY DEF CopiesBatch, TableInv, DroppedApart
  <2>2. \A q \in dropped[t] : q.id \in 1..s /\ q \in [id : 1..(s + Cardinality(D)), from : 0..last[t]]
    BY <2>1, <1>1
  <2>3. \A f \in D, q \in dropped[t] : CopyOf(t, D, f).id # q.id
    BY <2>2, <1>1
  <2>4. \A r \in target'[t], q \in dropped[t] : r.id # q.id
    BY <2>1, <2>3 DEF CopiesBatch
  <2>. QED  BY <2>1, <2>2, <2>4 DEF DroppedApart
<1>. QED  BY <1>3, <1>4, <1>5

\* No id turns bad.
LEMMA BatchBad ==
  ASSUME TypeOK, Shapes, NEW t \in Numbered,
         NEW w, NEW top, NEW D, IsBatch(t, w, top, D), CopiesBatch(t, D)
  PROVE  Bad(t)' = Bad(t)
<1>. DEFINE s == seq[t]
            n == Cardinality(D)
<1>1. /\ s \in Nat /\ n \in Nat
      /\ \A f \in D : /\ f # None /\ CopyOf(t, D, f).from = f
                      /\ CopyOf(t, D, f).id \in (s + 1)..(s + n)
      /\ \A i \in (s + 1)..(s + n) : \E f \in D : CopyOf(t, D, f).id = i
  BY BatchRows DEF None
<1>2. /\ seq'[t] = s + n
      /\ target'[t] = target[t] \cup {CopyOf(t, D, f) : f \in D}
  BY DEF CopiesBatch
<1>. HIDE DEF n
<1>3. 1..(s + n) = 1..s \cup (s + 1)..(s + n)
  BY <1>1
<1>4. ASSUME NEW i \in 1..s
      PROVE  (\A r \in target'[t] : r.id = i => r.from = None)
               <=> (\A r \in target[t] : r.id = i => r.from = None)
  <2>1. \A f \in D : CopyOf(t, D, f).id # i
    BY <1>1
  <2>. QED  BY <2>1, <1>2
<1>5. ASSUME NEW i \in (s + 1)..(s + n)
      PROVE  ~(\A r \in target'[t] : r.id = i => r.from = None)
  <2>1. PICK f \in D : CopyOf(t, D, f).id = i
    BY <1>1
  <2>2. CopyOf(t, D, f) \in target'[t] /\ CopyOf(t, D, f).from # None
    BY <1>1, <1>2
  <2>. QED  BY <2>1, <2>2
<1>. QED  BY <1>2, <1>3, <1>4, <1>5 DEF Bad

\* The copies have no more ids than there were up to the top; what was written
\* since is skipped only as far as bad ids lie behind the watermark.
LEMMA BatchSkips ==
  ASSUME TypeOK, Shapes, NEW t \in Numbered, TableInv(t),
         NEW w, NEW top, NEW D, IsBatch(t, w, top, D), CopiesBatch(t, D)
  PROVE  SkippedBounded(t)'
<1>. DEFINE s == seq[t]
            n == Cardinality(D)
<1>1. /\ s \in Nat /\ n \in Nat /\ w \in Nat /\ w <= s /\ top \in Nat /\ top <= last[t]
      /\ last[t] \in Nat /\ n <= IF top <= w THEN 0 ELSE top - w
      /\ (w + 1)..s \subseteq Bad(t) /\ source[t] \cap (w + 1)..top \subseteq D
  <2>1. /\ s \in Nat /\ n \in Nat /\ w \in Nat /\ top \in Nat /\ top <= last[t]
        /\ last[t] \in Nat /\ n <= IF top <= w THEN 0 ELSE top - w
    BY BatchRows
  <2>2. w <= s /\ (w + 1)..s \subseteq Bad(t) /\ source[t] \cap (w + 1)..top \subseteq D
    BY DEF IsBatch
  <2>. QED  BY <2>1, <2>2
<1>2. /\ seq'[t] = s + n /\ source'[t] = source[t] /\ last'[t] = last[t] /\ dropped'[t] = dropped[t]
      /\ target'[t] = target[t] \cup {CopyOf(t, D, f) : f \in D}
  BY DEF CopiesBatch
<1>3. Bad(t)' = Bad(t)
  BY BatchBad
<1>4. \A k \in Nat : Skipped(t, k)' \subseteq Skipped(t, k)
  BY <1>2 DEF Skipped
<1>5. ASSUME NEW k \in 0..s
      PROVE  Cardinality(Skipped(t, k)') <= Cardinality(Bad(t) \cap 1..k)
  <2>1. Cardinality(Skipped(t, k)) <= Cardinality(Bad(t) \cap 1..k)
    BY DEF TableInv, SkippedBounded
  <2>2. k \in Nat /\ Skipped(t, k) \subseteq 1..k /\ (k + 1)..k = {}
    BY <1>1 DEF Skipped
  <2>3. Skipped(t, k)' \subseteq Skipped(t, k) \cup (k + 1)..k
    BY <2>2, <1>4
  <2>4. /\ (Bad(t) \cap 1..k) \cup (k + 1)..k \subseteq Bad(t) \cap 1..k
        /\ Bad(t) \cap 1..k \subseteq 1..k
    BY <2>2
  <2>. QED  BY <2>1, <2>2, <2>3, <2>4, Stretched
<1>6. ASSUME NEW k \in (s + 1)..(s + n)
      PROVE  Cardinality(Skipped(t, k)') <= Cardinality(Bad(t) \cap 1..k)
  <2>1. k \in Nat /\ s < k /\ k <= s + n /\ w < top
    BY <1>1
  <2>2. Cardinality(Skipped(t, w)) <= Cardinality(Bad(t) \cap 1..w)
    <3>1. w \in 0..s
      BY <1>1
    <3>. QED  BY <3>1 DEF TableInv, SkippedBounded
  <2>3. Skipped(t, k)' \subseteq Skipped(t, w) \cup (top + 1)..k
    <3>1. SUFFICES ASSUME NEW f \in Skipped(t, k)', f <= top
                   PROVE  f \in Skipped(t, w)
      BY <2>1, <1>1 DEF Skipped
    <3>2. f \in Skipped(t, k) /\ f \in Nat /\ 1 <= f
      BY <1>4, <2>1 DEF Skipped
    <3>3. CASE f <= w
      BY <3>2, <3>3, <1>1 DEF Skipped
    <3>4. CASE w < f
      <4>1. f \in source[t]
        BY <3>1, <3>2, <1>1 DEF Skipped
      <4>2. f \in D
        BY <4>1, <3>1, <3>2, <3>4, <1>1
      <4>3. CopyOf(t, D, f) \in target'[t] /\ CopyOf(t, D, f).from = f
        BY <4>2, <1>2 DEF CopyOf
      <4>. QED  BY <4>3 DEF Skipped
    <3>. QED  BY <3>2, <3>3, <3>4, <1>1
  <2>4. /\ IsFiniteSet(Skipped(t, w)) /\ IsFiniteSet((top + 1)..k)
        /\ Cardinality((top + 1)..k) = IF k <= top THEN 0 ELSE k - top
    BY Counted, Stretch, <1>1, <2>1
  <2>5. /\ IsFiniteSet(Skipped(t, w) \cup (top + 1)..k)
        /\ Cardinality(Skipped(t, w) \cup (top + 1)..k)
             <= Cardinality(Skipped(t, w)) + Cardinality((top + 1)..k)
        /\ Cardinality(Skipped(t, w)) \in Nat
    BY <2>4, Together
  <2>6. /\ Cardinality(Skipped(t, k)') <= Cardinality(Skipped(t, w) \cup (top + 1)..k)
        /\ Cardinality(Skipped(t, k)') \in Nat
        /\ Cardinality(Skipped(t, w) \cup (top + 1)..k) \in Nat
    BY <2>3, <2>5, Part
  <2>7. Cardinality((top + 1)..k) <= s - w
    BY <2>1, <2>4, <1>1
  <2>8. /\ Cardinality((Bad(t) \cap 1..w) \cup (w + 1)..s) = Cardinality(Bad(t) \cap 1..w) + s - w
        /\ Cardinality(Bad(t) \cap 1..w) \in Nat
    <3>1. Bad(t) \cap 1..w \subseteq 1..w
      OBVIOUS
    <3>. QED  BY <3>1, <1>1, Extended
  <2>9. (Bad(t) \cap 1..w) \cup (w + 1)..s \subseteq Bad(t) \cap 1..k
    BY <1>1, <2>1
  <2>10. /\ Cardinality((Bad(t) \cap 1..w) \cup (w + 1)..s) <= Cardinality(Bad(t) \cap 1..k)
         /\ Cardinality(Bad(t) \cap 1..k) \in Nat
    <3>1. IsFiniteSet(Bad(t) \cap 1..k)
      BY Counted, FS_Intersection
    <3>. QED  BY <2>9, <3>1, Part
  <2>11. Cardinality((top + 1)..k) \in Nat
    BY <2>1, <1>1, Stretch
  <2>. HIDE DEF s, n
  <2>. QED  BY <2>2, <2>5, <2>6, <2>7, <2>8, <2>10, <2>11, <1>1
<1>7. 0..(s + n) = 0..s \cup (s + 1)..(s + n)
  BY <1>1
<1>. QED  BY <1>2, <1>3, <1>5, <1>6, <1>7 DEF SkippedBounded

\* A row copied again was below the watermark's reach only by deleted rows.
LEMMA BatchSpaced ==
  ASSUME TypeOK, Shapes, NEW t \in Numbered, TableInv(t),
         NEW w, NEW top, NEW D, IsBatch(t, w, top, D), CopiesBatch(t, D)
  PROVE  CopiesSpaced(t)'
<1>. DEFINE s == seq[t]
<1>1. /\ s \in Nat /\ w \in Nat /\ top \in Nat /\ top <= last[t] /\ last[t] \in Nat
      /\ \A f \in D : /\ f \in Nat /\ w < f /\ f <= top /\ CopyOf(t, D, f).from = f
                      /\ CopyOf(t, D, f).id = s + Rank(D, f) /\ Rank(D, f) \in Nat
                      /\ s < CopyOf(t, D, f).id /\ CopyOf(t, D, f).id \in Nat
  BY BatchRows
<1>2. w <= s /\ (w + 1)..s \subseteq Bad(t) /\ D \subseteq (w + 1)..top
      /\ source[t] \cap (w + 1)..top \subseteq D
  BY DEF IsBatch
<1>3. /\ deleted'[t] = deleted[t]
      /\ target'[t] = target[t] \cup {CopyOf(t, D, f) : f \in D}
  BY DEF CopiesBatch
<1>4. /\ \A r \in target[t] : r.id \in 1..s /\ r.id \in Nat /\ r.from \in Nat
      /\ IsFiniteSet(target[t]) /\ deleted[t] \in Nat
  BY TableTypes
<1>5. ASSUME NEW r \in target[t], r.from # None
      PROVE  /\ Cardinality(Before(t, r)') <= deleted[t]
             /\ Cardinality(Before(t, r)') + r.from - r.id <= deleted[t]
  <2>1. \A f \in D : ~(CopyOf(t, D, f).id < r.id)
    BY <1>1, <1>4
  <2>2. Before(t, r)' = Before(t, r)
    BY <2>1, <1>3 DEF Before, CopiesOf
  <2>. QED  BY <1>5, <2>2 DEF TableInv, CopiesSpaced
<1>6. ASSUME NEW f \in D, NEW r, r = CopyOf(t, D, f)
      PROVE  /\ Cardinality(Before(t, r)') <= deleted[t]
             /\ Cardinality(Before(t, r)') + r.from - r.id <= deleted[t]
  <2>. DEFINE old == CopiesOf(t, f)
              c   == Cardinality(old)
              gap == Cardinality(Holes(D, w, f))
  <2>1. /\ f \in Nat /\ w < f /\ f <= top /\ r.from = f /\ r.id = s + Rank(D, f)
        /\ Rank(D, f) \in Nat /\ s < r.id /\ r.id \in Nat
    BY <1>1, <1>6
  <2>2. Before(t, r)' = old
    <3>1. \A g \in D : CopyOf(t, D, g).from = f => ~(CopyOf(t, D, g).id < r.id)
      BY <1>1, <2>1
    <3>2. \A q \in target[t] : q.id < r.id
      BY <1>4, <2>1, <1>1
    <3>3. r.from = f
      BY <2>1
    <3>4. CopiesOf(t, r.from)' = {q \in target'[t] : q.from = f}
      BY <3>3 DEF CopiesOf
    <3>5. Before(t, r)' = {q \in {p \in target'[t] : p.from = f} : q.id < r.id}
      BY <3>4 DEF Before
    <3>. QED  BY <3>1, <3>2, <3>5, <1>3 DEF CopiesOf
  <2>3. /\ gap \in Nat /\ Rank(D, f) + gap = f - w /\ gap <= f - w - 1
    <3>1. w \in Nat /\ top \in Nat /\ D \subseteq (w + 1)..top /\ f \in Nat /\ f \in D
      BY <1>1, <1>2
    <3>2. /\ Cardinality(Holes(D, w, f)) \in Nat
          /\ Rank(D, f) + Cardinality(Holes(D, w, f)) = f - w
          /\ Cardinality(Holes(D, w, f)) <= f - w - 1
      BY <3>1, RankGaps, ZenonT(60)
    <3>. QED  BY <3>2
  <2>4. gap <= deleted[t]
    <3>1. Holes(D, w, f) \subseteq Gaps(t)
      BY <1>1, <1>2, <2>1 DEF Gaps, Holes
    <3>2. /\ IsFiniteSet(Gaps(t)) /\ Cardinality(Gaps(t)) \in Nat
          /\ Cardinality(Gaps(t)) <= deleted[t]
      BY Counted DEF TableInv, GapsDeleted
    <3>3. gap <= Cardinality(Gaps(t))
      BY <3>1, <3>2, Part
    <3>. QED  BY <3>2, <3>3, <2>3, <1>4
  <2>5. old \subseteq target[t] /\ IsFiniteSet(old) /\ c \in Nat
    <3>1. old \subseteq target[t]
      BY DEF CopiesOf
    <3>. QED  BY <3>1, <1>4, Part
  <2>6. c <= deleted[t] /\ c + w - s + gap <= deleted[t]
    <3>1. CASE old = {}
      <4>1. c = 0
        BY <3>1, FS_EmptySet
      <4>. QED  BY <4>1, <1>1, <1>2, <1>4, <2>3, <2>4
    <3>2. CASE old # {}
      <4>1. PICK q \in old : Cardinality(Before(t, q)) = c - 1
        BY <3>2, LastCopy
      <4>2. q \in target[t] /\ q.from = f /\ q.from # None /\ q.id \in Nat /\ q.id <= s /\ 1 <= q.id
        BY <1>1, <1>4, <2>1 DEF CopiesOf, None
      <4>3. q.id <= w
        <5>1. q.id \notin Bad(t)
          BY <4>2 DEF Bad
        <5>. QED  BY <5>1, <4>2, <1>1, <1>2
      <4>4. Cardinality(Before(t, q)) + q.from - q.id <= deleted[t]
        BY <4>2 DEF TableInv, CopiesSpaced
      <4>5. c - 1 + f - q.id <= deleted[t]
        BY <4>1, <4>2, <4>4
      <4>. HIDE DEF old, c, gap, s
      <4>. QED  BY <4>2, <4>3, <4>5, <1>1, <1>2, <1>4, <2>1, <2>3, <2>5
    <3>. QED  BY <3>1, <3>2
  <2>7. c + r.from - r.id = c + w - s + gap
    <3>. HIDE DEF old, c, gap, s
    <3>. QED  BY <1>1, <2>1, <2>3, <2>5
  <2>. QED  BY <2>2, <2>6, <2>7
<1>7. ASSUME NEW r \in target'[t], r.from # None
      PROVE  /\ Cardinality(Before(t, r)') <= deleted'[t]
             /\ Cardinality(Before(t, r)') + r.from - r.id <= deleted'[t]
  <2>1. CASE r \in target[t]
    BY <2>1, <1>3, <1>5, <1>7
  <2>2. CASE r \in {CopyOf(t, D, f) : f \in D}
    <3>1. PICK f \in D : r = CopyOf(t, D, f)
      BY <2>2
    <3>. QED  BY <3>1, <1>3, <1>6
  <2>. QED  BY <2>1, <2>2, <1>3
<1>. QED  BY <1>7 DEF CopiesSpaced

\* Where nothing made the numbers drift, every row is copied under its own id.
LEMMA BatchStraight ==
  ASSUME TypeOK, Shapes, NEW t \in Numbered, TableInv(t),
         NEW w, NEW top, NEW D, IsBatch(t, w, top, D), D # {}, CopiesBatch(t, D)
  PROVE  Straight(t)'
<1>. DEFINE s == seq[t]
<1>1. SUFFICES ASSUME ~Skewed(t)'
               PROVE  /\ seq'[t] <= last'[t]
                      /\ target'[t] = {[id |-> id, from |-> id] : id \in 1..seq'[t]}
  BY DEF Straight
<1>2. /\ s \in Nat /\ w \in Nat /\ top \in Nat /\ top <= last[t] /\ last[t] \in Nat
      /\ \A f \in D : /\ f \in Nat /\ w < f /\ f <= top /\ Rank(D, f) \in Nat
  BY BatchRows
<1>3. w <= s /\ (w + 1)..s \subseteq Bad(t) /\ D \subseteq (w + 1)..top
      /\ source[t] \cap (w + 1)..top \subseteq D
  BY DEF IsBatch
<1>4. /\ target'[t] = target[t] \cup {CopyOf(t, D, f) : f \in D} /\ seq'[t] = s + Cardinality(D)
      /\ last'[t] = last[t] /\ ~Skewed(t)
  BY <1>1 DEF CopiesBatch, Skewed
<1>5. s <= last[t] /\ target[t] = {[id |-> id, from |-> id] : id \in 1..s}
  BY <1>4 DEF TableInv, Straight
<1>6. deleted[t] = 0 /\ foreign[t] = 0 /\ burned[t] = 0 /\ dropped[t] = {}
  <2>1. deleted[t] \in Nat /\ foreign[t] \in Nat /\ burned[t] \in Nat
    BY TableTypes
  <2>. QED  BY <2>1, <1>4 DEF Skewed
<1>7. Gaps(t) = {} /\ Bad(t) = {}
  <2>1. /\ IsFiniteSet(Gaps(t)) /\ IsFiniteSet(Bad(t))
        /\ Cardinality(Gaps(t)) \in Nat /\ Cardinality(Bad(t)) \in Nat
    BY Counted
  <2>2. Cardinality(Gaps(t)) <= 0 /\ Cardinality(Bad(t)) <= 0
    <3>1. Cardinality(dropped[t]) = 0
      BY <1>6, FS_EmptySet
    <3>. QED  BY <3>1, <1>6 DEF TableInv, GapsDeleted, BadCounted
  <2>3. Cardinality(Gaps(t)) = 0 /\ Cardinality(Bad(t)) = 0
    BY <2>1, <2>2
  <2>. QED  BY <2>1, <2>3, FS_EmptySet
<1>8. w = s
  <2>1. (w + 1)..s = {}
    BY <1>3, <1>7
  <2>2. CASE w < s
    BY <2>1, <2>2, <1>2
  <2>. QED  BY <2>2, <1>2, <1>3
<1>9. D = (w + 1)..top
  <2>1. ASSUME NEW f \in (w + 1)..top PROVE f \in source[t]
    <3>1. f \in 1..last[t] /\ f \notin Gaps(t)
      BY <1>2, <1>7
    <3>. QED  BY <3>1 DEF Gaps
  <2>. QED  BY <2>1, <1>3
<1>10. s < top
  <2>1. PICK f \in D : TRUE
    OBVIOUS
  <2>. QED  BY <2>1, <1>2, <1>8
<1>11. Cardinality(D) = top - s
  BY <1>2, <1>8, <1>9, <1>10, Stretch
<1>12. ASSUME NEW f \in D PROVE CopyOf(t, D, f) = [id |-> f, from |-> f]
  <2>1. Rank(D, f) + Cardinality(Holes(D, w, f)) = f - w
    <3>1. w \in Nat /\ top \in Nat /\ D \subseteq (w + 1)..top /\ f \in Nat /\ f \in D
      BY <1>2, <1>3
    <3>. QED  BY <3>1, RankGaps, ZenonT(60)
  <2>2. Holes(D, w, f) = {}
    BY <1>2, <1>9 DEF Holes
  <2>3. Rank(D, f) = f - s
    BY <2>1, <2>2, <1>2, <1>8, FS_EmptySet
  <2>4. s + Rank(D, f) = f
    BY <2>3, <1>2
  <2>. QED  BY <2>4 DEF CopyOf
<1>13. seq'[t] = top
  BY <1>2, <1>4, <1>10, <1>11
<1>14. 1..top = 1..s \cup D
  BY <1>2, <1>8, <1>9, <1>10
<1>15. {CopyOf(t, D, f) : f \in D} = {[id |-> f, from |-> f] : f \in D}
  BY <1>12
<1>. HIDE DEF s
<1>. QED  BY <1>2, <1>4, <1>5, <1>13, <1>14, <1>15

\* A copied batch keeps what is known of the table.
LEMMA BatchInv ==
  ASSUME TypeOK, Shapes, NEW t \in Numbered, TableInv(t),
         NEW w, NEW top, NEW D, IsBatch(t, w, top, D), D # {}, CopiesBatch(t, D)
  PROVE  TableInv(t)'
<1>1. GapsDeleted(t)'
  BY DEF TableInv, GapsDeleted, Gaps, CopiesBatch
<1>2. BadCounted(t)'
  BY BatchBad DEF TableInv, BadCounted, CopiesBatch
<1>. QED  BY <1>1, <1>2, BatchNumbered, BatchSkips, BatchSpaced, BatchStraight DEF TableInv

-----------------------------------------------------------------------------
(* The steps of the services beside the migration.                          *)

\* The tables in their order.
LEMMA OrderFacts ==
  /\ DOMAIN Order = 1..5 /\ Len(Order) = 5
  /\ \A i \in 1..5 : Order[i] \in Numbered \cup {"mutes"}
  /\ "mutes" \notin Numbered
BY DEF Order, Numbered

\* The kinds of disturbance.
LEMMA LimitsDomain == DOMAIN Limits = {"runs", "failures", "writes", "deletes", "foreign"}
BY DEF Limits

\* Spending from a bound keeps the account well formed.
LEMMA SpendType ==
  ASSUME TypeOK, NEW what \in DOMAIN Limits, Spend(what)
  PROVE  spent' \in [DOMAIN Limits -> Nat]
<1>. DEFINE K == DOMAIN Limits
<1>1. spent \in [K -> Nat] /\ spent' = [spent EXCEPT ![what] = spent[what] + 1] /\ what \in K
  BY DEF TypeOK, Spend
<1>. HIDE DEF K
<1>2. spent' \in [K -> Nat]
  BY <1>1
<1>. QED  BY <1>2 DEF K

\* What the services do leaves the process where it is: what it knows stays
\* true when ids only grow, new ids of PostgreSQL are bad, new ids of SQLite
\* are beyond the old ones, and no copy is forgotten.
LEMMA ServiceStep ==
  ASSUME TypeOK, Shapes, WatermarkAhead, DataComplete, PassedOver,
         at' = at, step' = step, watermark' = watermark, data' = data, began' = began,
         \A t \in Numbered :
           /\ seq'[t] \in Nat /\ last'[t] \in Nat /\ seq[t] <= seq'[t] /\ last[t] <= last'[t]
           /\ Bad(t) \cup (seq[t] + 1)..seq'[t] \subseteq Bad(t)'
           /\ \A f \in source'[t] : f \in source[t] \/ last[t] < f
           /\ target[t] \cup dropped[t] \subseteq target'[t] \cup dropped'[t]
  PROVE  WatermarkAhead' /\ DataComplete' /\ PassedOver'
<1>0. Table' = Table
  BY DEF Table
<1>1. ASSUME NEW t \in Numbered
      PROVE  seq[t] \in Nat /\ last[t] \in Nat /\ began[t] \subseteq 1..last[t]
  BY DEF TypeOK, Shapes
<1>2. watermark \in Nat
  BY DEF TypeOK
<1>3. WatermarkAhead'
  <2>1. ASSUME step \in {"select", "copy"}, NEW t \in Numbered, t = Table
        PROVE  watermark <= seq'[t] /\ (watermark + 1)..seq'[t] \subseteq Bad(t)'
    <3>1. watermark <= seq[t] /\ (watermark + 1)..seq[t] \subseteq Bad(t)
      BY <2>1 DEF WatermarkAhead
    <3>2. (watermark + 1)..seq'[t] \subseteq (watermark + 1)..seq[t] \cup (seq[t] + 1)..seq'[t]
      BY <1>1, <1>2
    <3>. QED  BY <3>1, <3>2, <1>1, <1>2
  <2>. QED  BY <2>1, <1>0 DEF WatermarkAhead
<1>4. DataComplete'
  <2>1. ASSUME step = "copy", NEW t \in Numbered, t = Table
        PROVE  \E top \in 0..last'[t] :
                 /\ began[t] \subseteq 1..top
                 /\ data \subseteq (watermark + 1)..top
                 /\ source'[t] \cap (watermark + 1)..top \subseteq data
    <3>1. PICK top \in 0..last[t] :
                 /\ began[t] \subseteq 1..top
                 /\ data \subseteq (watermark + 1)..top
                 /\ source[t] \cap (watermark + 1)..top \subseteq data
      BY <2>1 DEF DataComplete
    <3>2. top \in 0..last'[t]
      BY <1>1
    <3>3. source'[t] \cap (watermark + 1)..top \subseteq source[t] \cap (watermark + 1)..top
      BY <1>1, <1>2
    <3>. QED  BY <3>1, <3>2, <3>3
  <2>. QED  BY <2>1, <1>0 DEF DataComplete
<1>5. PassedOver'
  <2>1. Finished' = Finished
    BY DEF Finished
  <2>2. ASSUME NEW t \in Finished, NEW f \in Missed(t)'
        PROVE  f <= seq'[t]
    <3>1. t \in Numbered
      BY DEF Finished
    <3>2. f \in began[t] /\ f \in source[t]
      BY <1>1, <3>1, <2>2 DEF Missed
    <3>3. f \in Missed(t)
      BY <2>2, <3>1, <3>2 DEF Missed
    <3>4. f <= seq[t] /\ f \in Nat
      BY <3>1, <3>2, <3>3, <1>1 DEF PassedOver
    <3>. QED  BY <1>1, <3>1, <3>4
  <2>. QED  BY <2>1, <2>2 DEF PassedOver
<1>. QED  BY <1>3, <1>4, <1>5

\* A service adds a row to SQLite.
LEMMA WriteSourceStep ==
  ASSUME IInv, NEW t0 \in Numbered, WriteSource(t0)
  PROVE  IInv'
<1>. USE DEF IInv
<1>1. /\ source' = [source EXCEPT ![t0] = source[t0] \cup {last[t0] + 1}]
      /\ last' = [last EXCEPT ![t0] = last[t0] + 1]
      /\ UNCHANGED <<target, seq, muted, process, history>>
      /\ spent' \in [DOMAIN Limits -> Nat]
  BY SpendType, LimitsDomain DEF WriteSource
<1>2. ASSUME NEW t \in Numbered
      PROVE  /\ source'[t] \in SUBSET Nat /\ last'[t] \in Nat /\ last[t] \in Nat
             /\ last[t] <= last'[t]
             /\ t = t0 => source'[t] = source[t] \cup {last[t] + 1} /\ last'[t] = last[t] + 1
             /\ t # t0 => source'[t] = source[t] /\ last'[t] = last[t]
             /\ source'[t] \subseteq 1..last'[t]
             /\ \A f \in source'[t] : f \in source[t] \/ last[t] < f
  BY <1>1, TableTypes DEF Shapes, TypeOK
<1>3. TypeOK'
  <2>1. ASSUME NEW t \in Numbered
        PROVE  /\ target'[t] \subseteq [id : 1..seq'[t], from : 0..last'[t]]
    <3>1. \A r \in target[t] : r \in [id : 1..seq[t], from : 0..last'[t]]
      BY <1>2 DEF TypeOK
    <3>. QED  BY <3>1, <1>1
  <2>2. last' \in [Numbered -> Nat]
    BY <1>1, <1>2 DEF TypeOK
  <2>3. DOMAIN source' = Numbered
    BY <1>1 DEF TypeOK
  <2>. QED  BY <2>1, <2>2, <2>3, <1>1, <1>2 DEF TypeOK, process, history
<1>4. Shapes'
  <2>1. source' \in [Numbered -> SUBSET Nat]
    BY <1>1, <1>2 DEF Shapes
  <2>2. ASSUME NEW t \in Numbered PROVE began[t] \subseteq 1..last'[t]
    BY <1>2 DEF Shapes
  <2>. QED  BY <2>1, <2>2, <1>1 DEF Shapes, Table, process, history
<1>5. ASSUME NEW t \in Numbered PROVE TableInv(t)'
  <2>1. CASE t = t0
    BY <2>1, <1>1, <1>2, SourceGrows DEF history
  <2>2. CASE t # t0
    BY <2>2, <1>1, <1>2, TableKept DEF history
  <2>. QED  BY <2>1, <2>2
<1>6. WatermarkAhead' /\ DataComplete' /\ PassedOver'
  <2>1. ASSUME NEW t \in Numbered
        PROVE  /\ seq'[t] \in Nat /\ seq[t] <= seq'[t]
               /\ Bad(t) \cup (seq[t] + 1)..seq'[t] \subseteq Bad(t)'
               /\ target[t] \cup dropped[t] \subseteq target'[t] \cup dropped'[t]
    BY <1>1, TableTypes DEF Bad, history
  <2>. QED  BY <2>1, <1>1, <1>2, ServiceStep DEF process, history
<1>. QED  BY <1>3, <1>4, <1>5, <1>6

\* The rules page on SQLite deletes a row.
LEMMA DeleteRuleStep ==
  ASSUME IInv, NEW id \in source["rules"], DeleteRule(id)
  PROVE  IInv'
<1>. USE DEF IInv
<1>. DEFINE t0 == "rules"
<1>0. t0 \in Numbered
  BY DEF Numbered
<1>1. /\ source' = [source EXCEPT ![t0] = source[t0] \ {id}]
      /\ deleted' = [deleted EXCEPT ![t0] = deleted[t0] + 1]
      /\ UNCHANGED <<last, target, seq, muted, process, began, foreign, burned, dropped>>
      /\ spent' \in [DOMAIN Limits -> Nat]
  BY SpendType, LimitsDomain DEF DeleteRule
<1>. HIDE DEF t0
<1>2. ASSUME NEW t \in Numbered
      PROVE  /\ source'[t] \in SUBSET Nat /\ deleted'[t] \in Nat
             /\ t = t0 => source'[t] = source[t] \ {id} /\ deleted'[t] = deleted[t] + 1
             /\ t # t0 => source'[t] = source[t] /\ deleted'[t] = deleted[t]
             /\ source'[t] \subseteq 1..last[t] /\ source'[t] \subseteq source[t]
  BY <1>0, <1>1, TableTypes DEF Shapes, TypeOK
<1>3. TypeOK'
  <2>1. deleted' \in [Numbered -> Nat]
    BY <1>0, <1>1, <1>2 DEF TypeOK
  <2>2. DOMAIN source' = Numbered
    BY <1>1 DEF TypeOK
  <2>. QED  BY <2>1, <2>2, <1>1, <1>2 DEF TypeOK, process
<1>4. Shapes'
  <2>1. source' \in [Numbered -> SUBSET Nat]
    BY <1>1, <1>2 DEF Shapes
  <2>. QED  BY <2>1, <1>1 DEF Shapes, Table, process
<1>5. ASSUME NEW t \in Numbered PROVE TableInv(t)'
  <2>1. CASE t = t0
    BY <2>1, <1>1, <1>2, SourceShrinks
  <2>2. CASE t # t0
    BY <2>2, <1>1, <1>2, TableKept
  <2>. QED  BY <2>1, <2>2
<1>6. WatermarkAhead' /\ DataComplete' /\ PassedOver'
  <2>1. ASSUME NEW t \in Numbered
        PROVE  /\ seq'[t] \in Nat /\ seq[t] <= seq'[t] /\ last'[t] \in Nat /\ last[t] <= last'[t]
               /\ Bad(t) \cup (seq[t] + 1)..seq'[t] \subseteq Bad(t)'
               /\ target[t] \cup dropped[t] \subseteq target'[t] \cup dropped'[t]
               /\ \A f \in source'[t] : f \in source[t] \/ last[t] < f
    BY <1>1, <1>2, TableTypes DEF Bad
  <2>. QED  BY <2>1, <1>1, <1>2, ServiceStep DEF process
<1>. QED  BY <1>3, <1>4, <1>5, <1>6

\* Ids given to others than copies are bad.
LEMMA BadGrows ==
  ASSUME TypeOK, Shapes, NEW t \in Numbered, NEW n \in Nat, seq'[t] = seq[t] + n,
         \A r \in target'[t] : r.from # None => r \in target[t]
  PROVE  Bad(t) \cup (seq[t] + 1)..seq'[t] \subseteq Bad(t)'
<1>1. seq[t] \in Nat /\ \A r \in target[t] : r.id \in 1..seq[t]
  BY TableTypes
<1>2. ASSUME NEW i \in Bad(t) PROVE i \in Bad(t)'
  BY <1>1 DEF Bad
<1>3. ASSUME NEW i \in (seq[t] + 1)..(seq[t] + n) PROVE i \in Bad(t)'
  <2>1. ASSUME NEW r \in target'[t], r.id = i PROVE r.from = None
    BY <1>1, <2>1
  <2>2. i \in 1..(seq[t] + n)
    BY <1>1
  <2>. QED  BY <2>1, <2>2 DEF Bad
<1>. QED  BY <1>2, <1>3

\* A service adds a row to PostgreSQL.
LEMMA WriteTargetStep ==
  ASSUME IInv, NEW t0 \in Numbered, WriteTarget(t0)
  PROVE  IInv'
<1>. USE DEF IInv
<1>1. /\ target' = [target EXCEPT ![t0] = target[t0] \cup {[id |-> seq[t0] + 1, from |-> None]}]
      /\ seq' = [seq EXCEPT ![t0] = seq[t0] + 1]
      /\ foreign' = [foreign EXCEPT ![t0] = foreign[t0] + 1]
      /\ UNCHANGED <<source, last, muted, process, began, deleted, burned, dropped>>
      /\ spent' \in [DOMAIN Limits -> Nat]
  BY SpendType, LimitsDomain DEF WriteTarget
<1>2. ASSUME NEW t \in Numbered
      PROVE  /\ seq'[t] \in Nat /\ seq[t] \in Nat /\ seq[t] <= seq'[t] /\ foreign'[t] \in Nat
             /\ foreign[t] \in Nat /\ burned[t] \in Nat /\ last[t] \in Nat
             /\ t = t0 => /\ target'[t] = target[t] \cup {[id |-> seq[t] + 1, from |-> 0]}
                          /\ seq'[t] = seq[t] + 1 /\ foreign'[t] = foreign[t] + 1
             /\ t # t0 => /\ target'[t] = target[t] /\ seq'[t] = seq[t]
                          /\ foreign'[t] = foreign[t]
             /\ target[t] \subseteq target'[t]
             /\ \A r \in target'[t] : r.from # None => r \in target[t]
  BY <1>1, TableTypes DEF Shapes, TypeOK, None
<1>3. ASSUME NEW t \in Numbered
      PROVE  /\ target'[t] \subseteq [id : 1..seq'[t], from : 0..last[t]]
             /\ \A r, q \in target'[t] : r.id = q.id => r = q
             /\ target'[t] \in SUBSET Rows
  <2>1. /\ target[t] \subseteq [id : 1..seq[t], from : 0..last[t]]
        /\ \A r, q \in target[t] : r.id = q.id => r = q
    BY DEF TypeOK
  <2>2. \A r \in target[t] : r.id \in 1..seq[t] /\ r \in [id : 1..seq'[t], from : 0..last[t]]
    BY <1>2, <2>1
  <2>3. CASE t = t0
    <3>. DEFINE new == [id |-> seq[t] + 1, from |-> 0]
    <3>1. new \in [id : 1..seq'[t], from : 0..last[t]] /\ new.id = seq[t] + 1
      BY <1>2, <2>3
    <3>2. \A r \in target[t] : r.id # new.id
      BY <1>2, <2>2, <3>1
    <3>. HIDE DEF new
    <3>3. target'[t] = target[t] \cup {new}
      BY <1>2, <2>3 DEF new
    <3>4. target'[t] \subseteq [id : 1..seq'[t], from : 0..last[t]]
      BY <2>2, <3>1, <3>3
    <3>5. \A r, q \in target'[t] : r.id = q.id => r = q
      BY <2>1, <3>2, <3>3
    <3>. QED  BY <1>2, <3>4, <3>5 DEF Rows
  <2>4. CASE t # t0
    BY <1>2, <2>1, <2>4 DEF Shapes
  <2>. QED  BY <2>3, <2>4
<1>4. TypeOK'
  <2>1. seq' \in [Numbered -> Nat] /\ foreign' \in [Numbered -> Nat]
    BY <1>1, <1>2 DEF TypeOK
  <2>2. DOMAIN target' = Numbered
    BY <1>1 DEF TypeOK
  <2>. QED  BY <2>1, <2>2, <1>1, <1>3 DEF TypeOK, process
<1>5. Shapes'
  <2>1. target' \in [Numbered -> SUBSET Rows]
    BY <1>1, <1>3 DEF Shapes
  <2>. QED  BY <2>1, <1>1 DEF Shapes, Table, process
<1>6. ASSUME NEW t \in Numbered PROVE TableInv(t)'
  <2>1. CASE t = t0
    <3>1. seq'[t] = seq[t] + 1 /\ foreign'[t] + burned'[t] = foreign[t] + burned[t] + 1
      BY <1>1, <1>2, <2>1
    <3>2. GapsDeleted(t)' /\ BadCounted(t)' /\ SkippedBounded(t)' /\ CopiesSpaced(t)'
      BY <3>1, <1>1, <1>2, SeqGrows
    <3>3. DroppedApart(t)'
      <4>1. /\ dropped[t] \subseteq [id : 1..seq[t], from : 0..last[t]]
            /\ \A r, q \in dropped[t] : r.id = q.id => r = q
            /\ \A r \in target[t], q \in dropped[t] : r.id # q.id
        BY DEF TableInv, DroppedApart
      <4>2. \A q \in dropped[t] : q.id \in 1..seq[t] /\ q \in [id : 1..(seq[t] + 1), from : 0..last[t]]
        BY <1>2, <4>1
      <4>3. \A q \in dropped[t] : q.id # seq[t] + 1
        BY <1>2, <4>2
      <4>4. \A r \in target'[t], q \in dropped[t] : r.id # q.id
        BY <1>2, <2>1, <4>1, <4>3
      <4>. QED  BY <1>1, <3>1, <4>1, <4>2, <4>4 DEF DroppedApart
    <3>4. Straight(t)'
      <4>1. deleted'[t] \in Nat /\ burned'[t] \in Nat /\ foreign'[t] = foreign[t] + 1
        BY <1>1, <1>2, <2>1, TableTypes
      <4>2. deleted'[t] + foreign'[t] + burned'[t] > 0
        BY <4>1, <1>2
      <4>. QED  BY <4>2 DEF Straight, Skewed
    <3>. QED  BY <3>2, <3>3, <3>4 DEF TableInv
  <2>2. CASE t # t0
    BY <2>2, <1>1, <1>2, TableKept
  <2>. QED  BY <2>1, <2>2
<1>7. WatermarkAhead' /\ DataComplete' /\ PassedOver'
  <2>1. ASSUME NEW t \in Numbered
        PROVE  Bad(t) \cup (seq[t] + 1)..seq'[t] \subseteq Bad(t)'
    <3>1. seq'[t] = seq[t] + 1 \/ seq'[t] = seq[t] + 0
      BY <1>2
    <3>. QED  BY <3>1, <1>2, BadGrows
  <2>2. ASSUME NEW t \in Numbered
        PROVE  /\ last'[t] \in Nat /\ last[t] <= last'[t]
               /\ target[t] \cup dropped[t] \subseteq target'[t] \cup dropped'[t]
               /\ \A f \in source'[t] : f \in source[t] \/ last[t] < f
    BY <1>1, <1>2
  <2>. QED  BY <2>1, <2>2, <1>1, <1>2, ServiceStep DEF process
<1>. QED  BY <1>4, <1>5, <1>6, <1>7

\* The rules page on PostgreSQL deletes a row.
LEMMA DropRuleStep ==
  ASSUME IInv, NEW row \in target["rules"], DropRule(row)
  PROVE  IInv'
<1>. USE DEF IInv
<1>. DEFINE t0 == "rules"
<1>0. t0 \in Numbered
  BY DEF Numbered
<1>1. /\ target' = [target EXCEPT ![t0] = target[t0] \ {row}]
      /\ dropped' = [dropped EXCEPT ![t0] = dropped[t0] \cup {row}]
      /\ UNCHANGED <<source, last, seq, muted, process, began, deleted, foreign, burned>>
      /\ spent' \in [DOMAIN Limits -> Nat] /\ row \in target[t0]
  BY SpendType, LimitsDomain DEF DropRule
<1>. HIDE DEF t0
<1>2. ASSUME NEW t \in Numbered
      PROVE  /\ target'[t] \in SUBSET Rows /\ dropped'[t] \in SUBSET Rows
             /\ t = t0 => target'[t] = target[t] \ {row} /\ dropped'[t] = dropped[t] \cup {row}
             /\ t # t0 => target'[t] = target[t] /\ dropped'[t] = dropped[t]
             /\ target'[t] \subseteq target[t]
             /\ target[t] \cup dropped[t] \subseteq target'[t] \cup dropped'[t]
  BY <1>0, <1>1 DEF Shapes
<1>3. TypeOK'
  <2>1. ASSUME NEW t \in Numbered
        PROVE  /\ target'[t] \subseteq [id : 1..seq[t], from : 0..last[t]]
               /\ \A r, q \in target'[t] : r.id = q.id => r = q
               /\ dropped'[t] \subseteq [id : Nat, from : Nat]
    BY <1>2 DEF TypeOK, Rows
  <2>2. DOMAIN target' = Numbered
    BY <1>1 DEF TypeOK
  <2>. QED  BY <2>1, <2>2, <1>1 DEF TypeOK, process
<1>4. Shapes'
  <2>1. target' \in [Numbered -> SUBSET Rows] /\ dropped' \in [Numbered -> SUBSET Rows]
    BY <1>1, <1>2 DEF Shapes
  <2>. QED  BY <2>1, <1>1 DEF Shapes, Table, process
<1>5. ASSUME NEW t \in Numbered PROVE TableInv(t)'
  <2>1. CASE t = t0
    BY <2>1, <1>1, <1>2, TargetShrinks
  <2>2. CASE t # t0
    BY <2>2, <1>1, <1>2, TableKept
  <2>. QED  BY <2>1, <2>2
<1>6. WatermarkAhead' /\ DataComplete' /\ PassedOver'
  <2>1. ASSUME NEW t \in Numbered
        PROVE  Bad(t) \cup (seq[t] + 1)..seq'[t] \subseteq Bad(t)'
    <3>1. seq'[t] = seq[t] + 0
      BY <1>1, TableTypes
    <3>. QED  BY <3>1, <1>2, BadGrows
  <2>2. ASSUME NEW t \in Numbered
        PROVE  /\ seq'[t] \in Nat /\ seq[t] <= seq'[t] /\ last'[t] \in Nat /\ last[t] <= last'[t]
               /\ \A f \in source'[t] : f \in source[t] \/ last[t] < f
    BY <1>1, TableTypes
  <2>. QED  BY <2>1, <2>2, <1>1, <1>2, ServiceStep DEF process
<1>. QED  BY <1>3, <1>4, <1>5, <1>6

\* Steps that leave the tables alone.
LEMMA TablesKept ==
  ASSUME IInv,
         UNCHANGED <<source, last, target, seq, deleted, foreign, burned, dropped>>
  PROVE  /\ \A t \in Numbered : TableInv(t)'
         /\ \A t \in Numbered :
              /\ seq'[t] \in Nat /\ last'[t] \in Nat /\ seq[t] <= seq'[t] /\ last[t] <= last'[t]
              /\ Bad(t) \cup (seq[t] + 1)..seq'[t] \subseteq Bad(t)'
              /\ \A f \in source'[t] : f \in source[t] \/ last[t] < f
              /\ target[t] \cup dropped[t] \subseteq target'[t] \cup dropped'[t]
<1>1. ASSUME NEW t \in Numbered PROVE TableInv(t)'
  BY TableKept DEF IInv
<1>2. ASSUME NEW t \in Numbered
      PROVE  /\ seq'[t] \in Nat /\ last'[t] \in Nat /\ seq[t] <= seq'[t] /\ last[t] <= last'[t]
             /\ Bad(t) \cup (seq[t] + 1)..seq'[t] \subseteq Bad(t)'
             /\ \A f \in source'[t] : f \in source[t] \/ last[t] < f
             /\ target[t] \cup dropped[t] \subseteq target'[t] \cup dropped'[t]
  BY TableTypes DEF IInv, Bad
<1>. QED  BY <1>1, <1>2

\* The bot on PostgreSQL mutes a host.
LEMMA MuteTargetStep ==
  ASSUME IInv, NEW host \in Muted, MuteTarget(host)
  PROVE  IInv'
<1>1. /\ muted' = [muted EXCEPT !.postgres = muted.postgres \cup {host}]
      /\ UNCHANGED <<source, last, target, seq, process, history>>
      /\ spent' \in [DOMAIN Limits -> Nat]
  BY SpendType, LimitsDomain DEF MuteTarget, IInv
<1>2. /\ muted' \in [sqlite : SUBSET Muted, postgres : SUBSET Muted]
      /\ muted'.sqlite = Muted /\ muted'.postgres \subseteq Muted
  BY <1>1 DEF IInv, Shapes, TypeOK
<1>3. TypeOK' /\ Shapes'
  BY <1>1, <1>2 DEF IInv, TypeOK, Shapes, Table, process, history
<1>4. WatermarkAhead' /\ DataComplete' /\ PassedOver'
  BY <1>1, TablesKept, ServiceStep DEF IInv, process, history
<1>. QED  BY <1>1, <1>3, <1>4, TablesKept DEF IInv, history

-----------------------------------------------------------------------------
(* The steps of the migration.                                              *)

\* The tables stay typed and numbered, ids only grow, nothing is forgotten.
TablesGrow ==
  /\ source' = source /\ last' = last /\ began' = began /\ deleted' = deleted
  /\ foreign' = foreign /\ dropped' = dropped
  /\ seq' \in [Numbered -> Nat] /\ burned' \in [Numbered -> Nat]
  /\ target' \in [Numbered -> SUBSET Rows]
  /\ \A t \in Numbered :
       /\ seq[t] <= seq'[t]
       /\ target[t] \cup dropped[t] \subseteq target'[t] \cup dropped'[t]
       /\ target'[t] \subseteq [id : 1..seq'[t], from : 0..last[t]]
       /\ \A r, q \in target'[t] : r.id = q.id => r = q
       /\ TableInv(t)'

\* Tables that nobody touches.
LEMMA TablesSame ==
  ASSUME IInv, UNCHANGED <<source, last, target, seq, history>>
  PROVE  TablesGrow
<1>1. \A t \in Numbered : TableInv(t)'
  BY TablesKept DEF history
<1>2. ASSUME NEW t \in Numbered
      PROVE  /\ seq[t] <= seq'[t]
             /\ target[t] \cup dropped[t] \subseteq target'[t] \cup dropped'[t]
             /\ target'[t] \subseteq [id : 1..seq'[t], from : 0..last[t]]
             /\ \A r, q \in target'[t] : r.id = q.id => r = q
  BY DEF IInv, TypeOK, history
<1>. QED  BY <1>1, <1>2 DEF IInv, TypeOK, Shapes, TablesGrow, history

\* A COPY that fails burns ids.
LEMMA BurnGrows ==
  ASSUME IInv, step = "copy", Table \in Numbered, Burn,
         UNCHANGED <<source, last, target, began, deleted, foreign, dropped>>
  PROVE  TablesGrow
<1>. USE DEF IInv
<1>1. PICK t0 \in Numbered : t0 = Table
  OBVIOUS
<1>2. IsFiniteSet(data) /\ Cardinality(data) \in Nat
  <2>1. PICK top \in 0..last[t0] : data \subseteq (watermark + 1)..top
    BY <1>1 DEF DataComplete
  <2>2. IsFiniteSet((watermark + 1)..top)
    <3>1. watermark \in Nat /\ top \in Nat
      BY TableTypes DEF TypeOK
    <3>. QED  BY <3>1, Stretch
  <2>. QED  BY <2>1, <2>2, Part
<1>3. PICK n \in 0..Cardinality(data) : /\ seq' = [seq EXCEPT ![t0] = seq[t0] + n]
                                        /\ burned' = [burned EXCEPT ![t0] = burned[t0] + n]
  BY <1>1 DEF Burn
<1>4. n \in Nat
  BY <1>2
<1>5. ASSUME NEW t \in Numbered
      PROVE  /\ seq[t] \in Nat /\ seq'[t] \in Nat /\ burned[t] \in Nat /\ burned'[t] \in Nat
             /\ foreign[t] \in Nat /\ seq[t] <= seq'[t] /\ last[t] \in Nat /\ deleted[t] \in Nat
             /\ t = t0 => seq'[t] = seq[t] + n /\ burned'[t] = burned[t] + n
             /\ t # t0 => seq'[t] = seq[t] /\ burned'[t] = burned[t]
  BY <1>3, <1>4, TableTypes DEF TypeOK
<1>6. seq' \in [Numbered -> Nat] /\ burned' \in [Numbered -> Nat]
  BY <1>3, <1>5 DEF TypeOK
<1>7. ASSUME NEW t \in Numbered
      PROVE  /\ target'[t] \subseteq [id : 1..seq'[t], from : 0..last[t]]
             /\ \A r, q \in target'[t] : r.id = q.id => r = q
  <2>1. /\ target[t] \subseteq [id : 1..seq[t], from : 0..last[t]]
        /\ \A r, q \in target[t] : r.id = q.id => r = q
    BY DEF TypeOK
  <2>2. \A r \in target[t] : r \in [id : 1..seq'[t], from : 0..last[t]]
    BY <2>1, <1>5
  <2>. QED  BY <2>1, <2>2
<1>8. ASSUME NEW t \in Numbered PROVE TableInv(t)'
  <2>1. CASE t # t0 \/ n = 0
    <3>1. seq'[t] = seq[t] /\ burned'[t] = burned[t]
      BY <2>1, <1>5
    <3>. QED  BY <3>1, TableKept
  <2>2. CASE t = t0 /\ n # 0
    <3>1. seq'[t] = seq[t] + n /\ foreign'[t] + burned'[t] = foreign[t] + burned[t] + n
      BY <1>4, <1>5, <2>2
    <3>2. GapsDeleted(t)' /\ BadCounted(t)' /\ SkippedBounded(t)' /\ CopiesSpaced(t)'
      BY <3>1, <1>4, SeqGrows
    <3>3. DroppedApart(t)'
      <4>1. /\ dropped[t] \subseteq [id : 1..seq[t], from : 0..last[t]]
            /\ \A r, q \in dropped[t] : r.id = q.id => r = q
            /\ \A r \in target[t], q \in dropped[t] : r.id # q.id
        BY DEF TableInv, DroppedApart
      <4>2. \A q \in dropped[t] : q \in [id : 1..seq'[t], from : 0..last[t]]
        BY <1>5, <4>1
      <4>. QED  BY <4>1, <4>2 DEF DroppedApart
    <3>4. Straight(t)'
      <4>1. deleted'[t] + foreign'[t] + burned'[t] > 0
        BY <1>4, <1>5, <2>2
      <4>. QED  BY <4>1 DEF Straight, Skewed
    <3>. QED  BY <3>2, <3>3, <3>4 DEF TableInv
  <2>. QED  BY <2>1, <2>2
<1>. QED  BY <1>5, <1>6, <1>7, <1>8 DEF TablesGrow, Shapes

\* What a table was left without in an earlier step it is left without now.
LEMMA StillPassed ==
  ASSUME IInv, TablesGrow, NEW t \in Finished, NEW f \in Missed(t)'
  PROVE  f <= seq'[t]
<1>1. t \in Numbered
  BY DEF Finished
<1>2. f \in Missed(t)
  BY <1>1 DEF Missed, TablesGrow
<1>3. f <= seq[t] /\ f \in Nat
  <2>1. f \in source[t]
    BY <1>2 DEF Missed
  <2>. QED  BY <1>1, <1>2, <2>1 DEF IInv, PassedOver, Shapes
<1>4. seq[t] \in Nat /\ seq'[t] \in Nat /\ seq[t] <= seq'[t]
  BY <1>1, TableTypes DEF TablesGrow, IInv
<1>. QED  BY <1>3, <1>4

\* The invariant for a step of the process, from what each step has to show.
LEMMA ProcessStep ==
  ASSUME IInv, TablesGrow,
         at' \in 1..5, step' \in {"off", "begin", "select", "copy", "done", "failed"},
         watermark' \in Nat, step' = "copy" <=> data' # {}, spent' \in [DOMAIN Limits -> Nat],
         muted' \in [sqlite : {Muted}, postgres : SUBSET Muted],
         step' = "copy" /\ Order[at'] = "mutes" => data' \subseteq Muted,
         WatermarkAhead', DataComplete', PassedOver'
  PROVE  IInv'
<1>1. TypeOK'
  <2>1. DOMAIN target' = Numbered
    BY DEF TablesGrow
  <2>2. muted'.sqlite = Muted /\ muted'.postgres \subseteq Muted
    OBVIOUS
  <2>3. ASSUME NEW t \in Numbered
        PROVE  /\ source'[t] \subseteq 1..last'[t]
               /\ target'[t] \subseteq [id : 1..seq'[t], from : 0..last'[t]]
               /\ \A r, q \in target'[t] : r.id = q.id => r = q
               /\ dropped'[t] \subseteq [id : Nat, from : Nat]
    BY DEF IInv, TypeOK, TablesGrow
  <2>4. /\ DOMAIN source' = Numbered /\ last' \in [Numbered -> Nat] /\ seq' \in [Numbered -> Nat]
        /\ began' \in [Numbered -> SUBSET Nat] /\ deleted' \in [Numbered -> Nat]
        /\ foreign' \in [Numbered -> Nat] /\ burned' \in [Numbered -> Nat]
    BY DEF IInv, TypeOK, TablesGrow
  <2>5. at' \in DOMAIN Order
    BY OrderFacts
  <2>. QED  BY <2>1, <2>2, <2>3, <2>4, <2>5 DEF TypeOK
<1>2. Shapes'
  <2>1. muted' \in [sqlite : SUBSET Muted, postgres : SUBSET Muted]
    OBVIOUS
  <2>2. Table' = Order[at']
    BY DEF Table
  <2>. QED  BY <2>1, <2>2 DEF IInv, Shapes, TablesGrow
<1>. QED  BY <1>1, <1>2 DEF IInv, TablesGrow

\* The process ends with an error.
LEMMA FailStep ==
  ASSUME IInv, TablesGrow, Fail, muted' = muted, spent' \in [DOMAIN Limits -> Nat]
  PROVE  IInv'
<1>1. step' = "failed" /\ watermark' = 0 /\ data' = {} /\ at' = at
  BY DEF Fail
<1>2. WatermarkAhead' /\ DataComplete'
  BY <1>1 DEF WatermarkAhead, DataComplete
<1>3. PassedOver'
  <2>1. Finished' = Finished
    BY <1>1 DEF Finished
  <2>. QED  BY <2>1, StillPassed DEF PassedOver
<1>4. at \in 1..5 /\ muted \in [sqlite : {Muted}, postgres : SUBSET Muted]
  BY OrderFacts DEF IInv, TypeOK, Shapes
<1>. QED  BY <1>1, <1>2, <1>3, <1>4, ProcessStep

\* The process goes on to the next table; what the present one was left without
\* is not beyond PostgreSQL's ids.
LEMMA AdvanceStep ==
  ASSUME IInv, TablesGrow, Advance, spent' = spent,
         muted' \in [sqlite : {Muted}, postgres : SUBSET Muted],
         \A t \in Numbered : t = Table => \A f \in Missed(t)' : f <= seq'[t]
  PROVE  IInv'
<1>1. at \in 1..5
  BY OrderFacts DEF IInv, TypeOK
<1>2. /\ step' \in {"done", "begin"} /\ watermark' = 0 /\ data' = {} /\ at' \in 1..5
      /\ at' \in {at, at + 1}
  BY <1>1, OrderFacts DEF Advance
<1>3. WatermarkAhead' /\ DataComplete'
  BY <1>2 DEF WatermarkAhead, DataComplete
<1>4. PassedOver'
  <2>1. ASSUME NEW t \in Finished' PROVE t \in Numbered /\ (t \in Finished \/ t = Table)
    <3>1. PICK i \in 1..(at' - 1) : Order[i] = t /\ t \in Numbered
      BY DEF Finished
    <3>2. i \in 1..(at - 1) \/ i = at
      <4>1. CASE at' = at
        BY <3>1, <4>1
      <4>2. CASE at' = at + 1
        <5>1. i \in 1..((at + 1) - 1)
          BY <3>1, <4>2
        <5>2. (at + 1) - 1 = at /\ at \in Nat
          BY <1>1
        <5>. QED  BY <5>1, <5>2
      <4>. QED  BY <1>2, <4>1, <4>2
    <3>. QED  BY <3>1, <3>2 DEF Finished, Table
  <2>. QED  BY <2>1, StillPassed DEF PassedOver
<1>5. spent' \in [DOMAIN Limits -> Nat]
  BY DEF IInv, TypeOK
<1>. QED  BY <1>2, <1>3, <1>4, <1>5, ProcessStep

\* Run
LEMMA RunStep == ASSUME IInv, Run PROVE IInv'
<1>. USE DEF IInv
<1>1. /\ at' = 1 /\ step' = "begin" /\ watermark' = 0 /\ data' = {} /\ began' = source
      /\ UNCHANGED <<databases, deleted, foreign, burned, dropped>>
      /\ spent' \in [DOMAIN Limits -> Nat]
  BY SpendType, LimitsDomain DEF Run
<1>2. \A t \in Numbered : TableInv(t)'
  BY <1>1, TableKept DEF databases
<1>3. TypeOK'
  <2>1. began' \in [Numbered -> SUBSET Nat]
    BY <1>1 DEF Shapes
  <2>2. at' \in DOMAIN Order
    BY <1>1, OrderFacts
  <2>. QED  BY <2>1, <2>2, <1>1 DEF TypeOK, databases
<1>4. Shapes'
  BY <1>1 DEF Shapes, TypeOK, databases
<1>5. WatermarkAhead' /\ DataComplete'
  BY <1>1 DEF WatermarkAhead, DataComplete
<1>6. PassedOver'
  <2>1. Finished' = {}
    BY <1>1 DEF Finished
  <2>. QED  BY <2>1 DEF PassedOver
<1>. QED  BY <1>2, <1>3, <1>4, <1>5, <1>6

\* MaxId is the largest id of a table that has rows.
LEMMA MaxIdIs ==
  ASSUME TypeOK, Shapes, NEW t \in Numbered
  PROVE  /\ MaxId(t) \in 0..seq[t]
         /\ \A r \in target[t] : r.id <= MaxId(t)
<1>1. seq[t] \in Nat /\ \A r \in target[t] : r.id \in 1..seq[t]
  BY TableTypes
<1>2. CASE target[t] = {}
  BY <1>1, <1>2 DEF MaxId
<1>3. CASE target[t] # {}
  <2>1. Ids(t) \subseteq Nat /\ Ids(t) # {} /\ \A n \in Ids(t) : n <= seq[t]
    BY <1>1, <1>3 DEF Ids
  <2>2. \E n \in Ids(t) : \A m \in Ids(t) : m <= n
    BY <1>1, <2>1, GreatestNat
  <2>3. MaxId(t) \in Ids(t) /\ \A m \in Ids(t) : m <= MaxId(t)
    BY <1>3, <2>2 DEF MaxId
  <2>4. MaxId(t) \in 0..seq[t]
    BY <2>1, <2>3, <1>1
  <2>5. \A r \in target[t] : r.id \in Ids(t)
    BY DEF Ids
  <2>. QED  BY <2>3, <2>4, <2>5
<1>. QED  BY <1>2, <1>3

\* ReadWatermark: no row, and so no copy, has an id beyond the largest.
LEMMA ReadWatermarkStep == ASSUME IInv, ReadWatermark PROVE IInv'
<1>1. PICK t0 \in Numbered : t0 = Table
  BY DEF ReadWatermark
<1>2. /\ watermark' = MaxId(t0) /\ step' = "select" /\ at' = at /\ data' = data /\ step = "begin"
      /\ UNCHANGED <<databases, history, spent>>
  BY <1>1 DEF ReadWatermark
<1>3. MaxId(t0) \in 0..seq[t0] /\ \A r \in target[t0] : r.id <= MaxId(t0)
  BY MaxIdIs DEF IInv
<1>4. seq[t0] \in Nat /\ \A r \in target[t0] : r.id \in 1..seq[t0]
  BY TableTypes DEF IInv
<1>5. TablesGrow
  BY <1>2, TablesSame DEF databases
<1>6. data' = {}
  BY <1>2 DEF IInv, TypeOK
<1>7. WatermarkAhead'
  <2>1. ASSUME NEW t \in Numbered, t = Table'
        PROVE  watermark' <= seq'[t] /\ (watermark' + 1)..seq'[t] \subseteq Bad(t)'
    <3>1. t = t0
      BY <1>1, <1>2, <2>1 DEF Table
    <3>2. Bad(t)' = Bad(t) /\ seq' = seq
      BY <1>2 DEF Bad, databases
    <3>3. ASSUME NEW i \in (MaxId(t0) + 1)..seq[t0] PROVE i \in Bad(t0)
      BY <1>3, <1>4 DEF Bad
    <3>. QED  BY <1>2, <1>3, <1>4, <3>1, <3>2, <3>3
  <2>. QED  BY <2>1 DEF WatermarkAhead
<1>8. DataComplete'
  BY <1>2 DEF DataComplete
<1>9. PassedOver'
  <2>1. Finished' = Finished
    BY <1>2 DEF Finished
  <2>. QED  BY <2>1, <1>5, StillPassed DEF PassedOver
<1>10. /\ at' \in 1..5 /\ watermark' \in Nat /\ spent' \in [DOMAIN Limits -> Nat]
       /\ muted' \in [sqlite : {Muted}, postgres : SUBSET Muted]
  BY <1>2, <1>3, <1>4, OrderFacts DEF IInv, TypeOK, Shapes, databases
<1>. QED  BY <1>2, <1>5, <1>6, <1>7, <1>8, <1>9, <1>10, ProcessStep

\* TruncateMutes
LEMMA TruncateMutesStep == ASSUME IInv, TruncateMutes PROVE IInv'
<1>1. /\ muted' = [muted EXCEPT !.postgres = {}] /\ step' = "select" /\ step = "begin"
      /\ UNCHANGED <<source, last, target, seq, at, watermark, data, history, spent>>
      /\ Table = "mutes"
  BY DEF TruncateMutes
<1>2. TablesGrow
  BY <1>1, TablesSame
<1>3. muted' \in [sqlite : {Muted}, postgres : SUBSET Muted]
  BY <1>1 DEF IInv, TypeOK, Shapes
<1>4. WatermarkAhead' /\ DataComplete'
  BY <1>1, OrderFacts DEF WatermarkAhead, DataComplete, Table
<1>5. PassedOver'
  <2>1. Finished' = Finished
    BY <1>1 DEF Finished
  <2>. QED  BY <2>1, <1>2, StillPassed DEF PassedOver
<1>6. /\ at' \in 1..5 /\ watermark' \in Nat /\ spent' \in [DOMAIN Limits -> Nat] /\ data' = {}
  BY <1>1, OrderFacts DEF IInv, TypeOK
<1>. QED  BY <1>1, <1>2, <1>3, <1>4, <1>5, <1>6, ProcessStep

\* SelectRows: nothing behind the watermark, or a batch up to SQLite's last id.
LEMMA SelectRowsStep == ASSUME IInv, SelectRows PROVE IInv'
<1>1. step = "select" /\ UNCHANGED <<databases, history, spent>>
  BY DEF SelectRows
<1>2. TablesGrow
  BY <1>1, TablesSame DEF databases
<1>3. muted' \in [sqlite : {Muted}, postgres : SUBSET Muted]
  BY <1>1 DEF IInv, TypeOK, Shapes, databases
<1>4. ASSUME NEW t \in Numbered, t = Table
      PROVE  Selected = New(t) /\ t # "mutes"
  BY <1>4, OrderFacts DEF Selected
<1>5. ASSUME NEW t \in Numbered
      PROVE  /\ last[t] \in Nat /\ source[t] \subseteq 1..last[t] /\ began[t] \subseteq 1..last[t]
             /\ seq[t] \in Nat /\ watermark \in Nat
  BY TableTypes DEF IInv, TypeOK, Shapes
<1>6. CASE Selected = {}
  <2>1. Advance
    BY <1>6 DEF SelectRows
  <2>2. ASSUME NEW t \in Numbered, t = Table, NEW f \in Missed(t)'
        PROVE  f <= seq'[t]
    <3>1. f \in source[t] /\ New(t) = {} /\ seq' = seq
      BY <1>1, <1>4, <1>6, <2>2 DEF Missed, databases
    <3>2. f <= watermark
      BY <3>1, <1>5 DEF New
    <3>3. watermark <= seq[t]
      BY <1>1, <2>2 DEF IInv, WatermarkAhead
    <3>. QED  BY <3>1, <3>2, <3>3, <1>5
  <2>. QED  BY <2>1, <2>2, <1>1, <1>2, <1>3, AdvanceStep
<1>7. CASE Selected # {}
  <2>1. data' = Selected /\ step' = "copy" /\ at' = at /\ watermark' = watermark
    BY <1>7 DEF SelectRows
  <2>2. WatermarkAhead'
    <3>1. ASSUME NEW t \in Numbered PROVE Bad(t)' = Bad(t)
      BY <1>1 DEF Bad, databases
    <3>. QED  BY <3>1, <2>1, <1>1 DEF IInv, WatermarkAhead, Table, databases
  <2>3. DataComplete'
    <3>1. ASSUME NEW t \in Numbered, t = Table'
          PROVE  \E top \in 0..last'[t] :
                   /\ began'[t] \subseteq 1..top
                   /\ data' \subseteq (watermark' + 1)..top
                   /\ source'[t] \cap (watermark' + 1)..top \subseteq data'
      <4>1. t = Table /\ data' = New(t) /\ source' = source /\ last' = last /\ began' = began
        BY <1>1, <1>4, <2>1, <3>1 DEF Table, databases, history
      <4>2. last[t] \in 0..last[t] /\ New(t) \subseteq (watermark + 1)..last[t]
        BY <1>5 DEF New
      <4>3. source[t] \cap (watermark + 1)..last[t] \subseteq New(t)
        BY <1>5 DEF New
      <4>4. began[t] \subseteq 1..last[t]
        BY <1>5
      <4>. QED  BY <2>1, <4>1, <4>2, <4>3, <4>4
    <3>. QED  BY <3>1 DEF DataComplete
  <2>4. PassedOver'
    <3>1. Finished' = Finished
      BY <2>1 DEF Finished
    <3>. QED  BY <3>1, <1>2, StillPassed DEF PassedOver
  <2>5. Order[at'] = "mutes" => data' \subseteq Muted
    BY <2>1 DEF Selected, Table, IInv, TypeOK
  <2>6. /\ at' \in 1..5 /\ watermark' \in Nat /\ spent' \in [DOMAIN Limits -> Nat]
    BY <1>1, <2>1, OrderFacts DEF IInv, TypeOK
  <2>. QED  BY <2>1, <2>2, <2>3, <2>4, <2>5, <2>6, <1>2, <1>3, <1>7, ProcessStep
<1>. QED  BY <1>6, <1>7

\* SelectUnknown, CopyOmitted and FailStatement end the process.
LEMMA FailingSteps ==
  ASSUME IInv, SelectUnknown \/ CopyOmitted \/ FailStatement
  PROVE  IInv'
<1>1. CASE SelectUnknown
  <2>1. TablesGrow
    BY <1>1, TablesSame DEF SelectUnknown, databases
  <2>. QED  BY <2>1, <1>1, FailStep DEF SelectUnknown, databases, IInv, TypeOK
<1>2. CASE CopyOmitted
  <2>1. TablesGrow
    BY <1>2, BurnGrows DEF CopyOmitted
  <2>. QED  BY <2>1, <1>2, FailStep DEF CopyOmitted, IInv, TypeOK
<1>3. CASE FailStatement
  <2>1. spent' \in [DOMAIN Limits -> Nat]
    BY <1>3, SpendType, LimitsDomain DEF FailStatement, IInv
  <2>2. CASE step = "copy" /\ Table \in Numbered
    <3>1. TablesGrow
      BY <1>3, <2>2, BurnGrows DEF FailStatement
    <3>. QED  BY <2>1, <3>1, <1>3, FailStep DEF FailStatement
  <2>3. CASE ~(step = "copy" /\ Table \in Numbered)
    <3>1. TablesGrow
      BY <1>3, <2>3, TablesSame DEF FailStatement, history
    <3>. QED  BY <2>1, <3>1, <1>3, FailStep DEF FailStatement
  <2>. QED  BY <2>2, <2>3
<1>. QED  BY <1>1, <1>2, <1>3

\* CopyRows: what the run found behind the watermark is copied, and with it
\* every row that was there when the run began.
LEMMA CopyRowsStep == ASSUME IInv, CopyRows PROVE IInv'
<1>. USE DEF IInv
<1>1. PICK t0 \in Numbered : t0 = Table
  BY DEF CopyRows
<1>2. PICK D : D = data
  OBVIOUS
<1>3. /\ step = "copy" /\ Advance
      /\ target' = [target EXCEPT ![t0] = target[t0] \cup Copies(seq[t0])]
      /\ seq' = [seq EXCEPT ![t0] = seq[t0] + Cardinality(D)]
      /\ UNCHANGED <<source, last, muted, history, spent>>
  BY <1>1, <1>2 DEF CopyRows
<1>4. D # {}
  BY <1>2, <1>3 DEF TypeOK
<1>5. PICK w : w = watermark
  OBVIOUS
<1>6. PICK top \in 0..last[t0] : /\ began[t0] \subseteq 1..top
                                 /\ D \subseteq (w + 1)..top
                                 /\ source[t0] \cap (w + 1)..top \subseteq D
  BY <1>1, <1>2, <1>3, <1>5 DEF DataComplete
<1>7. IsBatch(t0, w, top, D)
  BY <1>1, <1>3, <1>5, <1>6 DEF IsBatch, WatermarkAhead, TypeOK
<1>8. CopiesBatch(t0, D)
  <2>1. Copies(seq[t0]) = {CopyOf(t0, D, f) : f \in D}
    BY <1>2 DEF Copies, CopyOf, Rank
  <2>2. /\ target'[t0] = target[t0] \cup {CopyOf(t0, D, f) : f \in D}
        /\ seq'[t0] = seq[t0] + Cardinality(D)
    BY <1>3, <2>1 DEF Shapes, TypeOK
  <2>. QED  BY <1>3, <2>2 DEF CopiesBatch, history
<1>9. /\ seq[t0] \in Nat /\ Cardinality(D) \in Nat /\ w \in Nat /\ top \in Nat
      /\ \A f \in D : CopyOf(t0, D, f).from = f
  BY <1>7, BatchRows
<1>10. ASSUME NEW t \in Numbered, t # t0
       PROVE  target'[t] = target[t] /\ seq'[t] = seq[t]
  BY <1>3, <1>10 DEF Shapes, TypeOK
<1>11. ASSUME NEW t \in Numbered PROVE TableInv(t)'
  <2>1. CASE t = t0
    BY <2>1, <1>4, <1>7, <1>8, BatchInv
  <2>2. CASE t # t0
    BY <2>2, <1>3, <1>10, TableKept DEF history
  <2>. QED  BY <2>1, <2>2
<1>12. ASSUME NEW t \in Numbered
       PROVE  /\ seq[t] <= seq'[t] /\ seq'[t] \in Nat
              /\ target[t] \cup dropped[t] \subseteq target'[t] \cup dropped'[t]
              /\ target'[t] \subseteq [id : 1..seq'[t], from : 0..last[t]]
              /\ target'[t] \in SUBSET Rows
              /\ \A r, q \in target'[t] : r.id = q.id => r = q
  <2>1. last[t] \in Nat /\ seq[t] \in Nat
    BY TableTypes
  <2>2. CASE t = t0
    <3>1. /\ target'[t] \subseteq [id : 1..seq'[t], from : 0..last'[t]]
          /\ \A r, q \in target'[t] : r.id = q.id => r = q
      BY <2>2, <1>7, <1>8, BatchNumbered
    <3>2. seq[t] <= seq'[t] /\ seq'[t] \in Nat /\ target[t] \subseteq target'[t]
      BY <2>2, <1>8, <1>9 DEF CopiesBatch
    <3>3. [id : 1..seq'[t], from : 0..last'[t]] \subseteq Rows
      BY <2>1, <1>3 DEF Rows
    <3>. QED  BY <1>3, <3>1, <3>2, <3>3 DEF history
  <2>3. CASE t # t0
    BY <2>1, <2>3, <1>3, <1>10 DEF TypeOK, Shapes, history
  <2>. QED  BY <2>2, <2>3
<1>13. TablesGrow
  <2>1. seq' \in [Numbered -> Nat] /\ target' \in [Numbered -> SUBSET Rows]
    BY <1>3, <1>12 DEF TypeOK, Shapes
  <2>. QED  BY <2>1, <1>3, <1>11, <1>12 DEF TablesGrow, TypeOK, history
<1>14. ASSUME NEW t \in Numbered, t = Table, NEW f \in Missed(t)'
       PROVE  f <= seq'[t]
  <2>1. t = t0
    BY <1>1, <1>14
  <2>2. f \in began[t0] /\ f \in source[t0] /\ \A r \in target'[t0] : r.from # f
    BY <1>3, <1>14, <2>1 DEF Missed, history
  <2>3. f \notin D
    <3>1. SUFFICES ASSUME f \in D PROVE FALSE
      OBVIOUS
    <3>2. CopyOf(t0, D, f) \in target'[t0] /\ CopyOf(t0, D, f).from = f
      BY <3>1, <1>8, <1>9 DEF CopiesBatch
    <3>. QED  BY <2>2, <3>2
  <2>4. f \in 1..top
    BY <1>6, <2>2
  <2>5. f <= w
    BY <1>6, <1>9, <2>2, <2>3, <2>4
  <2>6. w <= seq[t0]
    BY <1>7 DEF IsBatch
  <2>7. seq[t0] <= seq'[t0] /\ seq'[t0] \in Nat
    BY <1>12
  <2>. QED  BY <1>9, <2>1, <2>4, <2>5, <2>6, <2>7
<1>15. muted' \in [sqlite : {Muted}, postgres : SUBSET Muted] /\ spent' = spent
  BY <1>3 DEF TypeOK, Shapes
<1>. QED  BY <1>3, <1>13, <1>14, <1>15, AdvanceStep

\* CopyMutes
LEMMA CopyMutesStep == ASSUME IInv, CopyMutes PROVE IInv'
<1>1. /\ step = "copy" /\ Table = "mutes" /\ UNCHANGED <<source, last, target, seq, history, spent>>
  BY DEF CopyMutes
<1>2. TablesGrow
  BY <1>1, TablesSame
<1>3. CASE data \cap muted.postgres = {}
  <2>1. muted' = [muted EXCEPT !.postgres = muted.postgres \cup data] /\ Advance
    BY <1>3 DEF CopyMutes
  <2>2. data \subseteq Muted
    BY <1>1 DEF IInv, Shapes
  <2>3. muted' \in [sqlite : {Muted}, postgres : SUBSET Muted]
    BY <2>1, <2>2 DEF IInv, TypeOK, Shapes
  <2>4. \A t \in Numbered : t # Table
    BY <1>1, OrderFacts
  <2>. QED  BY <1>1, <1>2, <2>1, <2>3, <2>4, AdvanceStep
<1>4. CASE data \cap muted.postgres # {}
  <2>1. muted' = muted /\ Fail
    BY <1>4 DEF CopyMutes
  <2>2. spent' \in [DOMAIN Limits -> Nat]
    BY <1>1 DEF IInv, TypeOK
  <2>. QED  BY <1>2, <2>1, <2>2, FailStep
<1>. QED  BY <1>3, <1>4

-----------------------------------------------------------------------------
(* The theorems.                                                            *)

\* Before the first run PostgreSQL is empty and SQLite has no gaps.
LEMMA InitInv == Init => IInv
<1>. SUFFICES ASSUME Init PROVE IInv
  OBVIOUS
<1>1. ASSUME NEW t \in Numbered
      PROVE  /\ last[t] \in Nat /\ source[t] = 1..last[t] /\ target[t] = {} /\ seq[t] = 0
             /\ deleted[t] = 0 /\ foreign[t] = 0 /\ burned[t] = 0 /\ dropped[t] = {}
             /\ began[t] = source[t]
  BY MigrationAssumption DEF Init
<1>2. TypeOK
  <2>1. source \in [Numbered -> SUBSET Nat] /\ last \in [Numbered -> Nat]
    BY MigrationAssumption DEF Init
  <2>2. muted.sqlite = Muted /\ muted.postgres = {} /\ 1 \in DOMAIN Order
    BY OrderFacts DEF Init
  <2>. QED  BY <2>1, <2>2, <1>1, OrderFacts DEF Init, TypeOK
<1>3. Shapes
  <2>1. source \in [Numbered -> SUBSET Nat]
    BY MigrationAssumption DEF Init
  <2>. QED  BY <2>1, <1>1 DEF Init, Shapes
<1>4. ASSUME NEW t \in Numbered PROVE TableInv(t)
  <2>1. Bad(t) = {} /\ Gaps(t) = {}
    BY <1>1 DEF Bad, Gaps
  <2>2. DroppedApart(t) /\ CopiesSpaced(t)
    BY <1>1 DEF DroppedApart, CopiesSpaced
  <2>3. GapsDeleted(t) /\ BadCounted(t)
    <3>1. Cardinality(Bad(t)) = 0 /\ Cardinality(Gaps(t)) = 0 /\ Cardinality(dropped[t]) = 0
      BY <1>1, <2>1, FS_EmptySet
    <3>. QED  BY <1>1, <3>1 DEF GapsDeleted, BadCounted
  <2>4. SkippedBounded(t)
    <3>1. ASSUME NEW k \in 0..seq[t]
          PROVE  Cardinality(Skipped(t, k)) <= Cardinality(Bad(t) \cap 1..k)
      <4>1. k = 0
        BY <1>1
      <4>2. Skipped(t, k) = {} /\ Bad(t) \cap 1..k = {}
        BY <2>1, <4>1 DEF Skipped
      <4>3. Cardinality(Skipped(t, k)) = 0 /\ Cardinality(Bad(t) \cap 1..k) = 0
        BY <4>2, FS_EmptySet
      <4>. QED  BY <4>3
    <3>. QED  BY <3>1 DEF SkippedBounded
  <2>5. Straight(t)
    BY <1>1 DEF Straight
  <2>. QED  BY <2>2, <2>3, <2>4, <2>5 DEF TableInv
<1>5. WatermarkAhead /\ DataComplete /\ PassedOver
  BY DEF Init, WatermarkAhead, DataComplete, PassedOver, Finished
<1>. QED  BY <1>2, <1>3, <1>4, <1>5 DEF IInv

\* Every step keeps the invariant.
LEMMA NextInv == IInv /\ [Next]_vars => IInv'
<1>. SUFFICES ASSUME IInv, [Next]_vars PROVE IInv'
  OBVIOUS
<1>1. CASE UNCHANGED vars
  <2>1. UNCHANGED <<source, last, target, seq, muted, process, history, spent>>
    BY <1>1 DEF vars, databases
  <2>2. TypeOK' /\ Shapes'
    BY <2>1 DEF IInv, TypeOK, Shapes, Table, process, history
  <2>3. WatermarkAhead' /\ DataComplete' /\ PassedOver'
    BY <2>1, TablesKept, ServiceStep DEF IInv, process, history
  <2>. QED  BY <2>1, <2>2, <2>3, TablesKept DEF IInv, history
<1>2. ASSUME NEW t \in Numbered, WriteSource(t) \/ WriteTarget(t) PROVE IInv'
  BY <1>2, WriteSourceStep, WriteTargetStep
<1>3. ASSUME NEW id \in source["rules"], DeleteRule(id) PROVE IInv'
  BY <1>3, DeleteRuleStep
<1>4. ASSUME NEW row \in target["rules"], DropRule(row) PROVE IInv'
  BY <1>4, DropRuleStep
<1>5. ASSUME NEW host \in Muted, MuteTarget(host) PROVE IInv'
  BY <1>5, MuteTargetStep
<1>6. CASE Run
  BY <1>6, RunStep
<1>7. CASE ReadWatermark
  BY <1>7, ReadWatermarkStep
<1>8. CASE TruncateMutes
  BY <1>8, TruncateMutesStep
<1>9. CASE SelectRows
  BY <1>9, SelectRowsStep
<1>10. CASE CopyRows
  BY <1>10, CopyRowsStep
<1>11. CASE CopyMutes
  BY <1>11, CopyMutesStep
<1>12. CASE SelectUnknown \/ CopyOmitted \/ FailStatement
  BY <1>12, FailingSteps
<1>. QED
  BY <1>1, <1>2, <1>3, <1>4, <1>5, <1>6, <1>7, <1>8, <1>9, <1>10, <1>11, <1>12 DEF Next

\* The inductive invariant always holds.
LEMMA IInvAlways == Spec => []IInv
BY InitInv, NextInv, PTL DEF Spec

\* The variables of the migration keep their types; PostgreSQL's ids stay
\* unique and below its sequence.
THEOREM TypeCorrect == Spec => []TypeOK
<1>1. IInv => TypeOK
  BY DEF IInv
<1>. QED  BY <1>1, IInvAlways, PTL

\* Where nothing makes the numbers of the two databases drift, a table holds a
\* prefix of SQLite's, each row once and under its own id, however often the
\* migration is broken off and run again.
THEOREM CopiedOnceAlways == Spec => []CopiedOnce
<1>1. ASSUME IInv, NEW t \in Numbered, ~Skewed(t)
      PROVE  \E n \in 0..last[t] : target[t] = {[id |-> id, from |-> id] : id \in 1..n}
  <2>1. /\ seq[t] <= last[t] /\ target[t] = {[id |-> id, from |-> id] : id \in 1..seq[t]}
    BY <1>1 DEF IInv, TableInv, Straight
  <2>2. seq[t] \in 0..last[t]
    BY <1>1, <2>1, TableTypes DEF IInv
  <2>. QED  BY <2>1, <2>2
<1>2. IInv => CopiedOnce
  BY <1>1 DEF CopiedOnce
<1>. QED  BY <1>2, IInvAlways, PTL

\* Behind every row that a finished table was left without there is an id that
\* PostgreSQL gave to a row of its own, burned or has given up.
THEOREM MissedBoundedAlways == Spec => []MissedBounded
<1>1. ASSUME IInv, NEW t \in Finished
      PROVE  Cardinality(Missed(t)) <= foreign[t] + burned[t] + Cardinality(dropped[t])
  <2>1. t \in Numbered
    BY DEF Finished
  <2>2. seq[t] \in Nat /\ source[t] \subseteq 1..last[t] /\ last[t] \in Nat
        /\ foreign[t] \in Nat /\ burned[t] \in Nat
    BY <1>1, <2>1, TableTypes DEF IInv
  <2>3. Missed(t) \subseteq Skipped(t, seq[t])
    <3>. SUFFICES ASSUME NEW f \in Missed(t) PROVE f \in Skipped(t, seq[t])
      OBVIOUS
    <3>1. f <= seq[t]
      BY <1>1 DEF IInv, PassedOver
    <3>2. f \in 1..seq[t] /\ f \in source[t]
      BY <3>1, <2>2 DEF Missed
    <3>. QED  BY <3>2 DEF Missed, Skipped
  <2>4. /\ IsFiniteSet(Skipped(t, seq[t])) /\ Cardinality(Skipped(t, seq[t])) \in Nat
        /\ Bad(t) \subseteq 1..seq[t] /\ Cardinality(Bad(t)) \in Nat
    BY <1>1, <2>1, <2>2, Counted DEF IInv
  <2>5. Cardinality(Skipped(t, seq[t])) <= Cardinality(Bad(t))
    <3>1. Bad(t) \cap 1..seq[t] = Bad(t) /\ seq[t] \in 0..seq[t]
      BY <2>2, <2>4
    <3>. QED  BY <3>1, <1>1, <2>1 DEF IInv, TableInv, SkippedBounded
  <2>6. Cardinality(Missed(t)) <= Cardinality(Skipped(t, seq[t])) /\ Cardinality(Missed(t)) \in Nat
    BY <2>3, <2>4, Part
  <2>7. Cardinality(Bad(t)) <= foreign[t] + burned[t] + Cardinality(dropped[t])
    BY <1>1, <2>1 DEF IInv, TableInv, BadCounted
  <2>8. Cardinality(dropped[t]) \in Nat
    <3>1. \A r, q \in dropped[t] : r.id = q.id => r = q
      BY <1>1, <2>1 DEF IInv, TableInv, DroppedApart
    <3>2. \A r \in dropped[t] : r.id \in 1..seq[t]
      BY <1>1, <2>1 DEF IInv, TableInv, DroppedApart
    <3>. QED  BY <3>1, <3>2, <2>2, RowsFinite, FS_CardinalityType
  <2>. QED  BY <2>2, <2>4, <2>5, <2>6, <2>7, <2>8
<1>2. IInv => MissedBounded
  BY <1>1 DEF MissedBounded
<1>. QED  BY <1>2, IInvAlways, PTL

\* However often the migration runs, the copies it ever made of a row are one,
\* one for each row deleted in SQLite and one for each copy of the row that was
\* deleted in PostgreSQL.
THEOREM RepeatsBoundedAlways == Spec => []RepeatsBounded
<1>1. ASSUME IInv, NEW t \in Numbered, NEW id \in 1..last[t]
      PROVE  /\ deleted[t] \in Nat
             /\ IsFiniteSet(CopiesOf(t, id)) /\ Cardinality(CopiesOf(t, id)) \in Nat
             /\ Cardinality(CopiesOf(t, id)) <= 1 + deleted[t]
  <2>1. deleted[t] \in Nat /\ IsFiniteSet(CopiesOf(t, id)) /\ Cardinality(CopiesOf(t, id)) \in Nat
    BY <1>1, TableTypes, LastCopy DEF IInv
  <2>2. CASE CopiesOf(t, id) = {}
    BY <2>1, <2>2, FS_EmptySet
  <2>3. CASE CopiesOf(t, id) # {}
    <3>1. PICK q \in CopiesOf(t, id) : Cardinality(Before(t, q)) = Cardinality(CopiesOf(t, id)) - 1
      BY <1>1, <2>3, LastCopy DEF IInv
    <3>2. q \in target[t] /\ q.from # None
      BY <3>1 DEF CopiesOf, None
    <3>3. Cardinality(Before(t, q)) <= deleted[t]
      BY <1>1, <3>2 DEF IInv, TableInv, CopiesSpaced
    <3>. QED  BY <3>1, <3>3, <2>1
  <2>. QED  BY <2>1, <2>2, <2>3
<1>2. ASSUME IInv, NEW t \in Numbered, NEW id \in 1..last[t]
      PROVE  Cardinality(CopiesOf(t, id) \cup DroppedCopies(t, id))
               <= 1 + deleted[t] + Cardinality(DroppedCopies(t, id))
  <2>. DEFINE A == CopiesOf(t, id)
              B == DroppedCopies(t, id)
  <2>1. IsFiniteSet(dropped[t])
    <3>1. \A r, q \in dropped[t] : r.id = q.id => r = q
      BY <1>2 DEF IInv, TableInv, DroppedApart
    <3>2. \A r \in dropped[t] : r.id \in 1..seq[t]
      BY <1>2 DEF IInv, TableInv, DroppedApart
    <3>3. seq[t] \in Nat
      BY <1>2, TableTypes DEF IInv
    <3>. QED  BY <3>1, <3>2, <3>3, RowsFinite
  <2>2. IsFiniteSet(B)
    BY <2>1, FS_Subset DEF DroppedCopies
  <2>3. IsFiniteSet(A) /\ deleted[t] \in Nat /\ Cardinality(A) <= 1 + deleted[t]
    BY <1>1, <1>2
  <2>. HIDE DEF A, B
  <2>4. /\ Cardinality(A) \in Nat /\ Cardinality(B) \in Nat /\ Cardinality(A \cap B) \in Nat
        /\ Cardinality(A \cup B) = Cardinality(A) + Cardinality(B) - Cardinality(A \cap B)
    BY <2>2, <2>3, FS_Union, FS_Intersection, FS_CardinalityType
  <2>5. Cardinality(A \cup B) <= 1 + deleted[t] + Cardinality(B)
    BY <2>3, <2>4
  <2>. QED  BY <2>5 DEF A, B
<1>3. IInv => RepeatsBounded
  BY <1>2 DEF RepeatsBounded
<1>. QED  BY <1>3, IInvAlways, PTL
=============================================================================
