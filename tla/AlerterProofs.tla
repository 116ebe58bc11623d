--------------------------- MODULE AlerterProofs ---------------------------
(***************************************************************************)
(* Proofs about the alerter, for every set of hosts, readings and rules    *)
(* and every value of the bounds.                                          *)
(***************************************************************************)
EXTENDS Alerter, DurableConsumerProofs, FiniteSetTheorems, WellFoundedInduction

RuleDb == [rows : SUBSET RuleRow, seq : Nat]

-----------------------------------------------------------------------------
(* The rules table.                                                         *)

\* The default rule of every metric is a rule the page could have saved.
LEMMA DefaultType == \A m \in Metrics : DefaultSetting(m) \in Setting
BY DEF Metrics, DefaultSetting, Setting

\* The added row gets the next id of the sequence.
LEMMA AddedType ==
  ASSUME NEW T \in RuleDb, NEW s \in Setting
  PROVE  Added(T, s) \in RuleDb
<1>1. RowWith(T.seq + 1, s) \in RuleRow
  BY DEF RowWith, RuleRow, RuleDb, Setting
<1>. QED  BY <1>1 DEF Added, RuleDb

\* The rewritten row keeps its id.
LEMMA UpdatedType ==
  ASSUME NEW T \in RuleDb, NEW s \in Setting, NEW r \in T.rows
  PROVE  Updated(T, r.id, s) \in RuleDb
<1>1. RowWith(r.id, s) \in RuleRow
  BY DEF RowWith, RuleRow, RuleDb, Setting
<1>2. {IF q.id = r.id THEN RowWith(r.id, s) ELSE q : q \in T.rows} \subseteq RuleRow
  BY <1>1 DEF RuleDb
<1>. QED  BY <1>2 DEF Updated, RuleDb

\* Deleting only removes rows.
LEMMA DeletedType ==
  ASSUME NEW T \in RuleDb, NEW id
  PROVE  Deleted(T, id) \in RuleDb
BY DEF Deleted, RuleDb

\* InitRules adds three well-formed rows or none.
LEMMA InitialisedType ==
  ASSUME NEW T \in RuleDb
  PROVE  Initialised(T) \in RuleDb
<1>1. {"cpu", "ram", "disk"} \subseteq Metrics
  BY DEF Metrics
<1>2. Added(T, DefaultSetting("cpu")) \in RuleDb
  BY <1>1, DefaultType, AddedType
<1>3. Added(Added(T, DefaultSetting("cpu")), DefaultSetting("ram")) \in RuleDb
  BY <1>1, <1>2, DefaultType, AddedType
<1>4. Added(Added(Added(T, DefaultSetting("cpu")), DefaultSetting("ram")),
            DefaultSetting("disk")) \in RuleDb
  BY <1>1, <1>3, DefaultType, AddedType
<1>. QED  BY <1>4 DEF Initialised

\* InitRules broken off leaves well-formed rows too.
LEMMA InitOutcomesType ==
  ASSUME NEW T \in RuleDb
  PROVE  InitOutcomes(T) \subseteq RuleDb
<1>1. Added(T, DefaultSetting("cpu")) \in RuleDb
  BY DefaultType, AddedType DEF Metrics
<1>2. Added(Added(T, DefaultSetting("cpu")), DefaultSetting("ram")) \in RuleDb
  BY <1>1, DefaultType, AddedType DEF Metrics
<1>. QED  BY <1>1, <1>2, InitialisedType DEF InitOutcomes

-----------------------------------------------------------------------------
(* Type correctness.                                                        *)

\* What is accounted for: the six kinds of disturbance.
LEMMA LimitsDomain ==
  DOMAIN Limits = {"crashes", "stops", "repeats", "edits", "faults", "unsent"}
BY DEF Limits

\* Spending from a bound keeps the account well formed.
LEMMA SpendType ==
  ASSUME TypeOK, NEW what \in DOMAIN Limits, Spend(what)
  PROVE  spent' \in [DOMAIN Limits -> Nat]
<1>. DEFINE D == DOMAIN Limits
<1>1. spent \in [D -> Nat] /\ spent' = [spent EXCEPT ![what] = spent[what] + 1] /\ what \in D
  BY DEF TypeOK, Spend
<1>. HIDE DEF D
<1>2. spent' \in [D -> Nat]
  BY <1>1
<1>. QED  BY <1>2 DEF D

\* A notice that gets through is counted, one that does not is accounted for.
LEMMA SendTelegramType ==
  ASSUME TypeOK, Key \in Keys, NEW log \in [Keys -> Nat], NEW log1, SendTelegram(log, log1)
  PROVE  log1 \in [Keys -> Nat] /\ spent' \in [DOMAIN Limits -> Nat]
<1>1. CASE log1 = [log EXCEPT ![Key] = log[Key] + 1] /\ UNCHANGED spent
  <2>1. log1 \in [Keys -> Nat]
    BY <1>1
  <2>2. spent \in [DOMAIN Limits -> Nat]
    BY DEF TypeOK
  <2>. QED  BY <1>1, <2>1, <2>2
<1>2. CASE log1 = log /\ Spend("unsent")
  BY <1>2, SpendType, LimitsDomain
<1>. QED  BY <1>1, <1>2 DEF SendTelegram

\* The process starts from a rules table that is well formed.
LEMMA InitType == Init => TypeOK
<1>. SUFFICES ASSUME Init PROVE TypeOK
  OBVIOUS
<1>. USE AlerterAssumption
<1>1. ruleDb \in [rows : SUBSET RuleRow, seq : Nat]
  BY DEF Init
<1>2. incidents \in [open : SUBSET Row, resolved : SUBSET Row]
  BY DEF Init, EmptyTable
<1>3. consumer \in Consumer(Message)
  BY NewConsumerType DEF Init
<1>4. published \in [Hosts -> 0..MaxReadings]
  BY DEF Init
<1>5. /\ highCount \in [Hosts -> Nat] /\ alerted \in [Hosts -> SUBSET Metrics]
      /\ counted \in [Hosts -> SUBSET Nat] /\ passed \in [Hosts -> SUBSET Nat]
      /\ alerts \in [Keys -> Nat] /\ oks \in [Keys -> Nat]
      /\ spent \in [DOMAIN Limits -> Nat]
  BY DEF Init
<1>6. /\ nextId \in Nat /\ up \in BOOLEAN /\ rules \subseteq RuleRow
      /\ pc \in {"idle", "check", "open", "close", "ack"}
      /\ msg \in Message \cup {NoMessage} /\ (pc = "idle" <=> msg = NoMessage)
      /\ view \subseteq RuleRow
      /\ metric \in Metrics
  BY DEF Init, Metrics
<1>. QED  BY <1>1, <1>2, <1>3, <1>4, <1>5, <1>6 DEF TypeOK

\* The rule found for a metric only serves as a guard and a number to compare
\* with, so nothing need be known of it here.
LEMMA StepType == TypeOK /\ [Next]_vars => TypeOK'
<1>. SUFFICES ASSUME TypeOK, [Next]_vars PROVE TypeOK'
  OBVIOUS
<1>. USE AlerterAssumption, LimitsDomain
<1>1. ASSUME NEW h \in Hosts, NEW r \in Readings \cup {Garbled}, Publish(h, r)
      PROVE  TypeOK'
  <2>. DEFINE m == [host |-> h, n |-> published[h] + 1, reading |-> r]
  <2>1. published[h] + 1 \in 1..MaxReadings
    BY <1>1 DEF Publish, TypeOK
  <2>2. m \in Message
    BY <2>1 DEF Message
  <2>3. consumer' = Stored(consumer, m, up)
    BY <1>1 DEF Publish
  <2>4. consumer' \in Consumer(Message)
    <3>. HIDE DEF m
    <3>. QED  BY <2>2, <2>3, StoredType DEF TypeOK
  <2>5. published' \in [Hosts -> 0..MaxReadings]
    BY <1>1, <2>1 DEF Publish, TypeOK
  <2>. QED
    BY <1>1, <2>4, <2>5 DEF Publish, TypeOK, db, memory, handler, history
<1>2. CASE EditRules
  <2>1. spent' \in [DOMAIN Limits -> Nat]
    BY <1>2, SpendType DEF EditRules
  <2>2. ruleDb' \in RuleDb
    BY <1>2, AddedType, UpdatedType, DeletedType DEF EditRules, TypeOK, RuleDb
  <2>. QED
    BY <1>2, <2>1, <2>2 DEF EditRules, TypeOK, RuleDb, db, memory, handler, history
<1>3. ASSUME NEW m \in consumer.unacked, Redeliver(m) \/ RepeatDelivery(m)
      PROVE  TypeOK'
  <2>1. m \in Message
    BY DEF TypeOK, Consumer
  <2>2. consumer' \in Consumer(Message)
    BY <1>3, <2>1, RedeliveredType DEF Redeliver, RepeatDelivery, TypeOK
  <2>3. spent' \in [DOMAIN Limits -> Nat]
    BY <1>3, SpendType DEF Redeliver, RepeatDelivery, TypeOK
  <2>. QED
    BY <1>3, <2>2, <2>3
    DEF Redeliver, RepeatDelivery, TypeOK, db, memory, handler, history
<1>4. CASE Start
  <2>1. ruleDb' \in RuleDb
    BY <1>4, InitialisedType DEF Start, TypeOK, RuleDb
  <2>2. PICK failed \in SUBSET (Faults \cap {"restore", "reload", "conflict"}) :
          /\ IF failed = {} THEN UNCHANGED spent ELSE Spend("faults")
          /\ alerted' = Restored(failed)
          /\ rules' = Reloaded({}, ruleDb', failed)
          /\ consumer' = IF "conflict" \in failed THEN NewConsumer ELSE Subscribed(consumer)
    BY <1>4 DEF Start
  <2>3. spent' \in [DOMAIN Limits -> Nat]
    BY <2>2, SpendType DEF TypeOK
  <2>4. alerted' \in [Hosts -> SUBSET Metrics]
    BY <2>2 DEF Restored
  <2>5. rules' \subseteq RuleRow
    BY <2>1, <2>2 DEF Reloaded, RuleDb
  <2>6. consumer' \in Consumer(Message)
    BY <2>2, NewConsumerType, SubscribedType DEF TypeOK
  <2>. QED
    BY <1>4, <2>1, <2>3, <2>4, <2>5, <2>6 DEF Start, TypeOK, RuleDb, db, handler, history
<1>5. CASE AbortStart
  <2>1. ruleDb' \in RuleDb
    BY <1>5, InitialisedType, InitOutcomesType DEF AbortStart, TypeOK, RuleDb
  <2>2. spent' \in [DOMAIN Limits -> Nat]
    BY <1>5, SpendType DEF AbortStart, MayFail
  <2>3. consumer' \in Consumer(Message)
    BY <1>5, NewConsumerType DEF AbortStart, TypeOK
  <2>. QED
    BY <1>5, <2>1, <2>2, <2>3 DEF AbortStart, TypeOK, RuleDb, db, memory, handler, history
<1>6. ASSUME Forget, spent' \in [DOMAIN Limits -> Nat], consumer' \in Consumer(Message)
      PROVE  TypeOK'
  <2>1. /\ highCount' \in [Hosts -> Nat] /\ alerted' \in [Hosts -> SUBSET Metrics]
        /\ counted' \in [Hosts -> SUBSET Nat] /\ passed' \in [Hosts -> SUBSET Nat]
    BY <1>6 DEF Forget
  <2>. QED
    BY <1>6, <2>1 DEF Forget, TypeOK, db, Metrics
<1>7. CASE Crash
  BY <1>6, <1>7, SpendType, DroppedType DEF Crash, TypeOK
<1>8. CASE Stop
  BY <1>6, <1>8, SpendType, DroppedType DEF Stop, TypeOK
<1>9. CASE ReloadRules
  <2>1. spent' \in [DOMAIN Limits -> Nat]
    BY <1>9, SpendType DEF ReloadRules, MayFail, TypeOK
  <2>2. rules' \subseteq RuleRow
    BY <1>9 DEF ReloadRules, Reloaded, TypeOK
  <2>. QED
    BY <1>9, <2>1, <2>2 DEF ReloadRules, TypeOK, db, handler, history
<1>10. CASE Dispatch
  <2>1. consumer' \in Consumer(Message) /\ msg' \in Message
    BY <1>10, TakenType DEF Dispatch, TypeOK
  <2>2. msg' # NoMessage
    BY <2>1 DEF Message, NoMessage
  <2>. QED
    BY <1>10, <2>1, <2>2 DEF Dispatch, TypeOK, db, memory, history
<1>11. ASSUME pc # "idle"
       PROVE  msg \in Message /\ msg.host \in Hosts /\ msg.n \in Nat /\ Key \in Keys
  <2>1. msg \in Message
    BY <1>11 DEF TypeOK
  <2>2. msg.host \in Hosts /\ msg.n \in Nat
    BY <2>1 DEF Message
  <2>. QED
    BY <2>1, <2>2 DEF Key, Keys, TypeOK
<1>12. ASSUME pc # "idle", Advance
       PROVE  pc' \in {"check", "ack"} /\ metric' \in Metrics
  BY <1>12 DEF Advance, Metrics
<1>13. ASSUME pc # "idle", CountHigh \/ ResetHigh
       PROVE  highCount' \in [Hosts -> Nat] /\ counted' \in [Hosts -> SUBSET Nat]
  BY <1>11, <1>13 DEF CountHigh, ResetHigh, TypeOK
<1>14. ASSUME pc # "idle", ResetHigh
       PROVE  passed' \in [Hosts -> SUBSET Nat]
  BY <1>11, <1>14 DEF ResetHigh, TypeOK
<1>15. CASE SkipDisabled
  <2>1. pc = "check"
    BY <1>15 DEF SkipDisabled, Evaluating
  <2>2. passed' \in [Hosts -> SUBSET Nat]
    BY <1>11, <1>15, <2>1 DEF SkipDisabled, TypeOK
  <2>. QED
    BY <1>12, <1>15, <2>1, <2>2 DEF SkipDisabled, Evaluating, TypeOK, db
<1>16. CASE StayHigh
  <2>1. pc = "check"
    BY <1>16 DEF StayHigh, Evaluating
  <2>. QED
    BY <1>12, <1>13, <1>16, <2>1 DEF StayHigh, Evaluating, TypeOK, db
<1>17. CASE Raise
  <2>1. pc = "check"
    BY <1>17 DEF Raise, Evaluating
  <2>2. alerts' \in [Keys -> Nat] /\ spent' \in [DOMAIN Limits -> Nat]
    BY <1>11, <1>17, <2>1, SendTelegramType DEF Raise, TypeOK
  <2>3. alerted' \in [Hosts -> SUBSET Metrics]
    BY <1>11, <1>17, <2>1 DEF Raise, TypeOK
  <2>. QED
    BY <1>13, <1>17, <2>1, <2>2, <2>3 DEF Raise, Evaluating, TypeOK, db
<1>18. CASE OpenIncident
  <2>1. pc = "open"
    BY <1>18 DEF OpenIncident
  <2>2. spent' \in [DOMAIN Limits -> Nat]
    BY <1>18, SpendType DEF OpenIncident, MayFail, TypeOK
  <2>3. [id |-> nextId, host |-> msg.host, metric |-> metric, startedAt |-> msg.n] \in Row
    BY <1>11, <2>1 DEF Row, TypeOK
  <2>4. incidents' \in [open : SUBSET Row, resolved : SUBSET Row] /\ nextId' \in Nat
    BY <1>18, <2>3 DEF OpenIncident, Inserted, TypeOK, db
  <2>. QED
    BY <1>12, <1>18, <2>1, <2>2, <2>4 DEF OpenIncident, TypeOK, memory, history
<1>19. CASE StayNormal
  <2>1. pc = "check"
    BY <1>19 DEF StayNormal, Evaluating
  <2>. QED
    BY <1>12, <1>13, <1>14, <1>19, <2>1 DEF StayNormal, Evaluating, TypeOK, db
<1>20. CASE Recover
  <2>1. pc = "check"
    BY <1>20 DEF Recover, Evaluating
  <2>2. oks' \in [Keys -> Nat] /\ spent' \in [DOMAIN Limits -> Nat]
    BY <1>11, <1>20, <2>1, SendTelegramType DEF Recover, TypeOK
  <2>. QED
    BY <1>20, <2>1, <2>2 DEF Recover, Evaluating, TypeOK, db
<1>21. CASE CloseIncident
  <2>1. pc = "close"
    BY <1>21 DEF CloseIncident
  <2>2. spent' \in [DOMAIN Limits -> Nat]
    BY <1>21, SpendType DEF CloseIncident, MayFail, TypeOK
  <2>3. \A hit \in Hits(incidents, msg.host, metric) : hit \subseteq incidents.open
    BY DEF Hits, Latest, OpenRows
  <2>4. incidents' \in [open : SUBSET Row, resolved : SUBSET Row]
    BY <1>21, <2>3 DEF CloseIncident, Closed, TypeOK
  <2>5. alerted' \in [Hosts -> SUBSET Metrics]
    BY <1>11, <1>21, <2>1 DEF CloseIncident, TypeOK
  <2>. QED
    BY <1>12, <1>13, <1>14, <1>21, <2>1, <2>2, <2>4, <2>5 DEF CloseIncident, TypeOK
<1>22. CASE Finish
  <2>1. consumer' \in Consumer(Message)
    BY <1>22, DroppedType DEF Finish, TypeOK
  <2>. QED
    BY <1>22, <2>1 DEF Finish, TypeOK, Metrics, db, memory, history
<1>23. CASE UNCHANGED vars
  BY <1>23 DEF TypeOK, vars, db, memory, handler, history
<1>. QED
  BY <1>1, <1>2, <1>3, <1>4, <1>5, <1>7, <1>8, <1>9, <1>10, <1>15, <1>16, <1>17,
     <1>18, <1>19, <1>20, <1>21, <1>22, <1>23 DEF Next, Callback

\* In every behaviour of the alerter every variable keeps its type, and the
\* callback holds a message exactly while it works on one.
THEOREM TypeCorrect == Spec => []TypeOK
BY InitType, StepType, PTL DEF Spec

-----------------------------------------------------------------------------
(* One open incident per host and metric.  The table has no constraint that *)
(* says so: it follows from the flags in memory, as long as a start restores *)
(* them and no closing UPDATE fails.                                         *)

NoOrphans == {"close", "restore"} \cap Faults = {}

\* A process that is down handles nothing.
DownIsIdle == ~up => pc = "idle"

\* Whatever is open in the table is flagged in memory.
FlaggedIfOpen == up => \A k \in Keys : Open(k) # {} => k[2] \in alerted[k[1]]

\* The flag is set and nothing is open when an incident is about to be
\* inserted.
ReadyToOpen == pc = "open" => IsAlerted /\ Open(Key) = {}

IInv == TypeOK /\ OneOpenIncident /\ DownIsIdle /\ FlaggedIfOpen /\ ReadyToOpen

\* Every flag in memory stands for an open row, except the one whose insert
\* is still to come.
OpenIfFlagged ==
  up => \A k \in Keys : k[2] \in alerted[k[1]] => Open(k) # {} \/ (pc = "open" /\ k = Key)

\* Past "idle" the callback is at a key of the table.
LEMMA KeyType ==
  ASSUME TypeOK, pc # "idle"
  PROVE  /\ msg.host \in Hosts /\ metric \in Metrics /\ Key \in Keys
         /\ \A k \in Keys : k = Key <=> k[1] = msg.host /\ k[2] = metric
<1>1. msg.host \in Hosts /\ metric \in Metrics
  BY DEF TypeOK, Message
<1>2. \A k \in Keys : k = <<k[1], k[2]>>
  BY DEF Keys
<1>. QED  BY <1>1, <1>2 DEF Key, Keys

\* With at most one open row both backends resolve the same: that row.
LEMMA CloseHits ==
  ASSUME TypeOK, OneOpenIncident, pc # "idle",
         NEW hit \in Hits(incidents, msg.host, metric)
  PROVE  hit = Open(Key)
<1>1. \A r, q \in Open(Key) : r = q
  BY KeyType DEF OneOpenIncident
<1>2. \A r \in Open(Key) : r.startedAt \in Nat
  BY DEF Open, OpenRows, TypeOK, Row
<1>3. Open(Key) = OpenRows(incidents, msg.host, metric)
  BY DEF Open, Key
<1>4. ASSUME NEW r \in Latest(Open(Key)) PROVE {r} = Open(Key)
  BY <1>1 DEF Latest
<1>. QED  BY <1>3, <1>4 DEF Hits

\* The closing UPDATE leaves its own key without an open row and every other
\* key as it was.
LEMMA OpenAfterClose ==
  ASSUME TypeOK, pc # "idle", incidents' = Closed(incidents, Open(Key)),
         NEW k \in Keys
  PROVE  Open(k)' = IF k = Key THEN {} ELSE Open(k)
<1>1. incidents'.open = incidents.open \ Open(Key)
  BY DEF Closed
<1>2. Key[1] = msg.host /\ Key[2] = metric
  BY DEF Key
<1>. QED  BY <1>1, <1>2, KeyType DEF Open, OpenRows

\* The INSERT gives its own key one more open row.
LEMMA OpenAfterInsert ==
  ASSUME TypeOK, pc # "idle", NEW row, row.host = msg.host, row.metric = metric,
         incidents' = Inserted(incidents, row),
         NEW k \in Keys
  PROVE  Open(k)' = IF k = Key THEN Open(k) \cup {row} ELSE Open(k)
<1>1. incidents'.open = incidents.open \cup {row}
  BY DEF Inserted, TypeOK
<1>. QED  BY <1>1, KeyType DEF Open, OpenRows

\* A new process knows nothing and finds an empty table.
LEMMA InitIInv == Init => IInv
<1>. SUFFICES ASSUME Init PROVE IInv
  OBVIOUS
<1>1. ~up /\ pc = "idle" /\ \A k \in Keys : Open(k) = {}
  BY DEF Init, Open, OpenRows, EmptyTable
<1>. QED
  BY <1>1, InitType DEF IInv, OneOpenIncident, DownIsIdle, FlaggedIfOpen, ReadyToOpen

\* One step per action that touches a flag, a row or the place of the
\* callback; the others come first.
LEMMA StepIInv ==
  ASSUME NoOrphans
  PROVE  IInv /\ [Next]_vars => IInv'
<1>. SUFFICES ASSUME IInv, [Next]_vars PROVE IInv'
  OBVIOUS
<1>t. TypeOK /\ TypeOK'
  BY StepType DEF IInv
<1>u. TypeOK /\ OneOpenIncident /\ DownIsIdle /\ FlaggedIfOpen /\ ReadyToOpen
  BY DEF IInv
<1>a. ASSUME UNCHANGED <<incidents, alerted, up>>,
             UNCHANGED <<pc, msg, metric>> \/ (up /\ pc' # "open")
      PROVE  IInv'
  <2>1. \A k \in Keys : Open(k)' = Open(k)
    BY <1>a DEF Open
  <2>2. OneOpenIncident' /\ FlaggedIfOpen'
    BY <1>a, <1>u, <2>1 DEF OneOpenIncident, FlaggedIfOpen
  <2>3. CASE UNCHANGED <<pc, msg, metric>>
    BY <1>a, <1>t, <1>u, <2>2, <2>3
    DEF IInv, DownIsIdle, ReadyToOpen, Open, Key, IsAlerted
  <2>4. CASE up /\ pc' # "open"
    BY <1>a, <1>t, <2>2, <2>4 DEF IInv, DownIsIdle, ReadyToOpen
  <2>. QED  BY <1>a, <2>3, <2>4
<1>b. pc # "idle" => up
  BY <1>u DEF DownIsIdle
<1>1. CASE \/ \E h \in Hosts, r \in Readings \cup {Garbled} : Publish(h, r)
           \/ EditRules \/ AbortStart \/ ReloadRules
           \/ \E m \in consumer.unacked : Redeliver(m) \/ RepeatDelivery(m)
           \/ UNCHANGED vars
  BY <1>a, <1>1
  DEF Publish, EditRules, AbortStart, ReloadRules, Redeliver, RepeatDelivery,
      db, memory, handler, vars
<1>2. CASE Start
  <2>1. ~up /\ pc = "idle" /\ up' /\ pc' = "idle" /\ incidents' = incidents
    BY <1>2, <1>u DEF Start, DownIsIdle, db, handler
  <2>2. \A k \in Keys : Open(k)' = Open(k)
    BY <2>1 DEF Open
  <2>3. PICK failed \in SUBSET (Faults \cap {"restore", "reload", "conflict"}) :
          alerted' = Restored(failed)
    BY <1>2 DEF Start
  <2>4. "restore" \notin failed
    BY <2>3 DEF NoOrphans
  <2>5. ASSUME NEW k \in Keys, Open(k) # {} PROVE k[2] \in alerted'[k[1]]
    <3>1. k[1] \in Hosts /\ k[2] \in Metrics /\ k = <<k[1], k[2]>>
      BY DEF Keys
    <3>. QED  BY <2>3, <2>4, <2>5, <3>1 DEF Restored
  <2>. QED
    BY <1>t, <1>u, <2>1, <2>2, <2>5
    DEF IInv, OneOpenIncident, DownIsIdle, FlaggedIfOpen, ReadyToOpen
<1>3. CASE Crash \/ Stop
  <2>1. ~up' /\ pc' = "idle" /\ incidents' = incidents
    BY <1>3 DEF Crash, Stop, Forget, db
  <2>2. \A k \in Keys : Open(k)' = Open(k)
    BY <2>1 DEF Open
  <2>. QED
    BY <1>t, <1>u, <2>1, <2>2
    DEF IInv, OneOpenIncident, DownIsIdle, FlaggedIfOpen, ReadyToOpen
<1>4. CASE Dispatch
  BY <1>4, <1>a DEF Dispatch, db, memory
<1>5. CASE SkipDisabled \/ StayHigh \/ StayNormal
  <2>1. pc = "check" /\ UNCHANGED <<incidents, alerted, up>> /\ pc' # "open"
    BY <1>5 DEF SkipDisabled, StayHigh, StayNormal, Evaluating, Advance, db
  <2>. QED  BY <1>a, <1>b, <2>1
<1>6. CASE Recover \/ Finish
  <2>1. pc # "idle" /\ UNCHANGED <<incidents, alerted, up>> /\ pc' # "open"
    BY <1>6 DEF Recover, Finish, Evaluating, db, memory
  <2>. QED  BY <1>a, <1>b, <2>1
<1>7. CASE Raise
  <2>1. /\ pc = "check" /\ pc' = "open" /\ ~IsAlerted
        /\ UNCHANGED <<incidents, up, msg, metric>>
        /\ alerted' = [alerted EXCEPT ![msg.host] = @ \cup {metric}]
    BY <1>7 DEF Raise, Evaluating, db
  <2>2. up /\ up'
    BY <1>b, <2>1
  <2>3. \A k \in Keys : Open(k)' = Open(k)
    BY <2>1 DEF Open
  <2>4. Key \in Keys /\ Key' = Key /\ Open(Key)' = Open(Key)
    BY <2>1, KeyType, <1>u DEF Key, Open
  <2>5. msg.host \in Hosts /\ Key[1] = msg.host /\ Key[2] = metric
    BY <2>1, KeyType, <1>u DEF Key
  <2>6. Open(Key) = {}
    BY <1>u, <2>1, <2>2, <2>4, <2>5 DEF FlaggedIfOpen, IsAlerted
  <2>7. IsAlerted'
    BY <1>u, <2>1, <2>5 DEF IsAlerted, TypeOK
  <2>8. FlaggedIfOpen'
    BY <1>u, <2>1, <2>2, <2>3, <2>5 DEF FlaggedIfOpen, TypeOK, Keys
  <2>. QED
    BY <1>t, <1>u, <2>1, <2>2, <2>3, <2>4, <2>6, <2>7, <2>8
    DEF IInv, OneOpenIncident, DownIsIdle, ReadyToOpen
<1>8. CASE OpenIncident
  <2>1. pc = "open" /\ pc' # "open" /\ UNCHANGED <<alerted, up>>
    BY <1>8 DEF OpenIncident, Advance, memory
  <2>2. CASE UNCHANGED incidents
    BY <1>a, <1>b, <2>1, <2>2
  <2>3. ASSUME NEW row, row.host = msg.host, row.metric = metric,
               incidents' = Inserted(incidents, row)
        PROVE  IInv'
    <3>1. ASSUME NEW k \in Keys
          PROVE  Open(k)' = IF k = Key THEN {row} ELSE Open(k)
      BY <1>u, <2>1, <2>3, OpenAfterInsert DEF ReadyToOpen
    <3>2. OneOpenIncident'
      BY <1>u, <3>1 DEF OneOpenIncident
    <3>3. Key[1] = msg.host /\ Key[2] = metric
      BY DEF Key
    <3>4. FlaggedIfOpen'
      BY <1>u, <2>1, <3>1, <3>3 DEF FlaggedIfOpen, ReadyToOpen, IsAlerted
    <3>. QED
      BY <1>t, <1>b, <2>1, <3>2, <3>4 DEF IInv, DownIsIdle, ReadyToOpen
  <2>. QED
    BY <1>8, <2>2, <2>3 DEF OpenIncident, db
<1>9. CASE CloseIncident
  <2>1. /\ pc = "close" /\ pc' # "open" /\ UNCHANGED <<up, rules>>
        /\ alerted' = [alerted EXCEPT ![msg.host] = @ \ {metric}]
    BY <1>9 DEF CloseIncident, Advance
  <2>2. PICK hit \in Hits(incidents, msg.host, metric) : incidents' = Closed(incidents, hit)
    BY <1>9 DEF CloseIncident, MayFail, NoOrphans
  <2>3. incidents' = Closed(incidents, Open(Key))
    BY <1>u, <2>1, <2>2, CloseHits
  <2>4. ASSUME NEW k \in Keys
        PROVE  Open(k)' = IF k = Key THEN {} ELSE Open(k)
    BY <1>u, <2>1, <2>3, OpenAfterClose
  <2>5. OneOpenIncident'
    BY <1>u, <2>4 DEF OneOpenIncident
  <2>6. FlaggedIfOpen'
    <3>1. ASSUME NEW k \in Keys, up, Open(k)' # {}
          PROVE  k[2] \in alerted'[k[1]]
      <4>1. k # Key /\ Open(k) # {}
        BY <2>4, <3>1
      <4>2. k[1] \in Hosts /\ k[2] \in alerted[k[1]] /\ ~(k[1] = msg.host /\ k[2] = metric)
        BY <1>u, <2>1, <3>1, <4>1, KeyType DEF FlaggedIfOpen, Keys
      <4>. QED  BY <1>u, <2>1, <4>2 DEF TypeOK
    <3>. QED  BY <2>1, <3>1 DEF FlaggedIfOpen
  <2>. QED
    BY <1>b, <1>t, <2>1, <2>5, <2>6 DEF IInv, DownIsIdle, ReadyToOpen
<1>. QED
  BY <1>1, <1>2, <1>3, <1>4, <1>5, <1>6, <1>7, <1>8, <1>9 DEF Next, Callback

\* Unless a closing UPDATE or the SELECT at a start fails, a host and a metric
\* never have two open incidents, whatever is crashed, redelivered, edited or
\* started again in between.
THEOREM OneOpenIncidentAlways ==
  ASSUME NoOrphans
  PROVE  Spec => []OneOpenIncident
<1>1. Init => IInv
  BY InitIInv
<1>2. IInv /\ [Next]_vars => IInv'
  BY StepIInv
<1>3. IInv => OneOpenIncident
  BY DEF IInv
<1>. QED  BY <1>1, <1>2, <1>3, PTL DEF Spec

-----------------------------------------------------------------------------
(* The flags and the table say the same, when no insert fails either.       *)

NoFailedWrites == {"open", "close", "restore"} \cap Faults = {}

\* The converse of FlaggedIfOpen: a flag is set one step before its insert,
\* cleared together with the update, and read back from the table at a start.
LEMMA StepOpenIfFlagged ==
  ASSUME NoFailedWrites, IInv, OpenIfFlagged, [Next]_vars
  PROVE  OpenIfFlagged'
<1>u. TypeOK /\ OneOpenIncident /\ DownIsIdle
  BY DEF IInv
<1>a. ASSUME UNCHANGED <<incidents, alerted, up>>,
             UNCHANGED <<pc, msg, metric>> \/ pc # "open"
      PROVE  OpenIfFlagged'
  <2>1. \A k \in Keys : Open(k)' = Open(k)
    BY <1>a DEF Open
  <2>. QED  BY <1>a, <2>1 DEF OpenIfFlagged, Key
<1>1. CASE \/ \E h \in Hosts, r \in Readings \cup {Garbled} : Publish(h, r)
           \/ EditRules \/ AbortStart \/ ReloadRules
           \/ \E m \in consumer.unacked : Redeliver(m) \/ RepeatDelivery(m)
           \/ UNCHANGED vars
  BY <1>a, <1>1
  DEF Publish, EditRules, AbortStart, ReloadRules, Redeliver, RepeatDelivery,
      db, memory, handler, vars
<1>2. CASE Start
  <2>1. incidents' = incidents
    BY <1>2 DEF Start, db
  <2>2. PICK failed \in SUBSET (Faults \cap {"restore", "reload", "conflict"}) :
          alerted' = Restored(failed)
    BY <1>2 DEF Start
  <2>3. ASSUME NEW k \in Keys, k[2] \in alerted'[k[1]] PROVE Open(k)' # {}
    <3>1. k[1] \in Hosts /\ k = <<k[1], k[2]>>
      BY DEF Keys
    <3>. QED  BY <2>1, <2>2, <2>3, <3>1 DEF Restored, Open
  <2>. QED  BY <2>3 DEF OpenIfFlagged
<1>3. CASE Crash \/ Stop
  BY <1>3 DEF Crash, Stop, Forget, OpenIfFlagged
<1>4. CASE Dispatch \/ SkipDisabled \/ StayHigh \/ StayNormal \/ Recover \/ Finish
  <2>1. UNCHANGED <<incidents, alerted, up>> /\ pc # "open"
    BY <1>4
    DEF Dispatch, SkipDisabled, StayHigh, StayNormal, Recover, Finish, Evaluating,
        db, memory
  <2>. QED  BY <1>a, <2>1
<1>5. CASE Raise
  <2>1. /\ pc = "check" /\ pc' = "open" /\ UNCHANGED <<incidents, up, msg, metric>>
        /\ alerted' = [alerted EXCEPT ![msg.host] = @ \cup {metric}]
    BY <1>5 DEF Raise, Evaluating, db
  <2>2. \A k \in Keys : Open(k)' = Open(k) /\ (k = Key)' = (k = Key)
    BY <2>1 DEF Open, Key
  <2>3. ASSUME NEW k \in Keys, up, k[2] \in alerted'[k[1]], k # Key
        PROVE  Open(k) # {}
    <3>1. k[1] \in Hosts /\ ~(k[1] = msg.host /\ k[2] = metric)
      BY <1>u, <2>1, <2>3, KeyType DEF Keys
    <3>2. k[2] \in alerted[k[1]]
      BY <1>u, <2>1, <2>3, <3>1 DEF TypeOK
    <3>. QED  BY <2>1, <2>3, <3>2 DEF OpenIfFlagged
  <2>. QED  BY <2>1, <2>2, <2>3 DEF OpenIfFlagged
<1>6. CASE OpenIncident
  <2>1. pc = "open" /\ UNCHANGED <<alerted, up>>
    BY <1>6 DEF OpenIncident, memory
  <2>2. PICK row : row.host = msg.host /\ row.metric = metric /\ incidents' = Inserted(incidents, row)
    BY <1>6 DEF OpenIncident, MayFail, NoFailedWrites
  <2>3. \A k \in Keys : Open(k)' = IF k = Key THEN Open(k) \cup {row} ELSE Open(k)
    BY <1>u, <2>1, <2>2, OpenAfterInsert
  <2>. QED  BY <2>1, <2>3 DEF OpenIfFlagged
<1>7. CASE CloseIncident
  <2>1. /\ pc = "close" /\ UNCHANGED up
        /\ alerted' = [alerted EXCEPT ![msg.host] = @ \ {metric}]
    BY <1>7 DEF CloseIncident
  <2>2. PICK hit \in Hits(incidents, msg.host, metric) : incidents' = Closed(incidents, hit)
    BY <1>7 DEF CloseIncident, MayFail, NoFailedWrites
  <2>3. incidents' = Closed(incidents, Open(Key))
    BY <1>u, <2>1, <2>2, CloseHits
  <2>4. \A k \in Keys : Open(k)' = IF k = Key THEN {} ELSE Open(k)
    BY <1>u, <2>1, <2>3, OpenAfterClose
  <2>5. ASSUME NEW k \in Keys, up, k[2] \in alerted'[k[1]]
        PROVE  Open(k)' # {}
    <3>1. k[1] \in Hosts /\ k[2] \in alerted[k[1]] /\ ~(k[1] = msg.host /\ k[2] = metric)
      BY <1>u, <2>1, <2>5 DEF Keys, TypeOK
    <3>2. k # Key
      BY <3>1 DEF Key
    <3>. QED  BY <2>1, <2>4, <2>5, <3>1, <3>2 DEF OpenIfFlagged
  <2>. QED  BY <2>1, <2>5 DEF OpenIfFlagged
<1>. QED
  BY <1>1, <1>2, <1>3, <1>4, <1>5, <1>6, <1>7 DEF Next, Callback

\* Unless a write or the SELECT at a start fails, the flags in memory and the
\* open rows of the table say the same while the process runs, except between
\* the Telegram message and the insert of the key being handled.
THEOREM AlertedIffOpenAlways ==
  ASSUME NoFailedWrites
  PROVE  Spec => []AlertedIffOpen
<1>1. NoOrphans
  BY DEF NoFailedWrites, NoOrphans
<1>2. Init => IInv /\ OpenIfFlagged
  BY InitIInv DEF Init, OpenIfFlagged
<1>3. (IInv /\ OpenIfFlagged) /\ [Next]_vars => (IInv /\ OpenIfFlagged)'
  BY <1>1, StepIInv, StepOpenIfFlagged
<1>4. IInv /\ OpenIfFlagged => AlertedIffOpen
  BY DEF IInv, FlaggedIfOpen, OpenIfFlagged, AlertedIffOpen
<1>. QED  BY <1>2, <1>3, <1>4, PTL DEF Spec

-----------------------------------------------------------------------------
(* The table implements the abstract log.                                   *)

\* Ids are given out from 1, so that no incident has the id that stands for
\* none.
IdsGiven == nextId # 0 /\ \A r \in incidents.open \cup incidents.resolved : r.id # 0

\* Only the insert gives out an id.
LEMMA IdsGivenStep == TypeOK /\ IdsGiven /\ [Next]_vars => IdsGiven'
<1>. SUFFICES ASSUME TypeOK, IdsGiven, [Next]_vars PROVE IdsGiven'
  OBVIOUS
<1>1. CASE UNCHANGED db
  BY <1>1 DEF IdsGiven, db
<1>2. CASE OpenIncident
  BY <1>1, <1>2 DEF OpenIncident, Inserted, IdsGiven, TypeOK
<1>3. CASE CloseIncident
  <2>1. nextId' = nextId
    BY <1>3 DEF CloseIncident
  <2>2. \A hit \in Hits(incidents, msg.host, metric) : hit \subseteq incidents.open
    BY DEF Hits, Latest, OpenRows
  <2>3. CASE UNCHANGED incidents
    BY <2>1, <2>3 DEF IdsGiven
  <2>4. CASE \E hit \in Hits(incidents, msg.host, metric) : incidents' = Closed(incidents, hit)
    BY <2>1, <2>2, <2>4 DEF IdsGiven, Closed
  <2>. QED  BY <1>3, <2>3, <2>4 DEF CloseIncident
<1>4. UNCHANGED db \/ OpenIncident \/ CloseIncident
  BY DEF Next, Callback, vars, Publish, EditRules, AbortStart, ReloadRules, Redeliver,
         RepeatDelivery, Start, Crash, Stop, Forget, Dispatch, SkipDisabled, StayHigh,
         Raise, StayNormal, Recover, Finish, Evaluating
<1>. QED  BY <1>1, <1>2, <1>3, <1>4

\* The table that is found empty is the log that has nothing in it.
LEMMA LogInit == Init => Log!Init
<1>. SUFFICES ASSUME Init PROVE Log!Init
  OBVIOUS
<1>1. \A k \in Keys : CurrentId(k) = 0
  BY DEF Init, CurrentId, Open, OpenRows, EmptyTable
<1>2. {r.id : r \in incidents.resolved} = {} /\ nextId = 1
  BY DEF Init, EmptyTable
<1>. QED  BY <1>1, <1>2 DEF Log!Init, Log!Quiet

\* The id of the one row, 0 for no row.
IdIn(rows) == IF rows = {} THEN 0 ELSE (CHOOSE r \in rows : TRUE).id

\* The current id after a step, from the open rows after it.
LEMMA CurrentIdFacts ==
  ASSUME NEW k \in Keys
  PROVE  /\ Open(k)' = Open(k) => CurrentId(k)' = CurrentId(k)
         /\ Open(k)' = {} => CurrentId(k)' = 0
         /\ \A r : Open(k)' = {r} => CurrentId(k)' = r.id
<1>1. ASSUME Open(k)' = Open(k) PROVE CurrentId(k)' = CurrentId(k)
  <2>1. CurrentId(k) = IdIn(Open(k)) /\ CurrentId(k)' = IdIn(Open(k)')
    BY DEF CurrentId, IdIn
  <2>. QED  BY <1>1, <2>1
<1>2. ASSUME Open(k)' = {} PROVE CurrentId(k)' = 0
  BY <1>2 DEF CurrentId
<1>3. ASSUME NEW r, Open(k)' = {r} PROVE CurrentId(k)' = r.id
  <2>1. (CHOOSE q \in {r} : TRUE) = r
    OBVIOUS
  <2>2. CurrentId(k)' = (CHOOSE q \in {r} : TRUE).id
    BY <1>3 DEF CurrentId
  <2>. QED  BY <2>1, <2>2
<1>. QED  BY <1>1, <1>2, <1>3

\* The insert raises, an update that hits a row resolves, and everything else
\* leaves the log alone.
LEMMA LogStep ==
  ASSUME NoOrphans, IInv, IdsGiven, [Next]_vars
  PROVE  [Log!Next]_<<[k \in Keys |-> CurrentId(k)], {r.id : r \in incidents.resolved}, nextId>>
<1>. DEFINE cur == [k \in Keys |-> CurrentId(k)]
            past == {r.id : r \in incidents.resolved}
<1>u. TypeOK /\ OneOpenIncident /\ ReadyToOpen
  BY DEF IInv
<1>1. CASE UNCHANGED db
  BY <1>1 DEF db, CurrentId, Open
<1>2. CASE OpenIncident
  <2>1. pc = "open" /\ Open(Key) = {} /\ Key \in Keys
    BY <1>2, <1>u, KeyType DEF OpenIncident, ReadyToOpen
  <2>. DEFINE row == [id |-> nextId, host |-> msg.host, metric |-> metric, startedAt |-> msg.n]
  <2>2. ASSUME incidents' = Inserted(incidents, row), nextId' = nextId + 1
        PROVE  Log!Raise(Key)
    <3>1. row.id = nextId /\ row.host = msg.host /\ row.metric = metric
      OBVIOUS
    <3>2. incidents'.resolved = incidents.resolved
      BY <1>u, <2>2 DEF Inserted, TypeOK
    <3>. HIDE DEF row
    <3>3. \A k \in Keys : Open(k)' = IF k = Key THEN {row} ELSE Open(k)
      BY <1>u, <2>1, <2>2, <3>1, OpenAfterInsert
    <3>4. \A k \in Keys : CurrentId(k)' = IF k = Key THEN nextId ELSE CurrentId(k)
      BY <3>1, <3>3, CurrentIdFacts
    <3>5. CurrentId(Key) = 0
      BY <2>1 DEF CurrentId
    <3>6. cur' = [cur EXCEPT ![Key] = nextId]
      BY <2>1, <3>4
    <3>7. cur[Key] = 0
      BY <2>1, <3>5
    <3>8. past' = past
      BY <3>2
    <3>. QED  BY <2>2, <3>6, <3>7, <3>8 DEF Log!Raise, Log!Quiet
  <2>3. UNCHANGED db \/ Log!Raise(Key)
    BY <1>2, <2>2 DEF OpenIncident
  <2>. QED  BY <1>1, <2>1, <2>3 DEF Log!Next
<1>3. CASE CloseIncident
  <2>1. pc = "close" /\ Key \in Keys /\ nextId' = nextId
    BY <1>3, <1>u, KeyType DEF CloseIncident
  <2>2. PICK hit \in Hits(incidents, msg.host, metric) : incidents' = Closed(incidents, hit)
    BY <1>3 DEF CloseIncident, MayFail, NoOrphans
  <2>3. incidents' = Closed(incidents, Open(Key))
    BY <1>u, <2>1, <2>2, CloseHits
  <2>4. incidents'.resolved = incidents.resolved \cup Open(Key)
    BY <2>3 DEF Closed
  <2>5. \A k \in Keys : Open(k)' = IF k = Key THEN {} ELSE Open(k)
    BY <1>u, <2>1, <2>3, OpenAfterClose
  <2>6. \A k \in Keys : CurrentId(k)' = IF k = Key THEN 0 ELSE CurrentId(k)
    BY <2>5, CurrentIdFacts
  <2>7. CASE Open(Key) = {}
    <3>1. cur' = cur
      BY <2>6, <2>7 DEF CurrentId
    <3>2. past' = past
      BY <2>4, <2>7
    <3>. QED  BY <2>1, <3>1, <3>2
  <2>8. CASE Open(Key) # {}
    <3>1. PICK r : Open(Key) = {r}
      <4>1. PICK r \in Open(Key) : TRUE
        BY <2>8
      <4>2. Open(Key) = {r}
        BY <1>u, <2>1, <4>1 DEF OneOpenIncident
      <4>. QED  BY <4>2
    <3>2. r \in incidents.open /\ CurrentId(Key) = r.id
      BY <3>1 DEF CurrentId, Open, OpenRows
    <3>3. cur[Key] # 0 /\ cur[Key] = r.id
      BY <2>1, <3>2 DEF IdsGiven
    <3>4. cur' = [cur EXCEPT ![Key] = 0]
      BY <2>1, <2>6
    <3>5. past' = past \cup {r.id}
      BY <2>4, <3>1
    <3>6. PICK k \in Keys : k = Key
      BY <2>1
    <3>7. Log!Resolve(k)
      BY <2>1, <3>3, <3>4, <3>5, <3>6 DEF Log!Resolve, Log!Quiet
    <3>8. Log!Next
      BY <3>7 DEF Log!Next
    <3>. QED  BY <3>8
  <2>. QED  BY <2>7, <2>8
<1>4. UNCHANGED db \/ OpenIncident \/ CloseIncident
  BY DEF Next, Callback, vars, Publish, EditRules, AbortStart, ReloadRules, Redeliver,
         RepeatDelivery, Start, Crash, Stop, Forget, Dispatch, SkipDisabled, StayHigh,
         Raise, StayNormal, Recover, Finish, Evaluating
<1>. QED  BY <1>1, <1>2, <1>3, <1>4

\* Unless a closing UPDATE or the SELECT at a start fails, what readers of the
\* incidents table see is the abstract log: a key is quiet or in one incident,
\* ids only grow, an incident is resolved once and never reopened.
THEOREM ImplementsIncidentLogAlways ==
  ASSUME NoOrphans
  PROVE  Spec => ImplementsIncidentLog
<1>1. Init => IInv /\ IdsGiven /\ Log!Init
  BY InitIInv, LogInit DEF Init, EmptyTable, IdsGiven
<1>2. IInv /\ IdsGiven /\ [Next]_vars => IInv' /\ IdsGiven'
  BY StepIInv, IdsGivenStep DEF IInv
<1>3. IInv /\ IdsGiven /\ [Next]_vars
        => [Log!Next]_<<[k \in Keys |-> CurrentId(k)], {r.id : r \in incidents.resolved}, nextId>>
  BY LogStep
<1>. QED  BY <1>1, <1>2, <1>3, PTL DEF Spec, ImplementsIncidentLog, Log!Spec

-----------------------------------------------------------------------------
(* The table follows the reading, when no write fails.                      *)

\* The callback is done with the metric.
Past(m) ==
  pc = "ack" \/ (m = "cpu" /\ metric # "cpu") \/ (m = "ram" /\ metric = "disk")

\* The flags say of the metric what its rule makes of the level.
Judged(m, r, level, count, flags) ==
  r.enabled =>
    IF level > r.threshold
    THEN (m = "cpu" => count >= r.count) => m \in flags
    ELSE m \notin flags

JudgedNow(m) ==
  Judged(m, Lookup(view, m), msg.reading[m], highCount[msg.host], alerted[msg.host])

\* Metrics are judged in their order; one whose incident is about to be
\* inserted already is, one whose incident is about to be closed is normal.
FlagsFollow ==
  /\ pc = "idle" => metric = "cpu"
  /\ pc # "idle" /\ msg.reading # Garbled =>
       /\ \A m \in Metrics : Past(m) => JudgedNow(m)
       /\ pc = "open" => JudgedNow(metric)
       /\ pc = "close" => ~Breached

\* With the step to the next metric, only the current one is newly past.
LEMMA AdvancePasses ==
  ASSUME TypeOK, Advance, pc \in {"check", "open", "close"}, NEW m \in Metrics, Past(m)'
  PROVE  m = metric \/ (Past(m) /\ m # metric /\ (metric = "cpu" => m = "cpu"))
BY DEF Advance, Past, TypeOK, Metrics

\* Steps of check that end with Advance only have to judge their metric.
LEMMA AdvanceFollows ==
  ASSUME TypeOK, FlagsFollow, Advance, pc \in {"check", "open", "close"},
         UNCHANGED <<msg, view>>, NEW c \in Metrics, c = metric,
         msg.reading # Garbled => JudgedNow(c)',
         c # "cpu" => UNCHANGED highCount,
         \A m \in Metrics : m # c =>
           (m \in alerted'[msg.host] <=> m \in alerted[msg.host])
  PROVE  FlagsFollow'
<1>1. pc' \in {"check", "ack"}
  BY DEF Advance
<1>2. ASSUME msg.reading # Garbled, NEW m \in Metrics, Past(m)' PROVE JudgedNow(m)'
  <2>1. CASE m = c
    BY <1>2, <2>1
  <2>2. CASE m # c
    <3>1. Past(m) /\ c # "cpu"
      BY <1>2, <2>2, AdvancePasses
    <3>2. JudgedNow(m)
      BY <1>2, <3>1 DEF FlagsFollow
    <3>. QED  BY <2>2, <3>1, <3>2 DEF JudgedNow, Judged
  <2>. QED  BY <2>1, <2>2
<1>. QED  BY <1>1, <1>2 DEF FlagsFollow

\* One step per action.
LEMMA FlagsFollowStep == TypeOK /\ DownIsIdle /\ FlagsFollow /\ [Next]_vars => FlagsFollow'
<1>. SUFFICES ASSUME TypeOK, DownIsIdle, FlagsFollow, [Next]_vars PROVE FlagsFollow'
  OBVIOUS
<1>1. CASE UNCHANGED <<pc, msg, view, metric, highCount, alerted>>
  BY <1>1 DEF FlagsFollow, JudgedNow, Judged, Past, Breached, rule
<1>2. CASE Start
  BY <1>2 DEF Start, handler, DownIsIdle, FlagsFollow
<1>3. CASE Crash \/ Stop \/ Finish
  BY <1>3 DEF Crash, Stop, Forget, Finish, FlagsFollow
<1>4. CASE Dispatch
  <2>1. metric' = "cpu" /\ pc' \in {"check", "ack"} /\ (pc' = "ack" => msg'.reading = Garbled)
    BY <1>4 DEF Dispatch, FlagsFollow
  <2>. QED  BY <2>1 DEF FlagsFollow, Past
<1>5. PICK c \in Metrics : c = metric
  BY DEF TypeOK
<1>k. pc # "idle" => msg.host \in Hosts
  BY KeyType
<1>6. CASE SkipDisabled
  <2>1. /\ pc = "check" /\ Advance /\ UNCHANGED <<msg, view, highCount, alerted>>
        /\ Lookup(view, c).enabled = FALSE
    BY <1>5, <1>6 DEF SkipDisabled, Evaluating, rule
  <2>2. JudgedNow(c)'
    BY <2>1 DEF JudgedNow, Judged
  <2>. QED  BY <1>5, <2>1, <2>2, AdvanceFollows
<1>7. CASE StayHigh
  <2>1. /\ pc = "check" /\ Advance /\ UNCHANGED <<msg, view, alerted>>
        /\ msg.reading[c] > Lookup(view, c).threshold
        /\ c \in alerted[msg.host] \/ (c = "cpu" /\ ~(highCount[msg.host] + 1 >= Lookup(view, c).count))
        /\ IF c = "cpu" THEN highCount' = [highCount EXCEPT ![msg.host] = @ + 1]
           ELSE UNCHANGED highCount
    BY <1>5, <1>7 DEF StayHigh, Evaluating, rule, Breached, IsAlerted, Due, CountHigh
  <2>2. c = "cpu" => highCount'[msg.host] = highCount[msg.host] + 1
    BY <1>k, <2>1 DEF TypeOK
  <2>3. JudgedNow(c)'
    BY <2>1, <2>2 DEF JudgedNow, Judged
  <2>. QED  BY <1>5, <2>1, <2>3, AdvanceFollows
<1>8. CASE Raise
  <2>1. /\ pc = "check" /\ pc' = "open" /\ UNCHANGED <<msg, view, metric>>
        /\ msg.reading[c] > Lookup(view, c).threshold
        /\ alerted' = [alerted EXCEPT ![msg.host] = @ \cup {c}]
        /\ c # "cpu" => UNCHANGED highCount
    BY <1>5, <1>8 DEF Raise, Evaluating, rule, Breached, CountHigh
  <2>2. alerted'[msg.host] = alerted[msg.host] \cup {c}
    BY <1>k, <2>1 DEF TypeOK
  <2>3. JudgedNow(c)'
    BY <2>1, <2>2 DEF JudgedNow, Judged
  <2>4. JudgedNow(metric)'
    BY <1>5, <2>1, <2>3 DEF JudgedNow
  <2>5. ASSUME msg.reading # Garbled, NEW m \in Metrics, Past(m)' PROVE JudgedNow(m)'
    <3>1. Past(m) /\ m # c /\ c # "cpu"
      BY <1>5, <2>1, <2>5 DEF Past
    <3>2. JudgedNow(m)
      BY <2>1, <2>5, <3>1 DEF FlagsFollow
    <3>. QED  BY <2>1, <2>2, <3>1, <3>2 DEF JudgedNow, Judged
  <2>. QED  BY <2>1, <2>4, <2>5 DEF FlagsFollow
<1>9. CASE OpenIncident
  <2>1. /\ pc = "open" /\ Advance /\ UNCHANGED <<msg, view, highCount, alerted>>
    BY <1>9 DEF OpenIncident, memory
  <2>2. msg.reading # Garbled => JudgedNow(c)
    BY <1>5, <2>1 DEF FlagsFollow
  <2>3. msg.reading # Garbled => JudgedNow(c)'
    BY <2>1, <2>2 DEF JudgedNow, Judged
  <2>. QED  BY <1>5, <2>1, <2>3, AdvanceFollows
<1>10. CASE StayNormal
  <2>1. /\ pc = "check" /\ Advance /\ UNCHANGED <<msg, view, alerted>>
        /\ ~(msg.reading[c] > Lookup(view, c).threshold)
        /\ c \notin alerted[msg.host]
        /\ c # "cpu" => UNCHANGED highCount
    BY <1>5, <1>10 DEF StayNormal, Evaluating, rule, Breached, IsAlerted, ResetHigh
  <2>2. JudgedNow(c)'
    BY <2>1 DEF JudgedNow, Judged
  <2>. QED  BY <1>5, <2>1, <2>2, AdvanceFollows
<1>11. CASE Recover
  <2>1. /\ pc = "check" /\ pc' = "close" /\ UNCHANGED <<msg, view, metric, highCount, alerted>>
        /\ ~Breached
    BY <1>11 DEF Recover, Evaluating
  <2>2. ~Breached'
    BY <2>1 DEF Breached, rule
  <2>3. ASSUME msg.reading # Garbled, NEW m \in Metrics, Past(m)' PROVE JudgedNow(m)'
    <3>1. Past(m)
      BY <2>1, <2>3 DEF Past
    <3>2. JudgedNow(m)
      BY <2>1, <2>3, <3>1 DEF FlagsFollow
    <3>. QED  BY <2>1, <3>2 DEF JudgedNow, Judged
  <2>. QED  BY <2>1, <2>2, <2>3 DEF FlagsFollow
<1>12. CASE CloseIncident
  <2>1. /\ pc = "close" /\ Advance /\ UNCHANGED <<msg, view>>
        /\ alerted' = [alerted EXCEPT ![msg.host] = @ \ {c}]
        /\ c # "cpu" => UNCHANGED highCount
    BY <1>5, <1>12 DEF CloseIncident, ResetHigh
  <2>2. alerted'[msg.host] = alerted[msg.host] \ {c}
    BY <1>k, <2>1 DEF TypeOK
  <2>3. msg.reading # Garbled => ~(msg.reading[c] > Lookup(view, c).threshold)
    BY <1>5, <2>1 DEF FlagsFollow, Breached, rule
  <2>4. msg.reading # Garbled => JudgedNow(c)'
    BY <2>1, <2>2, <2>3 DEF JudgedNow, Judged
  <2>. QED  BY <1>5, <2>1, <2>2, <2>4, AdvanceFollows
<1>13. \/ UNCHANGED <<pc, msg, view, metric, highCount, alerted>>
       \/ Start \/ Crash \/ Stop \/ Callback
  BY DEF Next, vars, Publish, EditRules, AbortStart, ReloadRules, Redeliver,
         RepeatDelivery, memory, handler
<1>. QED
  BY <1>1, <1>2, <1>3, <1>4, <1>6, <1>7, <1>8, <1>9, <1>10, <1>11, <1>12, <1>13 DEF Callback

\* Unless a write or the SELECT at a start fails, the table agrees with a
\* reading that has been handled: an enabled metric has an open incident if it
\* is too high (the CPU: often enough), and none if it is not.
THEOREM TableFollowsReadingAlways ==
  ASSUME NoFailedWrites
  PROVE  Spec => []TableFollowsReading
<1>1. NoOrphans
  BY DEF NoFailedWrites, NoOrphans
<1>2. Init => IInv /\ OpenIfFlagged /\ FlagsFollow
  BY InitIInv DEF Init, OpenIfFlagged, FlagsFollow
<1>3. IInv /\ OpenIfFlagged /\ FlagsFollow /\ [Next]_vars => IInv' /\ OpenIfFlagged' /\ FlagsFollow'
  BY <1>1, StepIInv, StepOpenIfFlagged, FlagsFollowStep DEF IInv
<1>4. ASSUME IInv, OpenIfFlagged, FlagsFollow PROVE TableFollowsReading
  <2>. SUFFICES ASSUME pc = "ack", msg.reading # Garbled, NEW m \in Metrics,
                       Lookup(view, m).enabled
                PROVE  IF msg.reading[m] > Lookup(view, m).threshold
                       THEN (m = "cpu" => highCount[msg.host] >= Lookup(view, m).count)
                              => Open(<<msg.host, m>>) # {}
                       ELSE Open(<<msg.host, m>>) = {}
    BY DEF TableFollowsReading
  <2>1. up /\ msg.host \in Hosts
    BY <1>4, KeyType DEF IInv, DownIsIdle
  <2>2. <<msg.host, m>> \in Keys /\ <<msg.host, m>>[1] = msg.host /\ <<msg.host, m>>[2] = m
    BY <2>1 DEF Keys
  <2>3. m \in alerted[msg.host] <=> Open(<<msg.host, m>>) # {}
    BY <1>4, <2>1, <2>2 DEF IInv, FlaggedIfOpen, OpenIfFlagged
  <2>4. JudgedNow(m)
    BY <1>4 DEF FlagsFollow, Past
  <2>. QED  BY <2>3, <2>4 DEF JudgedNow, Judged
<1>. QED  BY <1>2, <1>3, <1>4, PTL DEF Spec

-----------------------------------------------------------------------------
(* Counting incidents, whatever fails.                                      *)

Rows(k) == RowsOf(incidents, k[1], k[2])
nRows(k) == Cardinality(Rows(k))
nOpen(k) == Cardinality(Open(k))

\* The table is finite and numbered below the next id.
TableSound ==
  /\ IsFiniteSet(incidents.open) /\ IsFiniteSet(incidents.resolved)
  /\ \A r \in incidents.open \cup incidents.resolved : r.id < nextId

\* The rows of a key can be counted.
LEMMA RowCounts ==
  ASSUME TableSound, NEW k
  PROVE  /\ IsFiniteSet(Rows(k)) /\ IsFiniteSet(Open(k))
         /\ nRows(k) \in Nat /\ nOpen(k) \in Nat /\ nOpen(k) <= nRows(k)
<1>1. IsFiniteSet(incidents.open \cup incidents.resolved)
  BY FS_Union DEF TableSound
<1>2. Rows(k) \subseteq incidents.open \cup incidents.resolved /\ Open(k) \subseteq Rows(k)
  BY DEF Rows, RowsOf, Open, OpenRows
<1>3. IsFiniteSet(Rows(k))
  BY <1>1, <1>2, FS_Subset
<1>4. IsFiniteSet(Open(k)) /\ Cardinality(Open(k)) <= Cardinality(Rows(k))
  BY <1>2, <1>3, FS_Subset
<1>. QED  BY <1>3, <1>4, FS_CardinalityType DEF nRows, nOpen

\* The insert adds one row to its key.
LEMMA InsertCounts ==
  ASSUME TypeOK, TableSound, pc # "idle", NEW row, row.id = nextId,
         row.host = msg.host, row.metric = metric,
         incidents' = Inserted(incidents, row), nextId' = nextId + 1
  PROVE  /\ TableSound'
         /\ \A k \in Keys : /\ nRows(k)' = nRows(k) + (IF k = Key THEN 1 ELSE 0)
                            /\ nOpen(k)' = nOpen(k) + (IF k = Key THEN 1 ELSE 0)
<1>1. incidents'.open = incidents.open \cup {row} /\ incidents'.resolved = incidents.resolved
  BY DEF Inserted, TypeOK
<1>2. row \notin incidents.open \cup incidents.resolved
  BY DEF TableSound, TypeOK
<1>3. IsFiniteSet(incidents'.open)
  BY <1>1, FS_AddElement DEF TableSound
<1>4. \A r \in incidents.open \cup incidents.resolved : r.id \in Nat
  BY DEF TypeOK, Row
<1>5. TableSound'
  BY <1>1, <1>3, <1>4 DEF TableSound, TypeOK
<1>6. ASSUME NEW k \in Keys
      PROVE  /\ nRows(k)' = nRows(k) + (IF k = Key THEN 1 ELSE 0)
             /\ nOpen(k)' = nOpen(k) + (IF k = Key THEN 1 ELSE 0)
  <2>1. k = Key <=> k[1] = msg.host /\ k[2] = metric
    BY KeyType
  <2>2. Open(k)' = IF k = Key THEN Open(k) \cup {row} ELSE Open(k)
    BY OpenAfterInsert
  <2>3. Rows(k)' = IF k = Key THEN Rows(k) \cup {row} ELSE Rows(k)
    BY <1>1, <2>1 DEF Rows, RowsOf
  <2>4. row \notin Open(k) /\ row \notin Rows(k)
    BY <1>2 DEF Open, OpenRows, Rows, RowsOf
  <2>5. CASE k # Key
    BY <2>2, <2>3, <2>5, RowCounts DEF nRows, nOpen
  <2>6. CASE k = Key
    <3>1. /\ Cardinality(Open(k) \cup {row}) = Cardinality(Open(k)) + 1
          /\ Cardinality(Rows(k) \cup {row}) = Cardinality(Rows(k)) + 1
      BY <2>4, RowCounts, FS_AddElement
    <3>. QED  BY <2>2, <2>3, <2>6, <3>1 DEF nRows, nOpen
  <2>. QED  BY <2>5, <2>6
<1>. QED  BY <1>5, <1>6

\* An update loses no row, and leaves nothing or one row less open; Postgres
\* never resolves more than one.
LEMMA CloseCounts ==
  ASSUME TypeOK, TableSound, pc # "idle", NEW hit \in Hits(incidents, msg.host, metric),
         incidents' = Closed(incidents, hit), nextId' = nextId
  PROVE  /\ TableSound'
         /\ \A k \in Keys :
              /\ nRows(k)' = nRows(k)
              /\ k # Key => nOpen(k)' = nOpen(k)
              /\ k = Key => /\ nOpen(k)' = 0 \/ nOpen(k)' = nOpen(k) - 1
                            /\ Backend = "postgres"
                                 => nOpen(k)' = nOpen(k) \/ nOpen(k)' = nOpen(k) - 1
<1>1. /\ incidents'.open = incidents.open \ hit
      /\ incidents'.resolved = incidents.resolved \cup hit
  BY DEF Closed
<1>2. hit \subseteq Open(Key)
  BY DEF Hits, Latest, Open, Key
<1>3. Open(Key) \subseteq incidents.open /\ hit \subseteq incidents.open
  BY <1>2 DEF Open, OpenRows
<1>4. \/ hit = Open(Key) /\ (Backend = "sqlite" \/ Open(Key) = {})
      \/ \E r \in Open(Key) : hit = {r}
  BY BackendAssumption DEF Hits, Latest, Open, Key
<1>5. TableSound'
  <2>1. IsFiniteSet(incidents'.open) /\ IsFiniteSet(hit)
    BY <1>1, <1>3, FS_Subset DEF TableSound
  <2>2. IsFiniteSet(incidents'.resolved)
    BY <1>1, <2>1, FS_Union, ZenonT(60) DEF TableSound
  <2>. QED  BY <1>1, <1>3, <2>1, <2>2 DEF TableSound
<1>6. ASSUME NEW k \in Keys
      PROVE  /\ nRows(k)' = nRows(k)
             /\ k # Key => nOpen(k)' = nOpen(k)
             /\ k = Key => /\ nOpen(k)' = 0 \/ nOpen(k)' = nOpen(k) - 1
                           /\ Backend = "postgres"
                                => nOpen(k)' = nOpen(k) \/ nOpen(k)' = nOpen(k) - 1
  <2>1. k = Key <=> k[1] = msg.host /\ k[2] = metric
    BY KeyType
  <2>2. Rows(k)' = Rows(k)
    BY <1>1, <1>3 DEF Rows, RowsOf
  <2>3. \A r \in hit : r.host = msg.host /\ r.metric = metric
    BY <1>2 DEF Open, OpenRows, Key
  <2>4. Open(k)' = Open(k) \ hit
    BY <1>1 DEF Open, OpenRows
  <2>5. k # Key => Open(k)' = Open(k)
    BY <2>1, <2>3, <2>4 DEF Open, OpenRows
  <2>6. CASE k # Key
    BY <2>2, <2>5, <2>6 DEF nRows, nOpen
  <2>7. CASE k = Key /\ hit = Open(Key) /\ (Backend = "sqlite" \/ Open(Key) = {})
    <3>1. Open(k)' = {}
      BY <2>4, <2>7
    <3>2. nOpen(k)' = 0 /\ (Open(Key) = {} => nOpen(k) = 0)
      BY <2>7, <3>1, FS_EmptySet DEF nOpen
    <3>. QED  BY <2>2, <2>7, <3>2 DEF nRows
  <2>8. CASE k = Key /\ \E r \in Open(Key) : hit = {r}
    <3>1. PICK r \in Open(k) : hit = {r}
      BY <2>8
    <3>2. Cardinality(Open(k) \ {r}) = Cardinality(Open(k)) - 1
      BY <3>1, RowCounts, FS_RemoveElement
    <3>. QED  BY <2>2, <2>4, <2>8, <3>1, <3>2 DEF nRows, nOpen
  <2>. QED  BY <1>4, <2>6, <2>7, <2>8
<1>. QED  BY <1>5, <1>6

\* What a disturbance costs.
LEMMA SpendAmount ==
  ASSUME TypeOK
  PROVE  /\ \A what \in DOMAIN Limits : spent[what] \in Nat
         /\ \A what \in DOMAIN Limits : Spend(what) =>
              /\ spent'[what] = spent[what] + 1
              /\ \A other \in DOMAIN Limits \ {what} : spent'[other] = spent[other]
<1>. DEFINE D == DOMAIN Limits
<1>1. spent \in [D -> Nat]
  BY DEF TypeOK
<1>2. ASSUME NEW what \in D, Spend(what)
      PROVE  /\ spent'[what] = spent[what] + 1
             /\ \A other \in D \ {what} : spent'[other] = spent[other]
  <2>1. spent' = [spent EXCEPT ![what] = spent[what] + 1]
    BY <1>2 DEF Spend
  <2>. HIDE DEF D
  <2>. QED  BY <1>1, <2>1
<1>. QED  BY <1>1, <1>2

\* What was spent stays spent.
LEMMA SpentGrows ==
  ASSUME TypeOK, [Next]_vars
  PROVE  \A what \in DOMAIN Limits :
           spent[what] \in Nat /\ spent'[what] \in Nat /\ spent'[what] >= spent[what]
<1>1. UNCHANGED spent \/ \E what \in DOMAIN Limits : Spend(what)
  BY LimitsDomain
  DEF Next, Callback, vars, Publish, EditRules, AbortStart, ReloadRules, Redeliver,
      RepeatDelivery, Start, Crash, Stop, Dispatch, SkipDisabled, StayHigh, MayFail,
      Raise, StayNormal, Recover, SendTelegram, Finish, Evaluating, OpenIncident,
      CloseIncident
<1>. QED  BY <1>1, SpendAmount

\* Only the insert and the update change what is counted.
LEMMA OtherwiseUncounted ==
  ASSUME [Next]_vars
  PROVE  UNCHANGED db \/ OpenIncident \/ CloseIncident
BY DEF Next, Callback, vars, Publish, EditRules, AbortStart, ReloadRules, Redeliver,
       RepeatDelivery, Start, Crash, Stop, Forget, Dispatch, SkipDisabled, StayHigh,
       Raise, StayNormal, Recover, Finish, Evaluating

\* The two outcomes of the insert.
LEMMA OpenOutcomes ==
  ASSUME TypeOK, TableSound, OpenIncident
  PROVE  /\ pc = "open" /\ pc' \notin {"open", "close"}
         /\ TableSound' /\ Key \in Keys
         /\ \/ /\ UNCHANGED spent
               /\ \A k \in Keys : /\ nRows(k)' = nRows(k) + (IF k = Key THEN 1 ELSE 0)
                                  /\ nOpen(k)' = nOpen(k) + (IF k = Key THEN 1 ELSE 0)
            \/ /\ Spend("faults")
               /\ \A k \in Keys : nRows(k)' = nRows(k) /\ nOpen(k)' = nOpen(k)
<1>1. pc = "open" /\ pc' \notin {"open", "close"} /\ Key \in Keys
  BY KeyType DEF OpenIncident, Advance
<1>. DEFINE row == [id |-> nextId, host |-> msg.host, metric |-> metric, startedAt |-> msg.n]
<1>2. ASSUME incidents' = Inserted(incidents, row), nextId' = nextId + 1
      PROVE  /\ TableSound'
             /\ \A k \in Keys : /\ nRows(k)' = nRows(k) + (IF k = Key THEN 1 ELSE 0)
                                /\ nOpen(k)' = nOpen(k) + (IF k = Key THEN 1 ELSE 0)
  <2>1. row.id = nextId /\ row.host = msg.host /\ row.metric = metric
    OBVIOUS
  <2>. HIDE DEF row
  <2>. QED  BY <1>1, <1>2, <2>1, InsertCounts
<1>3. ASSUME UNCHANGED db
      PROVE  TableSound' /\ \A k \in Keys : nRows(k)' = nRows(k) /\ nOpen(k)' = nOpen(k)
  BY <1>3 DEF db, TableSound, nRows, nOpen, Rows, Open
<1>. QED  BY <1>1, <1>2, <1>3 DEF OpenIncident, MayFail

\* The two outcomes of the update.
LEMMA CloseOutcomes ==
  ASSUME TypeOK, TableSound, CloseIncident
  PROVE  /\ pc = "close" /\ pc' \notin {"open", "close"} /\ up' = up
         /\ TableSound' /\ Key \in Keys
         /\ \A k \in Keys : nRows(k)' = nRows(k) /\ (k # Key => nOpen(k)' = nOpen(k))
         /\ \/ /\ UNCHANGED spent
               /\ \A k \in Keys : k = Key =>
                    /\ nOpen(k)' = 0 \/ nOpen(k)' = nOpen(k) - 1
                    /\ Backend = "postgres" => nOpen(k)' = nOpen(k) \/ nOpen(k)' = nOpen(k) - 1
            \/ Spend("faults") /\ \A k \in Keys : nOpen(k)' = nOpen(k)
<1>1. pc = "close" /\ pc' \notin {"open", "close"} /\ Key \in Keys /\ nextId' = nextId /\ up' = up
  BY KeyType DEF CloseIncident, Advance
<1>2. ASSUME UNCHANGED incidents
      PROVE  TableSound' /\ \A k \in Keys : nRows(k)' = nRows(k) /\ nOpen(k)' = nOpen(k)
  BY <1>1, <1>2 DEF TableSound, nRows, nOpen, Rows, Open
<1>3. CASE MayFail("close") /\ UNCHANGED incidents
  BY <1>1, <1>2, <1>3 DEF MayFail
<1>4. ASSUME NEW hit \in Hits(incidents, msg.host, metric), incidents' = Closed(incidents, hit)
      PROVE  /\ TableSound'
             /\ \A k \in Keys :
                  /\ nRows(k)' = nRows(k)
                  /\ k # Key => nOpen(k)' = nOpen(k)
                  /\ k = Key => /\ nOpen(k)' = 0 \/ nOpen(k)' = nOpen(k) - 1
                                /\ Backend = "postgres"
                                     => nOpen(k)' = nOpen(k) \/ nOpen(k)' = nOpen(k) - 1
  BY <1>1, <1>4, CloseCounts
<1>5. CASE /\ \E hit \in Hits(incidents, msg.host, metric) : incidents' = Closed(incidents, hit)
           /\ UNCHANGED spent
  BY <1>1, <1>4, <1>5
<1>. QED  BY <1>3, <1>5 DEF CloseIncident

\* The table stays sound.
LEMMA TableSoundStep == TypeOK /\ TableSound /\ [Next]_vars => TableSound'
<1>. SUFFICES ASSUME TypeOK, TableSound, [Next]_vars PROVE TableSound'
  OBVIOUS
<1>1. CASE UNCHANGED db
  BY <1>1 DEF db, TableSound
<1>. QED  BY <1>1, OtherwiseUncounted, OpenOutcomes, CloseOutcomes

\* The flag is set before the insert.
FlagAtInsert == pc = "open" => IsAlerted

\* The key may have an open row that the failed calls do not explain: the one
\* its flag stands for, or one a process that is down has left.
Owed(k) ==
  IF up /\ (k[2] \notin alerted[k[1]] \/ (pc = "open" /\ k = Key)) THEN 0 ELSE 1

OrphansOwed == \A k \in Keys : nOpen(k) <= spent.faults + Owed(k)

\* One step per action that owes or counts.
LEMMA OrphansStep ==
  /\ TypeOK /\ TableSound /\ DownIsIdle /\ FlagAtInsert /\ OrphansOwed /\ [Next]_vars
  => FlagAtInsert' /\ DownIsIdle' /\ OrphansOwed'
<1>. SUFFICES ASSUME TypeOK, TableSound, DownIsIdle, FlagAtInsert, OrphansOwed, [Next]_vars
              PROVE  FlagAtInsert' /\ DownIsIdle' /\ OrphansOwed'
  OBVIOUS
<1>f. /\ spent.faults \in Nat /\ spent'.faults \in Nat /\ spent'.faults >= spent.faults
      /\ Spend("faults") => spent'.faults = spent.faults + 1
  BY LimitsDomain, SpentGrows, SpendAmount
<1>n. \A k \in Keys : nOpen(k) \in Nat
  BY RowCounts
<1>k. \A k \in Keys : k[1] \in Hosts /\ k[2] \in Metrics /\ k = <<k[1], k[2]>>
  BY DEF Keys
<1>a. ASSUME UNCHANGED incidents, \A k \in Keys : Owed(k)' >= Owed(k) PROVE OrphansOwed'
  <2>1. \A k \in Keys : nOpen(k)' = nOpen(k)
    BY <1>a DEF nOpen, Open
  <2>2. \A k \in Keys : Owed(k) \in Nat /\ Owed(k)' \in Nat
    BY DEF Owed
  <2>. QED  BY <1>a, <1>f, <1>n, <2>1, <2>2 DEF OrphansOwed
<1>1. CASE \/ \E h \in Hosts, r \in Readings \cup {Garbled} : Publish(h, r)
           \/ EditRules \/ AbortStart \/ ReloadRules
           \/ \E m \in consumer.unacked : Redeliver(m) \/ RepeatDelivery(m)
           \/ UNCHANGED vars
  <2>1. UNCHANGED <<incidents, up, alerted, pc, msg, metric>>
    BY <1>1 DEF Publish, EditRules, AbortStart, ReloadRules, Redeliver, RepeatDelivery,
                db, memory, handler, vars
  <2>2. \A k \in Keys : Owed(k)' = Owed(k)
    BY <2>1 DEF Owed, Key
  <2>3. \A k \in Keys : Owed(k)' >= Owed(k)
    BY <2>2 DEF Owed
  <2>. QED  BY <1>a, <2>1, <2>3 DEF FlagAtInsert, DownIsIdle, IsAlerted
<1>2. CASE Start
  <2>1. ~up /\ up' /\ pc = "idle" /\ pc' = "idle" /\ incidents' = incidents
    BY <1>2 DEF Start, DownIsIdle, db, handler
  <2>2. PICK failed \in SUBSET (Faults \cap {"restore", "reload", "conflict"}) :
          /\ IF failed = {} THEN UNCHANGED spent ELSE Spend("faults")
          /\ alerted' = Restored(failed)
    BY <1>2 DEF Start
  <2>3. \A k \in Keys : nOpen(k)' = nOpen(k) /\ Open(k)' = Open(k)
    BY <2>1 DEF nOpen, Open
  <2>4. \A k \in Keys : nOpen(k) <= spent.faults + 1
    BY <1>n, <1>f DEF OrphansOwed, Owed
  <2>5. ASSUME NEW k \in Keys PROVE nOpen(k)' <= spent'.faults + Owed(k)'
    <3>1. CASE failed # {}
      <4>1. spent'.faults = spent.faults + 1 /\ Owed(k)' \in Nat
        BY <1>f, <2>2, <3>1 DEF Owed
      <4>. QED  BY <1>f, <1>n, <2>3, <2>4, <4>1
    <3>2. CASE failed = {} /\ Open(k) = {}
      <4>1. nOpen(k) = 0 /\ Owed(k)' \in Nat
        BY <3>2, FS_EmptySet DEF nOpen, Owed
      <4>. QED  BY <1>f, <2>3, <4>1
    <3>3. CASE failed = {} /\ Open(k) # {}
      <4>1. k[2] \in alerted'[k[1]]
        BY <1>k, <2>2, <3>3 DEF Restored
      <4>2. Owed(k)' = 1
        BY <2>1, <4>1 DEF Owed
      <4>. QED  BY <1>f, <1>n, <2>3, <2>4, <4>2
    <3>. QED  BY <3>1, <3>2, <3>3
  <2>. QED  BY <2>1, <2>5 DEF FlagAtInsert, DownIsIdle, OrphansOwed
<1>3. CASE Crash \/ Stop
  <2>1. ~up' /\ pc' = "idle" /\ incidents' = incidents
    BY <1>3 DEF Crash, Stop, Forget, db
  <2>2. \A k \in Keys : Owed(k)' >= Owed(k)
    BY <2>1 DEF Owed
  <2>. QED  BY <1>a, <2>1, <2>2 DEF FlagAtInsert, DownIsIdle
<1>4. CASE Dispatch \/ SkipDisabled \/ StayHigh \/ StayNormal \/ Recover \/ Finish
  <2>1. UNCHANGED <<incidents, alerted, up>> /\ up /\ pc # "open" /\ pc' # "open"
    BY <1>4
    DEF Dispatch, SkipDisabled, StayHigh, StayNormal, Recover, Finish, Evaluating, Advance,
        db, memory, DownIsIdle
  <2>2. \A k \in Keys : Owed(k)' >= Owed(k)
    BY <2>1 DEF Owed
  <2>. QED  BY <1>a, <2>1, <2>2 DEF FlagAtInsert, DownIsIdle
<1>5. CASE Raise
  <2>1. /\ pc = "check" /\ pc' = "open" /\ ~IsAlerted /\ up /\ up'
        /\ UNCHANGED <<incidents, msg, metric>>
        /\ alerted' = [alerted EXCEPT ![msg.host] = @ \cup {metric}]
    BY <1>5 DEF Raise, Evaluating, db, DownIsIdle
  <2>2. alerted'[msg.host] = alerted[msg.host] \cup {metric}
        /\ \A h \in Hosts : h # msg.host => alerted'[h] = alerted[h]
    BY <2>1, KeyType DEF TypeOK
  <2>3. ASSUME NEW k \in Keys PROVE Owed(k)' >= Owed(k)
    <3>1. k = Key <=> k[1] = msg.host /\ k[2] = metric
      BY <2>1, KeyType
    <3>2. k[2] \in alerted'[k[1]] <=> k[2] \in alerted[k[1]] \/ k = Key
      BY <1>k, <2>2, <3>1
    <3>3. (k = Key)' = (k = Key)
      BY <2>1 DEF Key
    <3>4. k = Key => Owed(k) = 0 /\ Owed(k)' \in {0, 1}
      BY <2>1, <3>1 DEF Owed, IsAlerted
    <3>5. k # Key => Owed(k)' = Owed(k) /\ Owed(k) \in {0, 1}
      BY <2>1, <3>2, <3>3 DEF Owed
    <3>. QED  BY <3>4, <3>5
  <2>. QED  BY <1>a, <2>1, <2>2, <2>3 DEF FlagAtInsert, DownIsIdle, IsAlerted
<1>6. CASE OpenIncident
  <2>1. /\ pc = "open" /\ pc' # "open" /\ up /\ up' /\ UNCHANGED alerted
        /\ metric \in alerted[msg.host]
    BY <1>6, OpenOutcomes DEF OpenIncident, memory, DownIsIdle, FlagAtInsert, IsAlerted
  <2>2. ASSUME NEW k \in Keys PROVE nOpen(k)' <= spent'.faults + Owed(k)'
    <3>1. k = Key => Owed(k) = 0 /\ Owed(k)' = 1
      BY <2>1 DEF Owed, Key
    <3>2. k # Key => Owed(k)' = Owed(k)
      BY <2>1 DEF Owed
    <3>3. Owed(k) \in Nat
      BY DEF Owed
    <3>4. nOpen(k) <= spent.faults + Owed(k)
      BY DEF OrphansOwed
    <3>5. \/ UNCHANGED spent /\ nOpen(k)' = nOpen(k) + (IF k = Key THEN 1 ELSE 0)
          \/ Spend("faults") /\ nOpen(k)' = nOpen(k)
      BY <1>6, OpenOutcomes
    <3>. QED  BY <1>f, <1>n, <3>1, <3>2, <3>3, <3>4, <3>5
  <2>. QED  BY <2>1, <2>2 DEF FlagAtInsert, DownIsIdle, OrphansOwed
<1>7. CASE CloseIncident
  <2>1. /\ pc = "close" /\ pc' # "open" /\ up /\ up'
        /\ alerted' = [alerted EXCEPT ![msg.host] = @ \ {metric}]
    BY <1>7, CloseOutcomes DEF CloseIncident, DownIsIdle
  <2>2. alerted'[msg.host] = alerted[msg.host] \ {metric}
        /\ \A h \in Hosts : h # msg.host => alerted'[h] = alerted[h]
    BY <2>1, KeyType DEF TypeOK
  <2>3. ASSUME NEW k \in Keys PROVE nOpen(k)' <= spent'.faults + Owed(k)'
    <3>1. k = Key <=> k[1] = msg.host /\ k[2] = metric
      BY <2>1, KeyType
    <3>2. k # Key => Owed(k)' = Owed(k)
      BY <1>k, <2>1, <2>2, <3>1 DEF Owed
    <3>3. k = Key => Owed(k)' = 0
      BY <2>1, <2>2, <3>1 DEF Owed
    <3>4. Owed(k) \in {0, 1} /\ nOpen(k) <= spent.faults + Owed(k)
      BY DEF OrphansOwed, Owed
    <3>5. /\ k # Key => nOpen(k)' = nOpen(k)
          /\ \/ UNCHANGED spent /\ (k = Key => nOpen(k)' = 0 \/ nOpen(k)' = nOpen(k) - 1)
             \/ Spend("faults") /\ nOpen(k)' = nOpen(k)
      BY <1>7, CloseOutcomes
    <3>. QED  BY <1>f, <1>n, <3>2, <3>3, <3>4, <3>5
  <2>. QED  BY <2>1, <2>3 DEF FlagAtInsert, DownIsIdle, OrphansOwed
<1>. QED
  BY <1>1, <1>2, <1>3, <1>4, <1>5, <1>6, <1>7 DEF Next, Callback

\* What the two counting theorems stand on.
CountInv == TypeOK /\ TableSound /\ DownIsIdle /\ FlagAtInsert /\ OrphansOwed

\* Nothing is counted and nothing owed at first.
LEMMA CountInit == Init => CountInv
<1>. SUFFICES ASSUME Init PROVE CountInv
  OBVIOUS
<1>1. TableSound
  BY FS_EmptySet DEF Init, EmptyTable, TableSound
<1>2. \A k \in Keys : Open(k) = {}
  BY DEF Init, EmptyTable, Open, OpenRows
<1>3. \A k \in Keys : nOpen(k) = 0 /\ Owed(k) \in Nat
  BY <1>2, FS_EmptySet DEF nOpen, Owed
<1>4. spent.faults = 0
  BY LimitsDomain DEF Init
<1>. QED
  BY <1>1, <1>3, <1>4, InitType DEF Init, CountInv, DownIsIdle, FlagAtInsert, OrphansOwed

\* The counting invariant is inductive.
LEMMA CountStep == CountInv /\ [Next]_vars => CountInv'
BY StepType, TableSoundStep, OrphansStep DEF CountInv

\* However many calls fail: a host and a metric never have more open incidents
\* than one and the failed calls.
THEOREM OrphanBoundAlways == Spec => []OrphanBound
<1>1. ASSUME CountInv PROVE OrphanBound
  <2>. SUFFICES ASSUME NEW k \in Keys PROVE Cardinality(Open(k)) <= 1 + spent.faults
    BY DEF OrphanBound
  <2>1. nOpen(k) \in Nat /\ spent.faults \in Nat /\ Owed(k) \in {0, 1}
    BY <1>1, RowCounts, LimitsDomain, SpendAmount DEF CountInv, Owed
  <2>2. nOpen(k) <= spent.faults + Owed(k)
    BY <1>1 DEF CountInv, OrphansOwed
  <2>. QED  BY <2>1, <2>2 DEF nOpen
<1>. QED  BY <1>1, CountInit, CountStep, PTL DEF Spec

-----------------------------------------------------------------------------
(* The notices and the table.                                               *)

\* The message for the key is out, the write that follows it is not done.
Announced(k) == Pending(k, "open")
Over(k)      == Pending(k, "close")

Disturbances == spent.crashes + spent.stops + spent.faults

Ledger(k) ==
  /\ nRows(k) + Announced(k) <= alerts[k] + spent.unsent
  /\ alerts[k] <= nRows(k) + Announced(k) + Disturbances
  /\ (Backend = "postgres" \/ nRows(k) <= 1)
       => (nRows(k) - nOpen(k)) + Over(k) <= oks[k] + spent.unsent

LedgerKept == \A k \in Keys : Ledger(k)

\* A message that is out is out for one key at a time.
LEMMA PendingFacts ==
  /\ \A k \in Keys : Announced(k) \in {0, 1} /\ Over(k) \in {0, 1}
  /\ \A k \in Keys : Announced(k) = 1 <=> pc = "open" /\ k = Key
  /\ \A k \in Keys : Over(k) = 1 <=> pc = "close" /\ k = Key
BY DEF Announced, Over, Pending

\* One step per action that sends or counts.
LEMMA LedgerStep ==
  /\ TypeOK /\ TableSound /\ DownIsIdle /\ LedgerKept /\ TypeOK' /\ [Next]_vars
  => LedgerKept'
<1>. SUFFICES ASSUME TypeOK, TableSound, DownIsIdle, LedgerKept, TypeOK', [Next]_vars,
                     NEW k \in Keys
              PROVE  Ledger(k)'
  BY DEF LedgerKept
<1>l. Ledger(k)
  BY DEF LedgerKept
<1>d. /\ Disturbances \in Nat /\ Disturbances' \in Nat /\ Disturbances' >= Disturbances
      /\ \A what \in {"crashes", "stops", "faults"} :
           Spend(what) => Disturbances' = Disturbances + 1
  BY LimitsDomain, SpentGrows, SpendAmount DEF Disturbances
<1>s. /\ spent.unsent \in Nat /\ spent'.unsent \in Nat /\ spent'.unsent >= spent.unsent
      /\ Spend("unsent") => spent'.unsent = spent.unsent + 1
  BY LimitsDomain, SpentGrows, SpendAmount
<1>n. /\ nRows(k) \in Nat /\ nOpen(k) \in Nat /\ nOpen(k) <= nRows(k)
      /\ alerts[k] \in Nat /\ oks[k] \in Nat
  BY RowCounts DEF TypeOK
<1>p. /\ Announced(k) \in {0, 1} /\ Over(k) \in {0, 1}
      /\ Announced(k) = 1 <=> pc = "open" /\ k = Key
      /\ Over(k) = 1 <=> pc = "close" /\ k = Key
  BY PendingFacts
<1>q. /\ Announced(k)' \in {0, 1} /\ Over(k)' \in {0, 1}
      /\ Announced(k)' = 1 <=> pc' = "open" /\ k = Key'
      /\ Over(k)' = 1 <=> pc' = "close" /\ k = Key'
  BY DEF Announced, Over, Pending
<1>a. ASSUME UNCHANGED <<incidents, alerts, oks>>,
             Announced(k)' = Announced(k), Over(k)' = Over(k)
      PROVE  Ledger(k)'
  <2>1. nRows(k)' = nRows(k) /\ nOpen(k)' = nOpen(k)
    BY <1>a DEF nRows, Rows, nOpen, Open
  <2>. QED  BY <1>a, <1>d, <1>l, <1>n, <1>p, <1>s, <2>1 DEF Ledger
<1>1. CASE \/ \E h \in Hosts, r \in Readings \cup {Garbled} : Publish(h, r)
           \/ EditRules \/ AbortStart \/ ReloadRules \/ Start
           \/ \E m \in consumer.unacked : Redeliver(m) \/ RepeatDelivery(m)
           \/ UNCHANGED vars
  <2>1. UNCHANGED <<incidents, alerts, oks, pc, msg, metric>>
    BY <1>1 DEF Publish, EditRules, AbortStart, ReloadRules, Redeliver, RepeatDelivery, Start,
                db, memory, handler, history, vars
  <2>2. Announced(k)' = Announced(k) /\ Over(k)' = Over(k)
    BY <2>1 DEF Announced, Over, Pending, Key
  <2>. QED  BY <1>a, <2>1, <2>2
<1>2. CASE Crash \/ Stop
  <2>1. pc' = "idle" /\ UNCHANGED <<incidents, alerts, oks>> /\ Disturbances' = Disturbances + 1
    BY <1>2, <1>d DEF Crash, Stop, Forget, db
  <2>2. nRows(k)' = nRows(k) /\ nOpen(k)' = nOpen(k)
    BY <2>1 DEF nRows, Rows, nOpen, Open
  <2>3. Announced(k)' = 0 /\ Over(k)' = 0
    BY <1>q, <2>1
  <2>. QED  BY <1>d, <1>l, <1>n, <1>p, <1>s, <2>1, <2>2, <2>3 DEF Ledger
<1>3. CASE Dispatch \/ SkipDisabled \/ StayHigh \/ StayNormal \/ Finish
  <2>1. /\ UNCHANGED <<incidents, alerts, oks>>
        /\ pc \notin {"open", "close"} /\ pc' \notin {"open", "close"}
    BY <1>3 DEF Dispatch, SkipDisabled, StayHigh, StayNormal, Finish, Evaluating, Advance,
                db, history
  <2>. QED  BY <1>a, <1>p, <1>q, <2>1
<1>4. CASE Raise
  <2>1. /\ pc = "check" /\ pc' = "open" /\ UNCHANGED <<incidents, msg, metric, oks>>
        /\ SendTelegram(alerts, alerts')
    BY <1>4 DEF Raise, Evaluating, db
  <2>2. nRows(k)' = nRows(k) /\ nOpen(k)' = nOpen(k)
    BY <2>1 DEF nRows, Rows, nOpen, Open
  <2>3. /\ alerts'[k] + spent'.unsent >= alerts[k] + spent.unsent + (IF k = Key THEN 1 ELSE 0)
        /\ alerts'[k] \in Nat /\ alerts[k] <= alerts'[k]
        /\ alerts'[k] <= alerts[k] + (IF k = Key THEN 1 ELSE 0)
    <3>1. CASE alerts' = [alerts EXCEPT ![Key] = @ + 1] /\ UNCHANGED spent
      <4>1. alerts'[k] = alerts[k] + (IF k = Key THEN 1 ELSE 0)
        BY <3>1 DEF TypeOK
      <4>. QED  BY <1>n, <1>s, <3>1, <4>1
    <3>2. CASE alerts' = alerts /\ Spend("unsent")
      BY <1>n, <1>s, <3>2
    <3>. QED  BY <2>1, <3>1, <3>2 DEF SendTelegram
  <2>4. Key' = Key
    BY <2>1 DEF Key
  <2>5. /\ Announced(k) = 0 /\ Over(k) = 0 /\ Over(k)' = 0
        /\ Announced(k)' = IF k = Key THEN 1 ELSE 0
    BY <1>p, <1>q, <2>1, <2>4
  <2>. QED  BY <1>d, <1>l, <1>n, <1>s, <2>1, <2>2, <2>3, <2>5 DEF Ledger
<1>5. CASE Recover
  <2>1. /\ pc = "check" /\ pc' = "close" /\ UNCHANGED <<incidents, msg, metric, alerts>>
        /\ SendTelegram(oks, oks')
    BY <1>5 DEF Recover, Evaluating, db
  <2>2. nRows(k)' = nRows(k) /\ nOpen(k)' = nOpen(k)
    BY <2>1 DEF nRows, Rows, nOpen, Open
  <2>3. /\ oks'[k] + spent'.unsent >= oks[k] + spent.unsent + (IF k = Key THEN 1 ELSE 0)
        /\ oks'[k] \in Nat /\ oks[k] <= oks'[k]
        /\ oks'[k] <= oks[k] + (IF k = Key THEN 1 ELSE 0)
    <3>1. CASE oks' = [oks EXCEPT ![Key] = @ + 1] /\ UNCHANGED spent
      <4>1. oks'[k] = oks[k] + (IF k = Key THEN 1 ELSE 0)
        BY <3>1 DEF TypeOK
      <4>. QED  BY <1>n, <1>s, <3>1, <4>1
    <3>2. CASE oks' = oks /\ Spend("unsent")
      BY <1>n, <1>s, <3>2
    <3>. QED  BY <2>1, <3>1, <3>2 DEF SendTelegram
  <2>4. Key' = Key
    BY <2>1 DEF Key
  <2>5. /\ Announced(k) = 0 /\ Over(k) = 0 /\ Announced(k)' = 0
        /\ Over(k)' = IF k = Key THEN 1 ELSE 0
    BY <1>p, <1>q, <2>1, <2>4
  <2>. QED  BY <1>d, <1>l, <1>n, <1>s, <2>1, <2>2, <2>3, <2>5 DEF Ledger
<1>6. CASE OpenIncident
  <2>1. pc = "open" /\ pc' \notin {"open", "close"} /\ UNCHANGED <<alerts, oks>>
    BY <1>6, OpenOutcomes DEF OpenIncident, history
  <2>2. /\ Announced(k) = (IF k = Key THEN 1 ELSE 0) /\ Over(k) = 0
        /\ Announced(k)' = 0 /\ Over(k)' = 0
    BY <1>p, <1>q, <2>1
  <2>3. CASE /\ UNCHANGED spent
             /\ nRows(k)' = nRows(k) + (IF k = Key THEN 1 ELSE 0)
             /\ nOpen(k)' = nOpen(k) + (IF k = Key THEN 1 ELSE 0)
    <3>1. Disturbances' = Disturbances
      BY <2>3 DEF Disturbances
    <3>. QED  BY <1>d, <1>l, <1>n, <1>s, <2>1, <2>2, <2>3, <3>1 DEF Ledger
  <2>4. CASE Spend("faults") /\ nRows(k)' = nRows(k) /\ nOpen(k)' = nOpen(k)
    <3>1. Disturbances' = Disturbances + 1
      BY <1>d, <2>4
    <3>. QED  BY <1>d, <1>l, <1>n, <1>s, <2>1, <2>2, <2>4, <3>1 DEF Ledger
  <2>. QED  BY <1>6, <2>3, <2>4, OpenOutcomes
<1>7. CASE CloseIncident
  <2>1. /\ pc = "close" /\ pc' \notin {"open", "close"} /\ UNCHANGED <<alerts, oks>>
        /\ nRows(k)' = nRows(k)
    BY <1>7, CloseOutcomes DEF CloseIncident
  <2>2. /\ Over(k) = (IF k = Key THEN 1 ELSE 0) /\ Announced(k) = 0
        /\ Announced(k)' = 0 /\ Over(k)' = 0
    BY <1>p, <1>q, <2>1
  <2>3. /\ k # Key => nOpen(k)' = nOpen(k)
        /\ k = Key => \/ nOpen(k)' = nOpen(k) \/ nOpen(k)' = nOpen(k) - 1
                      \/ nOpen(k)' = 0 /\ Backend # "postgres"
    BY <1>7, CloseOutcomes
  <2>. QED  BY <1>d, <1>l, <1>n, <1>s, <2>1, <2>2, <2>3 DEF Ledger
<1>. QED
  BY <1>1, <1>2, <1>3, <1>4, <1>5, <1>6, <1>7 DEF Next, Callback

\* No more incidents than calls of sendTelegram that failed are without the
\* notice that they began, or without the one that they are over; and no more
\* alerts than crashes, stops and failed calls are without an incident.
THEOREM NoticesMatchIncidentsAlways == Spec => []NoticesMatchIncidents
<1>1. Init => CountInv /\ LedgerKept
  <2>. SUFFICES ASSUME Init, NEW k \in Keys PROVE CountInv /\ Ledger(k)
    BY CountInit DEF LedgerKept
  <2>1. CountInv
    BY CountInit
  <2>2. Rows(k) = {} /\ Open(k) = {}
    BY DEF Init, EmptyTable, Rows, RowsOf, Open, OpenRows
  <2>3. nRows(k) = 0 /\ nOpen(k) = 0
    BY <2>2, FS_EmptySet DEF nRows, nOpen
  <2>4. Announced(k) = 0 /\ Over(k) = 0
    BY DEF Init, Announced, Over, Pending
  <2>5. Disturbances = 0 /\ alerts[k] = 0 /\ oks[k] = 0 /\ spent.unsent = 0
    BY LimitsDomain DEF Init, Disturbances
  <2>. QED  BY <2>1, <2>3, <2>4, <2>5 DEF Ledger
<1>2. (CountInv /\ LedgerKept) /\ [Next]_vars => (CountInv /\ LedgerKept)'
  <2>1. CountInv /\ [Next]_vars => CountInv'
    BY CountStep
  <2>2. CountInv /\ CountInv' /\ LedgerKept /\ [Next]_vars => LedgerKept'
    BY LedgerStep DEF CountInv
  <2>. QED  BY <2>1, <2>2
<1>3. ASSUME CountInv, LedgerKept PROVE NoticesMatchIncidents
  <2>1. ASSUME NEW k \in Keys
        PROVE  /\ Cardinality(RowsOf(incidents, k[1], k[2])) + Pending(k, "open")
                    <= alerts[k] + spent.unsent
               /\ alerts[k] <= Cardinality(RowsOf(incidents, k[1], k[2])) + Pending(k, "open")
                                 + spent.crashes + spent.stops + spent.faults
               /\ (Backend = "postgres" \/ Cardinality(RowsOf(incidents, k[1], k[2])) <= 1)
                    => (Cardinality(RowsOf(incidents, k[1], k[2])) - Cardinality(Open(k)))
                         + Pending(k, "close") <= oks[k] + spent.unsent
    <3>1. /\ nRows(k) \in Nat /\ Announced(k) \in {0, 1}
          /\ spent.crashes \in Nat /\ spent.stops \in Nat /\ spent.faults \in Nat
      BY <1>3, RowCounts, PendingFacts, LimitsDomain, SpendAmount DEF CountInv
    <3>2. Ledger(k)
      BY <1>3 DEF LedgerKept
    <3>3. alerts[k] <= nRows(k) + Announced(k) + spent.crashes + spent.stops + spent.faults
      BY <3>1, <3>2 DEF Ledger, Disturbances
    <3>. QED  BY <3>2, <3>3 DEF Ledger, nRows, nOpen, Rows, Announced, Over
  <2>. QED  BY <2>1 DEF NoticesMatchIncidents
<1>. QED  BY <1>1, <1>2, <1>3, PTL DEF Spec

-----------------------------------------------------------------------------
(* What stands behind a CPU alert.                                          *)

\* A nonempty set of natural numbers has a least one.
LEMMA Least ==
  ASSUME NEW S \in SUBSET Nat, S # {}
  PROVE  \E x \in S : \A y \in S : x <= y
<1>. DEFINE R == OpToRel(<, Nat)
<1>1. IsWellFoundedOn(R, Nat)
  BY NatLessThanWellFounded
<1>2. \A x, y \in Nat : y < x => <<y, x>> \in R
  BY DEF OpToRel
<1>. HIDE DEF R
<1>3. PICK x \in S : \A y \in S : ~ (<<y, x>> \in R)
  BY <1>1, WFMin
<1>4. ASSUME NEW y \in S PROVE x <= y
  <2>1. x \in Nat /\ y \in Nat /\ ~(<<y, x>> \in R)
    BY <1>3
  <2>2. ~(y < x)
    BY <1>2, <2>1
  <2>. QED  BY <2>1, <2>2
<1>. QED  BY <1>4

\* The rule of a metric is a row of the table or the default: its count is a
\* number.
LEMMA LookupType ==
  ASSUME NEW table, table \subseteq RuleRow, NEW m \in Metrics
  PROVE  Lookup(table, m).count \in Int
<1>. DEFINE named == {r \in table : r.metric = m}
            ids == {r.id : r \in named}
<1>1. CASE named = {}
  BY <1>1 DEF Lookup, DefaultSetting, Metrics
<1>2. CASE named # {}
  <2>1. ids \in SUBSET Nat /\ ids # {}
    BY <1>2 DEF RuleRow
  <2>2. PICK x \in ids : \A y \in ids : x <= y
    BY <2>1, Least
  <2>3. \E r \in named : \A q \in named : r.id <= q.id
    BY <2>2
  <2>4. Lookup(table, m) \in named
    BY <1>2, <2>3 DEF Lookup
  <2>. QED  BY <2>4 DEF RuleRow
<1>. QED  BY <1>1, <1>2

\* The callback is about to count the CPU reading in hand.
AtCpu == pc = "check" /\ metric = "cpu"

\* Deliveries still to be counted or passed over, and the messages they are of.
Load  == Len(consumer.inbox) + (IF AtCpu THEN 1 ELSE 0)
Ahead == ToSet(consumer.inbox) \cup (IF AtCpu THEN {msg} ELSE {})

Known(m)     == m.n \in counted[m.host]
Uncounted(h) == {m \in Ahead : ~(m.host = h /\ Known(m))}

\* Messages the consumer or the callback has.
Around == Inside(consumer) \cup (IF pc = "idle" THEN {} ELSE {msg})

\* Two messages of a host differ in their number, and none has one to come.
Unique ==
  /\ \A m \in Around : m.n <= published[m.host]
  /\ \A h \in Hosts : \A n \in counted[h] : n <= published[h]
  /\ \A m, q \in Around : m.host = q.host /\ m.n = q.n => m = q

\* What was counted and is not acknowledged is still held by the client.
CountedHeld ==
  \A m \in consumer.unacked : Known(m) => m \in ToSet(consumer.inbox) \/ m = msg

\* The backlog has no message twice; a process that is down holds nothing.
AtRest ==
  /\ Len(consumer.backlog) <= Cardinality(ToSet(consumer.backlog))
  /\ ~up => /\ consumer.inbox = <<>> /\ pc = "idle"
            /\ \A h \in Hosts : counted[h] = {} /\ highCount[h] = 0

\* What is counted beyond the different readings was pushed again.
OnceOf(h) ==
  /\ IsFiniteSet(counted[h]) /\ Cardinality(counted[h]) <= highCount[h]
  /\ highCount[h] + Load
       <= Cardinality(counted[h]) + Cardinality(Uncounted(h)) + spent.repeats
CountedOnce == \A h \in Hosts : OnceOf(h)

\* When an insert is due the count is reached.
CountReached == pc = "open" /\ metric = "cpu" => highCount[msg.host] >= rule.count

EarnInv == TypeOK /\ Unique /\ CountedHeld /\ AtRest /\ CountedOnce /\ CountReached

-----------------------------------------------------------------------------
(* The steps, by what they do to the count.                                 *)

Counting ==
  /\ AtCpu /\ ~AtCpu' /\ pc' # "idle"
  /\ UNCHANGED <<consumer, published, up, msg>>
  /\ counted' = [counted EXCEPT ![msg.host] = @ \cup {msg.n}]
  /\ highCount' = [highCount EXCEPT ![msg.host] = @ + 1]

Resetting ==
  /\ pc # "idle" /\ pc' # "idle" /\ ~AtCpu'
  /\ UNCHANGED <<consumer, published, up, msg>>
  /\ counted' = [counted EXCEPT ![msg.host] = {}]
  /\ highCount' = [highCount EXCEPT ![msg.host] = 0]

Uninvolved ==
  /\ UNCHANGED <<consumer, published, up, msg, counted, highCount>>
  /\ pc' = "idle" <=> pc = "idle"
  /\ AtCpu' => AtCpu

\* A start that deletes the conflicting consumer and then ends.
Vanished ==
  /\ ~up /\ consumer' = NoConsumer
  /\ UNCHANGED <<published, up, pc, msg, metric, counted, highCount>>

\* Every step is of one of these kinds.
LEMMA StepKinds ==
  ASSUME TypeOK, [Next]_vars
  PROVE  \/ \E h \in Hosts, r \in Readings \cup {Garbled} : Publish(h, r)
         \/ \E m \in consumer.unacked : Redeliver(m) \/ RepeatDelivery(m)
         \/ Start \/ Crash \/ Stop \/ Dispatch \/ Finish
         \/ Counting \/ Resetting \/ Uninvolved \/ Vanished
<1>1. CASE UNCHANGED vars \/ EditRules \/ AbortStart \/ ReloadRules
  <2>1. /\ UNCHANGED <<published, up, msg, counted, highCount, pc, metric>>
        /\ UNCHANGED consumer \/ (~up /\ consumer' = NoConsumer)
    BY <1>1 DEF vars, EditRules, AbortStart, ReloadRules, memory, handler, history
  <2>. QED  BY <2>1 DEF Uninvolved, Vanished, AtCpu
<1>2. CASE StayHigh \/ Raise
  <2>1. /\ pc = "check" /\ pc' \in {"check", "ack", "open"} /\ ~AtCpu'
        /\ UNCHANGED <<consumer, published, up, msg>> /\ CountHigh
    BY <1>2 DEF StayHigh, Raise, Evaluating, Advance, AtCpu
  <2>. QED  BY <2>1 DEF CountHigh, Counting, Uninvolved, AtCpu
<1>3. CASE StayNormal \/ CloseIncident
  <2>1. /\ pc \in {"check", "close"} /\ pc' \in {"check", "ack"} /\ ~AtCpu'
        /\ UNCHANGED <<consumer, published, up, msg>> /\ ResetHigh
    BY <1>3 DEF StayNormal, CloseIncident, Evaluating, Advance, AtCpu
  <2>. QED  BY <2>1 DEF ResetHigh, Resetting, Uninvolved, AtCpu
<1>4. CASE SkipDisabled \/ OpenIncident \/ Recover
  <2>1. /\ pc \in {"check", "open"} /\ pc' \in {"check", "ack", "close"} /\ ~AtCpu'
        /\ UNCHANGED <<consumer, published, up, msg, counted, highCount>>
    BY <1>4 DEF SkipDisabled, OpenIncident, Recover, Evaluating, Advance, AtCpu, memory, history
  <2>. QED  BY <2>1 DEF Uninvolved
<1>. QED  BY <1>1, <1>2, <1>3, <1>4 DEF Next, Callback

\* What the consumer and the callback have is of the type of a message.
LEMMA AroundType ==
  ASSUME TypeOK
  PROVE  /\ Around \subseteq Message
         /\ consumer \in Consumer(Message) /\ consumer.unacked \subseteq Message
         /\ consumer.inbox \in Seq(Message) /\ consumer.backlog \in Seq(Message)
         /\ consumer.unacked \subseteq Around
         /\ ToSet(consumer.inbox) \subseteq Around /\ ToSet(consumer.backlog) \subseteq Around
         /\ NoMessage \notin Message /\ (pc # "idle" => msg \in Message)
         /\ \A m \in Message : m.host \in Hosts /\ m.n \in Nat
<1>1. consumer \in Consumer(Message) /\ consumer.unacked \subseteq Message
      /\ consumer.inbox \in Seq(Message) /\ consumer.backlog \in Seq(Message)
  BY DEF TypeOK, Consumer
<1>2. ToSet(consumer.inbox) \subseteq Message /\ ToSet(consumer.backlog) \subseteq Message
  BY <1>1, ToSetType
<1>3. NoMessage \notin Message /\ (pc # "idle" => msg \in Message)
  BY DEF TypeOK, NoMessage, Message
<1>4. \A m \in Message : m.host \in Hosts /\ m.n \in Nat
  BY DEF Message
<1>. QED  BY <1>1, <1>2, <1>3, <1>4 DEF Around, Inside

\* What a reading published does.
LEMMA PublishFacts ==
  ASSUME TypeOK, NEW h \in Hosts, NEW r \in Readings \cup {Garbled}, Publish(h, r)
  PROVE  \E m \in Message :
           /\ m.host = h /\ m.n = published[h] + 1 /\ published[h] \in Nat
           /\ published' = [published EXCEPT ![h] = published[h] + 1]
           /\ consumer' = Stored(consumer, m, up) /\ UNCHANGED <<up, pc, msg, metric>>
           /\ UNCHANGED <<counted, highCount, spent>>
           /\ consumer'.inbox
                = IF consumer.exists /\ up THEN Append(consumer.inbox, m) ELSE consumer.inbox
           /\ consumer'.backlog
                = IF consumer.exists /\ ~up THEN Append(consumer.backlog, m) ELSE consumer.backlog
           /\ consumer'.unacked
                = IF consumer.exists /\ up THEN consumer.unacked \cup {m} ELSE consumer.unacked
<1>1. PICK m : m = [host |-> h, n |-> published[h] + 1, reading |-> r]
  OBVIOUS
<1>2. published[h] \in Nat /\ published[h] + 1 \in 1..MaxReadings
  BY AlerterAssumption DEF Publish, TypeOK
<1>3. m \in Message /\ m.host = h /\ m.n = published[h] + 1
  BY <1>1, <1>2 DEF Message
<1>4. /\ consumer' = Stored(consumer, m, up) /\ UNCHANGED <<up, pc, msg, metric>>
      /\ UNCHANGED <<counted, highCount, spent>>
      /\ published' = [published EXCEPT ![h] = published[h] + 1]
  BY <1>1 DEF Publish, memory, handler, history
<1>5. consumer \in Consumer(Message)
  BY DEF TypeOK
<1>6. /\ Stored(consumer, m, up).inbox
           = (IF consumer.exists /\ up THEN Append(consumer.inbox, m) ELSE consumer.inbox)
      /\ Stored(consumer, m, up).backlog
           = (IF consumer.exists /\ ~up THEN Append(consumer.backlog, m) ELSE consumer.backlog)
      /\ Stored(consumer, m, up).unacked
           = (IF consumer.exists /\ up THEN consumer.unacked \cup {m} ELSE consumer.unacked)
  BY <1>5, StoredFields
<1>. QED  BY <1>2, <1>3, <1>4, <1>6

\* Nothing but a reading just published is new to the consumer and the callback.
LEMMA AroundStep ==
  ASSUME TypeOK, TypeOK', [Next]_vars
  PROVE  \/ Around' \subseteq Around /\ UNCHANGED published
         \/ \E h \in Hosts, m \in Message :
              /\ m.host = h /\ m.n = published[h] + 1 /\ published[h] \in Nat
              /\ published' = [published EXCEPT ![h] = published[h] + 1]
              /\ Around' \subseteq Around \cup {m}
<1>1. CASE \E h \in Hosts, r \in Readings \cup {Garbled} : Publish(h, r)
  <2>1. PICK h \in Hosts, r \in Readings \cup {Garbled} : Publish(h, r)
    BY <1>1
  <2>2. PICK m \in Message :
          /\ m.host = h /\ m.n = published[h] + 1 /\ published[h] \in Nat
          /\ published' = [published EXCEPT ![h] = published[h] + 1]
          /\ consumer' = Stored(consumer, m, up) /\ UNCHANGED <<up, pc, msg, metric>>
    BY <2>1, PublishFacts
  <2>3. up \in BOOLEAN
    BY DEF TypeOK
  <2>4. Inside(consumer') \subseteq Inside(consumer) \cup {m}
    BY <2>2, <2>3, AroundType, StoredInside
  <2>5. Around' \subseteq Around \cup {m}
    BY <2>2, <2>4 DEF Around
  <2>. QED  BY <2>2, <2>5
<1>2. CASE \E m \in consumer.unacked : Redeliver(m) \/ RepeatDelivery(m)
  <2>1. PICK m \in consumer.unacked : Redeliver(m) \/ RepeatDelivery(m)
    BY <1>2
  <2>2. consumer' = Redelivered(consumer, m) /\ UNCHANGED <<published, pc, msg>>
    BY <2>1 DEF Redeliver, RepeatDelivery, handler
  <2>3. Inside(Redelivered(consumer, m)) \subseteq Inside(consumer) \cup {m}
    BY AroundType, KeptInside
  <2>. QED  BY <2>2, <2>3 DEF Around, Inside
<1>3. CASE Start
  <2>1. consumer' \in {NewConsumer, Subscribed(consumer)} /\ UNCHANGED <<published, pc, msg>>
    BY <1>3 DEF Start, handler
  <2>2. Inside(NewConsumer) = {}
    BY ToSetEmpty DEF Inside, NewConsumer, NoConsumer
  <2>3. Inside(Subscribed(consumer)) \subseteq Inside(consumer)
    BY AroundType, SubscribedInside DEF TypeOK, Consumer
  <2>. QED  BY <2>1, <2>2, <2>3 DEF Around
<1>4. CASE Crash \/ Stop
  <2>1. /\ consumer' \in {Abandoned(consumer), Unsubscribed(consumer)}
        /\ UNCHANGED published /\ pc' = "idle"
    BY <1>4 DEF Crash, Stop, Forget
  <2>2. Inside(NoConsumer) = {}
    BY ToSetEmpty DEF Inside, NoConsumer
  <2>3. Inside(Abandoned(consumer)) \subseteq Inside(consumer)
    BY AroundType, KeptInside
  <2>. QED  BY <2>1, <2>2, <2>3 DEF Around, Unsubscribed
<1>5. CASE Dispatch
  <2>1. /\ consumer' = Taken(consumer) /\ consumer.inbox # <<>> /\ UNCHANGED published
        /\ msg' = Head(consumer.inbox)
    BY <1>5 DEF Dispatch
  <2>2. Inside(Taken(consumer)) \subseteq Inside(consumer) /\ Head(consumer.inbox) \in Inside(consumer)
    BY <2>1, AroundType, KeptInside
  <2>. QED  BY <2>1, <2>2 DEF Around
<1>6. CASE Finish
  <2>1. consumer' = Acked(consumer, msg) /\ UNCHANGED published /\ pc' = "idle"
    BY <1>6 DEF Finish
  <2>2. Inside(Acked(consumer, msg)) \subseteq Inside(consumer)
    BY AroundType, KeptInside
  <2>. QED  BY <2>1, <2>2 DEF Around
<1>7. CASE Counting \/ Resetting \/ Uninvolved
  BY <1>7 DEF Counting, Resetting, Uninvolved, Around, AtCpu
<1>8. CASE Vanished
  <2>1. Inside(NoConsumer) = {}
    BY ToSetEmpty DEF Inside, NoConsumer
  <2>. QED  BY <1>8, <2>1 DEF Vanished, Around
<1>. QED  BY <1>1, <1>2, <1>3, <1>4, <1>5, <1>6, <1>7, <1>8, StepKinds

\* What is counted of a host in a step is what was, or the message in hand too.
LEMMA CountedGrows ==
  ASSUME TypeOK, [Next]_vars, NEW h \in Hosts
  PROVE  \/ counted'[h] \subseteq counted[h]
         \/ /\ UNCHANGED published /\ msg \in Around /\ msg.host = h
            /\ counted'[h] \subseteq counted[h] \cup {msg.n}
<1>1. CASE UNCHANGED counted
  BY <1>1
<1>2. CASE Crash \/ Stop
  BY <1>2 DEF Crash, Stop, Forget
<1>3. CASE Counting
  <2>1. /\ UNCHANGED published /\ pc # "idle"
        /\ counted' = [counted EXCEPT ![msg.host] = counted[msg.host] \cup {msg.n}]
    BY <1>3 DEF Counting, AtCpu
  <2>2. counted'[h] = IF h = msg.host THEN counted[h] \cup {msg.n} ELSE counted[h]
    BY <2>1 DEF TypeOK
  <2>. QED  BY <2>1, <2>2 DEF Around
<1>4. CASE Resetting
  <2>1. counted' = [counted EXCEPT ![msg.host] = {}]
    BY <1>4 DEF Resetting
  <2>. QED  BY <2>1 DEF TypeOK
<1>5. ASSUME \/ \E g \in Hosts, r \in Readings \cup {Garbled} : Publish(g, r)
             \/ \E m \in consumer.unacked : Redeliver(m) \/ RepeatDelivery(m)
             \/ Start \/ Dispatch \/ Finish \/ Uninvolved \/ Vanished
      PROVE  UNCHANGED counted
  BY <1>5 DEF Publish, Redeliver, RepeatDelivery, Start, Dispatch, Finish, Uninvolved, Vanished,
              history
<1>. QED  BY <1>1, <1>2, <1>3, <1>4, <1>5, StepKinds

\* Messages stay apart.
LEMMA UniqueStep ==
  ASSUME TypeOK, TypeOK', [Next]_vars, Unique
  PROVE  Unique'
<1>1. /\ published \in [Hosts -> Nat] /\ published' \in [Hosts -> Nat]
      /\ \A h \in Hosts : counted[h] \subseteq Nat
      /\ \A m \in Around : m.host \in Hosts /\ m.n \in Nat
  BY AroundType, AlerterAssumption, SMTT(30) DEF TypeOK
<1>2. CASE Around' \subseteq Around /\ UNCHANGED published
  <2>1. ASSUME NEW h \in Hosts, NEW n \in counted'[h] PROVE n <= published[h]
    BY <2>1, CountedGrows DEF Unique
  <2>. QED  BY <1>2, <2>1 DEF Unique
<1>3. ASSUME NEW h \in Hosts, NEW m \in Message, m.host = h, m.n = published[h] + 1,
             published' = [published EXCEPT ![h] = published[h] + 1],
             Around' \subseteq Around \cup {m}
      PROVE  Unique'
  <2>1. \A g \in Hosts : published'[g] = IF g = h THEN published[g] + 1 ELSE published[g]
    BY <1>1, <1>3
  <2>2. \A q \in Around \cup {m} : q.n <= published'[q.host]
    BY <1>1, <1>3, <2>1 DEF Unique
  <2>3. \A q \in Around : q.host = m.host => q.n # m.n
    BY <1>1, <1>3, <2>1 DEF Unique
  <2>4. \A p, q \in Around \cup {m} : p.host = q.host /\ p.n = q.n => p = q
    BY <2>3 DEF Unique
  <2>5. published' # published
    BY <1>1, <1>3, <2>1
  <2>6. ASSUME NEW g \in Hosts, NEW n \in counted'[g] PROVE n <= published'[g]
    <3>1. n \in counted[g] /\ n \in Nat /\ n <= published[g]
      BY <1>1, <2>5, <2>6, CountedGrows DEF Unique
    <3>. QED  BY <1>1, <2>1, <3>1
  <2>. QED  BY <1>3, <2>2, <2>4, <2>6 DEF Unique
<1>. QED  BY <1>2, <1>3, AroundStep

\* What is down holds nothing, and nothing is stored twice.
LEMMA AtRestStep ==
  ASSUME TypeOK, TypeOK', [Next]_vars, Unique, AtRest
  PROVE  AtRest'
<1>1. ASSUME NEW h \in Hosts, NEW r \in Readings \cup {Garbled}, Publish(h, r)
      PROVE  AtRest'
  <2>1. PICK m \in Message :
          /\ m.host = h /\ m.n = published[h] + 1 /\ published[h] \in Nat
          /\ UNCHANGED <<up, pc, counted, highCount>>
          /\ consumer'.inbox
               = IF consumer.exists /\ up THEN Append(consumer.inbox, m) ELSE consumer.inbox
          /\ consumer'.backlog
               = IF consumer.exists /\ ~up THEN Append(consumer.backlog, m) ELSE consumer.backlog
    BY <1>1, PublishFacts
  <2>2. ~up' => /\ consumer'.inbox = <<>> /\ pc' = "idle"
                /\ \A g \in Hosts : counted'[g] = {} /\ highCount'[g] = 0
    BY <2>1 DEF AtRest
  <2>3. m \notin Around
    BY <2>1 DEF Unique
  <2>4. PICK q \in Seq(Message) : q = consumer.backlog
    BY AroundType
  <2>5. m \notin ToSet(q) /\ Len(q) <= Cardinality(ToSet(q))
    BY <2>3, <2>4, AroundType DEF AtRest
  <2>6. /\ Len(Append(q, m)) = Len(q) + 1 /\ ToSet(Append(q, m)) = ToSet(q) \cup {m}
        /\ IsFiniteSet(ToSet(q)) /\ Len(q) \in Nat
    BY <2>1, ToSetAppend, ToSetFinite, AppendProperties
  <2>7. Cardinality(ToSet(q) \cup {m}) = Cardinality(ToSet(q)) + 1 /\ Cardinality(ToSet(q)) \in Nat
    BY <2>5, <2>6, FS_AddElement, FS_CardinalityType
  <2>8. Len(Append(q, m)) <= Cardinality(ToSet(Append(q, m)))
    BY <2>5, <2>6, <2>7
  <2>9. Len(consumer'.backlog) <= Cardinality(ToSet(consumer'.backlog))
    BY <2>1, <2>4, <2>5, <2>8
  <2>. QED  BY <2>2, <2>9 DEF AtRest
<1>2. CASE Start \/ Crash \/ Stop
  <2>1. /\ consumer' \in {NewConsumer, Subscribed(consumer), Abandoned(consumer), Unsubscribed(consumer)}
        /\ up' \/ /\ consumer' \in {Abandoned(consumer), Unsubscribed(consumer)} /\ pc' = "idle"
                  /\ counted' = [h \in Hosts |-> {}] /\ highCount' = [h \in Hosts |-> 0]
    BY <1>2 DEF Start, Crash, Stop, Forget
  <2>2. consumer'.backlog \in {<<>>, consumer.backlog}
        /\ (up' \/ consumer'.inbox = <<>>)
    BY <2>1, AroundType, SubscribedFields, GoneFields
  <2>3. Len(<<>>) = 0 /\ ToSet(<<>>) = {} /\ Cardinality({}) = 0
    BY ToSetEmpty, FS_EmptySet
  <2>4. Len(consumer'.backlog) <= Cardinality(ToSet(consumer'.backlog))
    BY <2>2, <2>3, SMTT(30) DEF AtRest
  <2>5. ~up' => /\ consumer'.inbox = <<>> /\ pc' = "idle"
                /\ \A h \in Hosts : counted'[h] = {} /\ highCount'[h] = 0
    BY <2>1, <2>2
  <2>. QED  BY <2>4, <2>5 DEF AtRest
<1>3. ASSUME consumer'.backlog = consumer.backlog, up' = up,
             up \/ UNCHANGED <<consumer, counted, highCount, pc>> \/ Uninvolved
      PROVE  AtRest'
  BY <1>3 DEF AtRest, Uninvolved
<1>4. CASE \E m \in consumer.unacked : Redeliver(m) \/ RepeatDelivery(m)
  <2>1. \E m \in consumer.unacked : consumer' = Redelivered(consumer, m) /\ up /\ UNCHANGED up
    BY <1>4 DEF Redeliver, RepeatDelivery
  <2>. QED  BY <1>3, <2>1, AroundType, BoundFields
<1>5. CASE Dispatch \/ Finish
  <2>1. /\ consumer' \in {Taken(consumer), Acked(consumer, msg)} /\ UNCHANGED up
        /\ up \/ pc # "idle"
    BY <1>5 DEF Dispatch, Finish
  <2>2. consumer'.backlog = consumer.backlog
    <3>1. consumer \in Consumer(Message)
      BY AroundType
    <3>2. /\ Taken(consumer).backlog = consumer.backlog
          /\ Acked(consumer, msg).backlog = consumer.backlog
      BY <3>1, BoundFields
    <3>. QED  BY <2>1, <3>2
  <2>3. up
    BY <2>1 DEF AtRest
  <2>. QED  BY <1>3, <2>1, <2>2, <2>3
<1>6. CASE Counting \/ Resetting \/ Uninvolved
  BY <1>3, <1>6 DEF Counting, Resetting, Uninvolved, AtCpu, AtRest
<1>7. CASE Vanished
  <2>1. /\ consumer'.backlog = <<>> /\ consumer'.inbox = <<>>
        /\ UNCHANGED <<up, pc, counted, highCount>>
    BY <1>7 DEF Vanished, NoConsumer
  <2>2. Len(<<>>) = 0 /\ ToSet(<<>>) = {} /\ Cardinality({}) = 0
    BY ToSetEmpty, FS_EmptySet
  <2>. QED  BY <2>1, <2>2 DEF AtRest
<1>. QED  BY <1>1, <1>2, <1>4, <1>5, <1>6, <1>7, StepKinds

\* What is counted stays with the client until it is acknowledged.
LEMMA CountedHeldStep ==
  ASSUME TypeOK, TypeOK', [Next]_vars, Unique, AtRest, CountedHeld
  PROVE  CountedHeld'
<1>0. consumer \in Consumer(Message) /\ consumer.inbox \in Seq(Message)
  BY AroundType
<1>1. ASSUME NEW h \in Hosts, NEW r \in Readings \cup {Garbled}, Publish(h, r)
      PROVE  CountedHeld'
  <2>1. PICK m \in Message :
          /\ UNCHANGED <<msg, counted>>
          /\ consumer'.inbox
               = IF consumer.exists /\ up THEN Append(consumer.inbox, m) ELSE consumer.inbox
          /\ consumer'.unacked
               = IF consumer.exists /\ up THEN consumer.unacked \cup {m} ELSE consumer.unacked
    BY <1>1, PublishFacts
  <2>2. ToSet(Append(consumer.inbox, m)) = ToSet(consumer.inbox) \cup {m}
    BY <1>0, ToSetAppend
  <2>. QED  BY <2>1, <2>2 DEF CountedHeld, Known
<1>2. CASE \E m \in consumer.unacked : Redeliver(m) \/ RepeatDelivery(m)
  <2>1. PICK m \in consumer.unacked :
          consumer' = Redelivered(consumer, m) /\ UNCHANGED <<msg, counted>>
    BY <1>2 DEF Redeliver, RepeatDelivery, handler, history
  <2>2. m \in Message
    BY AroundType
  <2>3. consumer'.unacked = consumer.unacked /\ ToSet(consumer'.inbox) = ToSet(consumer.inbox) \cup {m}
    <3>1. consumer'.unacked = consumer.unacked /\ consumer'.inbox = Append(consumer.inbox, m)
      BY <1>0, <2>1, BoundFields
    <3>. QED  BY <1>0, <2>2, <3>1, ToSetAppend
  <2>. QED  BY <2>1, <2>3 DEF CountedHeld, Known
<1>3. CASE Start \/ Crash \/ Stop
  <2>1. \A h \in Hosts : counted'[h] = {}
    BY <1>3 DEF Start, Crash, Stop, Forget, history, AtRest
  <2>2. \A m \in consumer'.unacked : m.host \in Hosts
    BY DEF TypeOK, Consumer, Message
  <2>. QED  BY <2>1, <2>2 DEF CountedHeld, Known
<1>4. CASE Dispatch
  <2>1. /\ consumer' = Taken(consumer) /\ consumer.inbox # <<>> /\ UNCHANGED counted
        /\ msg' = Head(consumer.inbox) /\ msg = NoMessage
    BY <1>4 DEF Dispatch, history, TypeOK
  <2>2. consumer'.unacked = consumer.unacked /\ consumer'.inbox = Tail(consumer.inbox)
    BY <1>0, <2>1, BoundFields
  <2>3. ToSet(consumer.inbox) \subseteq ToSet(Tail(consumer.inbox)) \cup {Head(consumer.inbox)}
    BY <1>0, <2>1, ToSetHead
  <2>4. \A m \in consumer.unacked : m # msg
    BY <2>1, AroundType
  <2>. QED  BY <2>1, <2>2, <2>3, <2>4 DEF CountedHeld, Known
<1>5. CASE Finish
  <2>1. consumer' = Acked(consumer, msg) /\ UNCHANGED counted
    BY <1>5 DEF Finish, history
  <2>2. consumer'.unacked = consumer.unacked \ {msg} /\ consumer'.inbox = consumer.inbox
    BY <1>0, <2>1, BoundFields
  <2>. QED  BY <2>1, <2>2 DEF CountedHeld, Known
<1>6. CASE Counting
  <2>1. /\ UNCHANGED <<consumer, msg>> /\ pc # "idle" /\ msg \in Message /\ msg.host \in Hosts
        /\ counted' = [counted EXCEPT ![msg.host] = counted[msg.host] \cup {msg.n}]
    BY <1>6, AroundType DEF Counting, AtCpu
  <2>2. \A m \in consumer.unacked : m \in Around /\ m.host \in Hosts
    BY AroundType
  <2>3. \A m \in consumer.unacked : m.host = msg.host /\ m.n = msg.n => m = msg
    BY <2>1, <2>2 DEF Unique, Around
  <2>4. \A h \in Hosts : counted'[h] = IF h = msg.host THEN counted[h] \cup {msg.n} ELSE counted[h]
    BY <2>1 DEF TypeOK
  <2>. QED  BY <2>1, <2>2, <2>3, <2>4 DEF CountedHeld, Known
<1>7. CASE Resetting
  <2>1. UNCHANGED <<consumer, msg>> /\ counted' = [counted EXCEPT ![msg.host] = {}]
    BY <1>7 DEF Resetting
  <2>2. \A h \in Hosts : counted'[h] \subseteq counted[h]
    BY <2>1 DEF TypeOK
  <2>3. \A m \in consumer.unacked : m.host \in Hosts
    BY AroundType
  <2>. QED  BY <2>1, <2>2, <2>3 DEF CountedHeld, Known
<1>8. CASE Uninvolved
  BY <1>8 DEF Uninvolved, CountedHeld, Known
<1>9. CASE Vanished
  BY <1>9 DEF Vanished, NoConsumer, CountedHeld
<1>. QED  BY <1>1, <1>2, <1>3, <1>4, <1>5, <1>6, <1>7, <1>8, <1>9, StepKinds

\* The insert is due only when the count was.
LEMMA CountReachedStep ==
  ASSUME TypeOK, [Next]_vars, CountReached
  PROVE  CountReached'
<1>1. CASE UNCHANGED <<pc, msg, view, metric, highCount>>
  BY <1>1 DEF CountReached, rule
<1>2. CASE pc' # "open"
  BY <1>2 DEF CountReached
<1>3. CASE Raise
  <2>. SUFFICES ASSUME metric' = "cpu" PROVE highCount'[msg.host] >= rule.count
    BY <1>3 DEF CountReached, rule, Raise, Evaluating
  <2>1. /\ metric = "cpu" /\ pc # "idle" /\ highCount[msg.host] + 1 >= rule.count
        /\ highCount' = [highCount EXCEPT ![msg.host] = highCount[msg.host] + 1]
    BY <1>3 DEF Raise, Evaluating, Due, CountHigh
  <2>2. msg.host \in Hosts
    BY <2>1, KeyType
  <2>3. highCount'[msg.host] = highCount[msg.host] + 1
    BY <2>1, <2>2 DEF TypeOK
  <2>. QED  BY <2>1, <2>3
<1>. QED
  BY <1>1, <1>2, <1>3 DEF Next, Callback, vars, Publish, EditRules, AbortStart, ReloadRules,
     Redeliver, RepeatDelivery, Start, Crash, Stop, Forget, Dispatch, SkipDisabled, StayHigh,
     OpenIncident, StayNormal, Recover, CloseIncident, Finish, Advance, memory, handler, history

\* Adding or losing one element changes the number by one.
LEMMA OneElement ==
  ASSUME NEW A, NEW B, NEW x, IsFiniteSet(A), IsFiniteSet(B)
  PROVE  /\ Cardinality(A) \in Nat /\ Cardinality(B) \in Nat
         /\ A \subseteq B => Cardinality(A) <= Cardinality(B)
         /\ A \subseteq B \cup {x} => Cardinality(A) <= Cardinality(B) + 1
         /\ x \notin A /\ A \cup {x} \subseteq B => Cardinality(A) + 1 <= Cardinality(B)
<1>1. Cardinality(A) \in Nat /\ Cardinality(B) \in Nat
  BY FS_CardinalityType
<1>2. A \subseteq B => Cardinality(A) <= Cardinality(B)
  BY FS_Subset
<1>3. /\ IsFiniteSet(B \cup {x}) /\ Cardinality(B \cup {x}) <= Cardinality(B) + 1
      /\ Cardinality(B \cup {x}) \in Nat
  BY <1>1, FS_AddElement, FS_CardinalityType
<1>4. A \subseteq B \cup {x} => Cardinality(A) <= Cardinality(B \cup {x})
  BY <1>3, FS_Subset
<1>5. x \notin A => Cardinality(A \cup {x}) = Cardinality(A) + 1
  BY FS_AddElement
<1>6. A \cup {x} \subseteq B => Cardinality(A \cup {x}) <= Cardinality(B)
  BY FS_Subset
<1>. QED  BY <1>1, <1>2, <1>3, <1>4, <1>5, <1>6

\* Part of a queue and of the message in hand is finite, and not more than they
\* are.
LEMMA PartFinite ==
  ASSUME NEW M, NEW q \in Seq(M), NEW x, NEW b \in BOOLEAN,
         NEW T, T \subseteq ToSet(q) \cup (IF b THEN {x} ELSE {})
  PROVE  /\ IsFiniteSet(T) /\ Len(q) \in Nat
         /\ Cardinality(T) \in Nat /\ Cardinality(T) <= Len(q) + (IF b THEN 1 ELSE 0)
<1>1. IsFiniteSet(ToSet(q)) /\ Cardinality(ToSet(q)) <= Len(q) /\ Len(q) \in Nat
  BY ToSetFinite
<1>2. IsFiniteSet(ToSet(q) \cup {x})
  BY <1>1, FS_AddElement
<1>3. IsFiniteSet(T)
  BY <1>2, FS_Subset
<1>4. PICK S : S = ToSet(q)
  OBVIOUS
<1>5. Cardinality(T) \in Nat /\ Cardinality(S) \in Nat /\ Cardinality(T) <= Cardinality(S) + 1
  <2>1. T \subseteq S \cup {x}
    BY <1>4
  <2>. QED  BY <1>1, <1>3, <1>4, <2>1, OneElement
<1>6. CASE b
  BY <1>1, <1>3, <1>4, <1>5, <1>6
<1>7. CASE ~b
  <2>1. T \subseteq S
    BY <1>4, <1>7
  <2>2. Cardinality(T) <= Cardinality(S)
    BY <1>1, <1>3, <1>4, <2>1, OneElement
  <2>. QED  BY <1>1, <1>3, <1>4, <1>5, <1>7, <2>2
<1>. QED  BY <1>6, <1>7

\* The account of a host balances when no more deliveries come to it than new
\* messages and repetitions.
LEMMA OnceKept ==
  ASSUME NEW h \in Hosts, TypeOK, OnceOf(h), counted'[h] = counted[h], highCount'[h] = highCount[h],
         {Load, Load', spent.repeats, spent'.repeats} \subseteq Nat,
         IsFiniteSet(Uncounted(h)), IsFiniteSet(Uncounted(h)'),
         Load' + Cardinality(Uncounted(h)) + spent.repeats
           <= Load + Cardinality(Uncounted(h)') + spent'.repeats
  PROVE  OnceOf(h)'
<1>1. /\ Cardinality(Uncounted(h)) \in Nat /\ Cardinality(Uncounted(h)') \in Nat
      /\ IsFiniteSet(counted[h]) /\ Cardinality(counted[h]) \in Nat /\ highCount[h] \in Nat
  BY FS_CardinalityType DEF OnceOf, TypeOK
<1>. QED  BY <1>1 DEF OnceOf

\* What can be counted, before and after a step.
LEMMA OnceTypes ==
  ASSUME TypeOK, TypeOK', [Next]_vars
  PROVE  /\ {Load, Load', spent.repeats, spent'.repeats} \subseteq Nat
         /\ spent.repeats <= spent'.repeats
         /\ \A h : IsFiniteSet(Uncounted(h)) /\ IsFiniteSet(Uncounted(h)')
<1>1. /\ spent.repeats \in Nat /\ spent'.repeats \in Nat /\ spent.repeats <= spent'.repeats
  BY LimitsDomain, SpentGrows
<1>2. consumer.inbox \in Seq(Message) /\ consumer'.inbox \in Seq(Message)
  BY DEF TypeOK, Consumer
<1>3. AtCpu \in BOOLEAN /\ AtCpu' \in BOOLEAN
  BY DEF AtCpu
<1>4. ASSUME NEW h
      PROVE  IsFiniteSet(Uncounted(h))
  BY <1>2, <1>3, PartFinite DEF Uncounted, Ahead
<1>5. ASSUME NEW h
      PROVE  IsFiniteSet(Uncounted(h)')
  <2>1. Uncounted(h)' \subseteq ToSet(consumer'.inbox) \cup (IF AtCpu' THEN {msg'} ELSE {})
    BY DEF Uncounted, Ahead
  <2>. QED  BY <1>2, <1>3, <2>1, PartFinite
<1>6. Load \in Nat /\ Load' \in Nat
  <2>1. Len(consumer.inbox) \in Nat /\ Len(consumer'.inbox) \in Nat
    BY <1>2, LenProperties
  <2>2. \A n \in Nat : n + (IF AtCpu THEN 1 ELSE 0) \in Nat /\ n + (IF AtCpu' THEN 1 ELSE 0) \in Nat
    BY <1>3
  <2>. QED  BY <2>1, <2>2 DEF Load
<1>. QED  BY <1>1, <1>4, <1>5, <1>6

\* A step that at most takes the reading in hand off the load.
LEMMA OneLeaves ==
  ASSUME TypeOK, TypeOK', [Next]_vars, NEW h \in Hosts,
         consumer'.inbox = consumer.inbox, UNCHANGED msg \/ ~AtCpu, AtCpu' => AtCpu,
         counted'[h] \subseteq counted[h]
  PROVE  Load' + Cardinality(Uncounted(h)) <= Load + Cardinality(Uncounted(h)')
<1>1. /\ {Load, Load'} \subseteq Nat
      /\ IsFiniteSet(Uncounted(h)) /\ IsFiniteSet(Uncounted(h)')
  BY OnceTypes
<1>2. Len(consumer.inbox) \in Nat
  BY LenProperties DEF TypeOK, Consumer
<1>3. CASE AtCpu /\ ~AtCpu'
  <2>1. Load' + 1 = Load
    BY <1>2, <1>3 DEF Load
  <2>2. Uncounted(h) \subseteq Uncounted(h)' \cup {msg}
    BY <1>3 DEF Uncounted, Ahead, Known
  <2>3. /\ Cardinality(Uncounted(h)) \in Nat /\ Cardinality(Uncounted(h)') \in Nat
        /\ Cardinality(Uncounted(h)) <= Cardinality(Uncounted(h)') + 1
    BY <1>1, <2>2, OneElement
  <2>. QED  BY <1>1, <2>1, <2>3
<1>4. CASE AtCpu <=> AtCpu'
  <2>1. Load' = Load
    BY <1>2, <1>4 DEF Load
  <2>2. Uncounted(h) \subseteq Uncounted(h)'
    BY <1>4 DEF Uncounted, Ahead, Known
  <2>. QED  BY <1>1, <2>1, <2>2, OneElement
<1>. QED  BY <1>3, <1>4 DEF AtCpu

\* Whatever happens, what is counted of a host beyond its different readings
\* was pushed again.
LEMMA CountedOnceStep ==
  ASSUME TypeOK, TypeOK', [Next]_vars, Unique, CountedHeld, AtRest, CountedOnce
  PROVE  CountedOnce'
<1>0. /\ consumer \in Consumer(Message) /\ consumer.inbox \in Seq(Message)
      /\ {Load, Load', spent.repeats, spent'.repeats} \subseteq Nat
      /\ spent.repeats <= spent'.repeats /\ Len(consumer.inbox) \in Nat
  BY AroundType, OnceTypes, ToSetFinite
<1>1. ASSUME NEW h \in Hosts, counted'[h] = counted[h], highCount'[h] = highCount[h],
             Load' + Cardinality(Uncounted(h)) + spent.repeats
               <= Load + Cardinality(Uncounted(h)') + spent'.repeats
      PROVE  OnceOf(h)'
  BY <1>0, <1>1, OnceTypes, OnceKept DEF CountedOnce
<1>2. ASSUME NEW h \in Hosts
      PROVE  /\ IsFiniteSet(Uncounted(h)) /\ IsFiniteSet(Uncounted(h)')
             /\ Cardinality(Uncounted(h)) \in Nat /\ Cardinality(Uncounted(h)') \in Nat
             /\ IsFiniteSet(counted[h]) /\ Cardinality(counted[h]) \in Nat
             /\ highCount[h] \in Nat /\ Cardinality(counted[h]) <= highCount[h]
             /\ highCount[h] + Load
                  <= Cardinality(counted[h]) + Cardinality(Uncounted(h)) + spent.repeats
  BY OnceTypes, FS_CardinalityType DEF CountedOnce, OnceOf, TypeOK
<1>k. Load \in Nat /\ Load' \in Nat /\ spent.repeats \in Nat /\ spent'.repeats \in Nat
  BY <1>0
<1>3. ASSUME NEW m \in Message, UNCHANGED <<pc, metric, msg, counted, highCount>>,
             consumer'.inbox = Append(consumer.inbox, m)
      PROVE  /\ Load' = Load + 1 /\ Ahead' = Ahead \cup {m}
             /\ \A h : Uncounted(h) \subseteq Uncounted(h)'
  <2>1. /\ Len(Append(consumer.inbox, m)) = Len(consumer.inbox) + 1
        /\ ToSet(Append(consumer.inbox, m)) = ToSet(consumer.inbox) \cup {m}
    BY <1>0, ToSetAppend, AppendProperties
  <2>2. AtCpu' = AtCpu
    BY <1>3 DEF AtCpu
  <2>3. Load' = Load + 1
    <3>1. CASE AtCpu
      BY <1>0, <1>3, <2>1, <2>2, <3>1 DEF Load
    <3>2. CASE ~AtCpu
      BY <1>0, <1>3, <2>1, <2>2, <3>2 DEF Load
    <3>. QED  BY <3>1, <3>2
  <2>4. Ahead' = Ahead \cup {m}
    BY <1>3, <2>1, <2>2 DEF Ahead
  <2>. QED  BY <1>3, <2>3, <2>4 DEF Uncounted, Known
<1>4. ASSUME NEW m \in Message, UNCHANGED <<pc, metric, msg, counted, highCount>>,
             consumer'.inbox = Append(consumer.inbox, m), m \notin Ahead, ~Known(m),
             NEW h \in Hosts
      PROVE  OnceOf(h)'
  <2>1. Load' = Load + 1 /\ Ahead' = Ahead \cup {m} /\ Uncounted(h) \subseteq Uncounted(h)'
    BY <1>3, <1>4
  <2>2. m \notin Uncounted(h) /\ Uncounted(h) \cup {m} \subseteq Uncounted(h)'
    BY <1>4, <2>1 DEF Uncounted, Known
  <2>3. Cardinality(Uncounted(h)) + 1 <= Cardinality(Uncounted(h)')
    BY <1>2, <2>2, OneElement
  <2>4. Load' + Cardinality(Uncounted(h)) + spent.repeats
          <= Load + Cardinality(Uncounted(h)') + spent'.repeats
    BY <1>0, <1>2, <2>1, <2>3, SMTT(30)
  <2>. QED  BY <1>1, <1>4, <2>4
<1>5. ASSUME NEW h \in Hosts, consumer'.inbox = consumer.inbox, UNCHANGED msg \/ ~AtCpu,
             AtCpu' => AtCpu, counted'[h] = counted[h], highCount'[h] = highCount[h]
      PROVE  OnceOf(h)'
  <2>1. Load' + Cardinality(Uncounted(h)) <= Load + Cardinality(Uncounted(h)')
    BY <1>5, OneLeaves
  <2>2. Load' + Cardinality(Uncounted(h)) + spent.repeats
          <= Load + Cardinality(Uncounted(h)') + spent'.repeats
    BY <1>0, <1>2, <2>1
  <2>. QED  BY <1>1, <1>5, <2>2
<1>6. ASSUME NEW g \in Hosts, NEW r \in Readings \cup {Garbled}, Publish(g, r), NEW h \in Hosts
      PROVE  OnceOf(h)'
  <2>1. PICK m \in Message :
          /\ m.host = g /\ m.n = published[g] + 1 /\ published[g] \in Nat
          /\ UNCHANGED <<pc, metric, msg, counted, highCount>>
          /\ consumer'.inbox
               = IF consumer.exists /\ up THEN Append(consumer.inbox, m) ELSE consumer.inbox
    BY <1>6, PublishFacts
  <2>2. CASE consumer.exists /\ up
    <3>1. m \notin Around /\ ~Known(m)
      BY <2>1 DEF Unique, Known
    <3>2. m \notin Ahead
      BY <3>1, AroundType DEF Ahead, Around, AtCpu
    <3>. QED  BY <1>4, <2>1, <2>2, <3>1, <3>2
  <2>3. CASE ~(consumer.exists /\ up)
    BY <1>5, <2>1, <2>3 DEF AtCpu
  <2>. QED  BY <2>2, <2>3
<1>7. ASSUME NEW m \in consumer.unacked, Redeliver(m) \/ RepeatDelivery(m), NEW h \in Hosts
      PROVE  OnceOf(h)'
  <2>1. /\ consumer' = Redelivered(consumer, m) /\ m \in Message
        /\ UNCHANGED <<pc, metric, msg, counted, highCount>>
    BY <1>7, AroundType DEF Redeliver, RepeatDelivery, handler, memory, history
  <2>2. consumer'.inbox = Append(consumer.inbox, m)
    BY <1>0, <2>1, BoundFields
  <2>3. CASE Redeliver(m)
    <3>1. m # msg /\ m \notin ToSet(consumer.inbox)
      BY <2>3 DEF Redeliver, InInbox
    <3>2. m \notin Ahead /\ ~Known(m)
      BY <3>1 DEF Ahead, CountedHeld
    <3>. QED  BY <1>4, <2>1, <2>2, <3>2
  <2>4. CASE RepeatDelivery(m)
    <3>1. spent'.repeats = spent.repeats + 1
      BY <2>4, LimitsDomain, SpendAmount DEF RepeatDelivery
    <3>2. Load' = Load + 1 /\ Uncounted(h) \subseteq Uncounted(h)'
      BY <1>3, <2>1, <2>2
    <3>3. Cardinality(Uncounted(h)) <= Cardinality(Uncounted(h)')
      BY <1>2, <3>2, OneElement
    <3>4. Load' + Cardinality(Uncounted(h)) + spent.repeats
            <= Load + Cardinality(Uncounted(h)') + spent'.repeats
      <4>1. Load' = Load + 1
        BY <3>2
      <4>2. Cardinality(Uncounted(h)) \in Nat /\ Cardinality(Uncounted(h)') \in Nat
        BY <1>2
      <4>. QED  BY <1>0, <3>1, <3>3, <4>1, <4>2, SMTT(30)
    <3>. QED  BY <1>1, <2>1, <3>4
  <2>. QED  BY <1>7, <2>3, <2>4
<1>8. ASSUME Start, NEW h \in Hosts PROVE OnceOf(h)'
  <2>1. /\ ~up /\ consumer' \in {NewConsumer, Subscribed(consumer)}
        /\ UNCHANGED <<pc, metric, counted, highCount>>
    BY <1>8 DEF Start, handler, history
  <2>2. counted'[h] = {} /\ highCount'[h] = 0 /\ ~AtCpu'
    BY <2>1 DEF AtRest, AtCpu
  <2>3. PICK q \in Seq(Message) : q = consumer.backlog
    BY AroundType
  <2>4. consumer'.inbox \in {<<>>, q}
    BY <1>0, <2>1, <2>3, SubscribedFields
  <2>5. Len(q) <= Cardinality(ToSet(q)) /\ Len(<<>>) <= Cardinality(ToSet(<<>>))
    <3>1. Len(<<>>) = 0 /\ Cardinality(ToSet(<<>>)) = 0
      BY ToSetEmpty, FS_EmptySet
    <3>. QED  BY <2>3, <3>1 DEF AtRest
  <2>6. Uncounted(h)' = ToSet(consumer'.inbox) /\ Load' = Len(consumer'.inbox)
    BY <2>2, <2>4, LenProperties, EmptyType DEF Uncounted, Ahead, Load, Known
  <2>7. Load' <= Cardinality(Uncounted(h)')
    BY <2>4, <2>5, <2>6
  <2>. QED  BY <1>0, <1>2, <2>2, <2>7, FS_EmptySet DEF OnceOf
<1>9. ASSUME Crash \/ Stop \/ Vanished, NEW h \in Hosts PROVE OnceOf(h)'
  <2>1. /\ consumer' \in {Abandoned(consumer), Unsubscribed(consumer), NoConsumer}
        /\ pc' = "idle" /\ counted'[h] = {} /\ highCount'[h] = 0
    BY <1>9 DEF Crash, Stop, Forget, Vanished, AtRest
  <2>2. consumer'.inbox = <<>>
    BY <1>0, <2>1, GoneFields DEF NoConsumer
  <2>3. Load' = 0
    BY <2>1, <2>2 DEF Load, AtCpu
  <2>. QED  BY <1>0, <1>2, <2>1, <2>3, FS_EmptySet DEF OnceOf
<1>10. ASSUME Dispatch, NEW h \in Hosts PROVE OnceOf(h)'
  <2>1. /\ consumer' = Taken(consumer) /\ consumer.inbox # <<>> /\ ~AtCpu
        /\ msg' = Head(consumer.inbox) /\ UNCHANGED <<counted, highCount>>
    BY <1>10 DEF Dispatch, memory, history, AtCpu
  <2>2. consumer'.inbox = Tail(consumer.inbox)
    BY <1>0, <2>1, BoundFields
  <2>3. ToSet(consumer.inbox) \subseteq ToSet(Tail(consumer.inbox)) \cup {Head(consumer.inbox)}
    BY <1>0, <2>1, ToSetHead
  <2>4. Len(Tail(consumer.inbox)) = Len(consumer.inbox) - 1
    BY <1>0, <2>1, HeadTailProperties
  <2>5. Load' + Cardinality(Uncounted(h)) <= Load + Cardinality(Uncounted(h)')
    <3>1. CASE AtCpu'
      <4>1. Load' = Load
        BY <1>0, <2>1, <2>2, <2>4, <3>1 DEF Load
      <4>2. Uncounted(h) \subseteq Uncounted(h)'
        BY <2>1, <2>2, <2>3, <3>1 DEF Uncounted, Ahead, Known
      <4>3. Cardinality(Uncounted(h)) <= Cardinality(Uncounted(h)')
        BY <1>2, <4>2, OneElement
      <4>. QED  BY <1>0, <1>2, <4>1, <4>3
    <3>2. CASE ~AtCpu'
      <4>1. Load' = Load - 1
        BY <1>0, <2>1, <2>2, <2>4, <3>2 DEF Load
      <4>2. Uncounted(h) \subseteq Uncounted(h)' \cup {Head(consumer.inbox)}
        BY <2>1, <2>2, <2>3, <3>2 DEF Uncounted, Ahead, Known
      <4>3. Cardinality(Uncounted(h)) <= Cardinality(Uncounted(h)') + 1
        BY <1>2, <4>2, OneElement
      <4>. QED  BY <1>0, <1>2, <4>1, <4>3
    <3>. QED  BY <3>1, <3>2
  <2>6. Load' + Cardinality(Uncounted(h)) + spent.repeats
          <= Load + Cardinality(Uncounted(h)') + spent'.repeats
    BY <1>0, <1>2, <2>5
  <2>. QED  BY <1>1, <2>1, <2>6
<1>11. ASSUME Finish, NEW h \in Hosts PROVE OnceOf(h)'
  <2>1. /\ consumer' = Acked(consumer, msg) /\ ~AtCpu /\ ~AtCpu'
        /\ UNCHANGED <<counted, highCount>>
    BY <1>11 DEF Finish, memory, history, AtCpu
  <2>2. consumer'.inbox = consumer.inbox
    BY <1>0, <2>1, BoundFields
  <2>. QED  BY <1>5, <2>1, <2>2
<1>12. ASSUME Counting, NEW h \in Hosts PROVE OnceOf(h)'
  <2>1. /\ AtCpu /\ ~AtCpu' /\ pc # "idle" /\ UNCHANGED <<consumer, msg>>
        /\ counted' = [counted EXCEPT ![msg.host] = counted[msg.host] \cup {msg.n}]
        /\ highCount' = [highCount EXCEPT ![msg.host] = highCount[msg.host] + 1]
        /\ msg.host \in Hosts /\ msg \in Around
    BY <1>12, KeyType DEF Counting, AtCpu, Around
  <2>2. CASE h # msg.host
    <3>1. counted'[h] = counted[h] /\ highCount'[h] = highCount[h]
      BY <2>1, <2>2 DEF TypeOK
    <3>. QED  BY <1>5, <2>1, <3>1
  <2>3. CASE h = msg.host
    <3>1. counted'[h] = counted[h] \cup {msg.n} /\ highCount'[h] = highCount[h] + 1
      BY <2>1, <2>3 DEF TypeOK
    <3>2. Load' = Load - 1
      BY <1>0, <2>1 DEF Load
    <3>n. /\ highCount[h] \in Nat /\ Cardinality(counted[h]) \in Nat
          /\ Cardinality(Uncounted(h)) \in Nat /\ Cardinality(Uncounted(h)') \in Nat
          /\ Cardinality(counted[h]) <= highCount[h] /\ spent.repeats <= spent'.repeats
          /\ highCount[h] + Load
               <= Cardinality(counted[h]) + Cardinality(Uncounted(h)) + spent.repeats
      BY <1>0, <1>2
    <3>3. \A m \in Ahead : m.host = h /\ m.n = msg.n => m = msg
      BY <2>1, <2>3, AroundType DEF Unique, Ahead
    <3>4. Uncounted(h) \subseteq Uncounted(h)' \cup {msg}
      BY <2>1, <3>1, <3>3 DEF Uncounted, Ahead, Known
    <3>5. PICK n, S : n = msg.n /\ S = counted[h]
      OBVIOUS
    <3>6. /\ IsFiniteSet(S) /\ Cardinality(S) \in Nat /\ IsFiniteSet(S \cup {n})
          /\ Cardinality(S \cup {n}) = IF n \in S THEN Cardinality(S) ELSE Cardinality(S) + 1
      BY <1>2, <3>5, FS_AddElement
    <3>7. CASE n \in S
      <4>1. S \cup {n} = S
        BY <3>7
      <4>2. counted'[h] = counted[h]
        BY <3>1, <3>5, <4>1
      <4>3. Uncounted(h) \subseteq Uncounted(h)'
        BY <2>1, <2>3, <3>4, <3>5, <3>7, <4>2 DEF Uncounted, Ahead, Known
      <4>4. Cardinality(Uncounted(h)) <= Cardinality(Uncounted(h)')
        BY <1>2, <4>3, OneElement
      <4>5. Cardinality(counted'[h]) = Cardinality(counted[h]) /\ IsFiniteSet(counted'[h])
        BY <1>2, <4>2
      <4>6. /\ highCount'[h] = highCount[h] + 1 /\ Cardinality(counted[h]) <= highCount'[h]
            /\ highCount'[h] + Load'
                 <= Cardinality(counted[h]) + Cardinality(Uncounted(h)') + spent'.repeats
        BY <1>k, <3>1, <3>2, <3>n, <4>4
      <4>. QED  BY <4>5, <4>6 DEF OnceOf
    <3>8. CASE n \notin S
      <4>1. Cardinality(counted'[h]) = Cardinality(counted[h]) + 1 /\ IsFiniteSet(counted'[h])
        BY <3>1, <3>5, <3>6, <3>8
      <4>2. Cardinality(Uncounted(h)) <= Cardinality(Uncounted(h)') + 1
        BY <1>2, <3>4, OneElement
      <4>3. /\ highCount'[h] = highCount[h] + 1 /\ Cardinality(counted[h]) + 1 <= highCount'[h]
            /\ highCount'[h] + Load'
                 <= Cardinality(counted[h]) + 1 + Cardinality(Uncounted(h)') + spent'.repeats
        BY <1>k, <3>1, <3>2, <3>n, <4>2
      <4>. QED  BY <4>1, <4>3 DEF OnceOf
    <3>. QED  BY <3>7, <3>8
  <2>. QED  BY <2>2, <2>3
<1>13. ASSUME Resetting, NEW h \in Hosts PROVE OnceOf(h)'
  <2>1. /\ ~AtCpu' /\ UNCHANGED <<consumer, msg>>
        /\ counted' = [counted EXCEPT ![msg.host] = {}]
        /\ highCount' = [highCount EXCEPT ![msg.host] = 0]
    BY <1>13 DEF Resetting
  <2>2. CASE h # msg.host
    <3>1. counted'[h] = counted[h] /\ highCount'[h] = highCount[h]
      BY <2>1, <2>2 DEF TypeOK
    <3>. QED  BY <1>5, <2>1, <3>1
  <2>3. CASE h = msg.host
    <3>1. counted'[h] = {} /\ highCount'[h] = 0
      BY <2>1, <2>3 DEF TypeOK
    <3>2. Load' + Cardinality(Uncounted(h)) <= Load + Cardinality(Uncounted(h)')
      BY <2>1, <3>1, OneLeaves
    <3>n. /\ highCount[h] \in Nat /\ Cardinality(counted[h]) \in Nat
          /\ Cardinality(Uncounted(h)) \in Nat /\ Cardinality(Uncounted(h)') \in Nat
          /\ Cardinality(counted[h]) <= highCount[h] /\ spent.repeats <= spent'.repeats
          /\ highCount[h] + Load
               <= Cardinality(counted[h]) + Cardinality(Uncounted(h)) + spent.repeats
      BY <1>0, <1>2
    <3>3. Cardinality(counted'[h]) = 0 /\ IsFiniteSet(counted'[h])
      BY <3>1, FS_EmptySet
    <3>4. 0 + Load' <= 0 + Cardinality(Uncounted(h)') + spent'.repeats
      BY <1>k, <3>2, <3>n
    <3>. QED  BY <3>1, <3>3, <3>4 DEF OnceOf
  <2>. QED  BY <2>2, <2>3
<1>14. ASSUME Uninvolved, NEW h \in Hosts PROVE OnceOf(h)'
  BY <1>5, <1>14 DEF Uninvolved
<1>. QED
  BY <1>6, <1>7, <1>8, <1>9, <1>10, <1>11, <1>12, <1>13, <1>14, StepKinds DEF CountedOnce

\* Behind a CPU alert there are as many different high readings as the rule
\* asks for, less one for each delivery of a message the client still held:
\* whatever is lost, restarted, edited or fails.
THEOREM CpuAlertEarnedAlways == Spec => []CpuAlertEarned
<1>1. Init => EarnInv
  <2>. SUFFICES ASSUME Init PROVE EarnInv
    OBVIOUS
  <2>1. TypeOK
    BY InitType
  <2>2. /\ consumer = NoConsumer /\ pc = "idle" /\ spent.repeats = 0
        /\ \A h \in Hosts : counted[h] = {} /\ highCount[h] = 0
    BY LimitsDomain DEF Init
  <2>3. /\ consumer.inbox = <<>> /\ consumer.backlog = <<>> /\ consumer.unacked = {}
        /\ ToSet(<<>>) = {} /\ Len(<<>>) = 0
    BY <2>2, ToSetEmpty DEF NoConsumer
  <2>4. Around = {} /\ Ahead = {} /\ Load = 0
    BY <2>2, <2>3 DEF Around, Inside, Ahead, Load, AtCpu
  <2>5. Unique /\ CountedHeld /\ AtRest /\ CountReached
    BY <2>2, <2>3, <2>4, FS_EmptySet, SMTT(30) DEF Unique, CountedHeld, AtRest, CountReached
  <2>6. \A h : Uncounted(h) = {}
    BY <2>4 DEF Uncounted
  <2>7. CountedOnce
    BY <2>2, <2>4, <2>6, FS_EmptySet DEF CountedOnce, OnceOf
  <2>. QED  BY <2>1, <2>5, <2>7 DEF EarnInv
<1>2. EarnInv /\ [Next]_vars => EarnInv'
  BY StepType, UniqueStep, AtRestStep, CountedHeldStep, CountReachedStep, CountedOnceStep
  DEF EarnInv
<1>3. ASSUME EarnInv PROVE CpuAlertEarned
  <2>. SUFFICES ASSUME pc = "open", metric = "cpu"
                PROVE  Cardinality(counted[msg.host]) + spent.repeats >= rule.count
    BY DEF CpuAlertEarned
  <2>1. PICK h \in Hosts : h = msg.host
    BY <1>3, KeyType DEF EarnInv
  <2>2. OnceOf(h) /\ highCount[h] >= rule.count /\ TypeOK
    BY <1>3, <2>1 DEF EarnInv, CountedOnce, CountReached
  <2>3. consumer.inbox \in Seq(Message) /\ AtCpu = FALSE
    BY <2>2 DEF TypeOK, Consumer, AtCpu
  <2>4. /\ Cardinality(Uncounted(h)) \in Nat /\ Len(consumer.inbox) \in Nat
        /\ Cardinality(Uncounted(h)) <= Len(consumer.inbox)
    <3>1. PICK q \in Seq(Message) : q = consumer.inbox
      BY <2>3
    <3>2. IsFiniteSet(ToSet(q)) /\ Cardinality(ToSet(q)) <= Len(q) /\ Len(q) \in Nat
      BY ToSetFinite
    <3>3. PICK S : S = ToSet(q)
      OBVIOUS
    <3>4. Uncounted(h) \subseteq S
      BY <2>3, <3>1, <3>3 DEF Uncounted, Ahead
    <3>5. IsFiniteSet(Uncounted(h)) /\ Cardinality(Uncounted(h)) <= Cardinality(S)
      BY <3>2, <3>3, <3>4, FS_Subset
    <3>6. Cardinality(Uncounted(h)) \in Nat /\ Cardinality(S) \in Nat
      BY <3>2, <3>3, <3>5, FS_CardinalityType
    <3>. QED  BY <3>1, <3>2, <3>3, <3>5, <3>6
  <2>5. Load = Len(consumer.inbox)
    BY <2>3, <2>4 DEF Load
  <2>6. rule.count \in Int
    BY <2>2, LookupType DEF rule, TypeOK, Metrics
  <2>7. /\ Cardinality(counted[h]) \in Nat /\ highCount[h] \in Nat /\ spent.repeats \in Nat
    BY <2>2, LimitsDomain, SpendAmount, FS_CardinalityType DEF OnceOf, TypeOK
  <2>. QED  BY <2>1, <2>2, <2>4, <2>5, <2>6, <2>7, SMTT(30) DEF OnceOf
<1>. QED  BY <1>1, <1>2, <1>3, PTL DEF Spec
=============================================================================
