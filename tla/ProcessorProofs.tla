-------------------------- MODULE ProcessorProofs --------------------------
(***************************************************************************)
(* Proofs about the processor, for every number of messages and every      *)
(* value of the bounds: its types, how many rows one message may get, and  *)
(* that only a failed insert loses a message.                              *)
(***************************************************************************)
EXTENDS Processor, DurableConsumerProofs

-----------------------------------------------------------------------------
(* The inductive invariant.                                                 *)

\* TypeOK speaks of the tables and histories stream by stream.
Indexed == DOMAIN table = Streams /\ DOMAIN unseen = Streams

\* A message the agent has published, parsable exactly if its record says so.
Genuine(s, m) == m.n \in 1..Len(published[s]) /\ m.valid = published[s][m.n]

\* Only published messages are under way or in a table, and only parsable ones
\* are saved.
OnlyPublished ==
  \A s \in Streams :
    /\ Len(published[s]) <= MaxMessages[s]
    /\ \A m \in Inside(consumer[s]) : Genuine(s, m)
    /\ step[s] # "idle" => Genuine(s, current[s])
    /\ step[s] = "save" => current[s].valid
    /\ \A n \in Numbers(s) : n > Len(published[s]) => table[s][n] = 0

\* A deleted consumer holds nothing; only a signal stops the processor.
NothingLeft ==
  /\ \A s \in Streams : ~consumer[s].exists => consumer[s] = NoConsumer
  /\ phase = "stopping" => spent.stops > 0

\* The callback is about to insert m.
Saving(cur, st, m) == IF st = "save" /\ cur = m THEN 1 ELSE 0

\* Inserts of m to come if nothing further goes wrong.
Load(c, cur, st, m) == ToCome(c, cur, m) + Saving(cur, st, m)

Parsable(n) == [n |-> n, valid |-> TRUE]

\* One insert, and one for every disturbance; a process that is stopping has one
\* of them in hand, for the message it may abandon.
Budget == (IF phase = "stopping" THEN 0 ELSE 1) + spent.crashes + spent.stops + spent.repeats

\* Rows and inserts to come of a message are accounted for.
Accounted ==
  \A s \in Streams : \A n \in Numbers(s) :
    table[s][n] + Load(consumer[s], current[s], step[s], Parsable(n)) <= Budget

\* Lost messages, and those about to be acknowledged without a row.
Missed(s) ==
  {n \in DOMAIN published[s] :
     /\ published[s][n] /\ n \notin unseen[s] /\ table[s][n] = 0
     /\ Due(s, n) => step[s] = "ack" /\ current[s].n = n}

FailuresCover ==
  Backend = "sqlite" /\ spent.stops + spent.conflicts = 0 =>
    Cardinality(Missed("metrics")) + Cardinality(Missed("speedtest")) <= spent.failures

IInv ==
  TypeOK /\ Indexed /\ OnlyPublished /\ NothingLeft /\ Accounted /\ FailuresCover


-----------------------------------------------------------------------------
(* What the operations on a consumer do to the inserts to come.             *)

\* A number; zero for a message that is nowhere.
LEMMA LoadType ==
  ASSUME NEW M, NEW c \in Consumer(M), NEW cur, NEW st, NEW m
  PROVE  /\ Load(c, cur, st, m) \in Nat
         /\ ToCome(c, cur, m) \in Nat /\ Saving(cur, st, m) \in {0, 1}
         /\ m \notin Inside(c) /\ m # cur => Load(c, cur, st, m) = 0
<1>1. /\ ToCome(c, cur, m) \in Nat
      /\ m \notin Inside(c) /\ m # cur => ToCome(c, cur, m) = 0
  BY ToComeType
<1>2. Saving(cur, st, m) \in {0, 1} /\ (m # cur => Saving(cur, st, m) = 0)
  BY DEF Saving
<1>. QED  BY <1>1, <1>2 DEF Load

\* Storing a message adds one insert of it.
LEMMA LoadStored ==
  ASSUME NEW M, NEW c \in Consumer(M), NEW e \in M, NEW b \in BOOLEAN, NEW cur, NEW st, NEW m
  PROVE  Load(Stored(c, e, b), cur, st, m)
           <= Load(c, cur, st, m) + (IF e = m THEN 1 ELSE 0)
<1>1. ToCome(Stored(c, e, b), cur, m) <= ToCome(c, cur, m) + (IF e = m THEN 1 ELSE 0)
  BY ToComeStored
<1>2. Stored(c, e, b) \in Consumer(M)
  BY StoredType
<1>3. /\ ToCome(Stored(c, e, b), cur, m) \in Nat
      /\ ToCome(c, cur, m) \in Nat /\ Saving(cur, st, m) \in {0, 1}
  BY <1>2, LoadType
<1>. QED  BY <1>1, <1>3 DEF Load

\* Pushing a message again adds one insert of it, unless its delivery had lapsed.
LEMMA LoadRedelivered ==
  ASSUME NEW M, NEW c \in Consumer(M), NEW e \in c.unacked, NEW cur, NEW st, NEW m
  PROVE  /\ Load(Redelivered(c, e), cur, st, m) <= Load(c, cur, st, m) + 1
         /\ e # cur /\ e \notin ToSet(c.inbox) =>
              Load(Redelivered(c, e), cur, st, m) <= Load(c, cur, st, m)
<1>1. /\ ToCome(Redelivered(c, e), cur, m) <= ToCome(c, cur, m) + 1
      /\ e # cur /\ e \notin ToSet(c.inbox) =>
           ToCome(Redelivered(c, e), cur, m) <= ToCome(c, cur, m)
  BY ToComeRedelivered
<1>2. e \in M
  BY DEF Consumer
<1>3. Redelivered(c, e) \in Consumer(M)
  BY <1>2, RedeliveredType
<1>4. /\ ToCome(Redelivered(c, e), cur, m) \in Nat
      /\ ToCome(c, cur, m) \in Nat /\ Saving(cur, st, m) \in {0, 1}
  BY <1>3, LoadType
<1>. QED  BY <1>1, <1>4 DEF Load

\* Binding to a consumer adds none, nor does a new one.
LEMMA LoadSubscribed ==
  ASSUME NEW M, NEW c \in Consumer(M), NEW cur, NEW st, NEW m
  PROVE  /\ Load(Subscribed(c), cur, st, m) <= Load(c, cur, st, m)
         /\ Load(NewConsumer, cur, st, m) <= Load(c, cur, st, m)
<1>1. /\ ToCome(Subscribed(c), cur, m) <= ToCome(c, cur, m)
      /\ ToCome(NewConsumer, cur, m) <= ToCome(c, cur, m)
  BY ToComeSubscribed
<1>2. Subscribed(c) \in Consumer(M) /\ NewConsumer \in Consumer(M)
  BY SubscribedType, NewConsumerType
<1>3. /\ ToCome(Subscribed(c), cur, m) \in Nat /\ ToCome(NewConsumer, cur, m) \in Nat
      /\ ToCome(c, cur, m) \in Nat /\ Saving(cur, st, m) \in {0, 1}
  BY <1>2, LoadType
<1>. QED  BY <1>1, <1>3 DEF Load

\* The delivery that the callback takes becomes an insert, or none.
LEMMA LoadTaken ==
  ASSUME NEW M, NEW c \in Consumer(M), c.inbox # <<>>, NEW cur, NEW st, NEW m,
         NEW cur2, cur2 = Head(c.inbox), m # cur
  PROVE  Load(Taken(c), cur2, st, m) <= Load(c, cur, "idle", m)
<1>1. ToCome(Taken(c), cur2, m) + (IF cur2 = m THEN 1 ELSE 0) <= ToCome(c, cur, m)
  BY ToComeTaken
<1>2. Taken(c) \in Consumer(M)
  BY TakenType
<1>3. ToCome(Taken(c), cur2, m) \in Nat /\ ToCome(c, cur, m) \in Nat
  BY <1>2, LoadType
<1>. QED  BY <1>1, <1>3 DEF Load, Saving

\* An acknowledgement adds none.
LEMMA LoadAcked ==
  ASSUME NEW M, NEW c \in Consumer(M), NEW cur, NEW cur2, NEW m
  PROVE  Load(Acked(c, cur), cur2, "idle", m) <= Load(c, cur, "ack", m)
<1>1. ToCome(Acked(c, cur), cur2, m) <= ToCome(c, cur, m)
  BY ToComeAcked
<1>2. Acked(c, cur) \in Consumer(M)
  BY DroppedType
<1>3. ToCome(Acked(c, cur), cur2, m) \in Nat /\ ToCome(c, cur, m) \in Nat
  BY <1>2, LoadType
<1>. QED  BY <1>1, <1>3 DEF Load, Saving

\* Losing the client's queue or the consumer adds none.
LEMMA LoadDropped ==
  ASSUME NEW M, NEW c \in Consumer(M), NEW cur, NEW st, NEW m
  PROVE  /\ Load(Abandoned(c), cur, st, m) <= Load(c, cur, st, m)
         /\ Load(Unsubscribed(c), cur, st, m) <= Load(c, cur, st, m)
<1>1. /\ ToCome(Abandoned(c), cur, m) <= ToCome(c, cur, m)
      /\ ToCome(Unsubscribed(c), cur, m) <= ToCome(c, cur, m)
  BY ToComeDropped
<1>2. Abandoned(c) \in Consumer(M) /\ Unsubscribed(c) \in Consumer(M)
  BY DroppedType
<1>3. /\ ToCome(Abandoned(c), cur, m) \in Nat /\ ToCome(Unsubscribed(c), cur, m) \in Nat
      /\ ToCome(c, cur, m) \in Nat /\ Saving(cur, st, m) \in {0, 1}
  BY <1>2, LoadType
<1>. QED  BY <1>1, <1>3 DEF Load

\* A callback that dies lets its message lapse, at most.
LEMMA LoadExit ==
  ASSUME NEW M, NEW c \in Consumer(M), NEW cur, NEW st, NEW cur2, NEW m
  PROVE  Load(c, cur2, "idle", m) <= Load(c, cur, st, m) + 1
<1>1. ToCome(c, cur2, m) <= ToCome(c, cur, m) + 1
  BY ToComeExit
<1>2. /\ ToCome(c, cur2, m) \in Nat
      /\ ToCome(c, cur, m) \in Nat /\ Saving(cur, st, m) \in {0, 1}
  BY LoadType
<1>. QED  BY <1>1, <1>2 DEF Load, Saving

-----------------------------------------------------------------------------
(* Types, and what is under way.                                            *)

\* The kinds of disturbance.
LEMMA LimitsDomain == DOMAIN Limits = {"crashes", "stops", "repeats", "failures", "conflicts"}
BY DEF Limits

\* Spending from a bound adds one to its account and touches no other.
LEMMA SpendType ==
  ASSUME TypeOK, NEW what \in DOMAIN Limits, Spend(what)
  PROVE  /\ spent' \in [DOMAIN Limits -> Nat]
         /\ spent'[what] = spent[what] + 1
         /\ \A other \in DOMAIN Limits : other # what => spent'[other] = spent[other]
<1>. DEFINE K == DOMAIN Limits
<1>1. spent \in [K -> Nat] /\ spent' = [spent EXCEPT ![what] = spent[what] + 1] /\ what \in K
  BY DEF TypeOK, Spend
<1>. HIDE DEF K
<1>2. /\ spent' \in [K -> Nat] /\ spent'[what] = spent[what] + 1
      /\ \A other \in K : other # what => spent'[other] = spent[other]
  BY <1>1
<1>. QED  BY <1>2 DEF K

\* The accounts are numbers.
LEMMA SpentType ==
  ASSUME TypeOK
  PROVE  \A what \in DOMAIN Limits : spent[what] \in Nat
BY DEF TypeOK

\* What is given up is known by its numbers.
LEMMA ForgoneType ==
  ASSUME TypeOK, [Next]_vars
  PROVE  forgone' \in [Streams -> SUBSET Nat]
<1>1. ASSUME NEW s, NEW ns \in SUBSET Nat, Forgo(s, ns) PROVE forgone' \in [Streams -> SUBSET Nat]
  BY <1>1 DEF Forgo, TypeOK
<1>2. ASSUME NEW s \in Streams, ForgoDue(s) PROVE forgone' \in [Streams -> SUBSET Nat]
  <2>1. Numbers(s) \subseteq Nat
    BY ProcessorAssumption DEF Numbers
  <2>2. {n \in Numbers(s) : Due(s, n)} \in SUBSET Nat
    BY <2>1
  <2>. QED  BY <1>1, <1>2, <2>2 DEF ForgoDue
<1>3. ASSUME NEW s \in Streams, Save(s) PROVE forgone' \in [Streams -> SUBSET Nat]
  <2>1. {current[s].n} \in SUBSET Nat
    BY DEF TypeOK, Message, NoMessage
  <2>. QED  BY <1>1, <1>3, <2>1 DEF Save, TypeOK
<1>4. ASSUME NEW s \in Streams, Unsubscribe(s) PROVE forgone' \in [Streams -> SUBSET Nat]
  BY <1>2, <1>4 DEF Unsubscribe, TypeOK
<1>5. \A s \in {"metrics", "speedtest"} : s \in Streams
  BY DEF Streams
<1>6. CASE SubscribeMetrics \/ SubscribeSpeedtest \/ StopMetrics \/ StopSpeedtest
  BY <1>2, <1>4, <1>5, <1>6
     DEF SubscribeMetrics, SubscribeSpeedtest, StopMetrics, StopSpeedtest, TypeOK
<1>7. UNCHANGED forgone => forgone' \in [Streams -> SUBSET Nat]
  BY DEF TypeOK
<1>. QED
  BY <1>3, <1>6, <1>7
     DEF Next, vars, Publish, Redeliver, Callback, Dispatch, Ack, Crash

\* What the callback holds is not the placeholder.
LEMMA GenuineApart ==
  ASSUME NEW s \in Streams, NEW m, Genuine(s, m), TypeOK
  PROVE  m # NoMessage
<1>1. m.n # 0 /\ NoMessage.n = 0
  BY DEF Genuine, NoMessage, TypeOK
<1>. QED  BY <1>1

\* The placeholder is a message by its type, and no parsable one.
LEMMA NoMessageType == NoMessage \in Message /\ \A n : Parsable(n) # NoMessage
<1>1. NoMessage.valid = FALSE /\ \A n : Parsable(n).valid = TRUE
  BY DEF NoMessage, Parsable
<1>. QED  BY <1>1 DEF NoMessage, Message

\* The names of the invariant's first part.
Base == TypeOK /\ Indexed /\ OnlyPublished /\ NothingLeft

\* What a message on its way is a message of.
LEMMA BaseFacts ==
  ASSUME Base, NEW s \in Streams
  PROVE  /\ consumer[s] \in Consumer(Message) /\ consumer[s].unacked \subseteq Message
         /\ consumer[s].inbox \in Seq(Message)
         /\ published[s] \in Seq(BOOLEAN) /\ Len(published[s]) \in Nat
         /\ Len(published[s]) <= MaxMessages[s] /\ MaxMessages[s] \in Nat
         /\ table[s] \in [Numbers(s) -> Nat] /\ unseen[s] \subseteq Numbers(s)
         /\ current[s] \in Message
BY ProcessorAssumption, NoMessageType, LenProperties
   DEF Base, TypeOK, OnlyPublished, Consumer

\* A consumer that does not exist has nothing to lose.
LEMMA NoConsumerKept ==
  Abandoned(NoConsumer) = NoConsumer /\ \A m : Acked(NoConsumer, m) = NoConsumer
<1>1. Abandoned(NoConsumer) = NoConsumer
  <2>1. NoConsumer \in Consumer({}) /\ Abandoned(NoConsumer) \in Consumer({})
    BY NewConsumerType, DroppedType
  <2>2. \A c \in Consumer({}) :
          c = [exists |-> c.exists, mine |-> c.mine, backlog |-> c.backlog,
               inbox |-> c.inbox, unacked |-> c.unacked]
    BY DEF Consumer
  <2>3. PICK c \in Consumer({}) : c = NoConsumer
    BY <2>1
  <2>4. PICK a \in Consumer({}) : a = Abandoned(NoConsumer)
    BY <2>1
  <2>5. /\ a.exists = c.exists /\ a.backlog = c.backlog /\ a.unacked = c.unacked
        /\ a.mine = FALSE /\ a.inbox = <<>>
    BY <2>3, <2>4 DEF Abandoned, Consumer
  <2>6. c.mine = FALSE /\ c.inbox = <<>>
    BY <2>3 DEF NoConsumer
  <2>7. a = c
    BY <2>2, <2>5, <2>6
  <2>. QED  BY <2>3, <2>4, <2>7
<1>2. ASSUME NEW m PROVE Acked(NoConsumer, m) = NoConsumer
  <2>1. NoConsumer.unacked \ {m} = NoConsumer.unacked
    BY DEF NoConsumer
  <2>. QED  BY <2>1 DEF Acked, NoConsumer
<1>. QED  BY <1>1, <1>2

\* Losing a client and deleting a consumer bring nothing in, and what does not
\* exist stays empty.
LEMMA UnsubscribedKeeps ==
  ASSUME NEW M, NEW c \in Consumer(M), ~c.exists => c = NoConsumer
  PROVE  /\ Unsubscribed(c) \in Consumer(M) /\ Inside(Unsubscribed(c)) \subseteq Inside(c)
         /\ ~Unsubscribed(c).exists => Unsubscribed(c) = NoConsumer
         /\ Abandoned(c) \in Consumer(M) /\ Inside(Abandoned(c)) \subseteq Inside(c)
         /\ ~Abandoned(c).exists => Abandoned(c) = NoConsumer
<1>1. Unsubscribed(c) \in Consumer(M) /\ Abandoned(c) \in Consumer(M)
  BY DroppedType
<1>2. Inside(NoConsumer) = {}
  BY ToSetEmpty DEF NoConsumer, Inside
<1>3. Inside(Abandoned(c)) \subseteq Inside(c) /\ Abandoned(c).exists = c.exists
  BY KeptInside
<1>4. Abandoned(NoConsumer) = NoConsumer
  BY NoConsumerKept
<1>. QED  BY <1>1, <1>2, <1>3, <1>4 DEF Unsubscribed

\* A step that publishes nothing, and brings nothing new into a consumer or into
\* the hands of a callback but what came out of its consumer.
LEMMA BaseKept ==
  ASSUME Base, UNCHANGED published, TypeOK', Indexed', NothingLeft',
         \A s \in Streams :
           /\ Inside(consumer'[s]) \subseteq Inside(consumer[s])
           /\ \/ step'[s] = "idle"
              \/ current'[s] = current[s] /\ step[s] # "idle"
              \/ current'[s] \in Inside(consumer[s])
           /\ step'[s] = "save" => current'[s].valid
           /\ \A n \in Numbers(s) : n > Len(published[s]) => table'[s][n] = table[s][n]
  PROVE  Base'
<1>1. ASSUME NEW s \in Streams
      PROVE  /\ Len(published'[s]) <= MaxMessages[s]
             /\ \A m \in Inside(consumer'[s]) :
                  m.n \in 1..Len(published'[s]) /\ m.valid = published'[s][m.n]
             /\ step'[s] # "idle" =>
                  /\ current'[s].n \in 1..Len(published'[s])
                  /\ current'[s].valid = published'[s][current'[s].n]
             /\ step'[s] = "save" => current'[s].valid
             /\ \A n \in Numbers(s) : n > Len(published'[s]) => table'[s][n] = 0
  BY DEF Base, OnlyPublished, Genuine
<1>2. OnlyPublished'
  BY <1>1 DEF OnlyPublished, Genuine, Numbers
<1>. QED  BY <1>2 DEF Base

\* Types stay, published messages are all there is, deleted consumers are empty.
LEMMA BaseStep ==
  ASSUME Base, [Next]_vars
  PROVE  Base'
<1>. USE LimitsDomain
<1>f. forgone' \in [Streams -> SUBSET Nat]
  BY ForgoneType DEF Base
<1>0. CASE UNCHANGED vars
  BY <1>0 DEF vars, Base, TypeOK, Indexed, OnlyPublished, NothingLeft, Genuine
<1>1. ASSUME NEW s \in Streams, NEW valid \in BOOLEAN, Publish(s, valid) PROVE Base'
  <2>1. PICK l : l = published'[s]
    OBVIOUS
  <2>2. PICK n : n = Len(l)
    OBVIOUS
  <2>3. PICK m : m = [n |-> n, valid |-> valid]
    OBVIOUS
  <2>4. PICK b : b = Bound(s)
    OBVIOUS
  <2>5. PICK c : c = consumer[s]
    OBVIOUS
  <2>6. /\ published' = [published EXCEPT ![s] = Append(published[s], valid)]
        /\ consumer' = [consumer EXCEPT ![s] = Stored(c, m, b)]
        /\ unseen' = IF c.exists THEN unseen ELSE [unseen EXCEPT ![s] = unseen[s] \cup {n}]
        /\ UNCHANGED <<phase, step, current, table, spent>>
        /\ Len(published[s]) < MaxMessages[s]
    BY <1>1, <2>1, <2>2, <2>3, <2>4, <2>5 DEF Publish
  <2>7. /\ l = Append(published[s], valid) /\ l \in Seq(BOOLEAN)
        /\ n = Len(published[s]) + 1 /\ n \in Nat
        /\ n \in Numbers(s) /\ m \in Message
        /\ \A i \in 1..Len(published[s]) : l[i] = published[s][i]
        /\ l[n] = valid
    <3>1. l = Append(published[s], valid) /\ published[s] \in Seq(BOOLEAN)
      BY <2>1, <2>6, BaseFacts DEF Base, TypeOK
    <3>2. /\ l \in Seq(BOOLEAN) /\ n = Len(published[s]) + 1
          /\ \A i \in 1..Len(published[s]) : l[i] = published[s][i]
          /\ l[n] = valid
      BY <2>2, <3>1, AppendProperties
    <3>3. n \in Nat /\ n \in Numbers(s)
      BY <2>6, <3>2, BaseFacts DEF Numbers
    <3>. QED  BY <2>3, <3>1, <3>2, <3>3 DEF Message
  <2>8. /\ consumer[s] \in Consumer(Message) /\ c = consumer[s]
    BY <2>5, BaseFacts
  <2>9. Bound(s) \in BOOLEAN
    BY DEF Bound, Base, TypeOK, Streams
  <2>10. b \in BOOLEAN
    BY <2>4, <2>9
  <2>11. /\ Stored(c, m, b) \in Consumer(Message) /\ Stored(c, m, b).exists = c.exists
         /\ Inside(Stored(c, m, b)) \subseteq Inside(c) \cup {m}
    BY <2>7, <2>8, <2>10, StoredType, StoredInside
  <2>12. ~c.exists => Stored(c, m, b) = c
    BY DEF Stored
  <2>13. /\ published' \in [Streams -> Seq(BOOLEAN)] /\ published'[s] = l
         /\ consumer' \in [Streams -> Consumer(Message)]
         /\ \A t \in Streams : t # s => published'[t] = published[t] /\ consumer'[t] = consumer[t]
         /\ consumer'[s] = Stored(c, m, b)
    BY <2>6, <2>7, <2>11 DEF Base, TypeOK
  <2>14. /\ DOMAIN unseen' = Streams
         /\ \A t \in Streams : unseen'[t] \subseteq Numbers(t)
    BY <2>6, <2>7 DEF Base, TypeOK, Indexed
  <2>15. TypeOK' /\ Indexed'
    BY <1>f, <2>6, <2>13, <2>14 DEF Base, TypeOK, Indexed, Numbers
  <2>16. NothingLeft'
    BY <2>6, <2>8, <2>11, <2>12, <2>13 DEF Base, NothingLeft
  <2>17. ASSUME NEW t \in Streams
         PROVE  /\ Len(published'[t]) <= MaxMessages[t]
                /\ \A x \in Inside(consumer'[t]) :
                     x.n \in 1..Len(published'[t]) /\ x.valid = published'[t][x.n]
                /\ step'[t] # "idle" =>
                     /\ current'[t].n \in 1..Len(published'[t])
                     /\ current'[t].valid = published'[t][current'[t].n]
                /\ step'[t] = "save" => current'[t].valid
                /\ \A k \in Numbers(t) : k > Len(published'[t]) => table'[t][k] = 0
    <3>1. CASE t # s
      BY <2>6, <2>13, <3>1 DEF Base, OnlyPublished, Genuine
    <3>2. CASE t = s
      <4>1. \A k \in 1..Len(published[s]) : k \in 1..n /\ l[k] = published[s][k]
        BY <2>7, BaseFacts
      <4>2. m.n \in 1..n /\ m.valid = l[m.n]
        BY <2>3, <2>7, BaseFacts
      <4>3. n <= MaxMessages[s] /\ \A k \in Numbers(s) : k > n => k > Len(published[s])
        BY <2>6, <2>7, BaseFacts DEF Numbers
      <4>4. \A x \in Inside(consumer'[s]) : x.n \in 1..n /\ x.valid = l[x.n]
        BY <2>8, <2>11, <2>13, <4>1, <4>2 DEF Base, OnlyPublished, Genuine
      <4>. QED
        BY <2>2, <2>6, <2>13, <3>2, <4>1, <4>3, <4>4 DEF Base, OnlyPublished, Genuine
    <3>. QED  BY <3>1, <3>2
  <2>18. OnlyPublished'
    BY <2>17 DEF OnlyPublished, Genuine, Numbers
  <2>. QED  BY <2>15, <2>16, <2>18 DEF Base
<1>2. ASSUME NEW s \in Streams, NEW m \in consumer[s].unacked, Redeliver(s, m) PROVE Base'
  <2>1. m \in Message /\ m \in Inside(consumer[s])
    BY BaseFacts DEF Inside
  <2>2. PICK c \in Consumer(Message) : c = consumer[s]
    BY BaseFacts
  <2>3. /\ Redelivered(c, m) \in Consumer(Message) /\ Redelivered(c, m).exists = c.exists
        /\ Inside(Redelivered(c, m)) \subseteq Inside(c) \cup {m}
    BY <2>1, RedeliveredType, KeptInside
  <2>4. /\ consumer' = [consumer EXCEPT ![s] = Redelivered(c, m)]
        /\ UNCHANGED <<published, phase, step, current, table, unseen>>
    BY <1>2, <2>2 DEF Redeliver
  <2>5. /\ spent' \in [DOMAIN Limits -> Nat] /\ spent'["stops"] = spent["stops"]
    BY <1>2, SpendType DEF Redeliver, Base, TypeOK
  <2>6. /\ consumer' \in [Streams -> Consumer(Message)]
        /\ \A t \in Streams : t # s => consumer'[t] = consumer[t]
        /\ consumer'[s] = Redelivered(c, m)
    BY <2>3, <2>4 DEF Base, TypeOK
  <2>7. TypeOK' /\ Indexed'
    BY <1>f, <2>4, <2>5, <2>6 DEF Base, TypeOK, Indexed, Numbers
  <2>8. c.exists
    <3>1. ~c.exists => c.unacked = {}
      BY <2>2 DEF Base, NothingLeft, NoConsumer
    <3>. QED  BY <2>2, <3>1
  <2>9. NothingLeft'
    BY <2>3, <2>4, <2>5, <2>6, <2>8 DEF Base, NothingLeft
  <2>10. \A t \in Streams : Inside(consumer'[t]) \subseteq Inside(consumer[t])
    BY <2>1, <2>2, <2>3, <2>6
  <2>11. \A t \in Streams : step[t] = "save" => current[t].valid
    BY DEF Base, OnlyPublished
  <2>. QED  BY <2>4, <2>7, <2>9, <2>10, <2>11, BaseKept
<1>3. ASSUME NEW s \in Streams, Dispatch(s) PROVE Base'
  <2>1. PICK c \in Consumer(Message) : c = consumer[s] /\ c.inbox # <<>>
    BY <1>3, BaseFacts DEF Dispatch
  <2>2. PICK m : m = Head(c.inbox)
    OBVIOUS
  <2>3. /\ Taken(c) \in Consumer(Message) /\ Taken(c).exists = c.exists
        /\ Inside(Taken(c)) \subseteq Inside(c) /\ m \in Inside(c) /\ m \in Message
    BY <2>1, <2>2, TakenType, KeptInside
  <2>4. /\ consumer' = [consumer EXCEPT ![s] = Taken(c)]
        /\ current' = [current EXCEPT ![s] = m]
        /\ step' = [step EXCEPT ![s] = IF current'[s].valid THEN "save" ELSE "ack"]
        /\ UNCHANGED <<published, phase, table, unseen, spent>>
    BY <1>3, <2>1, <2>2 DEF Dispatch
  <2>5. /\ current' \in [Streams -> Message \cup {NoMessage}] /\ current'[s] = m
        /\ \A t \in Streams : t # s => current'[t] = current[t]
        /\ consumer' \in [Streams -> Consumer(Message)] /\ consumer'[s] = Taken(c)
        /\ \A t \in Streams : t # s => consumer'[t] = consumer[t]
    BY <2>3, <2>4 DEF Base, TypeOK
  <2>6. /\ step' \in [Streams -> {"idle", "save", "ack"}]
        /\ step'[s] # "idle" /\ (step'[s] = "save" => m.valid)
        /\ \A t \in Streams : t # s => step'[t] = step[t]
    <3>1. PICK v \in {"save", "ack"} : v = IF current'[s].valid THEN "save" ELSE "ack"
      OBVIOUS
    <3>2. step' = [step EXCEPT ![s] = v]
      BY <2>4, <3>1
    <3>. QED  BY <2>5, <3>1, <3>2 DEF Base, TypeOK
  <2>7. m # NoMessage
    BY <2>1, <2>3, GenuineApart DEF Base, OnlyPublished
  <2>8. TypeOK' /\ Indexed'
    BY <1>f, <2>4, <2>5, <2>6, <2>7 DEF Base, TypeOK, Indexed, Numbers
  <2>9. NothingLeft'
    <3>1. c.exists
      BY <2>1 DEF Base, NothingLeft, NoConsumer
    <3>. QED  BY <2>3, <2>4, <2>5, <3>1 DEF Base, NothingLeft
  <2>10. \A t \in Streams : step[t] = "save" => current[t].valid
    BY DEF Base, OnlyPublished
  <2>11. ASSUME NEW t \in Streams
         PROVE  /\ Inside(consumer'[t]) \subseteq Inside(consumer[t])
                /\ \/ step'[t] = "idle"
                   \/ current'[t] = current[t] /\ step[t] # "idle"
                   \/ current'[t] \in Inside(consumer[t])
                /\ step'[t] = "save" => current'[t].valid
    BY <2>1, <2>3, <2>5, <2>6, <2>10
  <2>. QED  BY <2>4, <2>8, <2>9, <2>11, BaseKept
<1>4. ASSUME NEW s \in Streams, Save(s) PROVE Base'
  <2>1. /\ step[s] = "save" /\ step' = [step EXCEPT ![s] = "ack"]
        /\ UNCHANGED <<published, consumer, phase, current, unseen>>
    BY <1>4 DEF Save
  <2>2. PICK n : n = current[s].n
    OBVIOUS
  <2>3. n \in 1..Len(published[s]) /\ n \in Numbers(s)
    <3>1. n \in 1..Len(published[s])
      BY <2>1, <2>2 DEF Base, OnlyPublished, Genuine
    <3>. QED  BY <3>1, BaseFacts DEF Numbers
  <2>4. /\ DOMAIN table' = Streams
        /\ \A t \in Streams : t # s => table'[t] = table[t]
        /\ table'[s] \in [Numbers(s) -> Nat]
        /\ \A k \in Numbers(s) : k # n => table'[s][k] = table[s][k]
    <3>1. CASE UNCHANGED table
      BY <3>1, BaseFacts DEF Base, TypeOK, Indexed
    <3>2. CASE table' = [table EXCEPT ![s][n] = table[s][n] + 1]
      <4>1. table'[s] = [table[s] EXCEPT ![n] = table[s][n] + 1]
            /\ \A t \in Streams : t # s => table'[t] = table[t]
        BY <3>2 DEF Base, Indexed
      <4>2. table[s] \in [Numbers(s) -> Nat]
        BY BaseFacts
      <4>. QED  BY <2>3, <3>2, <4>1, <4>2 DEF Base, Indexed
    <3>. QED  BY <1>4, <2>2, <3>1, <3>2 DEF Save, Insert
  <2>5. /\ spent' \in [DOMAIN Limits -> Nat] /\ spent'["stops"] = spent["stops"]
    BY <1>4, SpendType DEF Save, Base, TypeOK
  <2>6. TypeOK' /\ Indexed'
    BY <1>f, <2>1, <2>4, <2>5 DEF Base, TypeOK, Indexed, Numbers
  <2>7. NothingLeft'
    BY <2>1, <2>5 DEF Base, NothingLeft
  <2>8. ASSUME NEW t \in Streams
        PROVE  /\ step'[t] = "save" => current'[t].valid
               /\ step'[t] # "idle" => step[t] # "idle"
    BY <2>1 DEF Base, TypeOK, OnlyPublished
  <2>9. ASSUME NEW t \in Streams, NEW k \in Numbers(t), k > Len(published[t])
        PROVE  table'[t][k] = table[t][k]
    <3>1. t = s => k # n
      BY <2>3, <2>9, BaseFacts
    <3>. QED  BY <2>4, <3>1
  <2>. QED  BY <2>1, <2>6, <2>7, <2>8, <2>9, BaseKept
<1>5. ASSUME NEW s \in Streams, Ack(s) PROVE Base'
  <2>1. PICK c \in Consumer(Message) : c = consumer[s]
    BY BaseFacts
  <2>2. PICK m : m = current[s]
    OBVIOUS
  <2>3. /\ consumer' = [consumer EXCEPT ![s] = Acked(c, m)]
        /\ step' = [step EXCEPT ![s] = "idle"]
        /\ current' = [current EXCEPT ![s] = NoMessage]
        /\ UNCHANGED <<published, phase, table, unseen, spent>>
    BY <1>5, <2>1, <2>2 DEF Ack
  <2>4. /\ Acked(c, m) \in Consumer(Message) /\ Acked(c, m).exists = c.exists
        /\ Inside(Acked(c, m)) \subseteq Inside(c)
    BY <2>1, DroppedType, KeptInside
  <2>5. ~c.exists => Acked(c, m) = NoConsumer
    BY <2>1, NoConsumerKept DEF Base, NothingLeft
  <2>6. /\ current'[s] = NoMessage /\ step'[s] = "idle" /\ consumer'[s] = Acked(c, m)
        /\ consumer' \in [Streams -> Consumer(Message)]
        /\ \A t \in Streams : t # s => /\ consumer'[t] = consumer[t]
                                       /\ current'[t] = current[t] /\ step'[t] = step[t]
    BY <2>3, <2>4 DEF Base, TypeOK
  <2>7. TypeOK' /\ Indexed'
    BY <1>f, <2>3, <2>6 DEF Base, TypeOK, Indexed, Numbers
  <2>8. NothingLeft'
    BY <2>3, <2>4, <2>5, <2>6 DEF Base, NothingLeft
  <2>9. \A t \in Streams : step[t] = "save" => current[t].valid
    BY DEF Base, OnlyPublished
  <2>10. ASSUME NEW t \in Streams
         PROVE  /\ Inside(consumer'[t]) \subseteq Inside(consumer[t])
                /\ \/ step'[t] = "idle"
                   \/ current'[t] = current[t] /\ step[t] # "idle"
                   \/ current'[t] \in Inside(consumer[t])
                /\ step'[t] = "save" => current'[t].valid
    BY <2>1, <2>4, <2>6, <2>9
  <2>. QED  BY <2>3, <2>7, <2>8, <2>10, BaseKept
<1>6. CASE SubscribeMetrics \/ SubscribeSpeedtest
  <2>1. PICK s, c2 :
          /\ s \in Streams
          /\ c2 = Subscribed(consumer[s]) \/ c2 = NewConsumer
          /\ consumer' = [consumer EXCEPT ![s] = c2]
          /\ phase' \in {"starting", "running"}
          /\ UNCHANGED <<published, step, current, table, unseen>>
          /\ UNCHANGED spent \/ Spend("conflicts")
    BY <1>6 DEF SubscribeMetrics, SubscribeSpeedtest, Streams
  <2>2. PICK c \in Consumer(Message) : c = consumer[s]
    BY <2>1, BaseFacts
  <2>3. /\ Subscribed(c) \in Consumer(Message) /\ Subscribed(c).exists
        /\ Inside(Subscribed(c)) \subseteq Inside(c)
    BY SubscribedType, SubscribedInside
  <2>4. NewConsumer \in Consumer(Message) /\ NewConsumer.exists /\ Inside(NewConsumer) = {}
    BY NewConsumerType, ToSetEmpty DEF NewConsumer, NoConsumer, Inside
  <2>5. c2 \in Consumer(Message) /\ c2.exists /\ Inside(c2) \subseteq Inside(c)
    BY <2>1, <2>2, <2>3, <2>4
  <2>6. /\ consumer' \in [Streams -> Consumer(Message)] /\ consumer'[s] = c2
        /\ \A t \in Streams : t # s => consumer'[t] = consumer[t]
    BY <2>1, <2>5 DEF Base, TypeOK
  <2>7. /\ spent' \in [DOMAIN Limits -> Nat]
    BY <2>1, SpendType DEF Base, TypeOK
  <2>8. TypeOK' /\ Indexed'
    BY <1>f, <2>1, <2>6, <2>7 DEF Base, TypeOK, Indexed, Numbers
  <2>9. NothingLeft'
    BY <2>1, <2>5, <2>6 DEF Base, NothingLeft
  <2>10. \A t \in Streams : step[t] = "save" => current[t].valid
    BY DEF Base, OnlyPublished
  <2>11. \A t \in Streams : Inside(consumer'[t]) \subseteq Inside(consumer[t])
    BY <2>2, <2>5, <2>6
  <2>. QED  BY <2>1, <2>8, <2>9, <2>10, <2>11, BaseKept
<1>7. CASE StopMetrics
  <2>1. PICK s \in Streams : s = "metrics"
    BY DEF Streams
  <2>2. PICK c \in Consumer(Message) : c = consumer[s]
    BY BaseFacts
  <2>3. /\ consumer' = [consumer EXCEPT ![s] = Unsubscribed(c)] /\ phase' = "stopping"
        /\ UNCHANGED <<published, step, current, table, unseen>> /\ Spend("stops")
    BY <1>7, <2>1, <2>2 DEF StopMetrics, Unsubscribe
  <2>4. spent' \in [DOMAIN Limits -> Nat] /\ spent'["stops"] = spent["stops"] + 1
        /\ spent["stops"] \in Nat
    BY <2>3, SpendType, SpentType DEF Base
  <2>5. /\ Unsubscribed(c) \in Consumer(Message) /\ Inside(Unsubscribed(c)) \subseteq Inside(c)
        /\ ~Unsubscribed(c).exists => Unsubscribed(c) = NoConsumer
    BY <2>2, UnsubscribedKeeps DEF Base, NothingLeft
  <2>6. /\ consumer' \in [Streams -> Consumer(Message)] /\ consumer'[s] = Unsubscribed(c)
        /\ \A t \in Streams : t # s => consumer'[t] = consumer[t]
    BY <2>3, <2>5 DEF Base, TypeOK
  <2>7. TypeOK' /\ Indexed'
    BY <1>f, <2>3, <2>4, <2>6 DEF Base, TypeOK, Indexed, Numbers
  <2>8. NothingLeft'
    BY <2>3, <2>4, <2>5, <2>6 DEF Base, NothingLeft
  <2>9. \A t \in Streams : step[t] = "save" => current[t].valid
    BY DEF Base, OnlyPublished
  <2>10. \A t \in Streams : Inside(consumer'[t]) \subseteq Inside(consumer[t])
    BY <2>2, <2>5, <2>6
  <2>. QED  BY <2>3, <2>7, <2>8, <2>9, <2>10, BaseKept
<1>8. CASE StopSpeedtest \/ Crash
  <2>1. /\ phase' \in {"off", "crashed"} /\ Exit
        /\ UNCHANGED spent \/ Spend("crashes")
    BY <1>8 DEF StopSpeedtest, Unsubscribe, Crash
  <2>2. \/ consumer' = [s \in Streams |-> Abandoned(consumer[s])]
        \/ consumer' = [consumer EXCEPT !["speedtest"] = Unsubscribed(consumer["speedtest"])]
    BY <1>8 DEF StopSpeedtest, Unsubscribe, Crash
  <2>3. ASSUME NEW t \in Streams
        PROVE  /\ consumer'[t] \in Consumer(Message)
               /\ Inside(consumer'[t]) \subseteq Inside(consumer[t])
               /\ ~consumer'[t].exists => consumer'[t] = NoConsumer
    <3>1. PICK c \in Consumer(Message) : c = consumer[t]
      BY BaseFacts
    <3>2. ~c.exists => c = NoConsumer
      BY <3>1 DEF Base, NothingLeft
    <3>3. /\ Unsubscribed(c) \in Consumer(Message) /\ Inside(Unsubscribed(c)) \subseteq Inside(c)
          /\ ~Unsubscribed(c).exists => Unsubscribed(c) = NoConsumer
          /\ Abandoned(c) \in Consumer(Message) /\ Inside(Abandoned(c)) \subseteq Inside(c)
          /\ ~Abandoned(c).exists => Abandoned(c) = NoConsumer
      BY <3>2, UnsubscribedKeeps
    <3>4. consumer'[t] \in {c, Abandoned(c), Unsubscribed(c)}
      BY <2>2, <3>1 DEF Base, TypeOK
    <3>. QED  BY <3>1, <3>2, <3>3, <3>4
  <2>4. consumer' \in [Streams -> Consumer(Message)]
    <3>1. consumer' = [t \in Streams |-> consumer'[t]]
      BY <2>2 DEF Base, TypeOK
    <3>. QED  BY <2>3, <3>1
  <2>5. spent' \in [DOMAIN Limits -> Nat]
    BY <2>1, SpendType DEF Base, TypeOK
  <2>6. TypeOK' /\ Indexed'
    BY <1>f, <2>1, <2>4, <2>5 DEF Exit, Base, TypeOK, Indexed, Numbers
  <2>7. NothingLeft'
    BY <2>1, <2>3 DEF NothingLeft
  <2>8. UNCHANGED <<published, table>> /\ \A t \in Streams : step'[t] = "idle"
    BY <2>1 DEF Exit
  <2>. QED  BY <2>3, <2>6, <2>7, <2>8, BaseKept
<1>. QED
  BY <1>0, <1>1, <1>2, <1>3, <1>4, <1>5, <1>6, <1>7, <1>8 DEF Next, Callback

-----------------------------------------------------------------------------
(* No more rows than were accounted for.                                    *)

\* The budget is a number, and never nothing.
LEMMA BudgetType == ASSUME Base PROVE Budget \in Nat /\ Budget >= 1
<1>1. spent.crashes \in Nat /\ spent.stops \in Nat /\ spent.repeats \in Nat
  BY SpentType, LimitsDomain DEF Base
<1>. QED  BY <1>1 DEF Budget, Base, NothingLeft

\* A step that adds no more to rows and inserts to come than to the budget.
LEMMA AccountedKept ==
  ASSUME Base, Accounted, Budget \in Nat, Budget' \in Nat, NEW d \in Nat,
         Budget + d <= Budget',
         \A s \in Streams : \A n \in Numbers(s) :
           /\ table[s][n] \in Nat /\ table'[s][n] \in Nat
           /\ Load(consumer[s], current[s], step[s], Parsable(n)) \in Nat
           /\ Load(consumer'[s], current'[s], step'[s], Parsable(n)) \in Nat
           /\ table'[s][n] + Load(consumer'[s], current'[s], step'[s], Parsable(n))
                <= table[s][n] + Load(consumer[s], current[s], step[s], Parsable(n)) + d
  PROVE  Accounted'
<1>1. ASSUME NEW s \in Streams, NEW n \in Numbers(s)
      PROVE  table'[s][n] + Load(consumer'[s], current'[s], step'[s], Parsable(n)) <= Budget'
  <2>1. table[s][n] + Load(consumer[s], current[s], step[s], Parsable(n)) <= Budget
    BY DEF Accounted
  <2>2. PICK x \in Nat : x = table[s][n] + Load(consumer[s], current[s], step[s], Parsable(n))
    OBVIOUS
  <2>. QED  BY <2>1, <2>2
<1>. QED  BY <1>1 DEF Accounted, Numbers

\* Rows and inserts to come are numbers, before a step and after it.
LEMMA AccountedTypes ==
  ASSUME Base, NEW s \in Streams, NEW n \in Numbers(s)
  PROVE  /\ table[s][n] \in Nat
         /\ Load(consumer[s], current[s], step[s], Parsable(n)) \in Nat
<1>1. consumer[s] \in Consumer(Message)
  BY BaseFacts
<1>2. Load(consumer[s], current[s], step[s], Parsable(n)) \in Nat
  BY <1>1, LoadType
<1>. QED  BY <1>2, BaseFacts

\* Every step keeps rows and inserts to come within the budget.
LEMMA AccountedStep ==
  ASSUME Base, Base', Accounted, [Next]_vars
  PROVE  Accounted'
<1>. USE LimitsDomain
<1>1. /\ Budget \in Nat /\ Budget >= 1
      /\ spent.crashes \in Nat /\ spent.stops \in Nat /\ spent.repeats \in Nat
      /\ spent'.crashes \in Nat /\ spent'.stops \in Nat /\ spent'.repeats \in Nat
  BY BudgetType, SpentType DEF Base, TypeOK
<1>2. Budget' = (IF phase' = "stopping" THEN 0 ELSE 1)
                   + spent'.crashes + spent'.stops + spent'.repeats
      /\ Budget' \in Nat
  BY <1>1 DEF Budget
<1>3. ASSUME NEW s \in Streams, NEW n \in Numbers(s)
      PROVE  /\ table[s][n] \in Nat /\ table'[s][n] \in Nat
             /\ Load(consumer[s], current[s], step[s], Parsable(n)) \in Nat
             /\ Load(consumer'[s], current'[s], step'[s], Parsable(n)) \in Nat
  <2>1. consumer'[s] \in Consumer(Message) /\ table'[s] \in [Numbers(s) -> Nat]
    BY DEF Base, TypeOK, Numbers
  <2>2. Load(consumer'[s], current'[s], step'[s], Parsable(n)) \in Nat
    BY <2>1, LoadType
  <2>. QED  BY <2>1, <2>2, AccountedTypes
<1>4. ASSUME NEW d \in Nat, Budget + d <= Budget',
             \A s \in Streams : \A n \in Numbers(s) :
               table'[s][n] + Load(consumer'[s], current'[s], step'[s], Parsable(n))
                 <= table[s][n] + Load(consumer[s], current[s], step[s], Parsable(n)) + d
      PROVE  Accounted'
  BY <1>1, <1>2, <1>3, <1>4, AccountedKept
<1>5. ASSUME UNCHANGED table, UNCHANGED <<phase, spent>>,
             \A s \in Streams : \A n \in Numbers(s) :
               Load(consumer'[s], current'[s], step'[s], Parsable(n))
                 <= Load(consumer[s], current[s], step[s], Parsable(n))
      PROVE  Accounted'
  <2>1. Budget + 0 <= Budget'
    BY <1>1, <1>2, <1>5 DEF Budget
  <2>2. ASSUME NEW s \in Streams, NEW n \in Numbers(s)
        PROVE  table'[s][n] + Load(consumer'[s], current'[s], step'[s], Parsable(n))
                 <= table[s][n] + Load(consumer[s], current[s], step[s], Parsable(n)) + 0
    <3>1. PICK x \in Nat : x = table[s][n]
      BY <1>3
    <3>2. PICK y \in Nat : y = Load(consumer[s], current[s], step[s], Parsable(n))
      BY <1>3
    <3>3. PICK z \in Nat : z = Load(consumer'[s], current'[s], step'[s], Parsable(n))
      BY <1>3
    <3>. QED  BY <1>5, <3>1, <3>2, <3>3
  <2>. QED  BY <1>4, <2>1, <2>2
<1>6. \A s \in Streams : consumer[s] \in Consumer(Message)
  BY BaseFacts
<1>10. CASE UNCHANGED vars
  <2>1. ASSUME NEW s \in Streams, NEW n \in Numbers(s)
        PROVE  Load(consumer'[s], current'[s], step'[s], Parsable(n))
                 <= Load(consumer[s], current[s], step[s], Parsable(n))
    BY <1>3, <1>10 DEF vars
  <2>. QED  BY <1>5, <1>10, <2>1 DEF vars
<1>11. ASSUME NEW s \in Streams, NEW valid \in BOOLEAN, Publish(s, valid) PROVE Accounted'
  <2>1. PICK k : k = Len(published'[s])
    OBVIOUS
  <2>2. PICK m : m = [n |-> k, valid |-> valid]
    OBVIOUS
  <2>3. PICK b \in BOOLEAN : b = Bound(s)
    <3>1. Bound(s) \in BOOLEAN
      BY DEF Bound, Base, TypeOK, Streams
    <3>. QED  BY <3>1
  <2>4. PICK c \in Consumer(Message) : c = consumer[s]
    BY <1>6
  <2>5. /\ consumer' = [consumer EXCEPT ![s] = Stored(c, m, b)]
        /\ published' = [published EXCEPT ![s] = Append(published[s], valid)]
        /\ UNCHANGED <<phase, step, current, table, spent>>
    BY <1>11, <2>1, <2>2, <2>3, <2>4 DEF Publish
  <2>6. k = Len(published[s]) + 1 /\ k \in Nat /\ m \in Message
    <3>1. published'[s] = Append(published[s], valid) /\ published[s] \in Seq(BOOLEAN)
      BY <2>5 DEF Base, TypeOK
    <3>2. k = Len(published[s]) + 1
      BY <2>1, <3>1, AppendProperties
    <3>. QED  BY <2>2, <3>2, BaseFacts DEF Message
  <2>7. Budget' = Budget
    BY <2>5 DEF Budget
  <2>8. consumer'[s] = Stored(c, m, b) /\ \A t \in Streams : t # s => consumer'[t] = consumer[t]
    BY <2>5 DEF Base, TypeOK
  <2>9. ASSUME NEW t \in Streams, NEW n \in Numbers(t)
        PROVE  table'[t][n] + Load(consumer'[t], current'[t], step'[t], Parsable(n)) <= Budget'
    <3>1. PICK x \in Nat : x = table[t][n]
      BY <1>3
    <3>2. PICK y \in Nat : y = Load(consumer[t], current[t], step[t], Parsable(n))
      BY <1>3
    <3>3. PICK z \in Nat : z = Load(consumer'[t], current'[t], step'[t], Parsable(n))
      BY <1>3
    <3>4. x + y <= Budget /\ table'[t][n] = x
      BY <2>5, <3>1, <3>2 DEF Accounted
    <3>5. CASE t # s
      <4>1. z = y
        BY <2>5, <2>8, <3>2, <3>3, <3>5
      <4>. QED  BY <2>7, <3>3, <3>4, <4>1
    <3>6. CASE t = s /\ Parsable(n) # m
      <4>1. z <= y + 0
        BY <2>4, <2>5, <2>6, <2>8, <3>2, <3>3, <3>6, LoadStored
      <4>. QED  BY <1>1, <2>7, <3>3, <3>4, <4>1
    <3>7. CASE t = s /\ Parsable(n) = m
      <4>1. n = k
        BY <2>2, <3>7 DEF Parsable
      <4>2. n > Len(published[s]) /\ ~(n \in 1..Len(published[s])) /\ Parsable(n).n = n
        BY <2>6, <4>1, BaseFacts DEF Parsable
      <4>3. x = 0
        BY <3>1, <3>7, <4>2 DEF Base, OnlyPublished
      <4>4. Parsable(n) \notin Inside(c)
        BY <2>4, <4>2 DEF Base, OnlyPublished, Genuine
      <4>5. Parsable(n) # current[s]
        <5>1. CASE step[s] = "idle"
          BY <5>1, NoMessageType DEF Base, TypeOK
        <5>2. CASE step[s] # "idle"
          BY <4>2, <5>2 DEF Base, OnlyPublished, Genuine
        <5>. QED  BY <5>1, <5>2
      <4>6. y = 0
        BY <2>4, <3>2, <3>7, <4>4, <4>5, LoadType
      <4>7. z <= y + 1
        BY <2>4, <2>5, <2>6, <2>8, <3>2, <3>3, <3>7, LoadStored
      <4>. QED  BY <1>1, <2>7, <3>3, <3>4, <4>3, <4>6, <4>7
    <3>. QED  BY <3>5, <3>6, <3>7
  <2>. QED  BY <2>9 DEF Accounted, Numbers
<1>12. ASSUME NEW s \in Streams, NEW m \in consumer[s].unacked, Redeliver(s, m)
       PROVE  Accounted'
  <2>1. PICK c \in Consumer(Message) : c = consumer[s]
    BY <1>6
  <2>2. /\ consumer' = [consumer EXCEPT ![s] = Redelivered(c, m)]
        /\ UNCHANGED <<published, phase, step, current, table, unseen>>
    BY <1>12, <2>1 DEF Redeliver
  <2>3. /\ consumer'[s] = Redelivered(c, m)
        /\ \A t \in Streams : t # s => consumer'[t] = consumer[t]
    BY <2>2 DEF Base, TypeOK
  <2>4. CASE Held(s, m)
    <3>1. Spend("repeats")
      BY <1>12, <2>4 DEF Redeliver
    <3>2. /\ spent'.repeats = spent.repeats + 1 /\ spent'.crashes = spent.crashes
          /\ spent'.stops = spent.stops
      BY <3>1, SpendType DEF Base
    <3>3. Budget + 1 <= Budget'
      BY <1>1, <1>2, <2>2, <3>2 DEF Budget
    <3>4. ASSUME NEW t \in Streams, NEW n \in Numbers(t)
          PROVE  table'[t][n] + Load(consumer'[t], current'[t], step'[t], Parsable(n))
                   <= table[t][n] + Load(consumer[t], current[t], step[t], Parsable(n)) + 1
      <4>1. PICK y \in Nat : y = Load(consumer[t], current[t], step[t], Parsable(n))
        BY <1>3
      <4>2. PICK z \in Nat : z = Load(consumer'[t], current'[t], step'[t], Parsable(n))
        BY <1>3
      <4>3. z <= y + 1
        <5>1. CASE t = s
          BY <2>1, <2>2, <2>3, <4>1, <4>2, <5>1, LoadRedelivered
        <5>2. CASE t # s
          BY <2>2, <2>3, <4>1, <4>2, <5>2
        <5>. QED  BY <5>1, <5>2
      <4>4. PICK x \in Nat : x = table[t][n]
        BY <1>3
      <4>. QED  BY <2>2, <4>1, <4>2, <4>3, <4>4
    <3>. QED  BY <1>4, <3>3, <3>4
  <2>5. CASE ~Held(s, m)
    <3>1. m # current[s] /\ m \notin ToSet(c.inbox) /\ UNCHANGED spent
      BY <1>12, <2>1, <2>5 DEF Redeliver, Held, InInbox
    <3>2. ASSUME NEW t \in Streams, NEW n \in Numbers(t)
          PROVE  Load(consumer'[t], current'[t], step'[t], Parsable(n))
                   <= Load(consumer[t], current[t], step[t], Parsable(n))
      <4>1. CASE t = s
        BY <2>1, <2>2, <2>3, <3>1, <4>1, LoadRedelivered
      <4>2. CASE t # s
        BY <1>3, <2>2, <2>3, <4>2
      <4>. QED  BY <4>1, <4>2
    <3>. QED  BY <1>5, <2>2, <3>1, <3>2
  <2>. QED  BY <2>4, <2>5
<1>13. ASSUME NEW s \in Streams, Dispatch(s) PROVE Accounted'
  <2>1. PICK c \in Consumer(Message) : c = consumer[s] /\ c.inbox # <<>>
    BY <1>13, <1>6 DEF Dispatch
  <2>2. PICK m : m = Head(c.inbox)
    OBVIOUS
  <2>3. /\ consumer' = [consumer EXCEPT ![s] = Taken(c)]
        /\ current' = [current EXCEPT ![s] = m]
        /\ step' = [step EXCEPT ![s] = IF current'[s].valid THEN "save" ELSE "ack"]
        /\ step[s] = "idle" /\ UNCHANGED <<published, phase, table, unseen, spent>>
    BY <1>13, <2>1, <2>2 DEF Dispatch
  <2>4. /\ consumer'[s] = Taken(c) /\ current'[s] = m
        /\ \A t \in Streams : t # s => /\ consumer'[t] = consumer[t]
                                       /\ current'[t] = current[t] /\ step'[t] = step[t]
    BY <2>3 DEF Base, TypeOK
  <2>5. current[s] = NoMessage
    BY <2>3 DEF Base, TypeOK
  <2>6. ASSUME NEW t \in Streams, NEW n \in Numbers(t)
        PROVE  Load(consumer'[t], current'[t], step'[t], Parsable(n))
                 <= Load(consumer[t], current[t], step[t], Parsable(n))
    <3>1. CASE t = s
      <4>1. Parsable(n) # current[s]
        BY <2>5, NoMessageType
      <4>2. Load(Taken(c), current'[s], step'[s], Parsable(n))
              <= Load(c, current[s], "idle", Parsable(n))
        BY <2>1, <2>2, <2>4, <4>1, LoadTaken
      <4>. QED  BY <2>1, <2>3, <2>4, <3>1, <4>2
    <3>2. CASE t # s
      BY <1>3, <2>4, <3>2
    <3>. QED  BY <3>1, <3>2
  <2>. QED  BY <1>5, <2>3, <2>6
<1>14. ASSUME NEW s \in Streams, Save(s) PROVE Accounted'
  <2>1. /\ step[s] = "save" /\ step' = [step EXCEPT ![s] = "ack"]
        /\ UNCHANGED <<published, consumer, phase, current, unseen>>
    BY <1>14 DEF Save
  <2>2. PICK k : k = current[s].n
    OBVIOUS
  <2>3. k \in Numbers(s) /\ current[s] = Parsable(k)
    <3>1. k \in 1..Len(published[s]) /\ current[s].valid
      BY <2>1, <2>2 DEF Base, OnlyPublished, Genuine
    <3>2. k \in Numbers(s)
      BY <3>1, BaseFacts DEF Numbers
    <3>3. current[s] \in Message
      BY BaseFacts
    <3>. QED  BY <2>2, <3>1, <3>2, <3>3 DEF Message, Parsable
  <2>4. step'[s] = "ack" /\ \A t \in Streams : t # s => step'[t] = step[t]
    BY <2>1 DEF Base, TypeOK
  <2>5. /\ \A t \in Streams : t # s => table'[t] = table[t]
        /\ \A n \in Numbers(s) :
             table'[s][n] \in {table[s][n], table[s][n] + (IF n = k THEN 1 ELSE 0)}
    <3>1. CASE UNCHANGED table
      BY <3>1
    <3>2. CASE table' = [table EXCEPT ![s][k] = table[s][k] + 1]
      <4>1. table'[s] = [table[s] EXCEPT ![k] = table[s][k] + 1]
            /\ \A t \in Streams : t # s => table'[t] = table[t]
        BY <3>2 DEF Base, Indexed
      <4>2. table[s] \in [Numbers(s) -> Nat]
        BY BaseFacts
      <4>. QED  BY <2>3, <4>1, <4>2
    <3>. QED  BY <1>14, <2>2, <3>1, <3>2 DEF Save, Insert
  <2>6. /\ spent'.crashes = spent.crashes /\ spent'.stops = spent.stops
        /\ spent'.repeats = spent.repeats
    BY <1>14, SpendType DEF Save, Base
  <2>7. Budget + 0 <= Budget'
    BY <1>1, <1>2, <2>1, <2>6 DEF Budget
  <2>8. ASSUME NEW t \in Streams, NEW n \in Numbers(t)
        PROVE  table'[t][n] + Load(consumer'[t], current'[t], step'[t], Parsable(n))
                 <= table[t][n] + Load(consumer[t], current[t], step[t], Parsable(n)) + 0
    <3>1. PICK x \in Nat : x = table[t][n]
      BY <1>3
    <3>2. PICK y \in Nat : y = Load(consumer[t], current[t], step[t], Parsable(n))
      BY <1>3
    <3>3. PICK z \in Nat : z = Load(consumer'[t], current'[t], step'[t], Parsable(n))
      BY <1>3
    <3>4. CASE t # s
      BY <2>1, <2>4, <2>5, <3>1, <3>2, <3>3, <3>4
    <3>5. CASE t = s
      <4>1. PICK w : w = IF n = k THEN 1 ELSE 0
        OBVIOUS
      <4>2. /\ Saving(current[s], "save", Parsable(n)) = w
            /\ Saving(current[s], "ack", Parsable(n)) = 0
        <5>1. Parsable(n).n = n /\ Parsable(k).n = k
          BY DEF Parsable
        <5>2. current[s] = Parsable(n) <=> n = k
          BY <2>3, <5>1
        <5>. QED  BY <4>1, <5>2 DEF Saving
      <4>3. PICK u \in Nat : u = Load(consumer[s], current[s], "ack", Parsable(n))
        BY <2>1, <2>4, <3>3, <3>5
      <4>4. y = u + w
        <5>1. PICK p \in Nat : p = ToCome(consumer[s], current[s], Parsable(n))
          BY <1>6, LoadType
        <5>2. y = p + w
          BY <2>1, <3>2, <3>5, <4>2, <5>1 DEF Load
        <5>3. u = p + 0
          BY <4>2, <4>3, <5>1 DEF Load
        <5>4. w \in {0, 1}
          BY <4>1
        <5>. QED  BY <5>2, <5>3, <5>4
      <4>5. z = u
        BY <2>1, <2>4, <3>3, <3>5, <4>3
      <4>6. table'[t][n] \in {x, x + w}
        BY <2>5, <3>1, <3>5, <4>1
      <4>. QED  BY <3>1, <3>2, <3>3, <4>1, <4>4, <4>5, <4>6
    <3>. QED  BY <3>4, <3>5
  <2>. QED  BY <1>4, <2>7, <2>8
<1>15. ASSUME NEW s \in Streams, Ack(s) PROVE Accounted'
  <2>1. PICK c \in Consumer(Message) : c = consumer[s]
    BY <1>6
  <2>2. PICK m : m = current[s]
    OBVIOUS
  <2>3. /\ consumer' = [consumer EXCEPT ![s] = Acked(c, m)]
        /\ step' = [step EXCEPT ![s] = "idle"] /\ step[s] = "ack"
        /\ current' = [current EXCEPT ![s] = NoMessage]
        /\ UNCHANGED <<published, phase, table, unseen, spent>>
    BY <1>15, <2>1, <2>2 DEF Ack
  <2>4. /\ consumer'[s] = Acked(c, m) /\ current'[s] = NoMessage /\ step'[s] = "idle"
        /\ \A t \in Streams : t # s => /\ consumer'[t] = consumer[t]
                                       /\ current'[t] = current[t] /\ step'[t] = step[t]
    BY <2>3 DEF Base, TypeOK
  <2>5. ASSUME NEW t \in Streams, NEW n \in Numbers(t)
        PROVE  Load(consumer'[t], current'[t], step'[t], Parsable(n))
                 <= Load(consumer[t], current[t], step[t], Parsable(n))
    <3>1. CASE t = s
      BY <2>1, <2>2, <2>3, <2>4, <3>1, LoadAcked
    <3>2. CASE t # s
      BY <1>3, <2>4, <3>2
    <3>. QED  BY <3>1, <3>2
  <2>. QED  BY <1>5, <2>3, <2>5
<1>16. CASE SubscribeMetrics \/ SubscribeSpeedtest
  <2>1. PICK s, c2 :
          /\ s \in Streams
          /\ c2 = Subscribed(consumer[s]) \/ c2 = NewConsumer
          /\ consumer' = [consumer EXCEPT ![s] = c2]
          /\ phase # "stopping" /\ phase' # "stopping"
          /\ UNCHANGED <<published, step, current, table, unseen>>
          /\ UNCHANGED spent \/ Spend("conflicts")
    BY <1>16 DEF SubscribeMetrics, SubscribeSpeedtest, Streams
  <2>2. /\ spent'.crashes = spent.crashes /\ spent'.stops = spent.stops
        /\ spent'.repeats = spent.repeats
    BY <2>1, SpendType DEF Base
  <2>3. Budget + 0 <= Budget'
    BY <1>1, <1>2, <2>1, <2>2 DEF Budget
  <2>4. consumer'[s] = c2 /\ \A t \in Streams : t # s => consumer'[t] = consumer[t]
    BY <2>1 DEF Base, TypeOK
  <2>5. ASSUME NEW t \in Streams, NEW n \in Numbers(t)
        PROVE  table'[t][n] + Load(consumer'[t], current'[t], step'[t], Parsable(n))
                 <= table[t][n] + Load(consumer[t], current[t], step[t], Parsable(n)) + 0
    <3>1. PICK x \in Nat : x = table[t][n]
      BY <1>3
    <3>2. PICK y \in Nat : y = Load(consumer[t], current[t], step[t], Parsable(n))
      BY <1>3
    <3>3. PICK z \in Nat : z = Load(consumer'[t], current'[t], step'[t], Parsable(n))
      BY <1>3
    <3>4. z <= y
      <4>1. CASE t = s
        <5>1. /\ Load(Subscribed(consumer[s]), current[s], step[s], Parsable(n)) <= y
              /\ Load(NewConsumer, current[s], step[s], Parsable(n)) <= y
          BY <1>6, <3>2, <4>1, LoadSubscribed
        <5>. QED  BY <2>1, <2>4, <3>3, <4>1, <5>1
      <4>2. CASE t # s
        BY <2>1, <2>4, <3>2, <3>3, <4>2
      <4>. QED  BY <4>1, <4>2
    <3>. QED  BY <2>1, <3>1, <3>2, <3>3, <3>4
  <2>. QED  BY <1>4, <2>3, <2>5
<1>17. CASE StopMetrics
  <2>1. PICK s \in Streams : s = "metrics"
    BY DEF Streams
  <2>2. /\ consumer' = [consumer EXCEPT ![s] = Unsubscribed(consumer[s])]
        /\ phase = "running" /\ phase' = "stopping" /\ Spend("stops")
        /\ UNCHANGED <<published, step, current, table, unseen>>
    BY <1>17, <2>1 DEF StopMetrics, Unsubscribe
  <2>3. /\ spent'.crashes = spent.crashes /\ spent'.stops = spent.stops + 1
        /\ spent'.repeats = spent.repeats
    BY <2>2, SpendType DEF Base
  <2>4. Budget + 0 <= Budget'
    BY <1>1, <1>2, <2>2, <2>3 DEF Budget
  <2>5. /\ consumer'[s] = Unsubscribed(consumer[s])
        /\ \A t \in Streams : t # s => consumer'[t] = consumer[t]
    BY <2>2 DEF Base, TypeOK
  <2>6. ASSUME NEW t \in Streams, NEW n \in Numbers(t)
        PROVE  table'[t][n] + Load(consumer'[t], current'[t], step'[t], Parsable(n))
                 <= table[t][n] + Load(consumer[t], current[t], step[t], Parsable(n)) + 0
    <3>1. PICK x \in Nat : x = table[t][n]
      BY <1>3
    <3>2. PICK y \in Nat : y = Load(consumer[t], current[t], step[t], Parsable(n))
      BY <1>3
    <3>3. PICK z \in Nat : z = Load(consumer'[t], current'[t], step'[t], Parsable(n))
      BY <1>3
    <3>4. z <= y
      <4>1. CASE t = s
        BY <1>6, <2>2, <2>5, <3>2, <3>3, <4>1, LoadDropped
      <4>2. CASE t # s
        BY <2>2, <2>5, <3>2, <3>3, <4>2
      <4>. QED  BY <4>1, <4>2
    <3>. QED  BY <2>2, <3>1, <3>2, <3>3, <3>4
  <2>. QED  BY <1>4, <2>4, <2>6
<1>18. CASE StopSpeedtest \/ Crash
  <2>1. /\ phase' \in {"off", "crashed"} /\ Exit /\ UNCHANGED <<table>>
        /\ (phase = "stopping" /\ UNCHANGED spent) \/ Spend("crashes")
    BY <1>18 DEF StopSpeedtest, Crash, Exit
  <2>2. \/ consumer' = [s \in Streams |-> Abandoned(consumer[s])]
        \/ consumer' = [consumer EXCEPT !["speedtest"] = Unsubscribed(consumer["speedtest"])]
    BY <1>18 DEF StopSpeedtest, Unsubscribe, Crash
  <2>3. Budget + 1 <= Budget'
    <3>1. CASE phase = "stopping" /\ UNCHANGED spent
      BY <1>1, <1>2, <2>1, <3>1 DEF Budget
    <3>2. CASE Spend("crashes")
      <4>1. /\ spent'.crashes = spent.crashes + 1 /\ spent'.stops = spent.stops
            /\ spent'.repeats = spent.repeats
        BY <3>2, SpendType DEF Base
      <4>. QED  BY <1>1, <1>2, <2>1, <4>1 DEF Budget
    <3>. QED  BY <2>1, <3>1, <3>2
  <2>4. ASSUME NEW t \in Streams, NEW n \in Numbers(t)
        PROVE  table'[t][n] + Load(consumer'[t], current'[t], step'[t], Parsable(n))
                 <= table[t][n] + Load(consumer[t], current[t], step[t], Parsable(n)) + 1
    <3>1. PICK x \in Nat : x = table[t][n]
      BY <1>3
    <3>2. PICK y \in Nat : y = Load(consumer[t], current[t], step[t], Parsable(n))
      BY <1>3
    <3>3. PICK z \in Nat : z = Load(consumer'[t], current'[t], step'[t], Parsable(n))
      BY <1>3
    <3>4. PICK c \in Consumer(Message) : c = consumer[t]
      BY <1>6
    <3>5. PICK c2 \in Consumer(Message) : c2 = consumer'[t]
      BY DEF Base, TypeOK
    <3>6. c2 \in {c, Abandoned(c), Unsubscribed(c)}
      BY <2>2, <3>4, <3>5 DEF Base, TypeOK
    <3>7. PICK v \in Nat : v = Load(c2, current[t], step[t], Parsable(n))
      BY LoadType
    <3>8. v <= y
      BY <3>2, <3>4, <3>6, <3>7, LoadDropped
    <3>9. step'[t] = "idle"
      BY <2>1 DEF Exit
    <3>10. z <= v + 1
      BY <3>3, <3>5, <3>7, <3>9, LoadExit
    <3>. QED  BY <2>1, <3>1, <3>2, <3>3, <3>8, <3>10
  <2>. QED  BY <1>4, <2>3, <2>4
<1>. QED
  BY <1>10, <1>11, <1>12, <1>13, <1>14, <1>15, <1>16, <1>17, <1>18 DEF Next, Callback

\* Rows alone are within the account.
LEMMA AccountedRows == ASSUME Base, Accounted PROVE DuplicatesBounded
<1>1. /\ spent.crashes \in Nat /\ spent.stops \in Nat /\ spent.repeats \in Nat
  BY SpentType, LimitsDomain DEF Base
<1>2. Budget <= 1 + spent.crashes + spent.stops + spent.repeats /\ Budget \in Nat
  BY <1>1 DEF Budget
<1>3. ASSUME NEW s \in Streams, NEW n \in Numbers(s)
      PROVE  table[s][n] <= 1 + spent.crashes + spent.stops + spent.repeats
  <2>1. PICK y \in Nat : y = Load(consumer[s], current[s], step[s], Parsable(n))
    BY AccountedTypes
  <2>2. table[s][n] + y <= Budget /\ table[s][n] \in Nat
    BY <2>1, AccountedTypes DEF Accounted
  <2>. QED  BY <1>1, <1>2, <2>1, <2>2
<1>. QED  BY <1>3 DEF DuplicatesBounded

-----------------------------------------------------------------------------
(* Only a failed insert loses a message.                                    *)

\* The missed messages of a stream are some of those published.
LEMMA MissedType ==
  ASSUME Base, NEW s \in Streams
  PROVE  IsFiniteSet(Missed(s)) /\ Cardinality(Missed(s)) \in Nat
<1>1. DOMAIN published[s] = 1..Len(published[s]) /\ Len(published[s]) \in Nat
  BY BaseFacts, LenProperties
<1>2. IsFiniteSet(DOMAIN published[s])
  <2>1. \A n \in Nat : IsFiniteSet(1..n)
    BY FS_Interval
  <2>. QED  BY <1>1, <2>1
<1>3. Missed(s) \subseteq DOMAIN published[s]
  BY DEF Missed
<1>4. IsFiniteSet(Missed(s))
  BY <1>2, <1>3, FS_Subset
<1>. QED  BY <1>4, FS_CardinalityType

\* Fewer elements, or at most one more.
LEMMA CountGrows ==
  ASSUME NEW A, NEW B, NEW x, IsFiniteSet(A)
  PROVE  /\ B \subseteq A => Cardinality(B) <= Cardinality(A)
         /\ B \subseteq A \cup {x} => Cardinality(B) <= Cardinality(A) + 1
<1>1. Cardinality(A) \in Nat
  BY FS_CardinalityType
<1>2. B \subseteq A => Cardinality(B) <= Cardinality(A)
  BY FS_Subset
<1>3. /\ IsFiniteSet(A \cup {x}) /\ Cardinality(A \cup {x}) \in Nat
      /\ Cardinality(A \cup {x}) <= Cardinality(A) + 1
  BY <1>1, FS_AddElement, SMTT(30)
<1>4. ASSUME B \subseteq A \cup {x} PROVE Cardinality(B) <= Cardinality(A) + 1
  <2>1. Cardinality(B) <= Cardinality(A \cup {x}) /\ IsFiniteSet(B)
    BY <1>3, <1>4, FS_Subset
  <2>2. Cardinality(B) \in Nat
    BY <2>1, FS_CardinalityType
  <2>. QED  BY <1>1, <1>3, <2>1, <2>2
<1>. QED  BY <1>2, <1>4

\* What keeps the rows, the history and all that is to be done, and does not
\* bring a parsable message to its acknowledgement, misses nothing more.
LEMMA MissedKept ==
  ASSUME Base, Base', NEW s \in Streams,
         published'[s] = published[s], unseen'[s] = unseen[s], table'[s] = table[s],
         Undone(consumer[s]) \subseteq Undone(consumer'[s]),
         step'[s] = "ack" =>
           (step[s] = "ack" /\ current'[s] = current[s]) \/ ~current'[s].valid
  PROVE  Missed(s)' \subseteq Missed(s)
<1>. SUFFICES ASSUME NEW n \in DOMAIN published[s], published[s][n],
                     n \notin unseen[s], table[s][n] = 0,
                     (\E m \in Undone(consumer'[s]) : m.n = n)
                       => step'[s] = "ack" /\ current'[s].n = n,
                     \E m \in Undone(consumer[s]) : m.n = n
              PROVE  step[s] = "ack" /\ current[s].n = n
  BY DEF Missed, Due
<1>1. step'[s] = "ack" /\ current'[s].n = n
  OBVIOUS
<1>2. current'[s].valid = published'[s][current'[s].n]
  BY <1>1 DEF Base, OnlyPublished, Genuine
<1>. QED  BY <1>1, <1>2

\* Without a signal or a conflict, a step misses nothing unless an insert fails,
\* and then one message at most.
LEMMA FailuresCoverStep ==
  ASSUME Base, Base', FailuresCover, [Next]_vars
  PROVE  FailuresCover'
<1>. USE LimitsDomain
<1>1. SUFFICES ASSUME Backend = "sqlite", spent'.stops + spent'.conflicts = 0
               PROVE  Cardinality(Missed("metrics")') + Cardinality(Missed("speedtest")')
                        <= spent'.failures
  BY DEF FailuresCover
<1>2. /\ \A what \in DOMAIN Limits : spent[what] \in Nat /\ spent'[what] \in Nat
      /\ \A what \in DOMAIN Limits : spent'[what] >= spent[what]
  <2>1. \A what \in DOMAIN Limits : spent[what] \in Nat /\ spent'[what] \in Nat
    BY DEF Base, TypeOK
  <2>2. UNCHANGED spent \/ \E what \in DOMAIN Limits : Spend(what)
    BY DEF Next, Callback, vars, Publish, Redeliver, Dispatch, Save, Ack, SubscribeMetrics,
           SubscribeSpeedtest, Crash, StopMetrics, StopSpeedtest
  <2>3. ASSUME NEW what \in DOMAIN Limits, Spend(what), NEW other \in DOMAIN Limits
        PROVE  spent'[other] >= spent[other]
    BY <2>1, <2>3, SpendType DEF Base
  <2>. QED  BY <2>1, <2>2, <2>3
<1>3. /\ spent.stops = 0 /\ spent.conflicts = 0 /\ spent'.stops = 0 /\ spent'.conflicts = 0
      /\ spent.failures \in Nat /\ spent'.failures \in Nat /\ spent'.failures >= spent.failures
  <2>1. /\ spent.stops \in Nat /\ spent.conflicts \in Nat
        /\ spent'.stops \in Nat /\ spent'.conflicts \in Nat
        /\ spent'.stops >= spent.stops /\ spent'.conflicts >= spent.conflicts
    BY <1>2
  <2>. QED  BY <1>1, <1>2, <2>1
<1>4. /\ "metrics" \in Streams /\ "speedtest" \in Streams
      /\ \A s \in Streams : s = "metrics" \/ s = "speedtest"
  BY DEF Streams
<1>5. /\ Cardinality(Missed("metrics")) + Cardinality(Missed("speedtest")) <= spent.failures
      /\ \A s \in Streams : IsFiniteSet(Missed(s)) /\ Cardinality(Missed(s)) \in Nat
  BY <1>1, <1>3, MissedType DEF FailuresCover
<1>6. \A s \in Streams : Cardinality(Missed(s)') \in Nat
  <2>1. ASSUME NEW s \in Streams PROVE Cardinality(Missed(s)') \in Nat
    <3>1. published'[s] \in Seq(BOOLEAN)
      BY DEF Base, TypeOK
    <3>2. DOMAIN published'[s] = 1..Len(published'[s]) /\ Len(published'[s]) \in Nat
      BY <3>1, LenProperties
    <3>3. IsFiniteSet(DOMAIN published'[s])
      BY <3>2, FS_Interval
    <3>4. Missed(s)' \subseteq DOMAIN published'[s]
      BY DEF Missed
    <3>5. IsFiniteSet(Missed(s)')
      BY <3>3, <3>4, FS_Subset
    <3>. QED  BY <3>5, FS_CardinalityType
  <2>. QED  BY <2>1
<1>7. ASSUME \A s \in Streams : Missed(s)' \subseteq Missed(s)
      PROVE  Cardinality(Missed("metrics")') + Cardinality(Missed("speedtest")')
               <= spent'.failures
  <2>1. /\ Cardinality(Missed("metrics")') <= Cardinality(Missed("metrics"))
        /\ Cardinality(Missed("speedtest")') <= Cardinality(Missed("speedtest"))
    BY <1>4, <1>5, <1>7, CountGrows
  <2>. QED  BY <1>3, <1>4, <1>5, <1>6, <2>1
<1>8. \A s \in Streams : consumer[s] \in Consumer(Message)
  BY BaseFacts
<1>9. ASSUME UNCHANGED <<published, unseen, table>>,
             \A s \in Streams :
               /\ Undone(consumer[s]) \subseteq Undone(consumer'[s])
               /\ step'[s] = "ack" =>
                    (step[s] = "ack" /\ current'[s] = current[s]) \/ ~current'[s].valid
      PROVE  \A s \in Streams : Missed(s)' \subseteq Missed(s)
  BY <1>9, MissedKept
<1>10. CASE UNCHANGED vars
  <2>1. UNCHANGED <<published, unseen, table, consumer, step, current>>
    BY <1>10 DEF vars
  <2>. QED  BY <1>7, <1>9, <2>1
<1>11. ASSUME NEW s \in Streams, NEW valid \in BOOLEAN, Publish(s, valid)
       PROVE  \A t \in Streams : Missed(t)' \subseteq Missed(t)
  <2>1. PICK k : k = Len(published'[s])
    OBVIOUS
  <2>2. PICK m : m = [n |-> k, valid |-> valid]
    OBVIOUS
  <2>3. PICK b : b = Bound(s)
    OBVIOUS
  <2>4. PICK c \in Consumer(Message) : c = consumer[s]
    BY <1>8
  <2>5. /\ consumer' = [consumer EXCEPT ![s] = Stored(c, m, b)]
        /\ published' = [published EXCEPT ![s] = Append(published[s], valid)]
        /\ unseen' = IF c.exists THEN unseen ELSE [unseen EXCEPT ![s] = unseen[s] \cup {k}]
        /\ UNCHANGED <<phase, step, current, table, spent>>
    BY <1>11, <2>1, <2>2, <2>3, <2>4 DEF Publish
  <2>6. b \in BOOLEAN
    <3>1. Bound(s) \in BOOLEAN
      BY DEF Bound, Base, TypeOK, Streams
    <3>. QED  BY <2>3, <3>1
  <2>7. /\ published'[s] = Append(published[s], valid)
        /\ consumer'[s] = Stored(c, m, b)
        /\ \A t \in Streams : t # s => /\ consumer'[t] = consumer[t]
                                       /\ published'[t] = published[t]
                                       /\ unseen'[t] = unseen[t]
        /\ unseen'[s] = IF c.exists THEN unseen[s] ELSE unseen[s] \cup {k}
    BY <2>5 DEF Base, TypeOK, Indexed
  <2>8. /\ k = Len(published[s]) + 1 /\ k \in Nat /\ m \in Message
        /\ DOMAIN published[s] = 1..Len(published[s]) /\ DOMAIN published'[s] = 1..k
        /\ \A i \in 1..Len(published[s]) : published'[s][i] = published[s][i]
        /\ Len(published[s]) \in Nat
    <3>1. published[s] \in Seq(BOOLEAN) /\ published'[s] \in Seq(BOOLEAN)
      BY DEF Base, TypeOK
    <3>2. /\ k = Len(published[s]) + 1 /\ Len(published[s]) \in Nat
          /\ \A i \in 1..Len(published[s]) : published'[s][i] = published[s][i]
      BY <2>1, <2>7, <3>1, AppendProperties, LenProperties
    <3>3. DOMAIN published[s] = 1..Len(published[s]) /\ DOMAIN published'[s] = 1..k
      BY <2>1, <3>1, LenProperties
    <3>. QED  BY <2>2, <3>2, <3>3 DEF Message
  <2>9. /\ Undone(c) \subseteq Undone(Stored(c, m, b))
        /\ c.exists => m \in Undone(Stored(c, m, b))
    BY <2>4, <2>6, <2>8, StoredInside
  <2>10. ASSUME NEW n \in Missed(s)' PROVE n \in Missed(s)
    <3>1. /\ n \in DOMAIN published'[s] /\ published'[s][n]
          /\ n \notin unseen'[s] /\ table[s][n] = 0
          /\ (\E x \in Undone(consumer'[s]) : x.n = n) => step[s] = "ack" /\ current[s].n = n
      BY <2>5 DEF Missed, Due
    <3>2. CASE n = k
      <4>1. c.exists
        BY <2>7, <3>1, <3>2
      <4>2. step[s] = "ack" /\ current[s].n = k
        BY <2>2, <2>7, <2>9, <3>1, <3>2, <4>1
      <4>3. k \in 1..Len(published[s])
        BY <4>2 DEF Base, OnlyPublished, Genuine
      <4>. QED  BY <2>8, <4>3
    <3>3. CASE n # k
      <4>1. n \in 1..Len(published[s])
        BY <2>8, <3>1, <3>3
      <4>2. n \in DOMAIN published[s] /\ published[s][n] /\ n \notin unseen[s]
        BY <2>7, <2>8, <3>1, <4>1
      <4>3. (\E x \in Undone(consumer[s]) : x.n = n) => step[s] = "ack" /\ current[s].n = n
        BY <2>4, <2>7, <2>9, <3>1
      <4>. QED  BY <3>1, <4>2, <4>3 DEF Missed, Due
    <3>. QED  BY <3>2, <3>3
  <2>11. ASSUME NEW t \in Streams, t # s PROVE Missed(t)' \subseteq Missed(t)
    BY <2>5, <2>7, <2>11, MissedKept
  <2>. QED  BY <2>10, <2>11
<1>12. ASSUME NEW s \in Streams, NEW m \in consumer[s].unacked, Redeliver(s, m)
       PROVE  \A t \in Streams : Missed(t)' \subseteq Missed(t)
  <2>1. PICK c \in Consumer(Message) : c = consumer[s]
    BY <1>8
  <2>2. /\ consumer' = [consumer EXCEPT ![s] = Redelivered(c, m)]
        /\ UNCHANGED <<published, phase, step, current, table, unseen>>
    BY <1>12, <2>1 DEF Redeliver
  <2>3. Undone(Redelivered(c, m)) = Undone(c)
    BY <2>1, BaseFacts, KeptInside
  <2>4. \A t \in Streams : Undone(consumer[t]) \subseteq Undone(consumer'[t])
    BY <2>1, <2>2, <2>3 DEF Base, TypeOK
  <2>. QED  BY <1>9, <2>2, <2>4
<1>13. ASSUME NEW s \in Streams, Dispatch(s)
       PROVE  \A t \in Streams : Missed(t)' \subseteq Missed(t)
  <2>1. PICK c \in Consumer(Message) : c = consumer[s] /\ c.inbox # <<>>
    BY <1>8, <1>13 DEF Dispatch
  <2>2. PICK m : m = Head(c.inbox)
    OBVIOUS
  <2>3. /\ consumer' = [consumer EXCEPT ![s] = Taken(c)]
        /\ current' = [current EXCEPT ![s] = m]
        /\ step' = [step EXCEPT ![s] = IF current'[s].valid THEN "save" ELSE "ack"]
        /\ UNCHANGED <<published, phase, table, unseen, spent>>
    BY <1>13, <2>1, <2>2 DEF Dispatch
  <2>4. Undone(Taken(c)) = Undone(c)
    BY <2>1, KeptInside
  <2>5. \A t \in Streams : Undone(consumer[t]) \subseteq Undone(consumer'[t])
    BY <2>1, <2>3, <2>4 DEF Base, TypeOK
  <2>6. /\ step'[s] = "ack" => ~current'[s].valid
        /\ \A t \in Streams : t # s => step'[t] = step[t] /\ current'[t] = current[t]
    BY <2>3 DEF Base, TypeOK
  <2>. QED  BY <1>9, <2>3, <2>5, <2>6
<1>14. ASSUME NEW s \in Streams, Save(s)
       PROVE  Cardinality(Missed("metrics")') + Cardinality(Missed("speedtest")')
                <= spent'.failures
  <2>1. /\ step[s] = "save" /\ step' = [step EXCEPT ![s] = "ack"]
        /\ UNCHANGED <<published, consumer, phase, current, unseen>>
    BY <1>14 DEF Save
  <2>2. PICK k : k = current[s].n
    OBVIOUS
  <2>3. k \in Numbers(s)
    <3>1. k \in 1..Len(published[s])
      BY <2>1, <2>2 DEF Base, OnlyPublished, Genuine
    <3>. QED  BY <3>1, BaseFacts DEF Numbers
  <2>4. /\ step'[s] = "ack" /\ \A t \in Streams : t # s => step'[t] = step[t]
    BY <2>1 DEF Base, TypeOK
  <2>5. \/ /\ \A t \in Streams : t # s => table'[t] = table[t]
           /\ table'[s] = [table[s] EXCEPT ![k] = table[s][k] + 1]
        \/ UNCHANGED table /\ Spend("failures")
    <3>1. Accepted(s)
      BY <1>1 DEF Accepted, RequiredColumns
    <3>2. CASE table' = [table EXCEPT ![s][k] = table[s][k] + 1]
      BY <3>2 DEF Base, Indexed
    <3>. QED  BY <1>14, <2>2, <3>1, <3>2 DEF Save, Insert
  <2>6. ASSUME NEW t \in Streams, t # s PROVE Missed(t)' \subseteq Missed(t)
    <3>1. table'[t] = table[t]
      BY <2>5, <2>6
    <3>. QED  BY <2>1, <2>4, <2>6, <3>1, MissedKept
  <2>7. ASSUME NEW n \in Missed(s)', n # k PROVE n \in Missed(s)
    <3>1. /\ n \in DOMAIN published[s] /\ published[s][n]
          /\ n \notin unseen[s] /\ table'[s][n] = 0
          /\ (\E x \in Undone(consumer[s]) : x.n = n) => current[s].n = n
      BY <2>1 DEF Missed, Due
    <3>2. table[s][n] = 0
      <4>1. n \in Numbers(s)
        <5>1. DOMAIN published[s] = 1..Len(published[s])
          BY BaseFacts, LenProperties
        <5>. QED  BY <3>1, <5>1, BaseFacts DEF Numbers
      <4>2. table[s] \in [Numbers(s) -> Nat]
        BY BaseFacts
      <4>. QED  BY <2>3, <2>5, <2>7, <3>1, <4>1, <4>2
    <3>3. ~ \E x \in Undone(consumer[s]) : x.n = n
      BY <2>2, <2>7, <3>1
    <3>. QED  BY <3>1, <3>2, <3>3 DEF Missed, Due
  <2>8. CASE table'[s] = [table[s] EXCEPT ![k] = table[s][k] + 1]
    <3>1. k \notin Missed(s)'
      <4>1. table[s] \in [Numbers(s) -> Nat]
        BY BaseFacts
      <4>2. table'[s][k] # 0
        BY <2>3, <2>8, <4>1
      <4>. QED  BY <4>2 DEF Missed
    <3>. QED  BY <1>7, <2>6, <2>7, <3>1
  <2>9. CASE Spend("failures")
    <3>1. spent'.failures = spent.failures + 1
      BY <2>9, SpendType DEF Base
    <3>2. \A t \in Streams : t # s => Cardinality(Missed(t)') <= Cardinality(Missed(t))
      BY <1>5, <2>6, CountGrows
    <3>3. Cardinality(Missed(s)') <= Cardinality(Missed(s)) + 1
      <4>1. Missed(s)' \subseteq Missed(s) \cup {k}
        BY <2>7
      <4>. QED  BY <1>5, <4>1, CountGrows
    <3>4. CASE s = "metrics"
      <4>1. Cardinality(Missed("speedtest")') <= Cardinality(Missed("speedtest"))
        BY <1>4, <3>2, <3>4
      <4>. QED  BY <1>3, <1>4, <1>5, <1>6, <3>1, <3>3, <3>4, <4>1
    <3>5. CASE s = "speedtest"
      <4>1. Cardinality(Missed("metrics")') <= Cardinality(Missed("metrics"))
        BY <1>4, <3>2, <3>5
      <4>. QED  BY <1>3, <1>4, <1>5, <1>6, <3>1, <3>3, <3>5, <4>1
    <3>. QED  BY <1>4, <3>4, <3>5
  <2>. QED  BY <2>5, <2>8, <2>9
<1>15. ASSUME NEW s \in Streams, Ack(s)
       PROVE  \A t \in Streams : Missed(t)' \subseteq Missed(t)
  <2>1. PICK c \in Consumer(Message) : c = consumer[s]
    BY <1>8
  <2>2. PICK m : m = current[s]
    OBVIOUS
  <2>3. /\ consumer' = [consumer EXCEPT ![s] = Acked(c, m)]
        /\ step' = [step EXCEPT ![s] = "idle"] /\ step[s] = "ack"
        /\ current' = [current EXCEPT ![s] = NoMessage]
        /\ UNCHANGED <<published, phase, table, unseen, spent>>
    BY <1>15, <2>1, <2>2 DEF Ack
  <2>4. /\ consumer'[s] = Acked(c, m) /\ step'[s] = "idle"
        /\ \A t \in Streams : t # s => /\ consumer'[t] = consumer[t]
                                       /\ current'[t] = current[t] /\ step'[t] = step[t]
    BY <2>3 DEF Base, TypeOK
  <2>5. Undone(c) \subseteq Undone(Acked(c, m)) \cup {m}
    BY <2>1, KeptInside
  <2>6. ASSUME NEW n \in Missed(s)' PROVE n \in Missed(s)
    <3>1. /\ n \in DOMAIN published[s] /\ published[s][n]
          /\ n \notin unseen[s] /\ table[s][n] = 0
          /\ ~ \E x \in Undone(consumer'[s]) : x.n = n
      BY <2>3, <2>4 DEF Missed, Due
    <3>2. (\E x \in Undone(consumer[s]) : x.n = n) => current[s].n = n
      BY <2>1, <2>2, <2>4, <2>5, <3>1
    <3>. QED  BY <2>3, <3>1, <3>2 DEF Missed, Due
  <2>7. ASSUME NEW t \in Streams, t # s PROVE Missed(t)' \subseteq Missed(t)
    BY <2>3, <2>4, <2>7, MissedKept
  <2>. QED  BY <2>6, <2>7
<1>16. CASE SubscribeMetrics \/ SubscribeSpeedtest
  <2>1. PICK s \in Streams :
          /\ consumer' = [consumer EXCEPT ![s] = Subscribed(consumer[s])]
          /\ UNCHANGED <<published, step, current, table, unseen>>
    <3>1. ~Spend("conflicts")
      BY <1>3, SpendType DEF Base
    <3>. QED  BY <1>16, <3>1 DEF SubscribeMetrics, SubscribeSpeedtest, Streams
  <2>2. PICK c \in Consumer(Message) : c = consumer[s]
    BY <1>8
  <2>3. Undone(c) \subseteq Undone(Subscribed(c))
    <3>1. CASE c.exists
      BY <3>1, SubscribedInside
    <3>2. CASE ~c.exists
      <4>1. c = NoConsumer
        BY <2>2, <3>2 DEF Base, NothingLeft
      <4>. QED  BY <4>1, ToSetEmpty DEF Undone, NoConsumer
    <3>. QED  BY <3>1, <3>2
  <2>4. \A t \in Streams : Undone(consumer[t]) \subseteq Undone(consumer'[t])
    BY <2>1, <2>2, <2>3 DEF Base, TypeOK
  <2>. QED  BY <1>7, <1>9, <2>1, <2>4
<1>17. ASSUME StopMetrics PROVE FALSE
  <2>1. Spend("stops")
    BY <1>17 DEF StopMetrics
  <2>. QED  BY <1>3, <2>1, SpendType DEF Base
<1>18. ASSUME StopSpeedtest PROVE FALSE
  BY <1>3, <1>18 DEF StopSpeedtest, Base, NothingLeft
<1>19. CASE Crash
  <2>1. /\ consumer' = [s \in Streams |-> Abandoned(consumer[s])]
        /\ UNCHANGED <<published, table, unseen>>
        /\ step' = [s \in Streams |-> "idle"]
    BY <1>19 DEF Crash, Exit
  <2>2. \A t \in Streams : Undone(consumer[t]) \subseteq Undone(consumer'[t])
    <3>1. ASSUME NEW t \in Streams PROVE Undone(consumer'[t]) = Undone(consumer[t])
      <4>1. PICK c \in Consumer(Message) : c = consumer[t]
        BY <1>8
      <4>2. Undone(Abandoned(c)) = Undone(c)
        BY <4>1, KeptInside
      <4>. QED  BY <2>1, <4>1, <4>2
    <3>. QED  BY <3>1
  <2>. QED  BY <1>7, <1>9, <2>1, <2>2
<1>. QED
  BY <1>7, <1>10, <1>11, <1>12, <1>13, <1>14, <1>15, <1>16, <1>17, <1>18, <1>19
  DEF Next, Callback

\* A lost message has been missed.
LEMMA MissedCoversLost ==
  ASSUME Base, FailuresCover, Backend = "sqlite"
  PROVE  LossBounded
<1>. SUFFICES ASSUME spent.stops + spent.conflicts = 0
              PROVE  Cardinality(Lost("metrics")) + Cardinality(Lost("speedtest"))
                       <= spent.failures
  BY DEF LossBounded
<1>1. /\ "metrics" \in Streams /\ "speedtest" \in Streams
      /\ spent.failures \in Nat
  BY SpentType, LimitsDomain DEF Streams, Base
<1>2. ASSUME NEW s \in Streams
      PROVE  /\ Cardinality(Lost(s)) <= Cardinality(Missed(s))
             /\ Cardinality(Lost(s)) \in Nat /\ Cardinality(Missed(s)) \in Nat
  <2>1. Lost(s) \subseteq Missed(s)
    BY DEF Lost, Missed
  <2>2. IsFiniteSet(Missed(s)) /\ Cardinality(Missed(s)) \in Nat
    BY MissedType
  <2>3. IsFiniteSet(Lost(s)) /\ Cardinality(Lost(s)) <= Cardinality(Missed(s))
    BY <2>1, <2>2, FS_Subset
  <2>. QED  BY <2>2, <2>3, FS_CardinalityType
<1>3. Cardinality(Missed("metrics")) + Cardinality(Missed("speedtest")) <= spent.failures
  BY DEF FailuresCover
<1>. QED  BY <1>1, <1>2, <1>3

-----------------------------------------------------------------------------
(* Induction.                                                               *)

\* The invariant holds at the start.
LEMMA InitInv == Init => IInv
<1>. SUFFICES ASSUME Init PROVE IInv
  OBVIOUS
<1>. USE LimitsDomain
<1>1. NoConsumer \in Consumer(Message) /\ Inside(NoConsumer) = {}
  BY NewConsumerType, ToSetEmpty DEF NoConsumer, Inside
<1>2. <<>> \in Seq(BOOLEAN) /\ Len(<<>>) = 0 /\ DOMAIN <<>> = {}
  BY EmptySeq
<1>3. /\ \A s \in Streams : /\ published[s] = <<>> /\ consumer[s] = NoConsumer
                            /\ step[s] = "idle" /\ current[s] = NoMessage
                            /\ table[s] = [n \in Numbers(s) |-> 0] /\ unseen[s] = {}
      /\ \A what \in DOMAIN Limits : spent[what] = 0
  BY DEF Init
<1>4. TypeOK /\ Indexed
  BY <1>1, <1>2, <1>3 DEF Init, TypeOK, Indexed
<1>5. /\ \A s \in Streams : MaxMessages[s] \in Nat
      /\ \A s \in Streams : \A n \in Numbers(s) : table[s][n] = 0
  <2>1. ASSUME NEW s \in Streams, NEW n \in Numbers(s) PROVE table[s][n] = 0
    <3>1. table[s] = [k \in Numbers(s) |-> 0]
      BY <1>3
    <3>. QED  BY <3>1
  <2>. QED  BY <2>1, ProcessorAssumption
<1>6. OnlyPublished
  <2>1. ASSUME NEW s \in Streams
        PROVE  /\ Len(published[s]) <= MaxMessages[s]
               /\ Inside(consumer[s]) = {} /\ step[s] = "idle"
               /\ \A n \in Numbers(s) : table[s][n] = 0
    <3>1. published[s] = <<>> /\ consumer[s] = NoConsumer /\ step[s] = "idle"
      BY <1>3
    <3>2. Len(published[s]) = 0 /\ MaxMessages[s] \in Nat
      BY <1>2, <1>5, <3>1
    <3>3. Inside(consumer[s]) = {}
      BY <1>1, <3>1
    <3>. QED  BY <1>5, <3>1, <3>2, <3>3
  <2>. QED  BY <2>1 DEF OnlyPublished
<1>7. NothingLeft
  BY <1>3 DEF Init, NothingLeft
<1>8. Budget = 1
  BY <1>3 DEF Init, Budget
<1>9. Accounted
  <2>1. ASSUME NEW s \in Streams, NEW n \in Numbers(s)
        PROVE  table[s][n] + Load(consumer[s], current[s], step[s], Parsable(n)) <= Budget
    <3>1. Parsable(n) \notin Inside(NoConsumer) /\ Parsable(n) # NoMessage
      BY <1>1, NoMessageType
    <3>2. PICK c, m, k :
            /\ c = NoConsumer /\ c \in Consumer(Message)
            /\ m = NoMessage /\ k = Parsable(n)
      BY <1>1
    <3>3. Load(c, m, "idle", k) = 0
      BY <3>1, <3>2, LoadType
    <3>4. Load(consumer[s], current[s], step[s], Parsable(n)) = 0
      BY <1>3, <3>2, <3>3
    <3>5. table[s][n] = 0
      BY <1>5
    <3>. QED  BY <1>8, <3>4, <3>5
  <2>. QED  BY <2>1 DEF Accounted
<1>10. FailuresCover
  <2>1. "metrics" \in Streams /\ "speedtest" \in Streams
    BY DEF Streams
  <2>2. \A s \in Streams : Missed(s) = {}
    BY <1>2, <1>3 DEF Missed
  <2>3. Cardinality({}) = 0
    BY FS_EmptySet
  <2>4. spent.failures = 0 /\ Cardinality(Missed("metrics")) = 0
        /\ Cardinality(Missed("speedtest")) = 0
    BY <1>3, <2>1, <2>2, <2>3
  <2>. QED  BY <2>4 DEF FailuresCover
<1>. QED  BY <1>4, <1>6, <1>7, <1>9, <1>10 DEF IInv

\* Every step preserves it.
LEMMA NextInv == IInv /\ [Next]_vars => IInv'
<1>. SUFFICES ASSUME IInv, [Next]_vars PROVE IInv'
  OBVIOUS
<1>1. Base
  BY DEF IInv, Base
<1>2. Base'
  BY <1>1, BaseStep
<1>3. Accounted'
  BY <1>1, <1>2, AccountedStep DEF IInv
<1>4. FailuresCover'
  BY <1>1, <1>2, FailuresCoverStep DEF IInv
<1>. QED  BY <1>2, <1>3, <1>4 DEF IInv, Base

\* Every reachable state satisfies it.
LEMMA InvAlways == Spec => []IInv
<1>. QED  BY InitInv, NextInv, PTL DEF Spec

\* Every variable has its type; a callback is past "idle" exactly when it holds
\* a message.
THEOREM TypeCorrect == Spec => []TypeOK
<1>1. IInv => TypeOK
  BY DEF IInv
<1>. QED  BY <1>1, InvAlways, PTL

\* However the inserts, acknowledgements, crashes, signals and redeliveries
\* interleave, a message has at most one row more than there were crashes,
\* signals and repeated deliveries.
THEOREM DuplicatesBoundedAlways == Spec => []DuplicatesBounded
<1>1. IInv => DuplicatesBounded
  BY AccountedRows DEF IInv, Base
<1>. QED  BY <1>1, InvAlways, PTL

\* On SQLite crashes and redeliveries lose nothing: while no signal and no
\* conflict deletes a consumer, only an insert that failed loses a message.
THEOREM LossBoundedAlways == ASSUME Backend = "sqlite" PROVE Spec => []LossBounded
<1>1. IInv => LossBounded
  BY MissedCoversLost DEF IInv, Base
<1>. QED  BY <1>1, InvAlways, PTL
=============================================================================
