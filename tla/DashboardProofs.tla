-------------------------- MODULE DashboardProofs --------------------------
(***************************************************************************)
(* Proofs about the dashboard: its types, and that the page is never told  *)
(* less than it was.  For every set of hosts, parts and browsers and every *)
(* value of the bounds.                                                    *)
(***************************************************************************)
EXTENDS Dashboard, DurableConsumerProofs

-----------------------------------------------------------------------------
(* The inductive invariant.                                                 *)

\* A browser that has gone can block only the write at hand; only a process that
\* is up has work to do.
HubApart ==
  /\ stalled \cap closed \subseteq left
  /\ step # "idle" => phase = "up"

\* What was ever told of a host in this life of the process is still there.
PartsKept == \A m \in seen : \A p \in m.has : cache.slot[m.host].part[p] # 0

Untroubled == spent.repeats + spent.crashes + spent.stops = 0

\* The events of a host are in the queue in their order.
Ordered(q) ==
  \A i, j \in 1..Len(q) : i < j /\ q[i].host = q[j].host => q[i].tick < q[j].tick

\* They follow those that were stored.
Follows(q, S) == \A i \in 1..Len(q), m \in S : m.host = q[i].host => m.tick < q[i].tick

\* The agent has sent them.
Known(q, S, n) ==
  /\ \A i \in 1..Len(q) : q[i].tick <= n[q[i].host]
  /\ \A m \in S : m.tick <= n[m.host]

\* The cache is not older than the stored events.
Newest(c, S) ==
  \A m \in S : /\ c.slot[m.host].tick >= m.tick
               /\ \A p \in m.has : c.slot[m.host].part[p] >= m.tick

\* Before the first crash, signal and repetition the subscription begins empty,
\* everything not acknowledged is with the client, and it is in order.
InOrder ==
  Untroubled =>
    /\ phase # "crashed"
    /\ phase = "off" => consumer = NoConsumer /\ seen = {}
    /\ phase = "up" => consumer.exists
    /\ consumer.unacked \subseteq ToSet(consumer.inbox) \cup {current}
    /\ Ordered(consumer.inbox) /\ Follows(consumer.inbox, seen)
    /\ Known(consumer.inbox, seen, sent) /\ Newest(cache, seen)

IInv == TypeOK /\ HubApart /\ PartsKept /\ InOrder

-----------------------------------------------------------------------------
(* Types.                                                                   *)

\* The kinds of disturbance.
LEMMA LimitsDomain ==
  DOMAIN Limits = {"invalid", "connects", "stalls", "crashes", "stops", "repeats"}
BY DEF Limits

\* Spending from a bound keeps the account well formed, and never gives back.
LEMMA SpendType ==
  ASSUME TypeOK, NEW what \in DOMAIN Limits, Spend(what)
  PROVE  /\ spent' \in [DOMAIN Limits -> Nat]
         /\ spent'[what] = spent[what] + 1
         /\ \A other \in DOMAIN Limits : other # what => spent'[other] = spent[other]
<1>. DEFINE K == DOMAIN Limits
<1>1. spent \in [K -> Nat] /\ spent' = [spent EXCEPT ![what] = spent[what] + 1] /\ what \in K
  BY DEF TypeOK, Spend
<1>. HIDE DEF K
<1>2. /\ spent' \in [K -> Nat] /\ spent'[what] = spent[what] + 1
      /\ \A other \in K : other # what => spent'[other] = spent[other]
  BY <1>1
<1>. QED  BY <1>2 DEF K

\* No message is the placeholder of an idle callback.
LEMMA NoMessageApart == ASSUME NEW m \in Message PROVE m # NoMessage /\ m.tick \in Nat \ {0}
<1>1. m.tick \in Nat \ {0} /\ NoMessage.tick = 0
  BY DEF Message, NoMessage
<1>. QED  BY <1>1

\* Putting an event into the cache touches its host's slot and no other; the
\* slot gets the event's number, and a part either that number or stays.
LEMMA MergeKeeps ==
  ASSUME NEW c \in Cache, NEW e \in Message
  PROVE  /\ SetWithMerge(c, e) \in Cache
         /\ \A h \in Hosts : h # e.host => SetWithMerge(c, e).slot[h] = c.slot[h]
         /\ SetWithMerge(c, e).slot[e.host].tick = e.tick
         /\ \A p \in Parts : SetWithMerge(c, e).slot[e.host].part[p]
                               = IF p \in e.has THEN e.tick ELSE c.slot[e.host].part[p]
<1>. DEFINE parts == [p \in Parts |-> IF p \in e.has THEN e.tick ELSE c.slot[e.host].part[p]]
            slot  == [tick |-> e.tick, part |-> parts]
<1>1. e.host \in Hosts /\ e.tick \in Nat
  BY DEF Message
<1>2. c.slot \in [Hosts -> Slot] /\ c.recent \subseteq Hosts
  BY DEF Cache
<1>3. c.slot[e.host].part \in [Parts -> Nat]
  BY <1>1, <1>2 DEF Slot
<1>4. parts \in [Parts -> Nat]
  BY <1>1, <1>3
<1>5. slot \in Slot
  BY <1>1, <1>4 DEF Slot
<1>6. SetWithMerge(c, e) = [slot   |-> [c.slot EXCEPT ![e.host] = slot],
                            recent |-> c.recent \cup {e.host}]
  BY DEF SetWithMerge, Replaced
<1>7. \A p \in Parts : parts[p] = IF p \in e.has THEN e.tick ELSE c.slot[e.host].part[p]
  OBVIOUS
<1>. HIDE DEF parts
<1>8. slot.tick = e.tick /\ slot.part = parts
  OBVIOUS
<1>. HIDE DEF slot
<1>9. [c.slot EXCEPT ![e.host] = slot] \in [Hosts -> Slot]
  BY <1>2, <1>5
<1>10. SetWithMerge(c, e) \in Cache
  BY <1>1, <1>2, <1>6, <1>9 DEF Cache
<1>11. /\ SetWithMerge(c, e).slot[e.host] = slot
       /\ \A h \in Hosts : h # e.host => SetWithMerge(c, e).slot[h] = c.slot[h]
  BY <1>1, <1>2, <1>6
<1>. QED  BY <1>7, <1>8, <1>10, <1>11

\* Time takes a host out of the recent ones and leaves the slots alone.
LEMMA AgedKeeps ==
  ASSUME NEW c \in Cache, NEW h
  PROVE  Aged(c, h) \in Cache /\ Aged(c, h).slot = c.slot
BY DEF Cache, Aged

\* A process starts with an empty cache.
LEMMA NewCacheType == NewCache \in Cache
<1>1. [p \in Parts |-> 0] \in [Parts -> Nat]
  OBVIOUS
<1>2. EmptySlot \in Slot
  BY <1>1 DEF EmptySlot, Slot
<1>. QED  BY <1>2 DEF NewCache, Cache

\* What an agent sends is a message.
LEMMA SentType ==
  ASSUME TypeOK, NEW h \in Hosts, NEW valid \in BOOLEAN, NEW n, n = sent[h] + 1
  PROVE  [host |-> h, tick |-> n, has |-> Carried(n), valid |-> valid] \in Message
<1>1. sent[h] \in Nat
  BY DEF TypeOK
<1>2. n \in Nat \ {0}
  BY <1>1
<1>3. Carried(n) \in SUBSET Parts
  BY DEF Carried
<1>. QED  BY <1>2, <1>3 DEF Message

\* The end of the process.
LEMMA ExitType ==
  ASSUME TypeOK, Exit, phase' \in {"off", "up", "crashed"}, spent' \in [DOMAIN Limits -> Nat]
  PROVE  TypeOK' /\ HubApart' /\ PartsKept'
<1>1. consumer' \in Consumer(Message)
  BY DroppedType DEF TypeOK, Exit
<1>2. TypeOK'
  BY <1>1, NewCacheType DEF TypeOK, Exit
<1>. QED  BY <1>2 DEF Exit, HubApart, PartsKept

\* Every step keeps the types, and what the cache was told it keeps.
LEMMA TypeStep ==
  ASSUME TypeOK, HubApart, PartsKept, [Next]_vars
  PROVE  TypeOK' /\ HubApart' /\ PartsKept'
<1>. USE DEF callback, memory, hub
<1>0. CASE UNCHANGED vars
  BY <1>0 DEF vars, TypeOK, HubApart, PartsKept
<1>1. ASSUME NEW h \in Hosts, NEW valid \in BOOLEAN, Publish(h, valid)
      PROVE  TypeOK' /\ HubApart' /\ PartsKept'
  <2>1. /\ sent' = [sent EXCEPT ![h] = sent[h] + 1] /\ sent'[h] = sent[h] + 1
        /\ UNCHANGED <<phase, callback, memory, hub>> /\ spent' \in [DOMAIN Limits -> Nat]
    BY <1>1, SpendType, LimitsDomain DEF Publish, TypeOK
  <2>2. PICK n : n = sent'[h]
    OBVIOUS
  <2>3. PICK m : m = [host |-> h, tick |-> n, has |-> Carried(n), valid |-> valid]
    OBVIOUS
  <2>4. m \in Message
    BY <2>1, <2>2, <2>3, SentType
  <2>5. Running \in BOOLEAN
    BY DEF Running
  <2>6. PICK b \in BOOLEAN : b = Running
    BY <2>5
  <2>7. consumer' = Stored(consumer, m, b)
    BY <1>1, <2>2, <2>3, <2>6 DEF Publish
  <2>8. consumer' \in Consumer(Message) /\ sent' \in [Hosts -> Nat]
    BY <2>1, <2>4, <2>7, StoredType DEF TypeOK
  <2>. QED  BY <2>1, <2>8 DEF TypeOK, HubApart, PartsKept
<1>2. ASSUME NEW h \in Hosts, Silence(h) PROVE TypeOK' /\ HubApart' /\ PartsKept'
  <2>1. cache' \in Cache /\ cache'.slot = cache.slot
    BY <1>2, AgedKeeps DEF Silence, TypeOK
  <2>. QED  BY <1>2, <2>1 DEF Silence, TypeOK, HubApart, PartsKept
<1>3. ASSUME NEW m \in consumer.unacked, Redeliver(m) PROVE TypeOK' /\ HubApart' /\ PartsKept'
  <2>1. m \in Message
    BY DEF TypeOK, Consumer
  <2>2. consumer' \in Consumer(Message)
    BY <1>3, <2>1, RedeliveredType DEF Redeliver, TypeOK
  <2>3. spent' \in [DOMAIN Limits -> Nat]
    BY <1>3, SpendType, LimitsDomain DEF Redeliver, TypeOK
  <2>. QED  BY <1>3, <2>2, <2>3 DEF Redeliver, TypeOK, HubApart, PartsKept
<1>4. CASE Discard
  <2>1. Taken(consumer) \in Consumer(Message)
    BY <1>4, TakenType DEF Discard, TypeOK
  <2>2. PICK c \in Consumer(Message) : c = Taken(consumer)
    BY <2>1
  <2>3. consumer' \in Consumer(Message)
    BY <1>4, <2>2, DroppedType DEF Discard
  <2>. QED  BY <1>4, <2>3 DEF Discard, TypeOK, HubApart, PartsKept
<1>5. CASE Receive
  <2>1. /\ consumer' = Taken(consumer) /\ current' = Head(consumer.inbox) /\ consumer.inbox # <<>>
        /\ cache' = SetWithMerge(cache, current') /\ seen' = seen \cup {current'}
        /\ step' = "gauges" /\ phase = "up" /\ step = "idle"
        /\ UNCHANGED <<sent, phase, left, gauge, hub, spent>>
    BY <1>5 DEF Receive, Running
  <2>2. consumer' \in Consumer(Message) /\ current' \in Message
    BY <2>1, TakenType DEF TypeOK
  <2>3. PICK e \in Message : e = current'
    BY <2>2
  <2>4. /\ cache' \in Cache
        /\ \A h \in Hosts : h # e.host => cache'.slot[h] = cache.slot[h]
        /\ \A p \in Parts : cache'.slot[e.host].part[p]
                              = IF p \in e.has THEN e.tick ELSE cache.slot[e.host].part[p]
    <3>1. cache \in Cache /\ cache' = SetWithMerge(cache, e)
      BY <2>1, <2>3 DEF TypeOK
    <3>. QED  BY <3>1, MergeKeeps
  <2>5. left = {}
    BY <2>1 DEF TypeOK
  <2>6. TypeOK'
    BY <2>1, <2>2, <2>3, <2>4, <2>5, NoMessageApart DEF TypeOK
  <2>7. PartsKept'
    <3>1. ASSUME NEW m \in seen', NEW p \in m.has PROVE cache'.slot[m.host].part[p] # 0
      <4>1. m \in Message /\ p \in Parts /\ m.host \in Hosts /\ e.tick # 0
        BY <2>1, <2>3, NoMessageApart DEF TypeOK, Message
      <4>2. m # e => cache.slot[m.host].part[p] # 0
        BY <2>1, <2>3 DEF PartsKept
      <4>. QED  BY <2>4, <4>1, <4>2
    <3>. QED  BY <3>1 DEF PartsKept
  <2>. QED  BY <2>1, <2>6, <2>7 DEF HubApart
<1>6. CASE Gauges
  <2>1. gauge' \in [Hosts -> {"absent", "on", "off"}]
    <3>1. \A h \in Hosts : (IF h \notin GetAll(cache) THEN gauge[h]
                            ELSE IF IsOnline(cache, h) THEN "on" ELSE "off") \in {"absent", "on", "off"}
      BY DEF TypeOK
    <3>. QED  BY <1>6, <3>1 DEF Gauges
  <2>. QED  BY <1>6, <2>1 DEF Gauges, TypeOK, HubApart, PartsKept
<1>7. ASSUME NEW b \in left, Write(b) PROVE TypeOK' /\ HubApart' /\ PartsKept'
  BY <1>7 DEF Write, TypeOK, HubApart, PartsKept
<1>8. CASE Finish
  <2>1. consumer' \in Consumer(Message)
    BY <1>8, DroppedType DEF Finish, TypeOK
  <2>. QED  BY <1>8, <2>1 DEF Finish, TypeOK, HubApart, PartsKept
<1>9. ASSUME NEW b \in Browsers, Connect(b) PROVE TypeOK' /\ HubApart' /\ PartsKept'
  <2>1. spent' \in [DOMAIN Limits -> Nat]
    BY <1>9, SpendType, LimitsDomain DEF Connect
  <2>2. handler' \in [Browsers -> {"none", "add", "read"}]
        /\ clients' = {c \in Browsers : handler'[c] = "read"}
    BY <1>9 DEF Connect, TypeOK
  <2>. QED  BY <1>9, <2>1, <2>2 DEF Connect, TypeOK, HubApart, PartsKept
<1>10. ASSUME NEW b \in Browsers, HubAdd(b) PROVE TypeOK' /\ HubApart' /\ PartsKept'
  <2>1. handler' \in [Browsers -> {"none", "add", "read"}]
        /\ clients' = {c \in Browsers : handler'[c] = "read"}
    BY <1>10 DEF HubAdd, TypeOK
  <2>. QED  BY <1>10, <2>1 DEF HubAdd, TypeOK, HubApart, PartsKept
<1>11. ASSUME NEW b \in Browsers, HubRemove(b) PROVE TypeOK' /\ HubApart' /\ PartsKept'
  <2>1. handler' \in [Browsers -> {"none", "add", "read"}]
        /\ clients' = {c \in Browsers : handler'[c] = "read"}
    BY <1>11 DEF HubRemove, TypeOK
  <2>2. stalled' \subseteq clients' /\ closed' \subseteq clients' /\ stalled' \cap closed' = {}
    BY <1>11 DEF HubRemove, TypeOK, HubApart
  <2>. QED  BY <1>11, <2>1, <2>2 DEF HubRemove, TypeOK, HubApart, PartsKept
<1>12. ASSUME NEW b \in Browsers, Stall(b) \/ Resume(b) \/ Close(b)
       PROVE  TypeOK' /\ HubApart' /\ PartsKept'
  <2>1. spent' \in [DOMAIN Limits -> Nat]
    BY <1>12, SpendType, LimitsDomain DEF Stall, Resume, Close, TypeOK
  <2>. QED  BY <1>12, <2>1 DEF Stall, Resume, Close, TypeOK, HubApart, PartsKept
<1>13. CASE Start
  <2>1. consumer' \in Consumer(Message)
    BY <1>13, SubscribedType DEF Start, TypeOK
  <2>. QED  BY <1>13, <2>1 DEF Start, TypeOK, HubApart, PartsKept
<1>14. CASE AbortStart
  BY <1>14 DEF AbortStart, TypeOK, HubApart, PartsKept
<1>15. CASE Crash \/ Stop
  <2>1. spent' \in [DOMAIN Limits -> Nat] /\ Exit /\ phase' \in {"off", "up", "crashed"}
    BY <1>15, SpendType, LimitsDomain DEF Crash, Stop
  <2>. QED  BY <2>1, ExitType
<1>. QED
  BY <1>0, <1>1, <1>2, <1>3, <1>4, <1>5, <1>6, <1>7, <1>8, <1>9, <1>10, <1>11, <1>12, <1>13,
     <1>14, <1>15 DEF Next, Callback, Handlers

-----------------------------------------------------------------------------
(* The order of delivery before anything disturbs it.                       *)

\* An agent's next event goes behind everything it has sent.
LEMMA AppendInOrder ==
  ASSUME NEW q \in Seq(Message), NEW S \in SUBSET Message, NEW n \in [Hosts -> Nat],
         NEW e \in Message, e.tick = n[e.host] + 1,
         Ordered(q), Follows(q, S), Known(q, S, n),
         NEW n2, n2 = [n EXCEPT ![e.host] = n[e.host] + 1]
  PROVE  /\ Ordered(Append(q, e)) /\ Follows(Append(q, e), S)
         /\ Known(q, S, n2) /\ Known(Append(q, e), S, n2)
<1>. DEFINE r == Append(q, e)
<1>1. /\ r \in Seq(Message) /\ Len(r) = Len(q) + 1 /\ Len(q) \in Nat
      /\ \A i \in 1..Len(q) : r[i] = q[i]
      /\ r[Len(q) + 1] = e
  BY AppendProperties, LenProperties
<1>. HIDE DEF r
<1>2. \A i \in 1..Len(q) : q[i] \in Message
  BY ElementOfSeq
<1>3. \A m \in Message : m.host \in Hosts /\ m.tick \in Nat
  BY DEF Message
<1>4. \A h \in Hosts : n[h] \in Nat /\ n[h] <= n2[h]
  BY <1>3
<1>5. n2[e.host] = e.tick
  BY <1>3
<1>6. \A i \in 1..Len(q) : q[i].host = e.host => q[i].tick < e.tick
  BY <1>2, <1>3, <1>4 DEF Known
<1>7. \A m \in S : m.host = e.host => m.tick < e.tick
  BY <1>3, <1>4 DEF Known
<1>8. Ordered(r)
  <2>1. ASSUME NEW i \in 1..Len(r), NEW j \in 1..Len(r), i < j, r[i].host = r[j].host
        PROVE  r[i].tick < r[j].tick
    <3>1. i \in 1..Len(q) /\ r[i] = q[i]
      BY <1>1, <2>1
    <3>2. CASE j = Len(q) + 1
      BY <1>1, <1>6, <2>1, <3>1, <3>2
    <3>3. CASE j # Len(q) + 1
      <4>1. j \in 1..Len(q) /\ r[j] = q[j]
        BY <1>1, <3>3
      <4>. QED  BY <2>1, <3>1, <4>1 DEF Ordered
    <3>. QED  BY <3>2, <3>3
  <2>. QED  BY <2>1 DEF Ordered
<1>9. Follows(r, S)
  BY <1>1, <1>7 DEF Follows
<1>10. n2 \in [Hosts -> Nat]
  BY <1>3
<1>11. Known(q, S, n2)
  <2>1. \A h \in Hosts, t \in Nat : t <= n[h] => t <= n2[h]
    BY <1>4, <1>10
  <2>2. ASSUME NEW i \in 1..Len(q) PROVE q[i].tick <= n2[q[i].host]
    <3>1. q[i] \in Message /\ q[i].tick <= n[q[i].host]
      BY <1>2 DEF Known
    <3>. QED  BY <1>3, <2>1, <3>1
  <2>3. ASSUME NEW m \in S PROVE m.tick <= n2[m.host]
    <3>1. m \in Message /\ m.tick <= n[m.host]
      BY DEF Known
    <3>. QED  BY <1>3, <2>1, <3>1
  <2>. QED  BY <2>2, <2>3 DEF Known
<1>12. Known(r, S, n2)
  <2>1. ASSUME NEW i \in 1..Len(r) PROVE r[i].tick <= n2[r[i].host]
    <3>1. CASE i = Len(q) + 1
      BY <1>1, <1>3, <1>5, <3>1
    <3>2. CASE i # Len(q) + 1
      <4>1. i \in 1..Len(q) /\ r[i] = q[i]
        BY <1>1, <3>2
      <4>. QED  BY <1>11, <4>1 DEF Known
    <3>. QED  BY <3>1, <3>2
  <2>. QED  BY <1>11, <2>1 DEF Known
<1>. QED  BY <1>8, <1>9, <1>11, <1>12 DEF r

\* Taking the first event leaves order, whether or not it is stored; it is newer
\* than what is stored of its host.
LEMMA TailInOrder ==
  ASSUME NEW q \in Seq(Message), q # <<>>, NEW S \in SUBSET Message, NEW n \in [Hosts -> Nat],
         Ordered(q), Follows(q, S), Known(q, S, n), NEW e, e = Head(q)
  PROVE  /\ Ordered(Tail(q)) /\ Follows(Tail(q), S) /\ Follows(Tail(q), S \cup {e})
         /\ Known(Tail(q), S, n) /\ Known(Tail(q), S \cup {e}, n)
         /\ ToSet(q) \subseteq ToSet(Tail(q)) \cup {e}
         /\ \A m \in S : m.host = e.host => m.tick < e.tick
<1>. DEFINE r == Tail(q)
<1>1. /\ r \in Seq(Message) /\ Len(r) = Len(q) - 1 /\ Len(q) \in Nat \ {0}
      /\ \A i \in 1..Len(r) : r[i] = q[i + 1]
      /\ e \in Message /\ e = q[1]
  BY HeadTailProperties, LenProperties, EmptySeq
<1>2. DOMAIN r = 1..Len(r) /\ DOMAIN q = 1..Len(q)
  BY <1>1, LenProperties
<1>. HIDE DEF r
<1>3. \A i \in 1..Len(r) : i + 1 \in 1..Len(q) /\ 1 < i + 1
  BY <1>1
<1>4. 1 \in 1..Len(q)
  BY <1>1
<1>5. Ordered(r)
  <2>1. ASSUME NEW i \in 1..Len(r), NEW j \in 1..Len(r), i < j, r[i].host = r[j].host
        PROVE  r[i].tick < r[j].tick
    <3>1. i + 1 < j + 1 /\ i + 1 \in 1..Len(q) /\ j + 1 \in 1..Len(q)
      BY <1>3, <2>1
    <3>. QED  BY <1>1, <2>1, <3>1 DEF Ordered
  <2>. QED  BY <2>1 DEF Ordered
<1>6. Follows(r, S)
  BY <1>1, <1>3 DEF Follows
<1>7. \A i \in 1..Len(r) : e.host = r[i].host => e.tick < r[i].tick
  BY <1>1, <1>3, <1>4 DEF Ordered
<1>8. Follows(r, S \cup {e})
  BY <1>6, <1>7 DEF Follows
<1>9. Known(r, S, n)
  BY <1>1, <1>3 DEF Known
<1>10. e.tick <= n[e.host]
  BY <1>1, <1>4 DEF Known
<1>11. Known(r, S \cup {e}, n)
  BY <1>9, <1>10 DEF Known
<1>12. \A m \in S : m.host = e.host => m.tick < e.tick
  BY <1>1, <1>4 DEF Follows
<1>13. ToSet(q) \subseteq ToSet(r) \cup {e}
  <2>1. ASSUME NEW i \in 1..Len(q), q[i] # e PROVE q[i] \in ToSet(r)
    <3>1. i # 1
      BY <1>1, <2>1
    <3>2. i - 1 \in 1..Len(r) /\ (i - 1) + 1 = i
      BY <1>1, <3>1
    <3>3. r[i - 1] = q[i]
      BY <1>1, <3>2
    <3>. QED  BY <1>2, <3>2, <3>3 DEF ToSet
  <2>. QED  BY <1>2, <2>1 DEF ToSet
<1>. QED  BY <1>5, <1>6, <1>8, <1>9, <1>11, <1>12, <1>13 DEF r

\* An empty queue is in order.
LEMMA EmptyInOrder ==
  ASSUME NEW n \in [Hosts -> Nat], NEW c
  PROVE  Ordered(<<>>) /\ Follows(<<>>, {}) /\ Known(<<>>, {}, n) /\ Newest(c, {})
<1>1. Len(<<>>) = 0 /\ 1..0 = {}
  OBVIOUS
<1>. QED  BY <1>1 DEF Ordered, Follows, Known, Newest

\* Storing an event newer than those stored of its host leaves the cache newest.
LEMMA MergeNewest ==
  ASSUME NEW c \in Cache, NEW S \in SUBSET Message, NEW e \in Message, Newest(c, S),
         \A m \in S : m.host = e.host => m.tick < e.tick
  PROVE  Newest(SetWithMerge(c, e), S \cup {e})
<1>1. PICK d : d = SetWithMerge(c, e)
  OBVIOUS
<1>2. /\ \A h \in Hosts : h # e.host => d.slot[h] = c.slot[h]
      /\ d.slot[e.host].tick = e.tick
      /\ \A p \in Parts : d.slot[e.host].part[p]
                            = IF p \in e.has THEN e.tick ELSE c.slot[e.host].part[p]
  BY <1>1, MergeKeeps
<1>3. \A m \in Message : m.host \in Hosts /\ m.has \subseteq Parts /\ m.tick \in Nat
  BY DEF Message
<1>4. ASSUME NEW m \in S \cup {e}
      PROVE  /\ d.slot[m.host].tick >= m.tick
             /\ \A p \in m.has : d.slot[m.host].part[p] >= m.tick
  <2>1. CASE m.host # e.host
    <3>1. m \in S /\ d.slot[m.host] = c.slot[m.host]
      BY <1>2, <1>3, <2>1
    <3>. QED  BY <3>1 DEF Newest
  <2>2. CASE m.host = e.host
    <3>1. m.tick <= e.tick
      BY <1>3, <2>2
    <3>2. ASSUME NEW p \in m.has PROVE d.slot[m.host].part[p] >= m.tick
      <4>1. CASE p \in e.has
        BY <1>2, <1>3, <2>2, <3>1, <4>1
      <4>2. CASE p \notin e.has
        <5>1. m \in S /\ p \in Parts
          BY <1>3, <4>2
        <5>. QED  BY <1>2, <2>2, <4>2, <5>1 DEF Newest
      <4>. QED  BY <4>1, <4>2
    <3>. QED  BY <1>2, <1>3, <2>2, <3>1, <3>2
  <2>. QED  BY <2>1, <2>2
<1>. QED  BY <1>1, <1>4 DEF Newest

\* Spending keeps the first three kinds of disturbance unspent only if it spends
\* none of them.
LEMMA SpendTrouble ==
  ASSUME TypeOK, NEW what \in DOMAIN Limits, Spend(what), Untroubled'
  PROVE  Untroubled /\ what \notin {"repeats", "crashes", "stops"}
<1>1. \A x \in DOMAIN Limits : spent[x] \in Nat /\ spent'[x] >= spent[x]
  BY SpendType DEF TypeOK
<1>2. spent'[what] = spent[what] + 1
  BY SpendType
<1>3. {"repeats", "crashes", "stops"} \subseteq DOMAIN Limits
  BY LimitsDomain
<1>4. \A x \in DOMAIN Limits : spent'[x] \in Nat
  BY SpendType
<1>5. \A x \in {"repeats", "crashes", "stops"} : spent'[x] = 0 /\ spent[x] = 0
  <2>1. spent'["repeats"] = 0 /\ spent'["crashes"] = 0 /\ spent'["stops"] = 0
    BY <1>3, <1>4 DEF Untroubled
  <2>. QED  BY <1>1, <1>3, <2>1
<1>6. Untroubled
  BY <1>5 DEF Untroubled
<1>. QED  BY <1>2, <1>5, <1>6

\* What does not touch the queue, the process or the store keeps the order.
LEMMA OrderKept ==
  ASSUME InOrder, Untroubled' => Untroubled,
         UNCHANGED <<sent, consumer, phase, current, cache, seen>>
  PROVE  InOrder'
BY DEF InOrder, Newest

\* Every step keeps the order.
LEMMA OrderStep ==
  ASSUME TypeOK, TypeOK', HubApart, InOrder, [Next]_vars
  PROVE  InOrder'
<1>. USE DEF callback, memory, hub
<1>1. CASE UNCHANGED vars
  BY <1>1, OrderKept DEF vars, Untroubled
<1>2. ASSUME NEW h \in Hosts, NEW valid \in BOOLEAN, Publish(h, valid) PROVE InOrder'
  <2>1. SUFFICES ASSUME Untroubled' PROVE InOrder'
    BY DEF InOrder
  <2>2. Untroubled
    BY <1>2, <2>1, SpendTrouble, LimitsDomain DEF Publish, Untroubled
  <2>3. /\ sent' = [sent EXCEPT ![h] = sent[h] + 1] /\ sent'[h] = sent[h] + 1
        /\ UNCHANGED <<phase, current, cache, seen>>
    BY <1>2 DEF Publish, TypeOK
  <2>4. PICK n : n = sent'[h]
    OBVIOUS
  <2>5. PICK m : m = [host |-> h, tick |-> n, has |-> Carried(n), valid |-> valid]
    OBVIOUS
  <2>6. m \in Message /\ m.host = h /\ m.tick = sent[h] + 1
    BY <2>3, <2>4, <2>5, SentType
  <2>7. PICK b : b = Running
    OBVIOUS
  <2>8. consumer' = Stored(consumer, m, b)
    BY <1>2, <2>4, <2>5, <2>7 DEF Publish
  <2>9. PICK n2 : n2 = sent'
    OBVIOUS
  <2>10. /\ consumer.inbox \in Seq(Message) /\ seen \in SUBSET Message
         /\ consumer.unacked \subseteq Message /\ sent \in [Hosts -> Nat]
    BY DEF TypeOK, Consumer
  <2>11. /\ phase # "crashed" /\ (phase = "off" => consumer = NoConsumer /\ seen = {})
         /\ (phase = "up" => consumer.exists)
         /\ consumer.unacked \subseteq ToSet(consumer.inbox) \cup {current}
         /\ Ordered(consumer.inbox) /\ Follows(consumer.inbox, seen)
         /\ Known(consumer.inbox, seen, sent) /\ Newest(cache, seen)
    BY <2>2 DEF InOrder
  <2>12. /\ Ordered(Append(consumer.inbox, m)) /\ Follows(Append(consumer.inbox, m), seen)
         /\ Known(consumer.inbox, seen, n2) /\ Known(Append(consumer.inbox, m), seen, n2)
    <3>1. n2 = [sent EXCEPT ![m.host] = sent[m.host] + 1] /\ m.tick = sent[m.host] + 1
      BY <2>3, <2>6, <2>9
    <3>2. PICK q \in Seq(Message), S \in SUBSET Message, n0 \in [Hosts -> Nat] :
            q = consumer.inbox /\ S = seen /\ n0 = sent
      BY <2>10
    <3>3. m.tick = n0[m.host] + 1 /\ n2 = [n0 EXCEPT ![m.host] = n0[m.host] + 1]
      BY <3>1, <3>2
    <3>4. Ordered(q) /\ Follows(q, S) /\ Known(q, S, n0)
      BY <2>11, <3>2
    <3>5. /\ Ordered(Append(q, m)) /\ Follows(Append(q, m), S)
          /\ Known(q, S, n2) /\ Known(Append(q, m), S, n2)
      BY <2>6, <3>3, <3>4, AppendInOrder
    <3>. QED  BY <3>2, <3>5
  <2>13. ToSet(Append(consumer.inbox, m)) = ToSet(consumer.inbox) \cup {m}
    BY <2>6, <2>10, ToSetAppend
  <2>14. CASE phase = "off"
    <3>1. consumer' = consumer
      BY <2>8, <2>11, <2>14 DEF Stored, NoConsumer
    <3>. QED  BY <2>3, <2>9, <2>11, <2>12, <3>1 DEF InOrder
  <2>15. CASE phase = "up"
    <3>1. /\ consumer'.inbox = Append(consumer.inbox, m) /\ consumer'.exists
          /\ consumer'.unacked = consumer.unacked \cup {m}
      BY <2>7, <2>8, <2>11, <2>15 DEF Stored, Running, TypeOK, Consumer
    <3>2. consumer'.unacked \subseteq ToSet(consumer'.inbox) \cup {current'}
      BY <2>3, <2>11, <2>13, <3>1
    <3>. QED  BY <2>3, <2>9, <2>11, <2>12, <2>15, <3>1, <3>2 DEF InOrder
  <2>. QED  BY <2>11, <2>14, <2>15 DEF TypeOK
<1>3. ASSUME NEW h \in Hosts, Silence(h) PROVE InOrder'
  <2>1. /\ cache'.slot = cache.slot
        /\ UNCHANGED <<sent, consumer, phase, current, seen, spent>>
    BY <1>3, AgedKeeps DEF Silence, TypeOK
  <2>2. Newest(cache, seen) => Newest(cache', seen')
    BY <2>1 DEF Newest
  <2>. QED  BY <2>1, <2>2 DEF InOrder, Untroubled
<1>4. ASSUME NEW m \in consumer.unacked, Redeliver(m) PROVE InOrder'
  <2>1. SUFFICES ASSUME Untroubled' PROVE FALSE
    BY DEF InOrder
  <2>2. CASE Held(m)
    <3>1. Spend("repeats")
      BY <1>4, <2>2 DEF Redeliver
    <3>. QED  BY <2>1, <3>1, SpendTrouble, LimitsDomain
  <2>3. CASE ~Held(m)
    <3>1. Untroubled
      BY <1>4, <2>1, <2>3 DEF Redeliver, Untroubled
    <3>. QED  BY <2>3, <3>1 DEF InOrder, Held, InInbox
  <2>. QED  BY <2>2, <2>3
<1>5. CASE Discard \/ Receive
  <2>1. PICK e : e = Head(consumer.inbox)
    OBVIOUS
  <2>2. PICK q : q = consumer.inbox
    OBVIOUS
  <2>3. /\ q \in Seq(Message) /\ q # <<>> /\ seen \in SUBSET Message /\ e = Head(q)
        /\ sent \in [Hosts -> Nat] /\ phase = "up" /\ current = NoMessage /\ cache \in Cache
        /\ UNCHANGED <<sent, phase, spent>>
        /\ e \in Message
    <3>1. consumer.inbox # <<>> /\ phase = "up" /\ step = "idle" /\ UNCHANGED <<sent, phase, spent>>
      BY <1>5 DEF Discard, Receive, Running
    <3>2. e \in Message
      BY <2>1, <3>1, TakenType DEF TypeOK
    <3>. QED  BY <2>1, <2>2, <3>1, <3>2 DEF TypeOK, Consumer
  <2>4. SUFFICES ASSUME Untroubled PROVE InOrder'
    BY <2>3 DEF InOrder, Untroubled
  <2>5. /\ consumer.exists /\ consumer.unacked \subseteq ToSet(q) \cup {current}
        /\ Ordered(q) /\ Follows(q, seen) /\ Known(q, seen, sent) /\ Newest(cache, seen)
    BY <2>2, <2>3, <2>4 DEF InOrder
  <2>6. /\ Ordered(Tail(q)) /\ Follows(Tail(q), seen) /\ Follows(Tail(q), seen \cup {e})
        /\ Known(Tail(q), seen, sent) /\ Known(Tail(q), seen \cup {e}, sent)
        /\ ToSet(q) \subseteq ToSet(Tail(q)) \cup {e}
        /\ \A m \in seen : m.host = e.host => m.tick < e.tick
    BY <2>3, <2>5, TailInOrder
  <2>7. /\ Taken(consumer).inbox = Tail(q) /\ Taken(consumer).exists
        /\ Taken(consumer).unacked = consumer.unacked /\ Taken(consumer) \in Consumer(Message)
    BY <2>2, <2>3, <2>5, TakenType DEF Taken, TypeOK, Consumer
  <2>8. \A m \in Message : m # NoMessage
    BY NoMessageApart
  <2>9. consumer.unacked \subseteq Message
    BY DEF TypeOK, Consumer
  <2>10. consumer.unacked \subseteq ToSet(Tail(q)) \cup {e}
    BY <2>3, <2>5, <2>6, <2>8, <2>9
  <2>11. CASE Discard
    <3>1. PICK c : c = Taken(consumer)
      OBVIOUS
    <3>2. consumer' = Acked(c, e) /\ UNCHANGED <<current, cache, seen>>
      BY <1>5, <2>1, <2>11, <3>1 DEF Discard
    <3>3. /\ consumer'.inbox = Tail(q) /\ consumer'.exists
          /\ consumer'.unacked = consumer.unacked \ {e}
      BY <2>7, <3>1, <3>2 DEF Acked, Consumer
    <3>4. consumer'.unacked \subseteq ToSet(consumer'.inbox) \cup {current'}
      BY <2>10, <3>3
    <3>. QED  BY <2>3, <2>5, <2>6, <3>2, <3>3, <3>4 DEF InOrder
  <2>12. CASE Receive
    <3>1. /\ consumer' = Taken(consumer) /\ current' = e /\ seen' = seen \cup {e}
          /\ cache' = SetWithMerge(cache, current')
      BY <2>1, <2>12 DEF Receive
    <3>2. /\ consumer'.inbox = Tail(q) /\ consumer'.exists
          /\ consumer'.unacked \subseteq ToSet(consumer'.inbox) \cup {current'}
      BY <2>7, <2>10, <3>1
    <3>3. Newest(SetWithMerge(cache, e), seen \cup {e})
      BY <2>3, <2>5, <2>6, MergeNewest
    <3>4. Newest(cache', seen')
      BY <3>1, <3>3
    <3>. QED  BY <2>3, <2>6, <3>1, <3>2, <3>4 DEF InOrder
  <2>. QED  BY <1>5, <2>11, <2>12
<1>6. CASE Gauges
  BY <1>6, OrderKept DEF Gauges, Untroubled
<1>7. ASSUME NEW b \in left, Write(b) PROVE InOrder'
  BY <1>7, OrderKept DEF Write, Untroubled
<1>8. CASE Finish
  <2>1. /\ consumer'.inbox = consumer.inbox /\ consumer'.exists = consumer.exists
        /\ consumer'.unacked = consumer.unacked \ {current}
        /\ UNCHANGED <<sent, phase, cache, seen, spent>>
    BY <1>8 DEF Finish, Acked, TypeOK, Consumer
  <2>2. phase = "up"
    BY <1>8 DEF Finish, HubApart
  <2>3. ASSUME Untroubled
        PROVE  /\ consumer'.unacked \subseteq ToSet(consumer'.inbox) \cup {current'}
               /\ Ordered(consumer'.inbox) /\ Follows(consumer'.inbox, seen')
               /\ Known(consumer'.inbox, seen', sent') /\ Newest(cache', seen')
               /\ consumer'.exists
    BY <2>1, <2>2, <2>3 DEF InOrder
  <2>4. Untroubled' => Untroubled
    BY <2>1 DEF Untroubled
  <2>. QED  BY <2>1, <2>2, <2>3, <2>4 DEF InOrder
<1>9. ASSUME NEW b \in Browsers,
             Connect(b) \/ Handlers(b) \/ Stall(b) \/ Resume(b) \/ Close(b)
      PROVE  InOrder'
  <2>1. UNCHANGED <<sent, consumer, phase, current, cache, seen>>
    BY <1>9 DEF Connect, Handlers, HubAdd, HubRemove, Stall, Resume, Close
  <2>2. UNCHANGED spent \/ Spend("connects") \/ Spend("stalls")
    BY <1>9 DEF Connect, Handlers, HubAdd, HubRemove, Stall, Resume, Close
  <2>3. Untroubled' => Untroubled
    BY <2>2, SpendTrouble, LimitsDomain DEF Untroubled
  <2>. QED  BY <2>1, <2>3, OrderKept
<1>10. CASE Start
  <2>1. SUFFICES ASSUME Untroubled PROVE InOrder'
    BY <1>10 DEF Start, InOrder, Untroubled
  <2>2. consumer = NoConsumer /\ seen = {}
    BY <1>10, <2>1 DEF Start, InOrder
  <2>3. consumer' = NewConsumer /\ phase' = "up" /\ seen' = {} /\ sent' \in [Hosts -> Nat]
    BY <1>10, <2>2 DEF Start, Subscribed, NoConsumer, TypeOK
  <2>4. NewConsumer.inbox = <<>> /\ NewConsumer.unacked = {} /\ NewConsumer.exists
    BY DEF NewConsumer, NoConsumer
  <2>5. PICK n, c : n = sent' /\ c = cache' /\ n \in [Hosts -> Nat]
    BY <2>3
  <2>6. Ordered(<<>>) /\ Follows(<<>>, {}) /\ Known(<<>>, {}, n) /\ Newest(c, {})
    BY <2>5, EmptyInOrder
  <2>. QED  BY <2>3, <2>4, <2>5, <2>6 DEF InOrder
<1>11. CASE AbortStart
  BY <1>11 DEF AbortStart, InOrder, Untroubled
<1>12. CASE Crash \/ Stop
  <2>1. Spend("crashes") \/ Spend("stops")
    BY <1>12 DEF Crash, Stop
  <2>2. ~Untroubled'
    BY <2>1, SpendTrouble, LimitsDomain
  <2>. QED  BY <2>2 DEF InOrder
<1>. QED
  BY <1>1, <1>2, <1>3, <1>4, <1>5, <1>6, <1>7, <1>8, <1>9, <1>10, <1>11, <1>12
  DEF Next, Callback

-----------------------------------------------------------------------------
(* Induction.                                                               *)

\* The invariant holds at the start.
LEMMA InitInv == Init => IInv
<1>. SUFFICES ASSUME Init PROVE IInv
  OBVIOUS
<1>1. NoConsumer \in Consumer(Message)
  BY NewConsumerType
<1>2. spent \in [DOMAIN Limits -> Nat]
  BY DEF Init
<1>3. TypeOK /\ HubApart /\ PartsKept
  BY <1>1, <1>2, NewCacheType DEF Init, TypeOK, HubApart, PartsKept
<1>4. PICK n, c : n = sent /\ c = cache /\ n \in [Hosts -> Nat]
  BY <1>3 DEF TypeOK
<1>5. Ordered(<<>>) /\ Follows(<<>>, {}) /\ Known(<<>>, {}, n) /\ Newest(c, {})
  BY <1>4, EmptyInOrder
<1>6. NoConsumer.inbox = <<>> /\ NoConsumer.unacked = {}
  BY DEF NoConsumer
<1>7. InOrder
  BY <1>4, <1>5, <1>6 DEF Init, InOrder
<1>. QED  BY <1>3, <1>7 DEF IInv

\* Every step preserves it.
LEMMA NextInv == IInv /\ [Next]_vars => IInv'
<1>. SUFFICES ASSUME IInv, [Next]_vars PROVE IInv'
  OBVIOUS
<1>1. TypeOK' /\ HubApart' /\ PartsKept'
  BY TypeStep DEF IInv
<1>2. InOrder'
  BY <1>1, OrderStep DEF IInv
<1>. QED  BY <1>1, <1>2 DEF IInv

\* The invariant gives the property of the page's cache.
LEMMA InvCache == IInv => CacheKeepsNewest
<1>. SUFFICES ASSUME IInv, NEW m \in seen
     PROVE  /\ \A p \in m.has : cache.slot[m.host].part[p] # 0
            /\ Untroubled => /\ cache.slot[m.host].tick >= m.tick
                             /\ \A p \in m.has : cache.slot[m.host].part[p] >= m.tick
  BY DEF CacheKeepsNewest, Untroubled
<1>1. \A p \in m.has : cache.slot[m.host].part[p] # 0
  BY DEF IInv, PartsKept
<1>2. Untroubled => Newest(cache, seen)
  BY DEF IInv, InOrder
<1>. QED  BY <1>1, <1>2 DEF Newest

\* Every reachable state satisfies it.
LEMMA InvAlways == Spec => []IInv
<1>. QED  BY InitInv, NextInv, PTL DEF Spec

\* Every variable has its type; the callback is past "idle" exactly while it
\* holds a message, and only a broadcast has browsers left to write to.
THEOREM TypeCorrect == Spec => []TypeOK
<1>1. IInv => TypeOK
  BY DEF IInv
<1>. QED  BY <1>1, InvAlways, PTL

\* What a host told the dashboard stays in its cache until the process ends, and
\* before the first crash, signal or repeated delivery the cache holds the
\* newest event and parts of every host.
THEOREM CacheKeepsNewestAlways == Spec => []CacheKeepsNewest
<1>. QED  BY InvCache, InvAlways, PTL
=============================================================================
