--------------------------- MODULE CommandsProofs ---------------------------
(***************************************************************************)
(* Proofs about the kill commands, for every set of hosts and every value  *)
(* of the bounds: a command stays on its host, what the server has         *)
(* accepted is carried out or still due, a command kills as many processes *)
(* as it had deliveries, and an agent is deaf only for a reason of its own *)
(* or because another host has the durable name.                           *)
(***************************************************************************)
EXTENDS Commands, DurableConsumerProofs

-----------------------------------------------------------------------------
(* The inductive invariant.                                                 *)

\* What is inside the consumer was sent to the host its filter names.
Addressed ==
  \A id \in Inside(consumer) : id \in DOMAIN commands /\ commands[id].host = filter

\* An agent listens only to the host the filter names.
Tuned == \A h \in Hosts : listens[h] => filter = h

\* There is a filter exactly when there is a consumer; without one no command
\* was ever accepted.
FilterIffConsumer ==
  /\ consumer.exists <=> filter # None
  /\ ~consumer.exists => DOMAIN commands \subseteq missed

\* A number not given to a command yet has no victims.
NotYetUsed == \A id \in Ids \ DOMAIN commands : victims[id] = {}

\* The numbers of commands do not run out.
Numbered == DOMAIN commands \subseteq Ids

Core ==
  /\ Addressed /\ Tuned /\ FilterIffConsumer /\ Numbered /\ NotYetUsed
  /\ CommandStaysOnItsHost /\ AcceptedIsKept

IInv == TypeOK /\ Core

-----------------------------------------------------------------------------
(* Types.                                                                   *)

\* Spending from a bound keeps the account well formed.
LEMMA SpendType ==
  ASSUME TypeOK, NEW what \in DOMAIN Limits, Spend(what)
  PROVE  spent' \in [DOMAIN Limits -> Nat]
<1>. DEFINE D == DOMAIN Limits
<1>1. spent \in [D -> Nat] /\ spent' = [spent EXCEPT ![what] = spent[what] + 1] /\ what \in D
  BY DEF TypeOK, Spend
<1>. HIDE DEF D
<1>2. spent' \in [D -> Nat]
  BY <1>1
<1>. QED  BY <1>2 DEF D

\* The kinds of disturbance.
LEMMA LimitsDomain == DOMAIN Limits = {"crashes", "stops", "repeats", "failures"}
BY DEF Limits

\* Before anything runs there is no consumer, no process and no command.
LEMMA InitInvariant == Init => IInv
<1>. SUFFICES ASSUME Init PROVE IInv
  OBVIOUS
<1>. USE CommandsAssumption
<1>1. consumer \in Consumer(Ids) /\ ~consumer.exists
  BY NewConsumerType DEF Init, NoConsumer
<1>2. Inside(consumer) = {}
  BY ToSetEmpty DEF Init, NoConsumer, Inside
<1>3. commands \in Seq(Process) /\ Len(commands) = 0 /\ DOMAIN commands = {}
  BY EmptyType DEF Init
<1>4. spent \in [DOMAIN Limits -> Nat]
  BY DEF Init
<1>5. TypeOK
  <2>1. victims \in [Ids -> SUBSET Process] /\ carried \subseteq Ids /\ missed \subseteq Ids
        /\ troubled \subseteq Hosts
    BY DEF Init
  <2>2. /\ owner \in [Hosts -> Nat] /\ started \in [Hosts -> Nat] /\ buttons \subseteq Process
        /\ agent \in [Hosts -> {"off", "up", "crashed"}] /\ listens \in [Hosts -> BOOLEAN]
    BY DEF Init
  <2>3. /\ stream \in BOOLEAN /\ current = 0
        /\ filter \in Hosts \cup {None} /\ bound \in Hosts \cup {None}
    BY DEF Init
  <2>4. current \in 0..Len(commands)
    BY <1>3, <2>3
  <2>. QED  BY <1>1, <1>3, <1>4, <2>1, <2>2, <2>3, <2>4 DEF TypeOK
<1>6. Addressed /\ Tuned /\ FilterIffConsumer /\ Numbered /\ NotYetUsed
  BY <1>1, <1>2, <1>3 DEF Init, Addressed, Tuned, FilterIffConsumer, Numbered, NotYetUsed
<1>7. CommandStaysOnItsHost /\ AcceptedIsKept
  BY <1>3 DEF CommandStaysOnItsHost, AcceptedIsKept
<1>. QED  BY <1>5, <1>6, <1>7 DEF IInv, Core

\* What the invariant says of a command in the consumer's reach.
LEMMA InsideFacts ==
  ASSUME IInv, NEW id \in Inside(consumer)
  PROVE  id \in Ids /\ id \in DOMAIN commands /\ id \in 1..Len(commands)
<1>1. consumer \in Consumer(Ids) /\ commands \in Seq(Process)
  BY DEF IInv, TypeOK
<1>2. Inside(consumer) \subseteq Ids
  BY <1>1, ToSetType DEF Inside, Consumer
<1>3. DOMAIN commands = 1..Len(commands)
  BY <1>1, LenProperties
<1>. QED  BY <1>2, <1>3 DEF IInv, Core, Addressed

\* A command is appended and keeps its address.
LEMMA PressFacts ==
  ASSUME IInv, NEW b \in buttons, Press(b)
  PROVE  /\ commands' \in Seq(Process)
         /\ Len(commands) \in Nat /\ Len(commands') = Len(commands) + 1
         /\ Len(commands') \in Ids
         /\ DOMAIN commands = 1..Len(commands) /\ DOMAIN commands' = 1..Len(commands')
         /\ \A id \in DOMAIN commands : commands'[id] = commands[id]
         /\ commands'[Len(commands')] = b
<1>1. commands \in Seq(Process) /\ b \in Process /\ commands' = Append(commands, b)
      /\ Len(commands) < MaxCommands
  BY DEF IInv, TypeOK, Press
<1>2. /\ commands' \in Seq(Process) /\ Len(commands) \in Nat
      /\ Len(commands') = Len(commands) + 1
      /\ \A id \in 1..Len(commands) : commands'[id] = commands[id]
      /\ commands'[Len(commands) + 1] = b
  BY <1>1, AppendProperties, LenProperties
<1>3. DOMAIN commands = 1..Len(commands) /\ DOMAIN commands' = 1..Len(commands')
  BY <1>1, <1>2, LenProperties
<1>4. Len(commands') \in Ids
  BY <1>1, <1>2, CommandsAssumption DEF Ids
<1>. QED  BY <1>2, <1>3, <1>4

\* What a start does to the durable consumer: the subscription binds to it or
\* makes it, or fails and leaves one behind, or changes nothing.
Bind(h) ==
  /\ ~(consumer.exists /\ (filter # h \/ bound # None))
  /\ consumer' = Subscribed(consumer) /\ filter' = h /\ bound' = h
  /\ listens' = [listens EXCEPT ![h] = TRUE]

LeaveBehind(h) ==
  /\ ~consumer.exists
  /\ consumer' = Abandoned(NewConsumer) /\ filter' = h
  /\ UNCHANGED <<bound, listens>>

\* The outcomes of a start, however its calls go.
LEMMA StartOutcome ==
  ASSUME TypeOK, NEW h \in Hosts, Start(h)
  PROVE  /\ agent[h] # "up" /\ agent' = [agent EXCEPT ![h] = "up"]
         /\ UNCHANGED <<processes, commands, current, victims, carried, missed>>
         /\ stream' \in {stream, TRUE}
         /\ UNCHANGED spent \/ Spend("failures")
         /\ troubled' \in {troubled \ {h}, troubled, troubled \cup {h}}
         /\ ~listens'[h] => troubled \subseteq troubled'
         /\ \/ Bind(h)
            \/ LeaveBehind(h) /\ (~listens'[h] => h \in troubled')
            \/ /\ UNCHANGED <<consumer, filter, bound, listens>>
               /\ \/ ~listens'[h] => h \in troubled'
                  \/ consumer.exists /\ (filter # h \/ bound # None)
<1>1. Subscribe(h) =>
        \/ Bind(h)
        \/ /\ UNCHANGED <<consumer, filter, bound, listens>>
           /\ consumer.exists /\ (filter # h \/ bound # None)
  BY DEF Subscribe, Bind
<1>2. FailToSubscribe(h) => LeaveBehind(h) \/ UNCHANGED <<consumer, filter, bound, listens>>
  BY DEF FailToSubscribe, LeaveBehind
<1>. QED  BY <1>1, <1>2 DEF Start, SetUp, SetUpBadly

\* What is left behind is an empty consumer.
LEMMA LeftBehind ==
  /\ Abandoned(NewConsumer) \in Consumer(Ids) /\ Abandoned(NewConsumer).exists
  /\ Inside(Abandoned(NewConsumer)) = {}
<1>1. NewConsumer \in Consumer(Ids) /\ NewConsumer.exists /\ Inside(NewConsumer) = {}
  BY NewConsumerType, ToSetEmpty DEF NewConsumer, NoConsumer, Inside
<1>. QED  BY <1>1, DroppedType, KeptInside

\* Every step keeps every type.
LEMMA TypeStep == IInv /\ [Next]_vars => TypeOK'
<1>. SUFFICES ASSUME IInv, [Next]_vars PROVE TypeOK'
  OBVIOUS
<1>. USE CommandsAssumption
<1>0. TypeOK
  BY DEF IInv
<1>1. CASE UNCHANGED vars
  BY <1>0, <1>1 DEF TypeOK, vars
<1>2. ASSUME NEW h \in Hosts, Spawn(h) PROVE TypeOK'
  BY <1>0, <1>2 DEF TypeOK, Spawn, history
<1>3. ASSUME NEW h \in Hosts, Quit(h) PROVE TypeOK'
  BY <1>0, <1>3 DEF TypeOK, Quit, history
<1>4. ASSUME NEW h \in Hosts, Show(h) PROVE TypeOK'
  <2>1. [host |-> h, n |-> owner[h]] \in Process
    BY <1>0, <1>4 DEF TypeOK, Show, Process
  <2>. QED  BY <1>0, <1>4, <2>1 DEF TypeOK, Show, history
<1>5. ASSUME NEW b \in buttons, Press(b) PROVE TypeOK'
  <2>1. b.host \in Hosts /\ listens[b.host] \in BOOLEAN
    BY <1>0 DEF TypeOK, Process
  <2>2. consumer' \in Consumer(Ids)
    BY <1>0, <1>5, <2>1, PressFacts, StoredType DEF TypeOK, Press
  <2>3. missed' \subseteq Ids
    BY <1>0, <1>5, PressFacts DEF TypeOK, Press
  <2>4. current' \in 0..Len(commands')
    BY <1>0, <1>5, PressFacts DEF TypeOK, Press
  <2>. QED  BY <1>0, <1>5, <2>2, <2>3, <2>4, PressFacts DEF TypeOK, Press, processes
<1>6. ASSUME NEW h \in Hosts, Start(h) PROVE TypeOK'
  <2>1. /\ consumer' \in Consumer(Ids)
        /\ filter' \in Hosts \cup {None} /\ bound' \in Hosts \cup {None}
        /\ listens' \in [Hosts -> BOOLEAN]
        /\ \A g \in Hosts : listens[g] => listens'[g]
    <3>1. CASE UNCHANGED <<consumer, filter, bound, listens>>
      BY <1>0, <3>1 DEF TypeOK
    <3>2. CASE Bind(h)
      <4>1. consumer' \in Consumer(Ids)
        BY <1>0, <3>2, SubscribedType DEF TypeOK, Bind
      <4>. QED  BY <1>0, <3>2, <4>1 DEF TypeOK, Bind
    <3>3. CASE LeaveBehind(h)
      BY <1>0, <3>3, LeftBehind DEF TypeOK, LeaveBehind
    <3>. QED  BY <1>0, <1>6, <3>1, <3>2, <3>3, StartOutcome
  <2>2. spent' \in [DOMAIN Limits -> Nat] /\ troubled' \subseteq Hosts
    <3>1. Spend("failures") => spent' \in [DOMAIN Limits -> Nat]
      BY <1>0, SpendType, LimitsDomain
    <3>2. UNCHANGED spent => spent' \in [DOMAIN Limits -> Nat]
      BY <1>0 DEF TypeOK
    <3>3. troubled \subseteq Hosts
      BY <1>0 DEF TypeOK
    <3>. QED  BY <1>0, <1>6, <3>1, <3>2, <3>3, StartOutcome
  <2>3. /\ UNCHANGED <<processes, commands, current, victims, carried, missed>>
        /\ stream' \in BOOLEAN /\ agent' = [agent EXCEPT ![h] = "up"]
    BY <1>0, <1>6, StartOutcome DEF TypeOK
  <2>. QED  BY <1>0, <2>1, <2>2, <2>3 DEF TypeOK, processes
<1>7. ASSUME NEW h \in Hosts, AbortStart(h) PROVE TypeOK'
  <2>1. spent' \in [DOMAIN Limits -> Nat]
    BY <1>0, <1>7, SpendType, LimitsDomain DEF AbortStart
  <2>. QED  BY <1>0, <1>7, <2>1 DEF TypeOK, AbortStart, processes, history
<1>8. ASSUME NEW h \in Hosts, Exit(h), spent' \in [DOMAIN Limits -> Nat],
             agent' \in [Hosts -> {"off", "up", "crashed"}],
             bound' \in Hosts \cup {None}, troubled' \subseteq Hosts
      PROVE  TypeOK'
  <2>1. listens' \in [Hosts -> BOOLEAN] /\ \A g \in Hosts \ {h} : listens'[g] = listens[g]
    BY <1>0, <1>8 DEF TypeOK, Exit
  <2>2. consumer' \in Consumer(Ids)
    BY <1>0, <1>8, DroppedType DEF TypeOK, Exit
  <2>3. /\ current' \in 0..Len(commands')
        /\ current' # 0 => current' \in carried' /\ \E g \in Hosts : listens'[g]
    <3>1. CASE listens[h]
      BY <1>0, <1>8, <3>1, LenProperties DEF TypeOK, Exit
    <3>2. CASE ~listens[h]
      BY <1>0, <1>8, <3>2, <2>1 DEF TypeOK, Exit, history
    <3>. QED  BY <3>1, <3>2
  <2>. QED  BY <1>0, <1>8, <2>1, <2>2, <2>3 DEF TypeOK, Exit, processes, history
<1>9. ASSUME NEW h \in Hosts, Crash(h) PROVE TypeOK'
  <2>1. spent' \in [DOMAIN Limits -> Nat]
    BY <1>0, <1>9, SpendType, LimitsDomain DEF Crash
  <2>. QED  BY <1>0, <1>8, <1>9, <2>1 DEF TypeOK, Crash
<1>10. ASSUME NEW h \in Hosts, Stop(h) PROVE TypeOK'
  <2>1. spent' \in [DOMAIN Limits -> Nat]
    BY <1>0, <1>10, SpendType, LimitsDomain DEF Stop
  <2>. QED  BY <1>0, <1>8, <1>10, <2>1 DEF TypeOK, Stop
<1>11. CASE Unbind
  BY <1>0, <1>11 DEF TypeOK, Unbind, processes, history
<1>12. ASSUME NEW id \in consumer.unacked, Redeliver(id) PROVE TypeOK'
  <2>1. spent' \in [DOMAIN Limits -> Nat]
    BY <1>0, <1>12, SpendType, LimitsDomain DEF TypeOK, Redeliver
  <2>2. id \in Ids
    BY InsideFacts DEF Inside
  <2>3. consumer' \in Consumer(Ids)
    BY <1>0, <1>12, <2>2, RedeliveredType DEF TypeOK, Redeliver
  <2>. QED  BY <1>0, <1>12, <2>1, <2>3 DEF TypeOK, Redeliver, processes, history
<1>13. ASSUME NEW h \in Hosts, Execute(h) PROVE TypeOK'
  <2>1. /\ consumer' \in Consumer(Ids) /\ current' \in Inside(consumer)
    BY <1>0, <1>13, TakenType, KeptInside DEF TypeOK, Execute
  <2>2. current' \in Ids /\ current' \in 1..Len(commands)
    BY <2>1, InsideFacts
  <2>3. owner[h] # 0 => [host |-> h, n |-> owner[h]] \in Process
    BY <1>0 DEF TypeOK, Process
  <2>4. victims' \in [Ids -> SUBSET Process]
    BY <1>0, <1>13, <2>2, <2>3 DEF TypeOK, Execute
  <2>5. owner' \in [Hosts -> Nat]
    BY <1>0, <1>13 DEF TypeOK, Execute
  <2>6. commands' = commands /\ carried' = carried \cup {current'}
    BY <1>13 DEF Execute
  <2>7. carried' \subseteq Ids /\ current' \in carried' /\ current' \in 0..Len(commands')
    BY <1>0, <2>2, <2>6 DEF TypeOK
  <2>. QED  BY <1>0, <1>13, <2>1, <2>4, <2>5, <2>7 DEF TypeOK, Execute
<1>14. CASE Ack
  <2>1. consumer' \in Consumer(Ids)
    BY <1>0, <1>14, DroppedType DEF TypeOK, Ack
  <2>2. current' \in 0..Len(commands')
    BY <1>0, <1>14, LenProperties DEF TypeOK, Ack
  <2>. QED  BY <1>0, <1>14, <2>1, <2>2 DEF TypeOK, Ack, processes, history
<1>. QED
  BY <1>1, <1>2, <1>3, <1>4, <1>5, <1>6, <1>7, <1>9, <1>10, <1>11, <1>12, <1>13, <1>14
     DEF Next, Callback

-----------------------------------------------------------------------------
(* The rest of the invariant.                                               *)

\* A step that sends and kills nothing, keeps filter and subscriptions as far
\* as they go, and loses nothing that is still to be done.
LEMMA QuietStep ==
  ASSUME IInv,
         commands' = commands, filter' = filter, victims' = victims,
         carried' = carried, missed' = missed,
         consumer'.exists = consumer.exists,
         Inside(consumer') \subseteq Inside(consumer),
         Undone(consumer) \subseteq Undone(consumer') \cup carried,
         \A h \in Hosts : listens'[h] => listens[h]
  PROVE  Core'
<1>1. Addressed'
  BY DEF IInv, Core, Addressed
<1>2. Tuned' /\ FilterIffConsumer' /\ Numbered' /\ NotYetUsed'
  BY DEF IInv, Core, Tuned, FilterIffConsumer, Numbered, NotYetUsed
<1>3. CommandStaysOnItsHost'
  BY DEF IInv, Core, CommandStaysOnItsHost
<1>4. AcceptedIsKept'
  BY DEF IInv, Core, AcceptedIsKept
<1>. QED  BY <1>1, <1>2, <1>3, <1>4 DEF Core

\* A new command goes to the consumer of its host or to none.
LEMMA PressStep ==
  ASSUME IInv, NEW b \in buttons, Press(b)
  PROVE  Core'
<1>. DEFINE id == Len(commands')
<1>0. /\ Len(commands) \in Nat /\ id = Len(commands) + 1 /\ id \in Ids
      /\ DOMAIN commands = 1..Len(commands) /\ DOMAIN commands' = 1..id
      /\ \A j \in DOMAIN commands : commands'[j] = commands[j]
      /\ commands'[id] = b
  BY PressFacts
<1>. HIDE DEF id
<1>1. /\ id \in Ids /\ id \notin DOMAIN commands /\ DOMAIN commands' = DOMAIN commands \cup {id}
      /\ \A j \in DOMAIN commands : commands'[j] = commands[j]
      /\ commands'[id] = b
  BY <1>0
<1>2. /\ consumer \in Consumer(Ids) /\ b.host \in Hosts /\ listens[b.host] \in BOOLEAN
      /\ consumer.exists <=> filter # None
      /\ filter' = filter /\ listens' = listens /\ victims' = victims /\ carried' = carried
  BY DEF IInv, Core, TypeOK, Process, FilterIffConsumer, Press
<1>3. CASE stream /\ filter = b.host
  <2>1. consumer' = Stored(consumer, id, listens[b.host]) /\ missed' = missed
    BY <1>3 DEF Press, id
  <2>2. consumer.exists
    BY <1>2, <1>3, CommandsAssumption
  <2>3. /\ Inside(consumer') \subseteq Inside(consumer) \cup {id}
        /\ Undone(consumer) \cup {id} \subseteq Undone(consumer')
        /\ consumer'.exists
    BY <1>1, <1>2, <2>1, <2>2, StoredInside
  <2>4. Addressed'
    BY <1>1, <1>2, <1>3, <2>3 DEF IInv, Core, Addressed
  <2>5. AcceptedIsKept'
    BY <1>1, <1>2, <2>1, <2>3 DEF IInv, Core, AcceptedIsKept
  <2>6. FilterIffConsumer'
    BY <1>2, <2>2, <2>3 DEF FilterIffConsumer
  <2>. QED
    <3>1. Tuned' /\ Numbered' /\ NotYetUsed'
      BY <1>1, <1>2 DEF IInv, Core, Tuned, Numbered, NotYetUsed
    <3>2. CommandStaysOnItsHost'
      BY <1>1, <1>2 DEF IInv, Core, CommandStaysOnItsHost, NotYetUsed
    <3>. QED  BY <2>4, <2>5, <2>6, <3>1, <3>2 DEF Core
<1>4. CASE ~(stream /\ filter = b.host)
  <2>1. consumer' = consumer /\ missed' = missed \cup {id}
    BY <1>4 DEF Press, id
  <2>2. Addressed' /\ FilterIffConsumer'
    BY <1>1, <1>2, <2>1 DEF IInv, Core, Addressed, FilterIffConsumer
  <2>3. AcceptedIsKept'
    BY <1>1, <1>2, <2>1 DEF IInv, Core, AcceptedIsKept
  <2>4. Tuned' /\ Numbered' /\ NotYetUsed'
    BY <1>1, <1>2 DEF IInv, Core, Tuned, Numbered, NotYetUsed
  <2>5. CommandStaysOnItsHost'
    BY <1>1, <1>2 DEF IInv, Core, CommandStaysOnItsHost, NotYetUsed
  <2>. QED  BY <2>2, <2>3, <2>4, <2>5 DEF Core
<1>. QED  BY <1>3, <1>4

\* A subscription takes over the consumer of its own host; a new one is made when
\* nothing was accepted yet.
LEMMA StartStep ==
  ASSUME IInv, NEW h \in Hosts, Start(h)
  PROVE  Core'
<1>1. /\ commands' = commands /\ victims' = victims /\ carried' = carried
      /\ missed' = missed /\ consumer \in Consumer(Ids)
      /\ listens \in [Hosts -> BOOLEAN] /\ TypeOK
  BY StartOutcome DEF IInv, TypeOK
<1>2. CASE UNCHANGED <<consumer, filter, bound, listens>>
  BY <1>1, <1>2, QuietStep
<1>4. CASE LeaveBehind(h)
  <2>1. /\ ~consumer.exists /\ filter' = h /\ UNCHANGED listens /\ h # None
        /\ consumer'.exists /\ Inside(consumer') = {}
    BY <1>4, LeftBehind, CommandsAssumption DEF LeaveBehind
  <2>2. filter = None /\ DOMAIN commands \subseteq missed
    BY <2>1 DEF IInv, Core, FilterIffConsumer
  <2>3. \A g \in Hosts : ~listens[g]
    BY <2>2, CommandsAssumption DEF IInv, Core, Tuned
  <2>4. Addressed' /\ AcceptedIsKept' /\ Tuned'
    BY <1>1, <2>1, <2>2, <2>3 DEF Addressed, AcceptedIsKept, Tuned
  <2>. QED  BY <1>1, <2>1, <2>4
       DEF IInv, Core, FilterIffConsumer, Numbered, NotYetUsed, CommandStaysOnItsHost
<1>3. CASE Bind(h)
  <2>. USE DEF Bind
  <2>1. h # None /\ consumer'.exists
    BY <1>1, <1>3, SubscribedInside, CommandsAssumption
  <2>2. CASE consumer.exists
    <3>1. filter = h
      BY <1>3, <2>2
    <3>2. Inside(consumer') \subseteq Inside(consumer) /\ Undone(consumer) \subseteq Undone(consumer')
      BY <1>1, <1>3, <2>2, SubscribedInside
    <3>3. Addressed' /\ AcceptedIsKept'
      BY <1>1, <1>3, <3>1, <3>2 DEF IInv, Core, Addressed, AcceptedIsKept
    <3>4. Tuned'
      BY <1>1, <1>3, <3>1 DEF IInv, Core, Tuned
    <3>. QED  BY <1>1, <1>3, <2>1, <3>3, <3>4
         DEF IInv, Core, FilterIffConsumer, Numbered, NotYetUsed, CommandStaysOnItsHost
  <2>3. CASE ~consumer.exists
    <3>1. filter = None /\ DOMAIN commands \subseteq missed
      BY <2>3 DEF IInv, Core, FilterIffConsumer
    <3>2. \A g \in Hosts : ~listens[g]
      BY <3>1, CommandsAssumption DEF IInv, Core, Tuned
    <3>3. Inside(consumer') = {}
      BY <1>1, <1>3, <2>3, SubscribedInside
    <3>4. Addressed' /\ AcceptedIsKept'
      BY <1>1, <3>1, <3>3 DEF Addressed, AcceptedIsKept
    <3>5. Tuned'
      BY <1>1, <1>3, <3>2 DEF Tuned
    <3>. QED  BY <1>1, <1>3, <2>1, <3>4, <3>5
         DEF IInv, Core, FilterIffConsumer, Numbered, NotYetUsed, CommandStaysOnItsHost
  <2>. QED  BY <2>2, <2>3
<1>. QED  BY <1>1, <1>2, <1>3, <1>4, StartOutcome

\* The callback kills on the host that listens, which is the one the filter
\* names, which is the one the command was sent to.
LEMMA ExecuteStep ==
  ASSUME IInv, NEW h \in Hosts, Execute(h)
  PROVE  Core'
<1>1. /\ consumer \in Consumer(Ids) /\ consumer.inbox # <<>> /\ listens[h]
      /\ current' = Head(consumer.inbox) /\ consumer' = Taken(consumer)
      /\ victims \in [Ids -> SUBSET Process]
      /\ victims' = IF owner[h] = 0 THEN victims
           ELSE [victims EXCEPT ![current'] = victims[current'] \cup {[host |-> h, n |-> owner[h]]}]
      /\ carried' = carried \cup {current'}
      /\ commands' = commands /\ filter' = filter /\ listens' = listens /\ missed' = missed
  BY DEF IInv, TypeOK, Execute
<1>2. /\ Inside(consumer') \subseteq Inside(consumer) /\ current' \in Inside(consumer)
      /\ Undone(consumer') = Undone(consumer) /\ consumer'.exists = consumer.exists
  BY <1>1, KeptInside
<1>3. current' \in Ids /\ current' \in DOMAIN commands /\ commands[current'].host = h
  BY <1>1, <1>2, InsideFacts DEF IInv, Core, Addressed, Tuned
<1>4. Addressed' /\ Tuned' /\ FilterIffConsumer'
  BY <1>1, <1>2 DEF IInv, Core, Addressed, Tuned, FilterIffConsumer
<1>5. AcceptedIsKept'
  BY <1>1, <1>2 DEF IInv, Core, AcceptedIsKept
<1>6. \A id \in Ids : id # current' => victims'[id] = victims[id]
  BY <1>1
<1>7. \A v \in victims'[current'] : v \in victims[current'] \/ v.host = h
  BY <1>1, <1>3
<1>8. NotYetUsed'
  BY <1>1, <1>3, <1>6 DEF IInv, Core, NotYetUsed
<1>9. CommandStaysOnItsHost'
  BY <1>1, <1>3, <1>6, <1>7 DEF IInv, Core, Numbered, CommandStaysOnItsHost
<1>10. Numbered'
  BY <1>1 DEF IInv, Core, Numbered
<1>. QED  BY <1>4, <1>5, <1>8, <1>9, <1>10 DEF Core

\* Every step of the specification keeps the invariant.
LEMMA Step == IInv /\ [Next]_vars => IInv'
<1>. SUFFICES ASSUME IInv, [Next]_vars PROVE IInv'
  OBVIOUS
<1>0. consumer \in Consumer(Ids) /\ listens \in [Hosts -> BOOLEAN]
  BY DEF IInv, TypeOK
<1>1. ASSUME UNCHANGED <<commands, filter, victims, carried, missed, consumer, listens>>
      PROVE  Core'
  <2>1. /\ Inside(consumer') \subseteq Inside(consumer)
        /\ Undone(consumer) \subseteq Undone(consumer') \cup carried
    BY <1>1
  <2>. QED  BY <1>1, <2>1, QuietStep
<1>2. ASSUME NEW h \in Hosts, Exit(h) PROVE Core'
  <2>1. \A g \in Hosts : listens'[g] => listens[g]
    BY <1>0, <1>2 DEF Exit
  <2>2. /\ Inside(consumer') \subseteq Inside(consumer)
        /\ Undone(consumer') = Undone(consumer) /\ consumer'.exists = consumer.exists
    BY <1>0, <1>2, KeptInside DEF Exit
  <2>. QED  BY <1>2, <2>1, <2>2, QuietStep DEF Exit, history
<1>3. ASSUME NEW id \in consumer.unacked, Redeliver(id) PROVE Core'
  <2>1. id \in Ids /\ id \in Inside(consumer)
    BY InsideFacts DEF Inside
  <2>2. /\ Inside(consumer') \subseteq Inside(consumer)
        /\ Undone(consumer') = Undone(consumer) /\ consumer'.exists = consumer.exists
    BY <1>0, <1>3, <2>1, KeptInside DEF Redeliver
  <2>. QED  BY <1>3, <2>2, QuietStep DEF Redeliver, history
<1>4. ASSUME Ack PROVE Core'
  <2>1. current \in carried
    BY <1>4 DEF IInv, TypeOK, Ack
  <2>2. /\ Inside(consumer') \subseteq Inside(consumer)
        /\ Undone(consumer) \subseteq Undone(consumer') \cup {current}
        /\ consumer'.exists = consumer.exists
    BY <1>0, <1>4, KeptInside DEF Ack
  <2>3. Undone(consumer) \subseteq Undone(consumer') \cup carried
    BY <2>1, <2>2
  <2>. QED  BY <1>4, <2>2, <2>3, QuietStep DEF Ack, history
<1>5. ASSUME NEW h \in Hosts, Spawn(h) \/ Quit(h) \/ Show(h) \/ AbortStart(h)
      PROVE  Core'
  BY <1>1, <1>5 DEF Spawn, Quit, Show, AbortStart, history
<1>6. ASSUME Unbind PROVE Core'
  BY <1>1, <1>6 DEF Unbind, history
<1>7. ASSUME NEW h \in Hosts, Crash(h) \/ Stop(h) PROVE Core'
  BY <1>2, <1>7 DEF Crash, Stop
<1>8. ASSUME UNCHANGED vars PROVE Core'
  BY <1>1, <1>8 DEF vars, history
<1>9. Core'
  BY <1>3, <1>4, <1>5, <1>6, <1>7, <1>8, PressStep, StartStep, ExecuteStep
     DEF Next, Callback
<1>. QED  BY <1>9, TypeStep DEF IInv

-----------------------------------------------------------------------------
(* Why an agent may run without a subscription.                             *)

\* Only an agent that is up listens, and the server knows of its connection; a
\* connection the server only takes for alive is that of a crashed agent.
Attached ==
  /\ \A h \in Hosts : listens[h] => agent[h] = "up" /\ bound = h
  /\ \A h \in Hosts : bound = h => filter = h /\ (listens[h] \/ h \in troubled)
  /\ DeafHasReason

\* Spending from a bound adds one to its account and touches no other.
LEMMA SpendAdds ==
  ASSUME TypeOK, NEW what \in DOMAIN Limits, Spend(what)
  PROVE  /\ spent'[what] = spent[what] + 1
         /\ \A other \in DOMAIN Limits : other # what => spent'[other] = spent[other]
<1>. DEFINE D == DOMAIN Limits
<1>1. spent \in [D -> Nat] /\ spent' = [spent EXCEPT ![what] = spent[what] + 1] /\ what \in D
  BY DEF TypeOK, Spend
<1>. HIDE DEF D
<1>2. /\ spent'[what] = spent[what] + 1
      /\ \A other \in D : other # what => spent'[other] = spent[other]
  BY <1>1
<1>. QED  BY <1>2 DEF D

\* The accounts are numbers.
LEMMA SpentType ==
  ASSUME TypeOK
  PROVE  spent.crashes \in Nat /\ spent.stops \in Nat /\ spent.repeats \in Nat
BY LimitsDomain DEF TypeOK

\* An agent that starts listens, unless another host has the durable name, or its
\* own crash is not known yet, or a call fails; one that ends is not deaf but down.
LEMMA AttachedStep ==
  ASSUME IInv, Attached, [Next]_vars
  PROVE  Attached'
<1>1. /\ agent \in [Hosts -> {"off", "up", "crashed"}] /\ listens \in [Hosts -> BOOLEAN]
      /\ bound \in Hosts \cup {None} /\ None \notin Hosts /\ TypeOK
      /\ consumer.exists <=> filter # None
  BY CommandsAssumption DEF IInv, TypeOK, Core, FilterIffConsumer
<1>2. \A h \in Hosts :
        /\ listens[h] => agent[h] = "up" /\ bound = h
        /\ bound = h => filter = h /\ (listens[h] \/ h \in troubled)
        /\ agent[h] = "up" /\ ~listens[h] => filter # h \/ h \in troubled
  BY DEF Attached, DeafHasReason, Deaf
<1>3. ASSUME \A h \in Hosts :
               /\ listens'[h] => agent'[h] = "up" /\ bound' = h
               /\ bound' = h => filter' = h /\ (listens'[h] \/ h \in troubled')
               /\ agent'[h] = "up" /\ ~listens'[h] => filter' # h \/ h \in troubled'
      PROVE  Attached'
  BY <1>3 DEF Attached, DeafHasReason, Deaf
<1>4. ASSUME UNCHANGED <<agent, listens, bound, filter, troubled>> PROVE Attached'
  BY <1>2, <1>3, <1>4
<1>5. ASSUME NEW h \in Hosts, Start(h) PROVE Attached'
  <2>0. agent[h] # "up" /\ agent' = [agent EXCEPT ![h] = "up"]
    BY <1>1, <1>5, StartOutcome
  <2>1. /\ agent'[h] = "up" /\ ~listens[h]
        /\ \A g \in Hosts : g # h => agent'[g] = agent[g]
    BY <1>1, <1>2, <2>0
  <2>2. /\ \A g \in Hosts : g # h => (g \in troubled' <=> g \in troubled)
        /\ ~listens'[h] => troubled \subseteq troubled'
    BY <1>1, <1>5, StartOutcome
  <2>3. CASE Bind(h)
    <3>1. /\ filter' = h /\ bound' = h /\ listens'[h]
          /\ \A g \in Hosts : g # h => listens'[g] = listens[g]
      BY <1>1, <2>3 DEF Bind
    <3>2. \A g \in Hosts : ~listens[g]
      BY <1>1, <1>2, <2>1, <2>3 DEF Bind
    <3>. QED  BY <1>2, <1>3, <2>1, <2>2, <3>1, <3>2
  <2>4. CASE LeaveBehind(h) /\ (~listens'[h] => h \in troubled')
    <3>1. /\ filter' = h /\ UNCHANGED <<bound, listens>> /\ filter = None
      BY <1>1, <2>4 DEF LeaveBehind
    <3>2. \A g \in Hosts : bound # g /\ ~listens[g]
      BY <1>1, <1>2, <3>1
    <3>3. h \in troubled'
      BY <2>1, <2>4, <3>1
    <3>. QED  BY <1>2, <1>3, <2>1, <2>2, <3>1, <3>2, <3>3
  <2>5. CASE /\ UNCHANGED <<consumer, filter, bound, listens>>
             /\ \/ ~listens'[h] => h \in troubled'
                \/ consumer.exists /\ (filter # h \/ bound # None)
    <3>1. filter' # h \/ h \in troubled'
      <4>1. CASE ~listens'[h] => h \in troubled'
        BY <2>1, <2>5, <4>1
      <4>2. CASE filter = h /\ bound # None
        <5>1. bound = h
          BY <1>1, <1>2, <4>2
        <5>. QED  BY <1>2, <2>1, <2>2, <2>5, <5>1
      <4>. QED  BY <2>5, <4>1, <4>2
    <3>. QED  BY <1>2, <1>3, <2>1, <2>2, <2>5, <3>1
  <2>. QED  BY <1>1, <1>5, <2>3, <2>4, <2>5, StartOutcome
<1>6. ASSUME NEW h \in Hosts, AbortStart(h) PROVE Attached'
  <2>1. /\ agent[h] = "crashed" /\ agent'[h] = "off"
        /\ \A g \in Hosts : g # h => agent'[g] = agent[g]
        /\ UNCHANGED <<listens, bound, filter, troubled>>
    BY <1>1, <1>6 DEF AbortStart, history
  <2>. QED  BY <1>2, <1>3, <2>1
<1>7. ASSUME NEW h \in Hosts, Crash(h) PROVE Attached'
  <2>1. /\ agent'[h] = "crashed" /\ ~listens'[h] /\ h \in troubled'
        /\ \A g \in Hosts : g # h => agent'[g] = agent[g] /\ listens'[g] = listens[g]
        /\ troubled \subseteq troubled' /\ UNCHANGED <<bound, filter>>
    BY <1>1, <1>7 DEF Crash, Exit
  <2>. QED  BY <1>2, <1>3, <2>1
<1>8. ASSUME NEW h \in Hosts, Stop(h) PROVE Attached'
  <2>1. /\ agent'[h] = "off" /\ ~listens'[h]
        /\ \A g \in Hosts : g # h => agent'[g] = agent[g] /\ listens'[g] = listens[g]
        /\ bound' = (IF listens[h] THEN None ELSE bound) /\ UNCHANGED <<filter, troubled>>
    BY <1>1, <1>8 DEF Stop, Exit
  <2>. QED  BY <1>1, <1>2, <1>3, <2>1
<1>9. ASSUME Unbind PROVE Attached'
  <2>1. /\ bound # None /\ ~listens[bound] /\ bound' = None
        /\ UNCHANGED <<agent, listens, filter, troubled>>
    BY <1>9 DEF Unbind, history
  <2>. QED  BY <1>1, <1>2, <1>3, <2>1
<1>10. ASSUME \/ \E h \in Hosts : Spawn(h) \/ Quit(h) \/ Show(h) \/ Execute(h)
              \/ \E b \in buttons : Press(b)
              \/ \E id \in consumer.unacked : Redeliver(id)
              \/ Ack
              \/ UNCHANGED vars
       PROVE  Attached'
  <2>1. UNCHANGED <<agent, listens, bound, filter, troubled>>
    BY <1>10 DEF Spawn, Quit, Show, Execute, Press, Redeliver, Ack, vars, history
  <2>. QED  BY <1>4, <2>1
<1>. QED
  BY <1>5, <1>6, <1>7, <1>8, <1>9, <1>10 DEF Next, Callback

-----------------------------------------------------------------------------
(* How many processes a command may kill.                                   *)

\* One delivery, and one for every disturbance.
Deliveries == 1 + spent.crashes + spent.stops + spent.repeats

\* Victims and deliveries to come of a command are accounted for.
Delivered ==
  \A id \in Ids :
    /\ IsFiniteSet(victims[id])
    /\ Cardinality(victims[id]) + ToCome(consumer, current, id) <= Deliveries

\* A step that adds no more to victims and deliveries to come than to the account.
LEMMA DeliveredKept ==
  ASSUME TypeOK, TypeOK', Delivered, NEW d \in {0, 1}, Deliveries + d <= Deliveries',
         UNCHANGED victims,
         \A id \in Ids : ToCome(consumer', current', id) <= ToCome(consumer, current, id) + d
  PROVE  Delivered'
<1>1. consumer \in Consumer(Ids) /\ consumer' \in Consumer(Ids)
  BY DEF TypeOK
<1>2. Deliveries \in Nat
  BY SpentType DEF Deliveries
<1>3. Deliveries' \in Nat
  <2>1. spent'.crashes \in Nat /\ spent'.stops \in Nat /\ spent'.repeats \in Nat
    BY LimitsDomain DEF TypeOK
  <2>. QED  BY <2>1 DEF Deliveries
<1>4. ASSUME NEW id \in Ids
      PROVE  /\ IsFiniteSet(victims[id])
             /\ Cardinality(victims[id]) + ToCome(consumer', current', id) <= Deliveries'
  <2>1. IsFiniteSet(victims[id])
    BY DEF Delivered
  <2>2. PICK n \in Nat : n = Cardinality(victims[id])
    BY <2>1, FS_CardinalityType
  <2>3. PICK x \in Nat : x = ToCome(consumer, current, id)
    BY <1>1, ToComeType
  <2>4. PICK y \in Nat : y = ToCome(consumer', current', id)
    BY <1>1, ToComeType
  <2>5. n + x <= Deliveries /\ y <= x + d
    BY <2>2, <2>3, <2>4 DEF Delivered
  <2>. QED  BY <1>2, <1>3, <2>1, <2>2, <2>4, <2>5
<1>. QED  BY <1>4 DEF Delivered

\* Every step keeps victims and deliveries to come within the account.
LEMMA DeliveredStep ==
  ASSUME IInv, TypeOK', Delivered, [Next]_vars
  PROVE  Delivered'
<1>. USE LimitsDomain
<1>1. /\ consumer \in Consumer(Ids) /\ consumer' \in Consumer(Ids) /\ TypeOK
      /\ current \in Nat /\ Len(commands) \in Nat /\ current <= Len(commands)
  <2>1. /\ consumer \in Consumer(Ids) /\ consumer' \in Consumer(Ids) /\ TypeOK
        /\ commands \in Seq(Process) /\ current \in 0..Len(commands)
    BY DEF IInv, TypeOK
  <2>2. PICK n \in Nat : n = Len(commands)
    BY <2>1, LenProperties
  <2>. QED  BY <2>1, <2>2
<1>2. /\ spent.crashes \in Nat /\ spent.stops \in Nat /\ spent.repeats \in Nat
      /\ Deliveries \in Nat /\ Deliveries >= 1
  BY <1>1, SpentType, SMTT(30) DEF Deliveries
<1>3. ASSUME UNCHANGED spent, UNCHANGED victims,
             \A id \in Ids : ToCome(consumer', current', id) <= ToCome(consumer, current, id)
      PROVE  Delivered'
  <2>1. Deliveries + 0 <= Deliveries'
    BY <1>2, <1>3 DEF Deliveries
  <2>2. ASSUME NEW id \in Ids
        PROVE  ToCome(consumer', current', id) <= ToCome(consumer, current, id) + 0
    <3>1. ToCome(consumer', current', id) \in Nat /\ ToCome(consumer, current, id) \in Nat
      BY <1>1, ToComeType
    <3>. QED  BY <1>3, <3>1
  <2>. QED  BY <1>1, <1>3, <2>1, <2>2, DeliveredKept
<1>4. ASSUME UNCHANGED victims, \E what \in {"crashes", "stops", "repeats"} : Spend(what),
             \A id \in Ids :
               ToCome(consumer', current', id) <= ToCome(consumer, current, id) + 1
      PROVE  Delivered'
  <2>1. PICK what \in {"crashes", "stops", "repeats"} : Spend(what)
    BY <1>4
  <2>2. /\ spent'[what] = spent[what] + 1
        /\ \A other \in DOMAIN Limits : other # what => spent'[other] = spent[other]
    BY <1>1, <2>1, SpendAdds
  <2>3. Deliveries + 1 <= Deliveries'
    BY <1>2, <2>2 DEF Deliveries
  <2>. QED  BY <1>1, <1>4, <2>3, DeliveredKept
<1>5. ASSUME UNCHANGED <<consumer, current>>, NEW id \in Ids
      PROVE  /\ ToCome(consumer', current', id) <= ToCome(consumer, current, id)
             /\ ToCome(consumer', current', id) <= ToCome(consumer, current, id) + 1
  <2>1. ToCome(consumer, current, id) \in Nat
    BY <1>1, ToComeType
  <2>. QED  BY <1>5, <2>1
<1>6. ASSUME NEW b \in buttons, Press(b) PROVE Delivered'
  <2>1. PICK k : k = Len(commands')
    OBVIOUS
  <2>2. PICK l : l = listens[b.host]
    OBVIOUS
  <2>3. /\ consumer' = Stored(consumer, k, l) \/ consumer' = consumer
        /\ UNCHANGED <<current, victims, spent>>
    BY <1>6, <2>1, <2>2 DEF Press
  <2>4. /\ k = Len(commands) + 1 /\ k \in Ids
        /\ DOMAIN commands = 1..Len(commands)
    BY <1>6, <2>1, PressFacts
  <2>5. l \in BOOLEAN
    <3>1. b.host \in Hosts
      BY <1>1 DEF TypeOK, Process
    <3>. QED  BY <1>1, <2>2, <3>1 DEF TypeOK
  <2>6. ASSUME NEW id \in Ids
        PROVE  /\ IsFiniteSet(victims[id])
               /\ Cardinality(victims[id]) + ToCome(consumer', current', id) <= Deliveries'
    <3>1. IsFiniteSet(victims[id])
      BY DEF Delivered
    <3>2. PICK n \in Nat : n = Cardinality(victims[id])
      BY <3>1, FS_CardinalityType
    <3>3. PICK x \in Nat : x = ToCome(consumer, current, id)
      BY <1>1, ToComeType
    <3>4. PICK y \in Nat : y = ToCome(consumer', current', id)
      BY <1>1, ToComeType
    <3>5. n + x <= Deliveries /\ Deliveries' = Deliveries
      BY <2>3, <3>2, <3>3 DEF Delivered, Deliveries
    <3>6. y <= x + (IF k = id THEN 1 ELSE 0)
      <4>1. ToCome(Stored(consumer, k, l), current, id)
              <= ToCome(consumer, current, id) + (IF k = id THEN 1 ELSE 0)
        BY <1>1, <2>4, <2>5, ToComeStored
      <4>. QED  BY <2>3, <3>3, <3>4, <4>1
    <3>7. CASE id # k
      BY <1>2, <3>1, <3>2, <3>4, <3>5, <3>6, <3>7
    <3>8. CASE id = k
      <4>1. id \notin DOMAIN commands /\ id # current
        BY <1>1, <2>4, <3>8
      <4>2. id \notin Inside(consumer) /\ victims[id] = {}
        BY <4>1 DEF IInv, Core, Addressed, NotYetUsed
      <4>3. x = 0 /\ n = 0
        BY <1>1, <3>2, <3>3, <4>1, <4>2, ToComeType, FS_EmptySet
      <4>. QED  BY <1>2, <3>1, <3>2, <3>4, <3>5, <3>6, <3>8, <4>3
    <3>. QED  BY <3>7, <3>8
  <2>. QED  BY <2>3, <2>6 DEF Delivered
<1>7. ASSUME NEW h \in Hosts, Start(h) PROVE Delivered'
  <2>1. /\ consumer' \in {consumer, Subscribed(consumer), Abandoned(NewConsumer)}
        /\ UNCHANGED <<current, victims>> /\ (UNCHANGED spent \/ Spend("failures"))
    BY <1>1, <1>7, StartOutcome DEF Bind, LeaveBehind
  <2>2. Deliveries + 0 <= Deliveries'
    <3>1. CASE UNCHANGED spent
      BY <1>2, <3>1 DEF Deliveries
    <3>2. CASE Spend("failures")
      <4>1. /\ spent'.crashes = spent.crashes /\ spent'.stops = spent.stops
            /\ spent'.repeats = spent.repeats
        BY <1>1, <3>2, SpendAdds
      <4>. QED  BY <1>2, <4>1 DEF Deliveries
    <3>. QED  BY <2>1, <3>1, <3>2
  <2>3. ASSUME NEW id \in Ids
        PROVE  ToCome(consumer', current', id) <= ToCome(consumer, current, id) + 0
    <3>1. PICK x \in Nat, y \in Nat :
            x = ToCome(consumer, current, id) /\ y = ToCome(consumer', current', id)
      BY <1>1, ToComeType
    <3>2. CASE consumer' = consumer
      BY <2>1, <3>1, <3>2
    <3>3. CASE consumer' = Subscribed(consumer)
      <4>1. y <= x
        BY <1>1, <2>1, <3>1, <3>3, ToComeSubscribed
      <4>. QED  BY <3>1, <4>1
    <3>4. CASE consumer' = Abandoned(NewConsumer)
      <4>1. NewConsumer \in Consumer(Ids)
        BY NewConsumerType
      <4>2. PICK z \in Nat : z = ToCome(NewConsumer, current, id)
        BY <4>1, ToComeType
      <4>3. z <= x
        BY <1>1, <3>1, <4>2, ToComeSubscribed
      <4>4. y <= z
        BY <2>1, <3>1, <3>4, <4>1, <4>2, ToComeDropped
      <4>. QED  BY <3>1, <4>2, <4>3, <4>4
    <3>. QED  BY <2>1, <3>2, <3>3, <3>4
  <2>. QED  BY <1>1, <2>1, <2>2, <2>3, DeliveredKept
<1>8. ASSUME NEW h \in Hosts, Crash(h) \/ Stop(h) PROVE Delivered'
  <2>1. /\ \/ consumer' = consumer /\ current' = current
           \/ consumer' = Abandoned(consumer) /\ current' = 0
        /\ UNCHANGED victims /\ (Spend("crashes") \/ Spend("stops"))
    BY <1>8 DEF Crash, Stop, Exit, history
  <2>2. ASSUME NEW id \in Ids
        PROVE  ToCome(consumer', current', id) <= ToCome(consumer, current, id) + 1
    <3>1. PICK c \in Consumer(Ids) : c = Abandoned(consumer)
      BY <1>1, DroppedType
    <3>2. PICK x \in Nat, y \in Nat, z \in Nat :
            /\ x = ToCome(consumer, current, id) /\ y = ToCome(c, current, id)
            /\ z = ToCome(c, 0, id)
      BY <1>1, ToComeType
    <3>3. y <= x
      BY <1>1, <3>1, <3>2, ToComeDropped
    <3>4. z <= y + 1
      BY <3>2, ToComeExit
    <3>. QED  BY <2>1, <3>1, <3>2, <3>3, <3>4
  <2>. QED  BY <1>4, <2>1, <2>2
<1>9. ASSUME NEW m \in consumer.unacked, Redeliver(m) PROVE Delivered'
  <2>1. consumer' = Redelivered(consumer, m) /\ UNCHANGED <<current, victims>>
    BY <1>9 DEF Redeliver, history
  <2>2. CASE Held(m)
    <3>1. Spend("repeats")
      BY <1>9, <2>2 DEF Redeliver
    <3>2. ASSUME NEW id \in Ids
          PROVE  ToCome(consumer', current', id) <= ToCome(consumer, current, id) + 1
      BY <1>1, <2>1, ToComeRedelivered
    <3>. QED  BY <1>4, <2>1, <3>1, <3>2
  <2>3. CASE ~Held(m)
    <3>1. m # current /\ m \notin ToSet(consumer.inbox) /\ UNCHANGED spent
      BY <1>9, <2>3 DEF Redeliver, Held, InInbox
    <3>2. ASSUME NEW id \in Ids
          PROVE  ToCome(consumer', current', id) <= ToCome(consumer, current, id)
      BY <1>1, <2>1, <3>1, ToComeRedelivered
    <3>. QED  BY <1>3, <2>1, <3>1, <3>2
  <2>. QED  BY <2>2, <2>3
<1>10. ASSUME NEW h \in Hosts, Execute(h) PROVE Delivered'
  <2>1. /\ current = 0 /\ consumer.inbox # <<>> /\ consumer' = Taken(consumer)
        /\ current' = Head(consumer.inbox) /\ UNCHANGED spent
        /\ victims' = IF owner[h] = 0 THEN victims
             ELSE [victims EXCEPT ![current'] = victims[current'] \cup {[host |-> h, n |-> owner[h]]}]
        /\ victims \in [Ids -> SUBSET Process]
    BY <1>1, <1>10 DEF Execute, TypeOK
  <2>2. PICK k \in Ids : k = Head(consumer.inbox)
    BY <1>1, <2>1, TakenType
  <2>3. PICK v : v = [host |-> h, n |-> owner[h]]
    OBVIOUS
  <2>4. /\ \A id \in Ids : id # k => victims'[id] = victims[id]
        /\ victims'[k] = victims[k] \/ victims'[k] = victims[k] \cup {v}
    BY <2>1, <2>2, <2>3
  <2>5. ASSUME NEW id \in Ids
        PROVE  /\ IsFiniteSet(victims'[id])
               /\ Cardinality(victims'[id]) + ToCome(consumer', current', id) <= Deliveries'
    <3>1. IsFiniteSet(victims[id])
      BY DEF Delivered
    <3>2. PICK n \in Nat : n = Cardinality(victims[id])
      BY <3>1, FS_CardinalityType
    <3>3. PICK x \in Nat : x = ToCome(consumer, current, id)
      BY <1>1, ToComeType
    <3>4. PICK y \in Nat : y = ToCome(consumer', current', id)
      BY <1>1, ToComeType
    <3>5. n + x <= Deliveries /\ Deliveries' = Deliveries
      BY <2>1, <3>2, <3>3 DEF Delivered, Deliveries
    <3>6. y + (IF k = id THEN 1 ELSE 0) <= x
      <4>1. id # current
        BY <2>1, CommandsAssumption DEF Ids
      <4>2. ToCome(Taken(consumer), k, id) + (IF k = id THEN 1 ELSE 0)
              <= ToCome(consumer, current, id)
        BY <1>1, <2>1, <2>2, <4>1, ToComeTaken
      <4>. QED  BY <2>1, <2>2, <3>3, <3>4, <4>2
    <3>7. /\ IsFiniteSet(victims'[id])
          /\ Cardinality(victims'[id]) <= n + (IF k = id THEN 1 ELSE 0)
          /\ Cardinality(victims'[id]) \in Nat
      <4>1. /\ IsFiniteSet(victims[id] \cup {v})
            /\ Cardinality(victims[id] \cup {v}) <= n + 1
        <5>1. PICK S : S = victims[id]
          OBVIOUS
        <5>2. /\ IsFiniteSet(S \cup {v})
              /\ \/ Cardinality(S \cup {v}) = Cardinality(S)
                 \/ Cardinality(S \cup {v}) = Cardinality(S) + 1
          BY <3>1, <5>1, FS_AddElement
        <5>. QED  BY <3>2, <5>1, <5>2
      <4>2. /\ IsFiniteSet(victims'[id])
            /\ Cardinality(victims'[id]) <= n + (IF k = id THEN 1 ELSE 0)
        BY <2>4, <3>1, <3>2, <4>1
      <4>. QED  BY <4>2, FS_CardinalityType
    <3>8. PICK m \in Nat : m = Cardinality(victims'[id])
      BY <3>7
    <3>. QED  BY <1>2, <3>2, <3>3, <3>4, <3>5, <3>6, <3>7, <3>8
  <2>. QED  BY <2>5 DEF Delivered
<1>11. ASSUME Ack PROVE Delivered'
  <2>1. consumer' = Acked(consumer, current) /\ UNCHANGED <<victims, spent>>
    BY <1>11 DEF Ack, history
  <2>2. ASSUME NEW id \in Ids
        PROVE  ToCome(consumer', current', id) <= ToCome(consumer, current, id)
    BY <1>1, <2>1, ToComeAcked
  <2>. QED  BY <1>3, <2>1, <2>2
<1>12. ASSUME NEW h \in Hosts, AbortStart(h) PROVE Delivered'
  <2>1. UNCHANGED <<consumer, current, victims>> /\ Spend("stops")
    BY <1>12 DEF AbortStart, history
  <2>. QED  BY <1>4, <1>5, <2>1
<1>13. ASSUME \/ \E h \in Hosts : Spawn(h) \/ Quit(h) \/ Show(h)
              \/ Unbind
              \/ UNCHANGED vars
       PROVE  Delivered'
  <2>1. UNCHANGED <<consumer, current, victims, spent>>
    BY <1>13 DEF Spawn, Quit, Show, Unbind, vars, history
  <2>. QED  BY <1>3, <1>5, <2>1
<1>. QED
  BY <1>6, <1>7, <1>8, <1>9, <1>10, <1>11, <1>12, <1>13 DEF Next, Callback

\* The two accounts hold at the start.
LEMMA InitAccounts == Init => Attached /\ Delivered
<1>. SUFFICES ASSUME Init PROVE Attached /\ Delivered
  OBVIOUS
<1>. USE LimitsDomain
<1>1. /\ spent.crashes = 0 /\ spent.stops = 0 /\ spent.repeats = 0
      /\ consumer = NoConsumer /\ current = 0 /\ bound = None
      /\ \A h \in Hosts : ~listens[h] /\ agent[h] = "off"
      /\ \A id \in Ids : victims[id] = {}
  BY DEF Init
<1>2. Attached
  BY <1>1, CommandsAssumption DEF Attached, DeafHasReason, Deaf
<1>3. NoConsumer \in Consumer(Ids) /\ Inside(NoConsumer) = {}
  BY NewConsumerType, ToSetEmpty DEF NoConsumer, Inside
<1>4. Delivered
  <2>1. ASSUME NEW id \in Ids PROVE ToCome(consumer, current, id) = 0
    <3>1. PICK c \in Consumer(Ids) : c = NoConsumer
      BY <1>3
    <3>2. id \notin Inside(c) /\ id # 0
      BY <1>3, <3>1, CommandsAssumption DEF Ids
    <3>3. ToCome(c, 0, id) = 0
      BY <3>2, ToComeType
    <3>. QED  BY <1>1, <3>1, <3>3
  <2>2. IsFiniteSet({}) /\ Cardinality({}) = 0
    BY FS_EmptySet
  <2>. QED  BY <1>1, <2>1, <2>2 DEF Delivered, Deliveries
<1>. QED  BY <1>2, <1>4

-----------------------------------------------------------------------------
(* The theorems.                                                            *)

\* The invariant holds for ever.
LEMMA Invariance == Spec => []IInv
<1>. QED  BY InitInvariant, Step, PTL DEF Spec

\* So do the reasons for running without a subscription and the account of
\* deliveries.
LEMMA AccountsAlways == Spec => [](IInv /\ Attached /\ Delivered)
<1>1. Init => IInv /\ Attached /\ Delivered
  BY InitInvariant, InitAccounts
<1>2. IInv /\ Attached /\ Delivered /\ [Next]_vars => (IInv /\ Attached /\ Delivered)'
  <2>. SUFFICES ASSUME IInv, Attached, Delivered, [Next]_vars
                PROVE  IInv' /\ Attached' /\ Delivered'
    OBVIOUS
  <2>1. IInv'
    BY Step
  <2>2. TypeOK'
    BY <2>1 DEF IInv
  <2>. QED  BY <2>1, <2>2, AttachedStep, DeliveredStep
<1>. QED  BY <1>1, <1>2, PTL DEF Spec

\* The variables of the agents, their consumer and the senders keep their
\* types, and only an agent that listens has a command in hand.
THEOREM TypeCorrect == Spec => []TypeOK
<1>1. IInv => TypeOK
  BY DEF IInv
<1>. QED  BY <1>1, Invariance, PTL

\* The shared durable name never makes an agent carry out a command that was
\* addressed to another host.
THEOREM CommandStaysOnItsHostAlways == Spec => []CommandStaysOnItsHost
<1>1. IInv => CommandStaysOnItsHost
  BY DEF IInv, Core
<1>. QED  BY <1>1, Invariance, PTL

\* Crashes, signals and restarts of agents lose no command the server accepted.
THEOREM AcceptedIsKeptAlways == Spec => []AcceptedIsKept
<1>1. IInv => AcceptedIsKept
  BY DEF IInv, Core
<1>. QED  BY <1>1, Invariance, PTL

\* An agent that runs without a subscription does so because another host has the
\* durable name, or because of a crash or a failed call of its own since it last
\* had one; signals and what happens to other agents never leave it deaf.
THEOREM DeafHasReasonAlways == Spec => []DeafHasReason
<1>1. Attached => DeafHasReason
  BY DEF Attached
<1>. QED  BY <1>1, AccountsAlways, PTL

\* However a PID passes from process to process, a command kills at most one
\* process more than there were crashes, signals and repeated deliveries.
THEOREM OneVictimPerDeliveryAlways == Spec => []OneVictimPerDelivery
<1>1. IInv /\ Delivered => OneVictimPerDelivery
  <2>. SUFFICES ASSUME IInv, Delivered, NEW id \in Ids
                PROVE  Cardinality(victims[id])
                         <= 1 + spent.crashes + spent.stops + spent.repeats
    BY DEF OneVictimPerDelivery
  <2>1. consumer \in Consumer(Ids) /\ TypeOK
    BY DEF IInv, TypeOK
  <2>2. PICK x \in Nat : x = ToCome(consumer, current, id)
    BY <2>1, ToComeType
  <2>3. IsFiniteSet(victims[id]) /\ Cardinality(victims[id]) + x <= Deliveries
    BY <2>2 DEF Delivered
  <2>4. Cardinality(victims[id]) \in Nat
    BY <2>3, FS_CardinalityType
  <2>5. Deliveries \in Nat
    BY <2>1, SpentType DEF Deliveries
  <2>. QED  BY <2>2, <2>3, <2>4, <2>5 DEF Deliveries
<1>. QED  BY <1>1, AccountsAlways, PTL
=============================================================================
