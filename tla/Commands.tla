----------------------------- MODULE Commands -----------------------------
(***************************************************************************)
(* KILL commands from the bot and the dashboard to the agents.  A button   *)
(* names a host and a PID as they were when a list of processes was shown; *)
(* pressing it, any time later, publishes commands.<host>.  Every agent    *)
(* subscribes with the one durable name "agent-commands" and a filter on   *)
(* its own host.  One PID of each host is followed; the processes that     *)
(* hold it one after the other are numbered.                               *)
(***************************************************************************)
EXTENDS Integers, FiniteSets, DurableConsumer

CONSTANTS
  Hosts,
  None,          \* no host
  MaxProcesses,  \* bound: of each host, processes that get the PID
  MaxCommands,   \* bound: commands sent
  MaxCrashes,    \* bound: crashes of agents
  MaxStops,      \* bound: signals, and starts of agents that give up
  MaxRepeats,    \* bound: redeliveries of a command the client still holds
  MaxFailures,   \* bound: starts at which a call to JetStream fails
  MaxTroubles    \* bound: the last four together

ASSUME CommandsAssumption ==
  /\ None \notin Hosts
  /\ MaxProcesses \in [Hosts -> Nat]
  /\ {MaxCommands, MaxCrashes, MaxStops, MaxRepeats, MaxFailures, MaxTroubles} \subseteq Nat

VARIABLES
  owner,     \* of each host: the process that has the PID, 0 for none
  started,   \* of each host: how many processes have had it
  buttons,   \* kill buttons on display, each with the process it meant
  commands,  \* the commands sent, numbered from 1
  stream,    \* the stream COMMANDS exists
  consumer,  \* the durable consumer "agent-commands" and its client's queue
  filter,    \* the host its filter subject names
  bound,     \* the host whose connection the server takes it to be bound to
  agent,     \* of each host: the agent's process
  listens,   \* of each host: its agent's subscription exists
  current,   \* the command being carried out, 0 for none
  victims,   \* history: of each command the processes it killed
  carried,   \* history: commands some callback has carried out
  missed,    \* history: commands the server had no consumer for
  troubled,  \* history: hosts whose agent has crashed, or had a call fail, since
             \* it last subscribed
  spent      \* what has been used of each bound

vars == <<owner, started, buttons, commands, stream, consumer, filter, bound, agent,
          listens, current, victims, carried, missed, troubled, spent>>

processes == <<owner, started, buttons>>
history   == <<victims, carried, missed, troubled>>

Ids     == 1..MaxCommands
Process == [host : Hosts, n : Nat \ {0}]
Limits  == [crashes |-> MaxCrashes, stops |-> MaxStops, repeats |-> MaxRepeats,
            failures |-> MaxFailures]

Spend(what) ==
  /\ spent[what] < Limits[what] /\ SumFunction(spent) < MaxTroubles
  /\ spent' = [spent EXCEPT ![what] = @ + 1]

Init ==
  /\ owner = [h \in Hosts |-> 0] /\ started = [h \in Hosts |-> 0] /\ buttons = {}
  /\ commands = <<>> /\ stream = FALSE
  /\ consumer = NoConsumer /\ filter = None /\ bound = None
  /\ agent = [h \in Hosts |-> "off"] /\ listens = [h \in Hosts |-> FALSE]
  /\ current = 0
  /\ victims = [id \in Ids |-> {}] /\ carried = {} /\ missed = {} /\ troubled = {}
  /\ spent = [what \in DOMAIN Limits |-> 0]

-----------------------------------------------------------------------------
(* The operating system of a host.                                          *)

Spawn(h) ==
  /\ owner[h] = 0 /\ started[h] < MaxProcesses[h]
  /\ started' = [started EXCEPT ![h] = @ + 1]
  /\ owner' = [owner EXCEPT ![h] = started'[h]]
  /\ UNCHANGED <<buttons, commands, stream, consumer, filter, bound, agent, listens,
                 current, history, spent>>

Quit(h) ==
  /\ owner[h] # 0
  /\ owner' = [owner EXCEPT ![h] = 0]
  /\ UNCHANGED <<started, buttons, commands, stream, consumer, filter, bound, agent,
                 listens, current, history, spent>>

-----------------------------------------------------------------------------
(* The senders.                                                             *)

\* /top or the page lists the processes of the last event.  An old event in
\* the cache shows what it would have shown earlier, so the delay is in Press.
Show(h) ==
  /\ agent[h] = "up" /\ owner[h] # 0
  /\ buttons' = buttons \cup {[host |-> h, n |-> owner[h]]}
  /\ UNCHANGED <<owner, started, commands, stream, consumer, filter, bound, agent,
                 listens, current, history, spent>>

\* handleKill or /api/kill: a plain Publish, reported as sent whether or not a
\* stream or a consumer takes it.
Press(b) ==
  /\ Len(commands) < MaxCommands
  /\ commands' = Append(commands, b)
  /\ LET id == Len(commands') IN
       IF stream /\ filter = b.host
       THEN /\ consumer' = Stored(consumer, id, listens[b.host])
            /\ UNCHANGED missed
       ELSE missed' = missed \cup {id} /\ UNCHANGED consumer
  /\ UNCHANGED <<processes, stream, filter, bound, agent, listens, current, victims,
                 carried, troubled, spent>>

-----------------------------------------------------------------------------
(* An agent's process.                                                      *)

\* Variant: the filter of an existing consumer is not compared.
SubscribeAnyFilter(h) ==
  IF consumer.exists /\ bound # None
  THEN UNCHANGED <<consumer, filter, bound, listens>>
  ELSE /\ consumer' = Subscribed(consumer)
       /\ filter' = IF consumer.exists THEN filter ELSE h
       /\ bound' = h
       /\ listens' = [listens EXCEPT ![h] = TRUE]

\* The subscription: it fails, and is only logged, if the consumer belongs to
\* another host's subject or is still bound.
Subscribe(h) ==
  IF consumer.exists /\ (filter # h \/ bound # None)
  THEN UNCHANGED <<consumer, filter, bound, listens>>
  ELSE /\ consumer' = Subscribed(consumer)
       /\ filter' = h
       /\ bound' = h
       /\ listens' = [listens EXCEPT ![h] = TRUE]

\* JetStream or Subscribe fails otherwise, which is only logged; the server may
\* have made the consumer all the same.
FailToSubscribe(h) ==
  /\ \/ UNCHANGED <<consumer, filter>>
     \/ /\ stream' /\ ~consumer.exists
        /\ consumer' = Abandoned(NewConsumer)
        /\ filter' = h
  /\ UNCHANGED <<bound, listens>>

\* AddStream and the subscription work, or the server refuses the subscription.
SetUp(h) ==
  /\ stream' = TRUE /\ Subscribe(h)
  /\ troubled' = IF listens'[h] THEN troubled \ {h} ELSE troubled
  /\ UNCHANGED spent

\* AddStream fails, whose error nobody looks at, or the subscription, or both;
\* where there is no stream, no subscription comes about.
SetUpBadly(h) ==
  /\ Spend("failures")
  /\ \/ stream /\ UNCHANGED stream /\ Subscribe(h)
     \/ stream' \in {stream, TRUE} /\ FailToSubscribe(h)
  /\ troubled' = IF listens'[h] THEN troubled \ {h} ELSE troubled \cup {h}

\* main makes the stream, a goroutine tries to subscribe, once; the agent goes
\* on without.
Start(h) ==
  /\ agent[h] # "up"
  /\ agent' = [agent EXCEPT ![h] = "up"]
  /\ SetUp(h) \/ SetUpBadly(h)
  /\ UNCHANGED <<processes, commands, current, victims, carried, missed>>

\* A start that cannot reach NATS returns with code 0.
AbortStart(h) ==
  /\ agent[h] = "crashed" /\ Spend("stops")
  /\ agent' = [agent EXCEPT ![h] = "off"]
  /\ UNCHANGED <<processes, commands, stream, consumer, filter, bound, listens, current,
                 history>>

\* Variant: the command in hand is carried over.
ExitKeeping(h) ==
  /\ listens' = [listens EXCEPT ![h] = FALSE]
  /\ IF listens[h] THEN consumer' = Abandoned(consumer) ELSE UNCHANGED consumer
  /\ UNCHANGED <<current, processes, commands, stream, filter, victims, carried, missed>>

\* The callback dies with its process.
Exit(h) ==
  /\ listens' = [listens EXCEPT ![h] = FALSE]
  /\ IF listens[h] THEN consumer' = Abandoned(consumer) /\ current' = 0
     ELSE UNCHANGED <<consumer, current>>
  /\ UNCHANGED <<processes, commands, stream, filter, victims, carried, missed>>

\* The server learns of a lost connection later.
Crash(h) ==
  /\ agent[h] = "up" /\ Spend("crashes")
  /\ agent' = [agent EXCEPT ![h] = "crashed"]
  /\ Exit(h)
  /\ troubled' = troubled \cup {h}
  /\ UNCHANGED bound

\* Variant: the connection is not closed.
StopUnclosed(h) ==
  /\ agent[h] = "up" /\ Spend("stops")
  /\ agent' = [agent EXCEPT ![h] = "off"]
  /\ Exit(h)
  /\ UNCHANGED <<bound, troubled>>

\* Variant: the subscription is ended, not only its connection.
StopUnsubscribing(h) ==
  /\ agent[h] = "up" /\ Spend("stops")
  /\ agent' = [agent EXCEPT ![h] = "off"]
  /\ listens' = [listens EXCEPT ![h] = FALSE]
  /\ IF listens[h]
     THEN /\ consumer' = NoConsumer /\ current' = 0
          /\ filter' = None /\ bound' = None
     ELSE UNCHANGED <<consumer, current, filter, bound>>
  /\ UNCHANGED <<processes, commands, stream, history>>

\* The signal: nothing unsubscribes, the connection is closed.
Stop(h) ==
  /\ agent[h] = "up" /\ Spend("stops")
  /\ agent' = [agent EXCEPT ![h] = "off"]
  /\ Exit(h)
  /\ bound' = IF listens[h] THEN None ELSE bound
  /\ UNCHANGED troubled

\* The server gives up a connection that is gone.
Unbind ==
  /\ bound # None /\ ~listens[bound]
  /\ bound' = None
  /\ UNCHANGED <<processes, commands, stream, consumer, filter, agent, listens, current,
                 history, spent>>

-----------------------------------------------------------------------------
(* Delivery and the callback.                                               *)

Held(id) == id = current \/ InInbox(consumer, id)

Redeliver(id) ==
  /\ \E h \in Hosts : listens[h]
  /\ id \in consumer.unacked
  /\ IF Held(id) THEN Spend("repeats") ELSE UNCHANGED spent
  /\ consumer' = Redelivered(consumer, id)
  /\ UNCHANGED <<processes, commands, stream, filter, bound, agent, listens, current,
                 history>>

\* Variant: a command that finds no process is left unacknowledged.
ExecuteFound(h) ==
  /\ listens[h] /\ current = 0 /\ consumer.inbox # <<>>
  /\ LET id == Head(consumer.inbox) IN
       /\ current' = IF owner[h] = 0 THEN 0 ELSE id
       /\ victims' = IF owner[h] = 0 THEN victims
                     ELSE [victims EXCEPT ![id] = @ \cup {[host |-> h, n |-> owner[h]]}]
       /\ carried' = carried \cup {id}
  /\ consumer' = Taken(consumer)
  /\ owner' = [owner EXCEPT ![h] = 0]
  /\ UNCHANGED <<started, buttons, commands, stream, filter, bound, agent, listens, missed,
                 troubled, spent>>

\* FindProcess and Kill, whoever has the PID by now.
Execute(h) ==
  /\ listens[h] /\ current = 0 /\ consumer.inbox # <<>>
  /\ current' = Head(consumer.inbox)
  /\ consumer' = Taken(consumer)
  /\ victims' = IF owner[h] = 0 THEN victims
                ELSE [victims EXCEPT ![current'] = @ \cup {[host |-> h, n |-> owner[h]]}]
  /\ owner' = [owner EXCEPT ![h] = 0]
  /\ carried' = carried \cup {current'}
  /\ UNCHANGED <<started, buttons, commands, stream, filter, bound, agent, listens, missed,
                 troubled, spent>>

\* Variant: the command is not acknowledged.
AckMissing ==
  /\ current # 0
  /\ current' = 0
  /\ UNCHANGED <<processes, commands, stream, consumer, filter, bound, agent, listens,
                 history, spent>>

\* msg.Ack(), which on an early return the client library does.
Ack ==
  /\ current # 0
  /\ consumer' = Acked(consumer, current)
  /\ current' = 0
  /\ UNCHANGED <<processes, commands, stream, filter, bound, agent, listens, history,
                 spent>>

Callback == (\E h \in Hosts : Execute(h)) \/ Ack

Next ==
  \/ \E h \in Hosts :
       \/ Spawn(h) \/ Quit(h) \/ Show(h)
       \/ Start(h) \/ AbortStart(h) \/ Crash(h) \/ Stop(h)
  \/ \E b \in buttons : Press(b)
  \/ \E id \in consumer.unacked : Redeliver(id)
  \/ Unbind \/ Callback

Spec == Init /\ [][Next]_vars

NeededRedelivery == \E id \in consumer.unacked : ~Held(id) /\ Redeliver(id)

\* docker (restart: on-failure) starts a crashed agent again, the server pushes
\* what is not acknowledged, the Go runtime runs the callback.
FairSpec ==
  /\ Spec
  /\ \A h \in Hosts : WF_vars(agent[h] = "crashed" /\ Start(h))
  /\ WF_vars(NeededRedelivery) /\ WF_vars(Callback)

-----------------------------------------------------------------------------
(* Properties.                                                              *)

\* Every variable has its type, and only an agent that listens has a command
\* in hand.
TypeOK ==
  /\ owner \in [Hosts -> Nat] /\ started \in [Hosts -> Nat]
  /\ buttons \subseteq Process /\ commands \in Seq(Process)
  /\ stream \in BOOLEAN /\ consumer \in Consumer(Ids)
  /\ filter \in Hosts \cup {None} /\ bound \in Hosts \cup {None}
  /\ agent \in [Hosts -> {"off", "up", "crashed"}]
  /\ listens \in [Hosts -> BOOLEAN]
  /\ current \in 0..Len(commands)
  /\ current # 0 => current \in carried /\ \E h \in Hosts : listens[h]
  /\ victims \in [Ids -> SUBSET Process]
  /\ carried \subseteq Ids /\ missed \subseteq Ids /\ troubled \subseteq Hosts
  /\ spent \in [DOMAIN Limits -> Nat]

\* However agents share the one durable name and come and go, a command kills
\* nothing on a host it was not addressed to.
CommandStaysOnItsHost ==
  \A id \in DOMAIN commands : \A v \in victims[id] : v.host = commands[id].host

\* One command can kill a second process, which got the PID later, but only if
\* it was delivered twice: after a crash, a signal or a repeated delivery.
OneVictimPerDelivery ==
  \A id \in Ids :
    Cardinality(victims[id]) <= 1 + spent.crashes + spent.stops + spent.repeats

\* A command that found the consumer of its host is carried out or still due,
\* over crashes and stops of the agent.
AcceptedIsKept ==
  \A id \in DOMAIN commands \ missed : id \in carried \cup Undone(consumer)

Deaf(h) == agent[h] = "up" /\ ~listens[h]

\* An agent runs without a subscription only because another host's agent has
\* the durable name, or because, since it last had one, it has itself crashed
\* (the server may still take its old connection for alive) or had a call to
\* JetStream fail.  Neither a signal nor what happens to other agents does it.
DeafHasReason == \A h \in Hosts : Deaf(h) => filter # h \/ h \in troubled

\* A command the server has accepted is carried out and acknowledged, unless
\* the agent it is meant for is off, or runs without a subscription.
EveryCommandFinished ==
  \A id \in Ids :
    id \in Undone(consumer)
      ~> (id \notin Undone(consumer) \/ \E h \in Hosts : h = filter /\ (agent[h] = "off" \/ Deaf(h)))
=============================================================================
