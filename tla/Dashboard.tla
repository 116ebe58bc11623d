----------------------------- MODULE Dashboard -----------------------------
(***************************************************************************)
(* cmd/dashboard at run time: the durable subscription whose callback      *)
(* merges an event into the host cache, recomputes the gauges and writes   *)
(* the event to every browser of the hub under its mutex; the handlers of  *)
(* /ws, which need the same mutex to add and to remove a browser; crashes  *)
(* and signals.  The mutex is held exactly while step = "write".           *)
(***************************************************************************)
EXTENDS Integers, HostCache, DurableConsumer

CONSTANTS
  Browsers,
  PartsEvery,   \* every so many events of a host carry the optional parts
  MaxTicks,     \* bound: of each host, its events
  MaxInvalid,   \* bound: messages that cannot be parsed
  MaxConnects,  \* bound: websocket connections
  MaxStalls,    \* bound: browsers that stop reading
  MaxCrashes,   \* bound: crashes
  MaxStops,     \* bound: signals
  MaxRepeats,   \* bound: redeliveries of a message the client still holds
  MaxTroubles   \* bound: invalid messages and the last three together

ASSUME DashboardAssumption ==
  /\ PartsEvery \in Nat \ {0}
  /\ MaxTicks \in [Hosts -> Nat]
  /\ {MaxTroubles, MaxInvalid, MaxConnects, MaxStalls, MaxCrashes, MaxStops, MaxRepeats}
       \subseteq Nat

VARIABLES
  sent,      \* the number of the last event of each host
  consumer,  \* the durable consumer "dashboard" and the client's queue
  phase,     \* of the process
  step,      \* of the callback
  current,   \* the message the callback handles
  cache,     \* store
  gauge,     \* sentinel_host_online
  handler,   \* of each browser: where its /ws handler is
  clients,   \* hub.clients
  left,      \* browsers the running broadcast has still to write to
  stalled,   \* browsers that do not read, their socket full
  closed,    \* browsers that have gone: reading from them fails
  seen,      \* history: messages stored since the process started
  spent      \* what has been used of each bound

vars == <<sent, consumer, phase, step, current, cache, gauge, handler, clients, left,
          stalled, closed, seen, spent>>

callback == <<step, current, left>>
memory   == <<cache, gauge, seen>>
hub      == <<handler, clients, stalled, closed>>

Message   == [host : Hosts, tick : Nat \ {0}, has : SUBSET Parts, valid : BOOLEAN]
NoMessage == [tick |-> 0]
Limits    == [invalid |-> MaxInvalid, connects |-> MaxConnects, stalls |-> MaxStalls,
              crashes |-> MaxCrashes, stops |-> MaxStops, repeats |-> MaxRepeats]

Joint == {"invalid", "crashes", "stops", "repeats"}

\* What is bounded together: everything but the browsers' doings.
Troubles == SumFunctionOnSet(spent, Joint)

Spend(what) ==
  /\ spent[what] < Limits[what] /\ (what \in Joint => Troubles < MaxTroubles)
  /\ spent' = [spent EXCEPT ![what] = @ + 1]

Running == phase = "up"

Init ==
  /\ sent = [h \in Hosts |-> 0]
  /\ consumer = NoConsumer
  /\ phase = "off" /\ step = "idle" /\ current = NoMessage /\ left = {}
  /\ cache = NewCache /\ gauge = [h \in Hosts |-> "absent"] /\ seen = {}
  /\ handler = [b \in Browsers |-> "none"]
  /\ clients = {} /\ stalled = {} /\ closed = {}
  /\ spent = [what \in DOMAIN Limits |-> 0]

-----------------------------------------------------------------------------
(* The stream.                                                              *)

\* What the agent's event number n carries.
Carried(n) == IF (n - 1) % PartsEvery = 0 THEN Parts ELSE {}

\* An agent's message.
Publish(h, valid) ==
  /\ sent[h] < MaxTicks[h]
  /\ sent' = [sent EXCEPT ![h] = @ + 1]
  /\ IF valid THEN UNCHANGED spent ELSE Spend("invalid")
  /\ consumer' = Stored(consumer,
       [host |-> h, tick |-> sent'[h], has |-> Carried(sent'[h]), valid |-> valid],
       Running)
  /\ UNCHANGED <<phase, callback, memory, hub>>

Held(m) == m = current \/ InInbox(consumer, m)

Redeliver(m) ==
  /\ Running /\ m \in consumer.unacked
  /\ IF Held(m) THEN Spend("repeats") ELSE UNCHANGED spent
  /\ consumer' = Redelivered(consumer, m)
  /\ UNCHANGED <<sent, phase, callback, memory, hub>>

\* 30 seconds without an event of the host.
Silence(h) ==
  /\ IsOnline(cache, h)
  /\ cache' = Aged(cache, h)
  /\ UNCHANGED <<sent, consumer, phase, callback, gauge, seen, hub, spent>>

-----------------------------------------------------------------------------
(* The callback.                                                            *)

\* A message that cannot be parsed is acknowledged.
Discard ==
  /\ Running /\ step = "idle" /\ consumer.inbox # <<>>
  /\ LET m == Head(consumer.inbox) IN
       ~m.valid /\ consumer' = Acked(Taken(consumer), m)
  /\ UNCHANGED <<sent, phase, callback, memory, hub, spent>>

\* Variant: Set in place of SetWithMerge.
ReceiveUnmerged ==
  /\ Running /\ step = "idle" /\ consumer.inbox # <<>>
  /\ current' = Head(consumer.inbox) /\ current'.valid
  /\ consumer' = Taken(consumer)
  /\ cache' = Set(cache, current')
  /\ seen' = seen \cup {current'}
  /\ step' = "gauges"
  /\ UNCHANGED <<sent, phase, left, gauge, hub, spent>>

\* Parsing and store.SetWithMerge.
Receive ==
  /\ Running /\ step = "idle" /\ consumer.inbox # <<>>
  /\ current' = Head(consumer.inbox) /\ current'.valid
  /\ consumer' = Taken(consumer)
  /\ cache' = SetWithMerge(cache, current')
  /\ seen' = seen \cup {current'}
  /\ step' = "gauges"
  /\ UNCHANGED <<sent, phase, left, gauge, hub, spent>>

\* Variant: only the host of the message is updated.
GaugesOfOne ==
  /\ step = "gauges"
  /\ gauge' = [gauge EXCEPT ![current.host] =
                 IF IsOnline(cache, current.host) THEN "on" ELSE "off"]
  /\ left' = clients
  /\ step' = "write"
  /\ UNCHANGED <<sent, consumer, phase, current, cache, seen, hub, spent>>

\* updatePrometheusMetrics for every host of the cache; then hub.broadcast
\* takes the mutex, ...
Gauges ==
  /\ step = "gauges"
  /\ gauge' = [h \in Hosts |-> IF h \notin GetAll(cache) THEN gauge[h]
                               ELSE IF IsOnline(cache, h) THEN "on" ELSE "off"]
  /\ left' = clients
  /\ step' = "write"
  /\ UNCHANGED <<sent, consumer, phase, current, cache, seen, hub, spent>>

\* Variant: a browser whose write fails is removed on the spot, which waits for
\* the mutex the broadcast holds.
WriteRemoving(b) ==
  /\ step = "write" /\ b \in left \ (stalled \cup closed)
  /\ left' = left \ {b}
  /\ UNCHANGED <<sent, consumer, phase, step, current, memory, hub, spent>>

\* ... writes to one browser after the other, an error being ignored, ...
Write(b) ==
  /\ step = "write" /\ b \in left \ stalled
  /\ left' = left \ {b}
  /\ UNCHANGED <<sent, consumer, phase, step, current, memory, hub, spent>>

\* Variant: nothing acknowledges.
FinishUnacked ==
  /\ step = "write" /\ left = {}
  /\ step' = "idle" /\ current' = NoMessage
  /\ UNCHANGED <<sent, consumer, phase, left, memory, hub, spent>>

\* Variant: the message just acknowledged is kept.
FinishKeeping ==
  /\ step = "write" /\ left = {}
  /\ consumer' = Acked(consumer, current)
  /\ step' = "idle"
  /\ UNCHANGED <<sent, phase, current, left, memory, hub, spent>>

\* ... and lets it go; msg.Ack().
Finish ==
  /\ step = "write" /\ left = {}
  /\ consumer' = Acked(consumer, current)
  /\ step' = "idle" /\ current' = NoMessage
  /\ UNCHANGED <<sent, phase, left, memory, hub, spent>>

Callback == Discard \/ Receive \/ Gauges \/ (\E b \in left : Write(b)) \/ Finish

-----------------------------------------------------------------------------
(* The browsers and their handlers.                                         *)

Connect(b) ==
  /\ Running /\ handler[b] = "none"
  /\ Spend("connects")
  /\ handler' = [handler EXCEPT ![b] = "add"]
  /\ UNCHANGED <<sent, consumer, phase, callback, memory, clients, stalled, closed>>

\* hub.add
HubAdd(b) ==
  /\ handler[b] = "add" /\ step # "write"
  /\ clients' = clients \cup {b}
  /\ handler' = [handler EXCEPT ![b] = "read"]
  /\ UNCHANGED <<sent, consumer, phase, callback, memory, stalled, closed, spent>>

\* ReadMessage fails once the browser has gone; then hub.remove, and only after
\* it conn.Close.
HubRemove(b) ==
  /\ b \in closed /\ step # "write"
  /\ clients' = clients \ {b}
  /\ handler' = [handler EXCEPT ![b] = "none"]
  /\ closed' = closed \ {b}
  /\ UNCHANGED <<sent, consumer, phase, callback, memory, stalled, spent>>

\* A page that is suspended does not read; the socket takes no more.  Before
\* hub.add nobody uses the connection, so only members of the hub matter.
Stall(b) ==
  /\ b \in clients \ (stalled \cup closed)
  /\ Spend("stalls")
  /\ stalled' = stalled \cup {b}
  /\ UNCHANGED <<sent, consumer, phase, callback, memory, handler, clients, closed>>

\* It reads again, or its connection ends after all.
Resume(b) ==
  /\ b \in stalled
  /\ stalled' = stalled \ {b}
  /\ UNCHANGED <<sent, consumer, phase, callback, memory, handler, clients, closed, spent>>

\* The browser goes.  If the connection ends, a blocked write returns with an
\* error; after a mere close frame the write at hand goes on waiting, and only
\* later ones fail at once.
Close(b) ==
  /\ b \in clients \ closed
  /\ closed' = closed \cup {b}
  /\ \/ stalled' = stalled \ {b}
     \/ b \in left /\ UNCHANGED stalled
  /\ UNCHANGED <<sent, consumer, phase, callback, memory, handler, clients, spent>>

-----------------------------------------------------------------------------
(* The process.                                                             *)

\* main up to the subscription and the server.
Start ==
  /\ phase \in {"off", "crashed"}
  /\ phase' = "up"
  /\ consumer' = Subscribed(consumer)
  /\ UNCHANGED <<sent, callback, memory, hub, spent>>

\* A start that cannot reach the database or NATS returns with code 0.
AbortStart ==
  /\ phase = "crashed"
  /\ phase' = "off"
  /\ UNCHANGED <<sent, consumer, callback, memory, hub, spent>>

Exit ==
  /\ consumer' = Abandoned(consumer)
  /\ step' = "idle" /\ current' = NoMessage /\ left' = {}
  /\ cache' = NewCache /\ gauge' = [h \in Hosts |-> "absent"] /\ seen' = {}
  /\ handler' = [b \in Browsers |-> "none"]
  /\ clients' = {} /\ stalled' = {} /\ closed' = {}
  /\ UNCHANGED sent

Crash == Running /\ Spend("crashes") /\ phase' = "crashed" /\ Exit

\* The signal: Shutdown takes no new connection but does not wait for the
\* websockets, nothing unsubscribes, and the callback runs until main returns.
Stop == Running /\ Spend("stops") /\ phase' = "off" /\ Exit

-----------------------------------------------------------------------------

Handlers(b) == HubAdd(b) \/ HubRemove(b)

Next ==
  \/ \E h \in Hosts :
       \/ \E valid \in BOOLEAN : Publish(h, valid)
       \/ Silence(h)
  \/ \E m \in consumer.unacked : Redeliver(m)
  \/ Callback
  \/ \E b \in Browsers : Connect(b) \/ Handlers(b) \/ Stall(b) \/ Resume(b) \/ Close(b)
  \/ Start \/ AbortStart \/ Crash \/ Stop

Spec == Init /\ [][Next]_vars

NeededRedelivery == \E m \in consumer.unacked : ~Held(m) /\ Redeliver(m)

\* docker (restart: on-failure) starts a crashed process again, the server
\* pushes what is not acknowledged, the Go runtime runs the callback and the
\* handlers.  A browser that stalls need not resume.
FairSpec ==
  /\ Spec
  /\ WF_vars(phase = "crashed" /\ Start)
  /\ WF_vars(Callback) /\ WF_vars(NeededRedelivery)
  /\ WF_vars(\E b \in Browsers : Handlers(b))

-----------------------------------------------------------------------------
(* Properties.                                                              *)

\* Every variable has its type; the callback is past "idle" exactly when it
\* holds a message, and only a broadcast has browsers left to write to.
TypeOK ==
  /\ sent \in [Hosts -> Nat]
  /\ consumer \in Consumer(Message)
  /\ phase \in {"off", "up", "crashed"}
  /\ step \in {"idle", "gauges", "write"}
  /\ current \in Message \cup {NoMessage}
  /\ step = "idle" <=> current = NoMessage
  /\ cache \in Cache
  /\ gauge \in [Hosts -> {"absent", "on", "off"}]
  /\ handler \in [Browsers -> {"none", "add", "read"}]
  /\ clients = {b \in Browsers : handler[b] = "read"}
  /\ left \subseteq clients /\ (left # {} => step = "write")
  /\ stalled \subseteq clients /\ closed \subseteq clients
  /\ seen \subseteq Message
  /\ spent \in [DOMAIN Limits -> Nat]

\* What a host once told, the page is told until the process ends: an optional
\* part is never lost to an event without it.  And as long as nothing was
\* delivered out of order, event and parts are the newest there are.
CacheKeepsNewest ==
  \A m \in seen :
    LET slot == cache.slot[m.host] IN
      /\ \A p \in m.has : slot.part[p] # 0
      /\ spent.repeats + spent.crashes + spent.stops = 0 =>
           slot.tick >= m.tick /\ \A p \in m.has : slot.part[p] >= m.tick

\* A broadcast that waits for a browser which does not read.
Blocked == step = "write" /\ left \cap stalled # {}

\* Hosts that have fallen silent while their gauge still says "online".
Outdated == {h \in Hosts : gauge[h] = "on" /\ ~IsOnline(cache, h)}

\* One further message, of any host, corrects every outdated gauge, unless a
\* browser blocks the callback.
StaleGaugesCorrected ==
  (Outdated # {} /\ \E m \in ToSet(consumer.inbox) : m.valid)
    ~> (Outdated = {} \/ Blocked)

\* Every message a consumer was told of is shown and acknowledged, unless one
\* browser that does not read stops the callback, or the dashboard is off.
EveryMessageShown ==
  Undone(consumer) # {} ~> (Undone(consumer) = {} \/ Blocked \/ phase = "off")

Waiting == {b \in Browsers : handler[b] = "add" \/ b \in closed}

\* A browser that comes gets into the hub and one that goes gets out of it,
\* although both need the mutex the broadcast holds: only a browser that does
\* not read can keep them waiting.
HandlersGetTheLock == Waiting # {} ~> (Waiting = {} \/ Blocked)
=============================================================================
