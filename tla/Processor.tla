----------------------------- MODULE Processor -----------------------------
(***************************************************************************)
(* cmd/processor: two durable subscriptions, each with a callback of its   *)
(* own, that insert what they receive and acknowledge it.  The process may *)
(* crash anywhere and be stopped by a signal; an insert may fail.          *)
(***************************************************************************)
EXTENDS Integers, FiniteSets, DurableConsumer

Streams == {"metrics", "speedtest"}

CONSTANTS
  Backend,      \* "sqlite" or "postgres"
  MaxMessages,  \* bound: messages of each stream
  MaxCrashes,   \* bound: crashes, and starts that fail half way
  MaxStops,     \* bound: signals
  MaxRepeats,   \* bound: redeliveries of a message the client still holds
  MaxFailures,  \* bound: inserts that fail although the row is acceptable
  MaxConflicts  \* bound: subscriptions that find an incompatible consumer

ASSUME ProcessorAssumption ==
  /\ Backend \in {"sqlite", "postgres"}
  /\ MaxMessages \in [Streams -> Nat]
  /\ {MaxCrashes, MaxStops, MaxRepeats, MaxFailures, MaxConflicts} \subseteq Nat

VARIABLES
  published,  \* of each stream: which of its messages can be parsed
  consumer,   \* the durable consumer of each stream and the client's queue
  phase,      \* of main: which subscriptions exist
  step,       \* where each callback is
  current,    \* the message each callback handles
  table,      \* rows of each table: how often each message was inserted
  unseen,     \* history: messages that were stored while no consumer existed
  forgone,    \* history: messages whose insert failed, or whose consumer was
              \* deleted before they were done
  spent       \* what has been used of each bound

vars == <<published, consumer, phase, step, current, table, unseen, forgone, spent>>

Numbers(s) == 1..MaxMessages[s]

Message   == [n : Nat, valid : BOOLEAN]
NoMessage == [n |-> 0, valid |-> FALSE]
Limits    == [crashes |-> MaxCrashes, stops |-> MaxStops, repeats |-> MaxRepeats,
              failures |-> MaxFailures, conflicts |-> MaxConflicts]

Spend(what) ==
  /\ spent[what] < Limits[what]
  /\ spent' = [spent EXCEPT ![what] = @ + 1]

\* Subscriptions that exist in each phase of main.
Bound(s) ==
  CASE phase \in {"off", "crashed"} -> FALSE
    [] phase = "starting" -> s = "metrics"
    [] phase = "running"  -> TRUE
    [] phase = "stopping" -> s = "speedtest"

\* The columns each INSERT names, and those the schema wants a value for.
MetricsColumns ==
  {"host", "ts", "cpu_pct", "ram_pct", "ram_free"}
    \cup (IF Backend = "sqlite" THEN {"disk_pct", "disk_free"} ELSE {})

RequiredColumns ==
  IF Backend = "sqlite" THEN {}
  ELSE {"host", "ts", "cpu_pct", "ram_pct", "ram_free", "disk_pct", "disk_free"}

Accepted(s) == s = "metrics" => RequiredColumns \subseteq MetricsColumns

Init ==
  /\ published = [s \in Streams |-> <<>>]
  /\ consumer = [s \in Streams |-> NoConsumer]
  /\ phase = "off"
  /\ step = [s \in Streams |-> "idle"]
  /\ current = [s \in Streams |-> NoMessage]
  /\ table = [s \in Streams |-> [n \in Numbers(s) |-> 0]]
  /\ unseen = [s \in Streams |-> {}]
  /\ forgone = [s \in Streams |-> {}]
  /\ spent = [what \in DOMAIN Limits |-> 0]

-----------------------------------------------------------------------------
(* The streams.                                                             *)

\* An agent's message is stored; unseen remembers those no consumer is told of.
Publish(s, valid) ==
  /\ Len(published[s]) < MaxMessages[s]
  /\ published' = [published EXCEPT ![s] = Append(@, valid)]
  /\ consumer' = [consumer EXCEPT
       ![s] = Stored(@, [n |-> Len(published'[s]), valid |-> valid], Bound(s))]
  /\ unseen' = IF consumer[s].exists THEN unseen
               ELSE [unseen EXCEPT ![s] = @ \cup {Len(published'[s])}]
  /\ UNCHANGED <<phase, step, current, table, forgone, spent>>

Due(s, n) == \E m \in Undone(consumer[s]) : m.n = n

Forgo(s, ns) == forgone' = [forgone EXCEPT ![s] = @ \cup ns]

\* All that a consumer had left to do when it was deleted.
ForgoDue(s) == Forgo(s, {n \in Numbers(s) : Due(s, n)})

Held(s, m) == m = current[s] \/ InInbox(consumer[s], m)

Redeliver(s, m) ==
  /\ Bound(s) /\ m \in consumer[s].unacked
  /\ IF Held(s, m) THEN Spend("repeats") ELSE UNCHANGED spent
  /\ consumer' = [consumer EXCEPT ![s] = Redelivered(@, m)]
  /\ UNCHANGED <<published, phase, step, current, table, unseen, forgone>>

-----------------------------------------------------------------------------
(* main                                                                     *)

\* subscribeToMetrics; on a conflict the consumer is deleted and made anew.
SubscribeMetrics ==
  /\ phase \in {"off", "crashed"}
  /\ phase' = "starting"
  /\ \/ /\ consumer' = [consumer EXCEPT !["metrics"] = Subscribed(@)]
        /\ UNCHANGED <<forgone, spent>>
     \/ /\ consumer["metrics"].exists /\ Spend("conflicts")
        /\ consumer' = [consumer EXCEPT !["metrics"] = NewConsumer]
        /\ ForgoDue("metrics")
  /\ UNCHANGED <<published, step, current, table, unseen>>

\* subscribeToSpeedtest.
SubscribeSpeedtest ==
  /\ phase = "starting"
  /\ phase' = "running"
  /\ consumer' = [consumer EXCEPT !["speedtest"] = Subscribed(@)]
  /\ UNCHANGED <<published, step, current, table, unseen, forgone, spent>>

\* The callbacks die with the process.
Exit ==
  /\ step' = [s \in Streams |-> "idle"]
  /\ current' = [s \in Streams |-> NoMessage]
  /\ UNCHANGED <<published, table, unseen>>

\* A crash, or os.Exit(1) when the second subscription fails.
Crash ==
  /\ phase \notin {"off", "crashed"}
  /\ Spend("crashes")
  /\ phase' = "crashed"
  /\ Exit
  /\ consumer' = [s \in Streams |-> Abandoned(consumer[s])]
  /\ UNCHANGED forgone

\* sub.Unsubscribe(), which deletes a consumer that is this process's own.
Unsubscribe(s) ==
  /\ consumer' = [consumer EXCEPT ![s] = Unsubscribed(@)]
  /\ IF consumer[s].mine THEN ForgoDue(s) ELSE UNCHANGED forgone

\* handleGracefulShutdown: one subscription after the other, the callbacks
\* still running.
StopMetrics ==
  /\ phase = "running"
  /\ Spend("stops")
  /\ phase' = "stopping"
  /\ Unsubscribe("metrics")
  /\ UNCHANGED <<published, step, current, table, unseen>>

StopSpeedtest ==
  /\ phase = "stopping"
  /\ phase' = "off"
  /\ Unsubscribe("speedtest")
  /\ Exit
  /\ UNCHANGED spent

-----------------------------------------------------------------------------
(* The callbacks.                                                           *)

\* Variant: acknowledged before it is saved.
DispatchAcked(s) ==
  /\ Bound(s) /\ step[s] = "idle" /\ consumer[s].inbox # <<>>
  /\ current' = [current EXCEPT ![s] = Head(consumer[s].inbox)]
  /\ consumer' = [consumer EXCEPT ![s] = Acked(Taken(@), current'[s])]
  /\ step' = [step EXCEPT ![s] = IF current'[s].valid THEN "save" ELSE "ack"]
  /\ UNCHANGED <<published, phase, table, unseen, forgone, spent>>

\* The callback takes a message; an unparsable one it only acknowledges.
Dispatch(s) ==
  /\ Bound(s) /\ step[s] = "idle" /\ consumer[s].inbox # <<>>
  /\ current' = [current EXCEPT ![s] = Head(consumer[s].inbox)]
  /\ consumer' = [consumer EXCEPT ![s] = Taken(@)]
  /\ step' = [step EXCEPT ![s] = IF current'[s].valid THEN "save" ELSE "ack"]
  /\ UNCHANGED <<published, phase, table, unseen, forgone, spent>>

\* db.Save or db.SaveSpeedtest succeeds.
Insert(s) == table' = [table EXCEPT ![s][current[s].n] = @ + 1]

\* The insert, or its error, which is only logged.
Save(s) ==
  /\ step[s] = "save"
  /\ \/ Accepted(s) /\ Insert(s) /\ UNCHANGED <<forgone, spent>>
     \/ /\ IF Accepted(s) THEN Spend("failures") ELSE UNCHANGED spent
        /\ Forgo(s, {current[s].n})
        /\ UNCHANGED table
  /\ step' = [step EXCEPT ![s] = "ack"]
  /\ UNCHANGED <<published, consumer, phase, current, unseen>>

\* Variant: manual acknowledgement, forgotten.
AckMissing(s) ==
  /\ step[s] = "ack"
  /\ step' = [step EXCEPT ![s] = "idle"]
  /\ current' = [current EXCEPT ![s] = NoMessage]
  /\ UNCHANGED <<published, consumer, phase, table, unseen, forgone, spent>>

\* Variant: the message just acknowledged is kept.
AckKeeping(s) ==
  /\ step[s] = "ack"
  /\ consumer' = [consumer EXCEPT ![s] = Acked(@, current[s])]
  /\ step' = [step EXCEPT ![s] = "idle"]
  /\ UNCHANGED <<published, phase, current, table, unseen, forgone, spent>>

\* msg.Ack() at the end of the callback.
Ack(s) ==
  /\ step[s] = "ack"
  /\ consumer' = [consumer EXCEPT ![s] = Acked(@, current[s])]
  /\ step' = [step EXCEPT ![s] = "idle"]
  /\ current' = [current EXCEPT ![s] = NoMessage]
  /\ UNCHANGED <<published, phase, table, unseen, forgone, spent>>

Callback(s) == Dispatch(s) \/ Save(s) \/ Ack(s)

Next ==
  \/ \E s \in Streams :
       \/ \E valid \in BOOLEAN : Publish(s, valid)
       \/ \E m \in consumer[s].unacked : Redeliver(s, m)
       \/ Callback(s)
  \/ SubscribeMetrics \/ SubscribeSpeedtest
  \/ Crash \/ StopMetrics \/ StopSpeedtest

Spec == Init /\ [][Next]_vars

NeededRedelivery(s) == \E m \in consumer[s].unacked : ~Held(s, m) /\ Redeliver(s, m)

\* docker (restart: on-failure) starts a crashed process again but not one
\* that a signal ended, main goes on once it has begun, the server pushes what
\* is not acknowledged, and the Go runtime keeps every callback running.
FairSpec ==
  /\ Spec
  /\ WF_vars(phase = "crashed" /\ SubscribeMetrics)
  /\ WF_vars(SubscribeSpeedtest) /\ WF_vars(StopSpeedtest)
  /\ \A s \in Streams : WF_vars(Callback(s)) /\ WF_vars(NeededRedelivery(s))

-----------------------------------------------------------------------------
(* Properties.                                                              *)

\* Every variable has its type; a callback is past "idle" exactly when it
\* holds a message.
TypeOK ==
  /\ published \in [Streams -> Seq(BOOLEAN)]
  /\ consumer \in [Streams -> Consumer(Message)]
  /\ phase \in {"off", "starting", "running", "stopping", "crashed"}
  /\ step \in [Streams -> {"idle", "save", "ack"}]
  /\ current \in [Streams -> Message \cup {NoMessage}]
  /\ \A s \in Streams : step[s] = "idle" <=> current[s] = NoMessage
  /\ \A s \in Streams : table[s] \in [Numbers(s) -> Nat] /\ unseen[s] \subseteq Numbers(s)
  /\ forgone \in [Streams -> SUBSET Nat]
  /\ spent \in [DOMAIN Limits -> Nat]

\* Parsable messages a consumer was told of that are neither in the table nor
\* on their way to the callback.
Lost(s) ==
  {n \in DOMAIN published[s] :
     published[s][n] /\ n \notin unseen[s] /\ table[s][n] = 0 /\ ~Due(s, n)}

\* Crashes and redeliveries lose nothing: while no signal and no conflict
\* deletes a consumer, a message is only lost to an insert that failed.
LossBounded ==
  spent.stops + spent.conflicts = 0 =>
    Cardinality(Lost("metrics")) + Cardinality(Lost("speedtest")) <= spent.failures

\* Nothing makes an insert idempotent, but a second row of one message has a
\* crash, a stop or a repeated delivery behind it.
DuplicatesBounded ==
  \A s \in Streams : \A n \in Numbers(s) :
    table[s][n] <= 1 + spent.crashes + spent.stops + spent.repeats

\* Acknowledged, and in the table if it could be parsed.
Handled(s, n) ==
  /\ n \in DOMAIN published[s] /\ ~Due(s, n)
  /\ published[s][n] => table[s][n] > 0

\* Each message a consumer is told of is handled in the end, over crashes and
\* the redelivery they need: in the table if it can be parsed, and acknowledged.
\* Excepted are a message whose own insert failed, one whose consumer was
\* deleted, by a conflict or by Unsubscribe, before the message was done, and a
\* processor that a signal has switched off.
EveryMessageHandled ==
  \A s \in Streams : \A n \in Numbers(s) :
    Due(s, n) ~> (Handled(s, n) \/ n \in forgone[s] \/ phase = "off")
=============================================================================
