------------------------------ MODULE Alerter ------------------------------
(***************************************************************************)
(* cmd/alerter: one process that takes readings from a durable consumer,   *)
(* compares each with the rules it last loaded, announces every change on  *)
(* Telegram and keeps the incidents table in step.  The process may crash  *)
(* between any two of its effects, be stopped by a signal, and be started  *)
(* again; its memory is lost, the two tables and the consumer survive.     *)
(***************************************************************************)
EXTENDS IncidentTable, RuleTable, DurableConsumer

CONSTANTS
  Hosts,        \* hosts that publish on metrics.<host>
  Readings,     \* readings an agent may publish, one integer per metric
  Garbled,      \* a payload json.Unmarshal rejects
  StoredRules,      \* rules tables the alerter may find: empty, or edited before
  Settings,     \* rules the rules page may save
  Faults,       \* calls that may fail: a subset of FaultKinds
  MaxReadings,  \* bound: messages published per host
  MaxCrashes,   \* bound: crashes
  MaxStops,     \* bound: stops by SIGINT or SIGTERM
  MaxRepeats,   \* bound: redeliveries of a message the client still holds
  MaxEdits,     \* bound: edits of the rules table
  MaxFaults,    \* bound: calls that fail
  MaxUnsent     \* bound: Telegram messages that do not get through

FaultKinds == {"open", "close", "restore", "reload", "conflict", "abort"}

ASSUME AlerterAssumption ==
  /\ Readings \subseteq [Metrics -> Int]
  /\ Garbled \notin Readings
  /\ StoredRules \subseteq [rows : SUBSET RuleRow, seq : Nat]
  /\ Settings \subseteq Setting
  /\ Faults \subseteq FaultKinds
  /\ {MaxReadings, MaxCrashes, MaxStops, MaxRepeats, MaxEdits, MaxFaults, MaxUnsent}
       \subseteq Nat

VARIABLES
  ruleDb,     \* rules table
  incidents,  \* incidents table
  nextId,     \* id the next inserted incident gets
  consumer,   \* the durable consumer "alerter" and this client's queue
  published,  \* messages each host has published
  up,         \* the process runs
  rules,      \* rules in memory, refreshed every 10 s
  highCount,  \* states[host].cpuHighCount
  alerted,    \* metrics whose states[host].<metric>Alerted is set
  pc,         \* where the callback is
  msg,        \* the message it handles
  view,       \* the copy of rules it took
  metric      \* the metric check is at

\* History, read by the properties only: notices that reached the chat per host
\* and metric, the CPU readings counted since cpuHighCount was last 0, the low ones passed
\* over in the meantime, and what has been spent of each bound.
VARIABLES alerts, oks, counted, passed, spent

db      == <<incidents, nextId>>
memory  == <<rules, highCount, alerted>>
handler == <<pc, msg, view, metric>>
history == <<alerts, oks, counted, passed>>
vars    == <<ruleDb, db, consumer, published, up, memory, handler, history, spent>>

Keys      == Hosts \X Metrics
NoMessage == [host |-> "none", n |-> 0, reading |-> "none"]
Message   == [host : Hosts, n : 1..MaxReadings, reading : Readings \cup {Garbled}]
Limits    == [crashes |-> MaxCrashes, stops |-> MaxStops, repeats |-> MaxRepeats,
              edits |-> MaxEdits, faults |-> MaxFaults, unsent |-> MaxUnsent]

Spend(what) ==
  /\ spent[what] < Limits[what]
  /\ spent' = [spent EXCEPT ![what] = @ + 1]

MayFail(call) == call \in Faults /\ Spend("faults")

Key        == <<msg.host, metric>>
rule       == Lookup(view, metric)
Breached   == msg.reading[metric] > rule.threshold
IsAlerted  == metric \in alerted[msg.host]
Open(key)  == OpenRows(incidents, key[1], key[2])

Init ==
  /\ ruleDb \in StoredRules
  /\ incidents = EmptyTable
  /\ nextId = 1
  /\ consumer = NoConsumer
  /\ published = [h \in Hosts |-> 0]
  /\ up = FALSE
  /\ rules = {}
  /\ highCount = [h \in Hosts |-> 0]
  /\ alerted = [h \in Hosts |-> {}]
  /\ pc = "idle" /\ msg = NoMessage /\ view = {} /\ metric = "cpu"
  /\ alerts = [k \in Keys |-> 0]
  /\ oks = [k \in Keys |-> 0]
  /\ counted = [h \in Hosts |-> {}]
  /\ passed = [h \in Hosts |-> {}]
  /\ spent = [what \in DOMAIN Limits |-> 0]

-----------------------------------------------------------------------------
(* The environment: agents, the rules page, the JetStream server.           *)

\* An agent publishes its next reading.
Publish(host, reading) ==
  /\ published[host] < MaxReadings
  /\ published' = [published EXCEPT ![host] = @ + 1]
  /\ consumer' = Stored(consumer,
                        [host |-> host, n |-> published[host] + 1, reading |-> reading], up)
  /\ UNCHANGED <<ruleDb, db, up, memory, handler, history, spent>>

\* The rules page adds, rewrites or deletes a row behind the alerter's back.
EditRules ==
  /\ Spend("edits")
  /\ \/ \E s \in Settings : ruleDb' = Added(ruleDb, s)
     \/ \E s \in Settings, r \in ruleDb.rows : ruleDb' = Updated(ruleDb, r.id, s)
     \/ \E r \in ruleDb.rows : ruleDb' = Deleted(ruleDb, r.id)
  /\ UNCHANGED <<db, consumer, published, up, memory, handler, history>>

\* A message this process no longer holds is pushed again.
Redeliver(m) ==
  /\ up /\ m \in consumer.unacked
  /\ m # msg /\ ~InInbox(consumer, m)
  /\ consumer' = Redelivered(consumer, m)
  /\ UNCHANGED <<ruleDb, db, published, up, memory, handler, history, spent>>

\* AckWait expires although the process still holds the message, because the
\* messages before it took too long (sendTelegram has no timeout).
RepeatDelivery(m) ==
  /\ up /\ m \in consumer.unacked
  /\ m = msg \/ InInbox(consumer, m)
  /\ Spend("repeats")
  /\ consumer' = Redelivered(consumer, m)
  /\ UNCHANGED <<ruleDb, db, published, up, memory, handler, history>>

-----------------------------------------------------------------------------
(* The life of the process.                                                 *)

\* Variant: a start that restores nothing.
RestoredNothing(failed) == [h \in Hosts |-> {}]

\* Variant: GetOpenIncidents without resolved_at IS NULL.
RestoredAny(failed) ==
  [h \in Hosts |-> {m \in Metrics : RowsOf(incidents, h, m) # {}}]

\* states rebuilt from GetOpenIncidents; left empty when the query failed.
Restored(failed) ==
  [h \in Hosts |-> IF "restore" \in failed THEN {} ELSE {m \in Metrics : Open(<<h, m>>) # {}}]

\* rules after loadRules: the old ones when the query failed.
Reloaded(old, table, failed) == IF "reload" \in failed THEN old ELSE table.rows

\* main up to the subscription: InitRules, restore, loadRules, Subscribe.  On
\* a conflict the existing consumer is deleted and created anew.
Start ==
  /\ ~up
  /\ up' = TRUE
  /\ ruleDb' = Initialised(ruleDb)
  /\ \E failed \in SUBSET (Faults \cap {"restore", "reload", "conflict"}) :
       /\ IF failed = {} THEN UNCHANGED spent ELSE Spend("faults")
       /\ alerted' = Restored(failed)
       /\ rules' = Reloaded({}, ruleDb', failed)
       /\ "conflict" \in failed => consumer.exists
       /\ consumer' = IF "conflict" \in failed THEN NewConsumer ELSE Subscribed(consumer)
  /\ UNCHANGED <<db, published, highCount, handler, history>>

\* main ends before it is subscribed: NewStorage, InitRules, InitIncidents,
\* NATS or the subscription failed, or the second subscription after the
\* conflicting consumer had been deleted.
AbortStart ==
  /\ ~up /\ MayFail("abort")
  /\ \/ ruleDb' \in InitOutcomes(ruleDb) /\ UNCHANGED consumer
     \/ /\ "conflict" \in Faults /\ consumer.exists
        /\ ruleDb' = Initialised(ruleDb) /\ consumer' = NoConsumer
  /\ UNCHANGED <<db, published, up, memory, handler, history>>

\* Whatever the process kept in memory is gone.
Forget ==
  /\ up /\ up' = FALSE
  /\ rules' = {}
  /\ highCount' = [h \in Hosts |-> 0]
  /\ counted' = [h \in Hosts |-> {}]
  /\ passed' = [h \in Hosts |-> {}]
  /\ alerted' = [h \in Hosts |-> {}]
  /\ pc' = "idle" /\ msg' = NoMessage /\ view' = {} /\ metric' = "cpu"
  /\ UNCHANGED <<ruleDb, db, published, alerts, oks>>

Crash ==
  /\ Spend("crashes")
  /\ Forget
  /\ consumer' = Abandoned(consumer)

\* A signal: sub.Unsubscribe, then main returns under a running callback.
Stop ==
  /\ Spend("stops")
  /\ Forget
  /\ consumer' = Unsubscribed(consumer)

\* The 10 s ticker runs loadRules beside the callback.
ReloadRules ==
  /\ up
  /\ \/ rules' = Reloaded(rules, ruleDb, {}) /\ UNCHANGED spent
     \/ rules' = Reloaded(rules, ruleDb, {"reload"}) /\ MayFail("reload")
  /\ UNCHANGED <<ruleDb, db, consumer, published, up, highCount, alerted, handler, history>>

-----------------------------------------------------------------------------
(* The subscription callback: check, metric by metric, then Ack.            *)

\* The callback takes the next message and a copy of the rules; what it
\* cannot parse it only acknowledges.
Dispatch ==
  /\ up /\ pc = "idle" /\ consumer.inbox # <<>>
  /\ msg' = Head(consumer.inbox)
  /\ consumer' = Taken(consumer)
  /\ view' = rules
  /\ pc' = IF msg'.reading = Garbled THEN "ack" ELSE "check"
  /\ UNCHANGED <<ruleDb, db, published, up, memory, metric, history, spent>>

\* Variant: one metric too many.
AdvancePast ==
  /\ pc' = IF metric = "disk" THEN "ack" ELSE "check"
  /\ metric' = IF metric = "cpu" THEN "ram" ELSE IF metric = "ram" THEN "disk" ELSE "temp"

\* check goes on with RAM after CPU and with the disk after RAM.
Advance ==
  /\ pc' = IF metric = "disk" THEN "ack" ELSE "check"
  /\ metric' = IF metric = "cpu" THEN "ram" ELSE "disk"

Evaluating(enabled, breached) ==
  /\ pc = "check" /\ rule.enabled = enabled
  /\ enabled => (Breached = breached)
  /\ UNCHANGED <<ruleDb, db, consumer, published, up, rules, msg, view>>

\* sendTelegram of a notice counted in log: a POST that fails, or that
\* Telegram refuses, is logged at most and never repeated, and check goes on
\* as if it had got through.
SendTelegram(log, log1) ==
  \/ log1 = [log EXCEPT ![Key] = @ + 1] /\ UNCHANGED spent
  \/ log1 = log /\ Spend("unsent")

CountHigh ==
  IF metric = "cpu"
  THEN /\ highCount' = [highCount EXCEPT ![msg.host] = @ + 1]
       /\ counted' = [counted EXCEPT ![msg.host] = @ \cup {msg.n}]
  ELSE UNCHANGED <<highCount, counted>>

ResetHigh ==
  IF metric = "cpu"
  THEN /\ highCount' = [highCount EXCEPT ![msg.host] = 0]
       /\ counted' = [counted EXCEPT ![msg.host] = {}]
       /\ passed' = [passed EXCEPT ![msg.host] = {}]
  ELSE UNCHANGED <<highCount, counted, passed>>

\* Variants: the count compared before, or one short of, this reading.
DueLate  == metric = "cpu" => highCount[msg.host] >= rule.count
DueEarly == metric = "cpu" => highCount[msg.host] + 2 >= rule.count

\* RAM and disk alert at once, CPU after rule.count high readings.
Due == metric = "cpu" => highCount[msg.host] + 1 >= rule.count

\* A disabled rule freezes the state of its metric.
SkipDisabled ==
  /\ Evaluating(FALSE, FALSE)
  /\ passed' = IF metric = "cpu" /\ ~Breached
               THEN [passed EXCEPT ![msg.host] = @ \cup {msg.n}]
               ELSE passed
  /\ Advance
  /\ UNCHANGED <<highCount, alerted, alerts, oks, counted, spent>>

\* Too high, and already announced or not yet due.
StayHigh ==
  /\ Evaluating(TRUE, TRUE)
  /\ IsAlerted \/ ~Due
  /\ CountHigh
  /\ Advance
  /\ UNCHANGED <<alerted, alerts, oks, passed, spent>>

\* Too high for long enough: Telegram is told, and the flag is set before the
\* incident is inserted.
Raise ==
  /\ Evaluating(TRUE, TRUE)
  /\ ~IsAlerted /\ Due
  /\ CountHigh
  /\ SendTelegram(alerts, alerts')
  /\ alerted' = [alerted EXCEPT ![msg.host] = @ \cup {metric}]
  /\ pc' = "open"
  /\ UNCHANGED <<metric, oks, passed>>

\* The insert; its failure is only logged.
OpenIncident ==
  /\ pc = "open"
  /\ \/ /\ incidents' = Inserted(incidents,
                  [id |-> nextId, host |-> msg.host, metric |-> metric, startedAt |-> msg.n])
        /\ nextId' = nextId + 1
        /\ UNCHANGED spent
     \/ MayFail("open") /\ UNCHANGED db
  /\ Advance
  /\ UNCHANGED <<ruleDb, consumer, published, up, memory, msg, view, history>>

\* Normal, and nothing was announced.
StayNormal ==
  /\ Evaluating(TRUE, FALSE)
  /\ ~IsAlerted
  /\ ResetHigh
  /\ Advance
  /\ UNCHANGED <<alerted, alerts, oks, spent>>

\* Back to normal: Telegram is told first.
Recover ==
  /\ Evaluating(TRUE, FALSE)
  /\ IsAlerted
  /\ SendTelegram(oks, oks')
  /\ pc' = "close"
  /\ UNCHANGED <<metric, highCount, alerted, alerts, counted, passed>>

\* The update; the state is reset whether or not it succeeded.
CloseIncident ==
  /\ pc = "close"
  /\ \/ /\ \E hit \in Hits(incidents, msg.host, metric) : incidents' = Closed(incidents, hit)
        /\ UNCHANGED spent
     \/ MayFail("close") /\ UNCHANGED incidents
  /\ alerted' = [alerted EXCEPT ![msg.host] = @ \ {metric}]
  /\ ResetHigh
  /\ Advance
  /\ UNCHANGED <<ruleDb, nextId, consumer, published, up, rules, msg, view, alerts, oks>>

\* Variant: manual acknowledgement, forgotten on the early return.
FinishParsed ==
  /\ pc = "ack"
  /\ consumer' = IF msg.reading = Garbled THEN consumer ELSE Acked(consumer, msg)
  /\ pc' = "idle" /\ msg' = NoMessage /\ view' = {} /\ metric' = "cpu"
  /\ UNCHANGED <<ruleDb, db, published, up, memory, history, spent>>

\* msg.Ack(), and the client waits for the next message.
Finish ==
  /\ pc = "ack"
  /\ consumer' = Acked(consumer, msg)
  /\ pc' = "idle" /\ msg' = NoMessage /\ view' = {} /\ metric' = "cpu"
  /\ UNCHANGED <<ruleDb, db, published, up, memory, history, spent>>

Callback ==
  Dispatch \/ SkipDisabled \/ StayHigh \/ Raise \/ OpenIncident
    \/ StayNormal \/ Recover \/ CloseIncident \/ Finish

Next ==
  \/ \E h \in Hosts, r \in Readings \cup {Garbled} : Publish(h, r)
  \/ EditRules
  \/ \E m \in consumer.unacked : Redeliver(m) \/ RepeatDelivery(m)
  \/ Start \/ AbortStart \/ Crash \/ Stop \/ ReloadRules
  \/ Callback

Spec == Init /\ [][Next]_vars

\* docker restarts a crashed process (restart: on-failure; not one that Stop
\* or AbortStart ended with exit code 0: assume this only where MaxStops is 0
\* and "abort" is no fault), the server pushes what is not acknowledged, and
\* the Go runtime keeps running the callback.
FairSpec ==
  /\ Spec
  /\ WF_vars(Start)
  /\ WF_vars(Callback)
  /\ WF_vars(\E m \in consumer.unacked : Redeliver(m))

-----------------------------------------------------------------------------
(* Properties.                                                              *)

Row == [id : Nat, host : Hosts, metric : Metrics, startedAt : Nat]

\* Every variable has its type; the callback is past "idle" exactly when it
\* holds a message.
TypeOK ==
  /\ ruleDb \in [rows : SUBSET RuleRow, seq : Nat]
  /\ incidents \in [open : SUBSET Row, resolved : SUBSET Row]
  /\ nextId \in Nat
  /\ consumer \in Consumer(Message)
  /\ published \in [Hosts -> 0..MaxReadings]
  /\ up \in BOOLEAN
  /\ rules \subseteq RuleRow
  /\ highCount \in [Hosts -> Nat]
  /\ alerted \in [Hosts -> SUBSET Metrics]
  /\ pc \in {"idle", "check", "open", "close", "ack"}
  /\ msg \in Message \cup {NoMessage} /\ (pc = "idle" <=> msg = NoMessage)
  /\ view \subseteq RuleRow
  /\ metric \in Metrics
  /\ alerts \in [Keys -> Nat] /\ oks \in [Keys -> Nat]
  /\ counted \in [Hosts -> SUBSET Nat] /\ passed \in [Hosts -> SUBSET Nat]
  /\ spent \in [DOMAIN Limits -> Nat]

\* A host and a metric have at most one open incident, whatever was crashed,
\* redelivered or restored in between: the check of <metric>Alerted stands in
\* for a unique constraint the table does not have.
OneOpenIncident ==
  \A k \in Keys : \A r, q \in Open(k) : r = q

\* Outside the window between the flag and the insert, the flags in memory
\* and the open rows say the same.
AlertedIffOpen ==
  up => \A k \in Keys :
          (pc = "open" /\ k = Key)
            \/ (k[2] \in alerted[k[1]] <=> Open(k) # {})

\* When a reading has been handled, the table agrees with it: no open
\* incident of an enabled metric that is normal, and one for a RAM or disk
\* level above its threshold and for a CPU that was high often enough.
TableFollowsReading ==
  (pc = "ack" /\ msg.reading # Garbled) =>
    \A m \in Metrics :
      LET r == Lookup(view, m) IN
      r.enabled =>
        IF msg.reading[m] > r.threshold
        THEN (m = "cpu" => highCount[msg.host] >= r.count) => Open(<<msg.host, m>>) # {}
        ELSE Open(<<msg.host, m>>) = {}

Pending(k, phase) == IF pc = phase /\ k = Key THEN 1 ELSE 0

\* No incident in the table went unannounced, and no resolved one went without
\* a notice that it is over, but for the calls of sendTelegram that failed,
\* which nothing makes up for; and no alert reaches the chat twice for one
\* incident unless a crash, a stop or a failed call came between the two.
NoticesMatchIncidents ==
  \A k \in Keys :
    LET rows     == Cardinality(RowsOf(incidents, k[1], k[2]))
        resolved == rows - Cardinality(Open(k))
    IN  /\ rows + Pending(k, "open") <= alerts[k] + spent.unsent
        /\ alerts[k] <= rows + Pending(k, "open")
                          + spent.crashes + spent.stops + spent.faults
        /\ (Backend = "postgres" \/ rows <= 1)
             => resolved + Pending(k, "close") <= oks[k] + spent.unsent

\* An incident nobody will close is the price of a failed call: there are
\* never more open rows of a key than one plus the failed calls.
OrphanBound ==
  \A k \in Keys : Cardinality(Open(k)) <= 1 + spent.faults

\* "count" different high readings of the host stand behind a CPU alert; only
\* a message that was pushed twice stands for two.
CpuAlertEarned ==
  (pc = "open" /\ metric = "cpu") =>
    Cardinality(counted[msg.host]) + spent.repeats >= rule.count

\* The high readings behind a CPU alert follow one another: the host sent no
\* low one in between.
CpuAlertConsecutive ==
  (pc = "open" /\ metric = "cpu") =>
    \A i, j \in counted[msg.host], low \in passed[msg.host] : ~(i < low /\ low < j)

\* A reading the consumer was told of is handled to its acknowledgement, in
\* spite of crashes.
EveryReadingHandled ==
  \A h \in Hosts, n \in 1..MaxReadings :
    LET undone == \E m \in Undone(consumer) : m.host = h /\ m.n = n
    IN  undone ~> ~undone

\* The id of the open incident of a key, 0 when it has none.
CurrentId(k) == IF Open(k) = {} THEN 0 ELSE (CHOOSE r \in Open(k) : TRUE).id

Log == INSTANCE IncidentLog WITH
  current <- [k \in Keys |-> CurrentId(k)],
  past    <- {r.id : r \in incidents.resolved},
  next    <- nextId

\* The incidents table behaves as the abstract log as long as no closing
\* UPDATE and no restoring SELECT fails.
ImplementsIncidentLog == Log!Spec
=============================================================================
