# go-sentinel: specifications and proofs

TLA+ models of the go-sentinel monitoring system, TLC configurations that check
them on small instances, and TLAPS proofs of what matters most. This document
takes stock of the system, says which module models which code, what every run
shows and with which bounds, what is proved and from what, and what is left.

Run everything from this directory: `tlasany M.tla`, `tlc -workers 2 -config
X.cfg M`, `tlapm M.tla`. Line numbers below are those of the repository.

## 1. The system

Agents on the monitored hosts publish readings to two NATS JetStream streams.
Four server processes consume them, each through a durable push consumer of its
own; they share one database (SQLite or PostgreSQL behind `storage.Storage`)
and never call each other.

| component | code | state | operations |
|---|---|---|---|
| alerter | `cmd/alerter/main.go` | `states` (per host: CPU count and three alerted flags with start times), `rules` in memory, durable consumer `alerter` | start (InitRules, restore flags, load rules, subscribe), rules ticker, message callback with `check`, shutdown |
| processor | `cmd/processor/main.go` | two durable consumers | subscribe twice, save and acknowledge, shutdown |
| storage | `internal/storage/{storage,postgres}.go` | tables `metrics`, `speedtest`, `rules`, `incidents`, `mutes` | InitRules, rule CRUD, OpenIncident, CloseIncident, GetOpenIncidents, Save, mutes, queries |
| dashboard | `cmd/dashboard/main.go` | hub of websocket clients, host cache, Prometheus gauges, sessions | message callback (merge, gauges, broadcast), websocket handlers, rules API, kill request, login |
| bot | `cmd/bot/main.go` | mute cache, host cache, channel of Telegram updates | commands, mute and unmute, kill request |
| agent | `cmd/agent/main.go`, `internal/collector` | outgoing connection, command consumer | publish reading, publish speedtest, execute `KILL` |
| host cache | `internal/hostcache/hostcache.go` | last event and time of each host | SetWithMerge, IsOnline, GetAll |
| migrate | `cmd/migrate/main.go` | none (two databases) | copy five tables above a watermark |
| web page | `cmd/dashboard/templates/index.html` | selected host, charts, websocket | live updates, history requests, rule editing |
| collectors, logger | `internal/collector`, `internal/logger` | none of interest | operating system and file I/O |

How they meet: agents to consumers by messages; dashboard (rules page) to
alerter by the `rules` table, read every 10 seconds; alerter to bot and
dashboard by the `incidents` table; dashboard and bot to agent by messages on
`commands.<host>`; alerter to people by Telegram.

What is hard about it:

- The alerter has five kinds of effect, in this order: Telegram message, flag in
  memory, row in the table, further metrics, acknowledgement. A crash can fall
  between any two; the memory is lost and rebuilt from the table, and the
  reading is delivered again.
- No table has a unique constraint that would catch a repeated insert.
- Errors of the database are logged and passed over nearly everywhere.
- Three processes run `InitRules` when the system comes up, each counting before
  inserting and in no transaction.
- The rules change under a callback that works on a copy.
- Subscriptions use `DeliverNew`, and a process that created its consumer
  deletes it on `Unsubscribe`.
- The dashboard's message callback holds the mutex of the hub while it writes to
  browsers, with no deadline, and the websocket handlers need the same mutex.
- All agents use one durable name for commands, each with its own subject; a
  subscription that fails is logged and never tried again.
- The Telegram library confirms updates before the bot has handled them.
- `restart: on-failure` does not restart a process that returned from `main`,
  which several start-up errors and, in the bot, every panic do.

What makes each component correct:

- alerter: a host and a metric have at most one open incident; flags and table
  agree; a handled reading and the table agree; notices match incidents but for
  those Telegram lost; a CPU alert rests on `count` readings; every reading told
  of is handled.
- processor: what it was told of and did not fail to insert is in the table;
  duplicates only after disturbances; nothing stays undone but what a failed
  insert or a deleted consumer took away.
- rules: concurrent initialisation never changes the rule in force.
- dashboard, host cache: a host's state is that of its newest event and parts
  it once told are not lost; gauges follow silence; every message is shown and
  every browser gets in and out of the hub, as long as no browser blocks it.
- bot: what it confirms is true, of a mute and of its end, and stays true over
  restarts as far as the table was written; every message and every permitted
  button is answered, and the newest update decides.
- agent commands: a `KILL` stays on its host, kills one process for each time it
  is delivered, and is not lost once the server has accepted it; an agent that
  cannot hear commands has a reason.
- migrate: every row copied once, however often it is run and broken off; and
  where that does not hold, how many rows can be missed or repeated.

The full list of what is hard to test, each at its line, is the `hazards` part
of `PROJECT.json`.

## 2. Modules

| module | models | role |
|---|---|---|
| `DurableConsumer` | JetStream as the processes use it (external) | operators on the record of one durable consumer |
| `IncidentTable` | the `incidents` table and its three statements, for both backends | operators |
| `RuleTable` | the `rules` table, its CRUD, and `getRuleThreshold` | operators |
| `Alerter` | `cmd/alerter/main.go`, whole | state machine; uses the three above |
| `IncidentLog` | what readers of the `incidents` table rely on | abstract specification |
| `Processor` | `cmd/processor/main.go`, whole | state machine over two durable consumers |
| `RulesSetup` | `InitRules` in three processes, with the rules page | state machine over `RuleTable` |
| `Migration` | `cmd/migrate/main.go`, whole | state machine over the two databases |
| `Mutes` | the mutes and the update loop of `cmd/bot/main.go`, with the `mutes` table | state machine |
| `HostCache` | `internal/hostcache/hostcache.go` | operators |
| `Dashboard` | callback, gauges, hub and websocket handlers of `cmd/dashboard/main.go` | state machine over `HostCache` and a durable consumer |
| `Commands` | kill requests of bot and page, command subscription of `cmd/agent/main.go` | state machine over a durable consumer |
| `MCAlerter`, `MCProcessor`, `MCRulesSetup`, `MCMigration`, `MCMutes`, `MCDashboard`, `MCCommands` | values of the constants | instances for TLC |
| `DurableConsumerProofs` | lemmas on the operations of a consumer, used by the next four | proofs |
| `AlerterProofs`, `ProcessorProofs`, `DashboardProofs`, `CommandsProofs`, `RulesSetupProofs`, `MigrationProofs`, `MutesProofs` | lemmas and theorems about the module named | proofs |

Operators whose comment begins with "Variant" (`RestoredNothing`, `DueLate`,
`AckMissing`, ...) are plausible bugs of the definition that follows them. No
behaviour uses them; `PROJECT.json` says which property each one must break.

### DurableConsumer

One record per consumer: whether the server has it, whether this client created
it (only then does `Unsubscribe` delete it), the messages not pushed yet, those
pushed and waiting in the client, and those unacknowledged. `Stored` drops a
message when no consumer exists: with `DeliverNew` it will never be delivered.
The callbacks' subscriptions are asynchronous ones with a durable name, whose
explicit `Ack` at the end of the callback is the only acknowledgement modelled.
Redelivery appends to the client's queue, so an old message may follow newer
ones. Retention limits of the streams are left out.

### Alerter

| specification | code (`cmd/alerter/main.go`) |
|---|---|
| `highCount`, `alerted` | `states`, 27-40: `cpuHighCount` and the three `...Alerted` flags |
| `rules`, `view` | `rules` under `rulesMu`, and the callback's copy, 283-312 and 361-365 |
| `Start` | `main` 225-398: InitRules, restore, loadRules, subscribe |
| `AbortStart` | the returns of `main` before the subscription, 239-252 and 324-334, and `os.Exit` when it fails, 394-402 |
| `ReloadRules` | the 10 s ticker |
| `Dispatch`, `Finish` | the callback's head and its `Ack`, 349-368 |
| `SendTelegram` | `sendTelegram` 42-55: sent, or lost and at most logged |
| `SkipDisabled`, `StayHigh`, `Raise`, `OpenIncident`, `StayNormal`, `Recover`, `CloseIncident` | `check` 78-193, once for each of CPU, RAM and disk |
| `Crash`, `Stop` | death of the process; SIGINT or SIGTERM, 405-412 |
| `EditRules` | `/api/rules` of the dashboard |
| `Publish`, `Redeliver`, `RepeatDelivery` | agents and JetStream |

`check` treats the three metrics alike, apart from the CPU count, so one set of
actions walks through `metric = "cpu", "ram", "disk"`. A step ends wherever the
code has an effect outside its own memory: `Raise` is the Telegram message and
the flag, `OpenIncident` the insert that follows; `Recover` is the message,
`CloseIncident` the update and the reset. Between two steps anything else may
happen, a crash included. `Start` is one step: nobody can observe the restored
flags before the subscription exists, an edit of the rules in the middle is one
before or after it. A start that ends early may have left the rules table
untouched, filled in part or filled (`InitOutcomes`), and, if it was the second
subscription that failed, no consumer; nothing else of it lasts. That is
`AbortStart`. A Telegram message that fails, or that Telegram refuses, is never
sent again and changes nothing in `check`, so `SendTelegram` only decides
whether the notice counts. The values and texts of notices,
the start times of alerts (kept only as the number of the reading, by which the
PostgreSQL statement picks its row) and logging are left out. `Faults` names the
calls that may fail in an instance. `counted`, `passed`, `alerts`, `oks` and
`spent` are history: no guard of the program's reads them (`spent` bounds the
disturbances).

The host column of a rule is left out because the code never compares it.

### Processor

`phase` is where `main` is: it is connected to one stream, then both, and on a
signal unsubscribes one after the other while the callbacks still run. Each
callback takes a message, saves it (`Save`), acknowledges it (`Ack`).
`MetricsColumns` and `RequiredColumns` compare the INSERT of `postgres.go:44`
with the `NOT NULL` columns of the migration. A start whose second subscription
fails ends with `os.Exit(1)`: that is `Crash` in phase "starting". `Unsubscribe`
deletes the consumer if this process made it, and a conflict at the start
deletes the old one; `forgone` records the messages that were still due then, and
those whose insert failed.

### RulesSetup

Each process counts, then inserts CPU, RAM and disk in three statements; a
failure ends the alerter and the dashboard and is not looked at by the bot. The
dashboard, once up, edits. `Alerter` uses the result for one process alone
(`Initialised`); `InitNeverOverrides` is what makes that sound: a concurrent
insert never changes what a lookup yields.

### Migration

`at` and `step` say at which table `main` is and which statement comes next:
read the watermark (or truncate the mutes), select, copy. A numbered table is a
set of ids in SQLite (`source`) and a set of rows in PostgreSQL (`target`), each
row with its own id and the SQLite id it copies; the values of the columns are
left out. Beside it the services add and delete rows in either database. A COPY
is one statement, so it stores all or nothing, but the identity values it took
are gone (`Burn`). Deleting a rule in PostgreSQL (`DropRule`) keeps the row in
the history `dropped`, and may lower the watermark. `Unknown` and `Omitted` are the columns a statement names or
leaves out against the schema of the database: the SELECT on `incidents` always
fails, the COPY into `metrics` fails whenever there is a row.

### Mutes

| specification | code (`cmd/bot/main.go`) |
|---|---|
| `cache`, `table` | `muteStore.cache`, and the `mutes` table of `storage.go:216-245` and `postgres.go:205-244` |
| `chat`, `confirmed`, `polled`, `queue` | Telegram's list of updates, and the channel of `GetUpdatesChan` (309) |
| `NewMuteStore`, `Start`, `AbortStart` | `newMuteStore` 47-57, `main` 267-312, the return of 298-302 |
| `RefuseMessage`, `IgnoreButton` | a chat that is not permitted: told so by `handleMessage` 344-349, left without an answer by `handleCallback` 582-586 |
| `RefuseMinutes`, `HandleMute`, `HandleUnmute` | head of the handlers: 510-515, 510-518, 600-603 |
| `SetMute`, `DeleteMute`, `Reply` | the database call, whose error is logged, and the confirmation, which does not look at it |
| `Crash`, `Panic`, `Stop` | death of the process; `recover` in `main`, which returns with code 0; the quit channel, looked at between two updates only |

A handler runs in `main`'s goroutine, so at most one update is in hand; the map
is changed in the step that takes the update, since nothing else reads it until
the handler goes on. The library is modelled from how `main` uses it: it polls
with an offset, one past what it has fetched, and that poll makes Telegram
forget the earlier updates although they may still wait in the channel. A new
process polls from offset 0 and gets whatever was not forgotten. `Duration` is
`time.Duration(mins) * time.Minute` on a small number of bits (`Half`), so that
the product wraps as it does in 64 bits. A clock step is half a minute in the
instance (`Minute = 2`). `KeepsExpired` is the difference between the backends:
SQLite reads back mutes that are over; `isMuted` compares with the clock anyway.
An update comes as a `message` or from a `button`, which the two handlers treat
differently. `told`, `answers`, `dropped` are history: what the chat may rely on,
how often the bot has sent an answer to an update (it ignores whether Telegram
takes it), and which updates a death of the process took away.

### HostCache and Dashboard

The cache keeps, for every host, which event it holds and from which event each
optional part comes; of `lastSeen` only whether it is less than 30 seconds old
(`recent`, ended by `Silence`). Every method holds the cache's lock throughout,
so each is one operator.

The callback has three kinds of step: `Receive` (parse, `SetWithMerge`),
`Gauges` (`updatePrometheusMetrics`, after which `broadcast` takes the mutex),
`Write` for each browser, and `Finish` (the mutex is free, `Ack`). The mutex is
held exactly in step "write", when `HubAdd` and `HubRemove` have to wait. A
browser that stalls blocks its `Write`. `Close` makes the handler's `ReadMessage`
return. If the connection ends with it, so does a blocked write, with an error
the code ignores; if only a close frame comes, the write at hand goes on waiting,
for `hub.remove` runs before `conn.Close` and needs the mutex that write holds,
until the connection ends after all (`Resume`), if ever. Before it is in the hub nobody writes to a browser, so only members
stall or close. `Stop` is one step: `Shutdown` neither waits for websockets nor
stops the callback, and what happens in those seconds can happen before the
signal as well. The branch that deletes and recreates a consumer (303-324)
matches error texts that the client library does not produce for this
subscription; a subscription that fails otherwise exits with code 1, and the
restarted process tries again, which is a later `Start`. An event carries the
optional parts each `PartsEvery` events of a host: the agent sends `SysInfo`
every 60th time, the other parts as sampling allows.

The bot feeds a host cache of its own in the same way, with neither gauges nor a
hub, so it has no module of its own for that.

### Commands

A kill button of `/top` or of the page names a host and a PID as they were when
the list was made; `Show` makes the button and `Press` sends the command at any
later time. One PID of each host is followed, and `owner` numbers the processes
that hold it in turn, so a victim can be told from the process that was meant.
`Start` is `SetUp`, where every call works or the server refuses the subscription,
or `SetUpBadly`, where `AddStream` fails, whose error nobody looks at (77-93), or
JetStream or the subscription does (103-107, 131-133), with or without the
consumer being made on the server (`FailToSubscribe`). `Subscribe` has the three
outcomes of the client library's durable subscription: the consumer is created,
or taken over, or the call fails because the consumer filters another subject or
is still bound to a connection; the code logs the error, and "subscription
active" after it. `troubled` is history: the agents that have crashed, or had one
of these calls fail, since they last subscribed. `bound` is what the server believes:
a crash leaves it until `Unbind`, a signal closes the connection and ends it at
once. `Execute` kills whoever has the PID; the early returns before the explicit
`Ack` are acknowledged by the library when the callback returns, hence one `Ack`.
`missed` are the commands for which there was no stream, no consumer, or a
consumer of another host; they are reported as sent all the same.

### IncidentLog

A key (host and metric) is quiet or in one incident; opening takes the next id;
resolving moves the id to the past for good. `Alerter` maps the open row of a
key to its current incident.

## 3. Runs

| run | configuration | what it shows |
|---|---|---|
| `alerter_recovery` | PostgreSQL, 1 host, a fresh or an edited rules table, 3 readings out of calm, hot CPU, hot RAM or unparsable; one crash, one signal, one spurious redelivery, one aborted start or conflicting consumer | `OneOpenIncident`, `AlertedIffOpen`, `TableFollowsReading`: memory, table and the last reading agree; `CpuAlertEarned`: a repeated delivery stands for at most one reading |
| `alerter_faults` | PostgreSQL, 1 host, 3 readings, one crash, one edit of the rules, one failing call to the database, one lost Telegram message | `NoticesMatchIncidents`, `OrphanBound`, `CpuAlertEarned`: what a failed call can cost, at most |
| `alerter_live` | SQLite, 2 hosts, 2 readings each, one crash, fair | `ImplementsIncidentLog` (refinement) and `EveryReadingHandled` |
| `alerter_gap` (violated) | SQLite, 1 host, 3 readings, two edits | `CpuAlertConsecutive`: see Findings |
| `processor` | SQLite, 2 metrics and 1 speedtest message; one crash, signal, repeat, failing insert and conflict; fair | `LossBounded`, `DuplicatesBounded`, `EveryMessageHandled` |
| `processor_postgres` (violated) | PostgreSQL, one reading, nothing disturbing | `LossBounded`: see Findings |
| `migration` | SQLite with one speedtest, three rules and one incident; three runs, one failing statement, one row written to each database, two rules deleted | `CopiedOnce`, `MissedBounded`, `RepeatsBounded` |
| `migration_fails` (violated) | one undisturbed run | `FailsOnlyOnError`: see Findings |
| `mutes` | PostgreSQL, two hosts, two of seven updates (mutes of 0, 1 and too many minutes, an unmute, a second host, a message and a button from a chat not allowed), two clock steps; one crash or panic, one signal, one failing call; fair | `ConfirmedMuteHolds`, `ConfirmedUnmuteHolds`, `NewestWins`, `AnsweredOnce`, `EveryUpdateAnswered` |
| `dashboard` | hosts with 2 and 1 events, 2 browsers and connections, 1 stall; one of a crash, signal, repeat, invalid message; fair | `CacheKeepsNewest`, `StaleGaugesCorrected`, `EveryMessageShown`, `HandlersGetTheLock` |
| `commands` | 2 hosts, with 2 and 1 processes, 2 commands; up to three of a crash, a signal, a repeat and a start with a failing call; fair | `CommandStaysOnItsHost`, `OneVictimPerDelivery`, `AcceptedIsKept`, `DeafHasReason`, `EveryCommandFinished` |
| `rules_setup` | alerter, dashboard and bot; one crash, one failing statement, two edits | `DuplicatesBounded`, `InitNeverOverrides` |

Why the bounds are enough. Three readings are the shortest sequence that goes
up, down and up again, and the CPU rule of these instances asks for two high
readings, so that a count can be interrupted and completed. One crash plus one
stop gives two restarts, enough for a restart from a table written by a
restarted process. Alerter state is per host and no action mixes hosts, so one
host suffices where nothing compares hosts; `alerter_live` has two, since the
mapping of ids to keys does. One spurious redelivery suffices to handle a
reading twice, and one failed call to leave one orphan; that orphans do not
multiply by more than one per failure is the shape of `OrphanBound`. One lost
Telegram message (`MaxUnsent`) is enough to leave either kind of notice out; the
bound counts them one by one. A fresh rules table is what an aborted `InitRules`
leaves half filled, an edited one what a CPU count of two needs. Both
backends are checked, on different runs, since they differ only in which rows an
update hits. Thresholds are the code's; readings lie on both sides of them.

The migration's three runs are what a row needs to be copied three times, which
two deleted rows allow; one foreign row, one burned COPY and one deleted row of
PostgreSQL are the three ways to push a watermark past a row.

Two updates are enough for a mute and its end in either order, the same update
twice around a restart, and a batch of which one half is handled; two clock
steps are the length of the mute that ends. The second host shows that hosts do
not disturb one another. Two events of a host, of which only the first carries
the parts, is the shortest case for the merge; a message of the other host is
what corrects the gauge of a silent one. Two browsers let one be written to while
the other blocks, comes or goes. Two agents compete for the durable name; two
processes in turn under one PID are what a late or repeated `KILL` can confuse.
One failing start (`MaxFailures`), together with a crash and a signal, is what it
takes to leave an agent deaf, let it stop, and start it again.
`MaxTroubles` bounds disturbances jointly where all of them together would be
too many states: the properties of these runs count or except disturbances one
by one.

Deadlock is not checked: every bound may be used up, and a stopped process need
not come back.

### What properties leave open, on purpose

- `OneOpenIncident` and `AlertedIffOpen` need that no closing update and no
  restoring query (for the second, no insert) fails. With such failures
  `OrphanBound` says how many extra open rows there can be.
- `CpuAlertEarned` counts one reading less for each message that is delivered
  twice while it is still held (`spent.repeats`): nothing in it tells the two
  deliveries apart, so the code counts it again.
- `LossBounded` excludes signals and conflicts. After a signal the consumer is
  deleted if this process made it, and what is published until the next start
  is not delivered, contrary to what README.md:31 leads one to expect.
- `NoticesMatchIncidents` counts the notices that reached the chat. One that was
  lost (`spent.unsent`) may be the only one of its incident, and nothing in the
  program makes up for it. The part on recoveries excludes SQLite while a key has
  more than one row, where one update may resolve two rows under one notice.
- `EveryMessageHandled` excepts, besides a processor that is off, the messages in
  `forgone`: their insert failed, or their consumer was deleted while they were
  due. It does not speak of messages published while there was no consumer.
- `RepeatsBounded` counts the copies that were deleted again in PostgreSQL. It
  does not say that a rule deleted there stays deleted: if it had the largest id,
  the next run brings it back.
- `ConfirmedMuteHolds` and `ConfirmedUnmuteHolds` are about memory while the
  process lives, and after a restart only about rows that were written and read
  back: a failed `DeleteMute` or `GetMutes` gives another answer after the
  restart. Minutes too many for a duration are left out (`Representable`).
- `EveryUpdateAnswered` excepts the updates in `dropped`: they were confirmed to
  Telegram, and a crash, panic or signal came before their answer. It does not
  speak of buttons pressed in a chat that is not permitted (`Ignored`), to which
  the bot never replies.
- `StaleGaugesCorrected` says what corrects an outdated `sentinel_host_online`:
  one more message of any host. With none, the gauge stays 1.
- The three liveness properties of the dashboard except a broadcast that waits
  for a browser which does not read (`Blocked`); such a browser may stay for
  ever, also after it has sent a close frame.
- `OneVictimPerDelivery` allows one more process for each disturbance, since a
  repeated `KILL` looks at nothing but the PID. That a first delivery, too, may
  hit a process other than the one on the button is the plain meaning of
  `Press`, and stated by no property.
- `EveryCommandFinished` excepts agents that are off or deaf. A deaf agent is
  never cured by the code; `DeafHasReason` says how it can become deaf: by another
  host's durable name, or by its own crash or failed call since it last had a
  subscription. It excuses nobody for what happened to another agent.

### Fairness

`FairSpec` of the alerter assumes weak fairness of `Start`, of the callback and
of redelivery. `restart: on-failure` (`docker-compose.yml`) restarts a process
that crashed; it does not restart one that a signal ended, nor one that returned
from `main` with code 0, so `FairSpec` is only used in an instance with no stop
and no aborted start. In the processor the same is in the formula: only the
start after a crash is fair. Callbacks are fair because the Go runtime runs
them; this takes for granted that the Telegram request returns (it has no
timeout, and it runs under `statesMu`). Redelivery of what is unacknowledged is
what JetStream promises. Publishing, edits, crashes, stops and failures are
never fair. In `Mutes`, `Dashboard` and `Commands` only the start of a crashed
process is fair, and liveness properties except one that is off. The polls of
the library and the loop of `main` are fair in `Mutes`, the callback and the
handlers of the websockets in `Dashboard`; a handler that waits for the mutex is
in competition with broadcasts, and Go's mutex hands over to a waiter that waits
long. Nothing obliges a browser to read, time to pass or a user to press.

### Findings

- `alerter_gap`: PROJECT_CONTEXT.md:103 says the CPU must be above its threshold
  `count` times in a row, as does the comment of `internal/models/rule.go:8`. While the rule is
  disabled `check` skips the whole CPU block, so a low reading in that time
  resets nothing, and highs before and after it are added up.
- `processor_postgres`: `postgresStorage.Save` names neither `disk_pct` nor
  `disk_free`, which the migration declares `NOT NULL` without a default. Every
  insert of a reading fails, is logged, and the message is acknowledged.
- `migration_fails`: the SELECT of `migrateIncidents` names `notified`, which the
  `CREATE TABLE` of `storage.go:250` does not have: every run of the migration
  ends with exit code 1 and incidents are never copied. With rows in `metrics`
  it ends at the first table, whose COPY omits the same `NOT NULL` columns.

Further facts met while modelling, that no property of a run states: mutes are
never consulted by the alerter, against README.md:143, so a mute changes only
what the bot shows; `sentinel_host_online` stays 1 when all agents fall silent,
against README.md:161; minutes beyond the range of a duration end in the past
while the bot confirms them; with several hosts, only the host that first
created `agent-commands` can be sent a `KILL`, and the others report an active
subscription; the page calls `loadHistory`, which it does not define
(`index.html:1424`), and does not reconnect its websocket; `CloseIncident` failing leaves a row nobody
closes on PostgreSQL; two processes that race in `InitRules` leave duplicate
rules (the first of them stays in force).

## 4. Proofs

Every invariant and every action property that a passing run checks, and the
refinement of `IncidentLog`, is also a theorem: it holds for all hosts,
readings, rules tables and bounds, where the run shows it on a small instance.

| module | theorem | statement |
|---|---|---|
| `AlerterProofs` | `TypeCorrect` | `Spec => []TypeOK` |
| | `OneOpenIncidentAlways` | if `NoOrphans`: `Spec => []OneOpenIncident` |
| | `AlertedIffOpenAlways` | if `NoFailedWrites`: `Spec => []AlertedIffOpen` |
| | `ImplementsIncidentLogAlways` | if `NoOrphans`: `Spec => ImplementsIncidentLog` |
| | `TableFollowsReadingAlways` | if `NoFailedWrites`: `Spec => []TableFollowsReading` |
| | `OrphanBoundAlways` | `Spec => []OrphanBound` |
| | `NoticesMatchIncidentsAlways` | `Spec => []NoticesMatchIncidents` |
| | `CpuAlertEarnedAlways` | `Spec => []CpuAlertEarned` |
| `ProcessorProofs` | `TypeCorrect` | `Spec => []TypeOK` |
| | `LossBoundedAlways` | if `Backend = "sqlite"`: `Spec => []LossBounded` |
| | `DuplicatesBoundedAlways` | `Spec => []DuplicatesBounded` |
| `RulesSetupProofs` | `TypeCorrect` | `Spec => []TypeOK` |
| | `DuplicatesBoundedAlways` | `Spec => []DuplicatesBounded` |
| | `InitNeverOverridesAlways` | `Spec => InitNeverOverrides` (an action property) |
| `MigrationProofs` | `TypeCorrect` | `Spec => []TypeOK` |
| | `CopiedOnceAlways` | `Spec => []CopiedOnce` |
| | `MissedBoundedAlways` | `Spec => []MissedBounded` |
| | `RepeatsBoundedAlways` | `Spec => []RepeatsBounded` |
| `MutesProofs` | `TypeCorrect` | `Spec => []TypeOK` |
| | `ConfirmedMuteHoldsAlways` | `Spec => []ConfirmedMuteHolds` |
| | `ConfirmedUnmuteHoldsAlways` | `Spec => []ConfirmedUnmuteHolds` |
| | `AnsweredOnceAlways` | `Spec => []AnsweredOnce` |
| | `NewestWinsAlways` | `Spec => []NewestWins` |
| `DashboardProofs` | `TypeCorrect` | `Spec => []TypeOK` |
| | `CacheKeepsNewestAlways` | `Spec => []CacheKeepsNewest` |
| `CommandsProofs` | `TypeCorrect` | `Spec => []TypeOK` |
| | `CommandStaysOnItsHostAlways` | `Spec => []CommandStaysOnItsHost` |
| | `AcceptedIsKeptAlways` | `Spec => []AcceptedIsKept` |
| | `DeafHasReasonAlways` | `Spec => []DeafHasReason` |
| | `OneVictimPerDeliveryAlways` | `Spec => []OneVictimPerDelivery` |

### What they assume

The constants' assumptions (`AlerterAssumption`, `BackendAssumption` and so on)
say only that they are of the right kind: bounds are natural numbers, hosts are
not the mark for no host. `RulesSetupAssumption` also says that the processes
are finitely many, or a bound by their number would mean nothing. Three
hypotheses go further:

- `NoOrphans`: no closing `UPDATE` and no restoring `SELECT` fails. Without it
  the properties are false: a failed `CloseIncident` leaves a row that nobody
  closes, next to which another is opened. What holds then is `OrphanBound`,
  which has no hypothesis.
- `NoFailedWrites`: no insert of an incident fails either. The flag is set
  before the insert, and a failed insert is only logged.
- `Backend = "sqlite"` of `LossBoundedAlways`: on PostgreSQL every insert of a
  reading fails, which is the finding of the run `processor_postgres`.

### Messages

`DurableConsumerProofs` shows that each operation on a consumer keeps its type,
and what it does to the messages inside (`Inside`) and to those still to be done
(`Undone`). For the theorems that count it counts as well: a message will be
delivered as often as it stands in the client's queue and in the server's
backlog (`Occurs`), and once more if it is unacknowledged, not in hand and not
queued (`Lapsed`). The sum, `ToCome`, is raised by at most one by anything but a
delivery, and by nothing that does not cost a crash, a signal or a repetition.
`Processor` and `Commands` both rest on it.

### Alerter

`OneOpenIncident` is not inductive: an insert at a key that already has an open
row would break it, and nothing in the property forbids that. The invariant
`IInv` adds what the code relies on: whatever is open is flagged while the
process is up (`FlaggedIfOpen`), and when an insert is due the flag is set and
nothing is open (`ReadyToOpen`); a process that is down is idle
(`DownIsIdle`). `Raise` establishes `ReadyToOpen` from the guard `~IsAlerted`;
`Start` establishes `FlaggedIfOpen`, which is where the restore must not fail;
`CloseIncident` clears flag and rows together, which is where the update must
not fail. `CloseHits` shows that, with at most one open row, the SQLite and the
PostgreSQL update do the same, so the proof covers both. For `AlertedIffOpen`
the converse, `OpenIfFlagged`, is carried along.

The refinement takes `IInv` and the freshness of ids (`IdsGiven`, `TableSound`):
`LogInit` and `LogStep` map an insert to the opening of a quiet key with a new
id, an update to the resolution of the current one, and every other step to a
stutter. `TableFollowsReading` needs to know how far the callback is:
`FlagsFollow` says that the metrics it is past are judged by the reading in hand
and the copy of the rules, and so is one whose incident is about to be inserted.

`OrphanBound` has no hypothesis, so its invariant has to account for every
failure: `OrphansOwed` says that a key has at most as many open rows as calls
have failed, plus one that its flag (or, while the process is down, the table
itself) stands for. `LedgerKept` adds notices to the same account, one line for
each of the two messages that are sent before the write they announce, each with
the messages that were lost on the side of the notices.

`CpuAlertEarned` compares a counter with the set of different readings behind
it. `CountedOnce` weighs deliveries against messages: the count of a host and
the deliveries still ahead are at most the different readings counted, the
different messages ahead that are not counted, and the repetitions. It
needs that messages are told apart by host and number (`Unique`), and that what
was counted and not acknowledged is still held by the client or in hand
(`CountedHeld`), so that a redelivery cannot bring it anew for free. That
`Lookup` finds one rule, the one with the least id, is proved from the
well-foundedness of the naturals.

### Processor

A deleted consumer holds nothing (`NothingLeft`), and whatever one holds or the
callback works on was published (`OnlyPublished`). `Accounted` gives each message a budget, one delivery and one for
each disturbance, of which rows written and deliveries still to come are paid.
`FailuresCover` says that the failed inserts are at least as many as the
messages lost, those about to be acknowledged without a row included.

### RulesSetup

`RowsAccounted` counts the rows of a metric together with the processes that
have still to insert one: each process reads the count once and inserts at most
once per metric. That `InsertDefault` overrides nothing follows from types
alone: the new id is beyond all others (`Numbered`), and the row in force is the
one with the least.

### Migration

The target's rows are compared with the ids they come from. `TableInv` holds of
each table: numbers missing in SQLite were deleted (`GapsDeleted`), numbers of
PostgreSQL that are not copies are foreign, burned or dropped (`BadCounted`), up
to any number no more rows are skipped than such numbers precede it
(`SkippedBounded`), a copy falls behind the number it copies, and follows other
copies of the row, by no more than were deleted (`CopiesSpaced`), and where nothing of this happened a row has its own number
(`Straight`). `WatermarkAhead` and `DataComplete` carry what a run has read
through its two statements, `PassedOver` what is known when it ends. The lemmas
on `Rank` compute where a batch puts a row.

### Mutes

`Core` ties three things to what was last confirmed: the cache (`CacheBears`),
the table where the write succeeded (`TableBears`), and the answer that is about
to be sent (`AnswerWillHold`). The updates' path is in `ChannelInOrder`: the
library's queue is the tail of what was polled. With it `AnswersCounted` gives
each update one answer and one for each restart that polls it again, and
`NewestKept` says that the newest update about a host is still to come or is
what was confirmed last.

### Dashboard

`PartsKept` is about all behaviours: a part that was seen stays in the cache
until the process ends. `InOrder` is about those before the first crash, signal
or repetition: the queue is in order and follows what is in the cache, and
everything unacknowledged is with the client; so what is merged next is newer.
`HubApart` is what the type invariant needs of the handlers and the hub: a browser
that has gone can block only the write at hand.

### Commands

The first theorems share one invariant. What the properties leave open is
how a message and its host are tied together: `Addressed` says that whatever is
inside the consumer was sent to the host of its filter, `Tuned` that only that
host's agent listens. `Subscribe` keeps both because it refuses a consumer with
another filter, and makes a new one only when nothing was accepted before
(`FilterIffConsumer`). `Press` gives a number no command had, so it has no
victims yet (`Numbered`, `NotYetUsed`). An operation on the consumer never drops
what is still to be done, except `Acked`, and the command in hand has been
carried out (in `TypeOK`); that is `AcceptedIsKept`. `Attached` holds of all
behaviours: an agent that listens is up and bound, and a host that is bound has
the filter, and either listens or is `troubled`. So an agent that is refused meets
another host's filter or is troubled itself; a signal unbinds whoever listened, so
it adds no reason. `StartOutcome` lists how a start can end, for this proof and
for that of the shared invariant. `Delivered` counts:
the victims of a command and its deliveries to come are at most one and the
disturbances.

### Only model-checked

The liveness properties (`EveryReadingHandled`, `EveryMessageHandled`,
`EveryUpdateAnswered`, `StaleGaugesCorrected`, `EveryMessageShown`,
`HandlersGetTheLock`, `EveryCommandFinished`), since the prover has no rule for
fairness and ENABLED, and the three properties that are violated. The inductive
invariants above were checked with TLC on the runs' instances before they were
proved.

## 5. Not modelled

- Collectors and logger: operating system and file I/O, no state of their own.
- Telegram and the database server beyond success and failure of a call.
- The texts, units and layout of messages and pages; login sessions; the reading
  queries of dashboard and bot, which change no state.
- The web page beyond its part as a sender of commands and as a browser of the
  hub: charts and history requests, which are independent of one another and of
  the other components, and the merging of events on the page.
- Prometheus scraping; stream retention; connection loss and reconnection of the
  NATS client beyond what redelivery shows.
- An HTTP server of the dashboard that fails to listen (617): the process goes on
  without it.

## 6. Plan

The model has the components above, and its safety properties are proved. What
is left is to say more, in this order.

1. Hypotheses: `ImplementsIncidentLog` without `NoOrphans` needs a log that may
   have orphans; `TableFollowsReading` for a key none of whose own calls failed.
2. Action properties that follow from the invariants at hand: a resolved
   incident never changes on either backend, whatever fails; a rule in force
   changes only by an edit.
3. `MissedBounded` and `RepeatsBounded` are bounds; which rows are missed or
   copied again is in the invariants of `MigrationProofs` and could be stated.
