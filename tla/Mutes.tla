------------------------------- MODULE Mutes -------------------------------
(***************************************************************************)
(* The mutes of cmd/bot: a map in memory, a table behind it, and the chat  *)
(* that changes both, one update after the other.  The client library      *)
(* polls Telegram into a channel and confirms with each poll what the last *)
(* one brought; the process may crash, be stopped, and lose the database.  *)
(***************************************************************************)
EXTENDS Integers, SequencesExt

CONSTANTS
  Hosts,
  Chats,         \* chats that write to the bot
  Allowed,       \* ALLOWED_CHAT_IDS; empty means everybody
  Updates,       \* what users send: commands and presses of buttons
  Minute,        \* length of a minute in units of the clock
  Half,          \* durations are integers from -Half to Half - 1
  KeepsExpired,  \* GetMutes returns expired rows too (SQLite)
  MaxNow,        \* bound: the clock
  MaxUpdates,    \* bound: updates
  MaxCrashes,    \* bound: crashes and panics
  MaxStops,      \* bound: signals
  MaxFaults      \* bound: failing database calls

ASSUME MutesAssumption ==
  /\ Allowed \subseteq Chats
  /\ Updates \subseteq [from : Chats, via : {"message", "button"},
                       kind : {"mute", "unmute"}, host : Hosts, mins : Int]
  /\ {Minute, Half} \subseteq Nat \ {0}
  /\ KeepsExpired \in BOOLEAN
  /\ {MaxNow, MaxUpdates, MaxCrashes, MaxStops, MaxFaults} \subseteq Nat

VARIABLES
  now,        \* the clock
  chat,       \* updates sent so far, numbered from 1
  confirmed,  \* Telegram has forgotten the updates up to this one
  polled,     \* the library has fetched the updates up to this one
  queue,      \* the channel: updates fetched and not taken yet
  phase,      \* of the process
  step,       \* of the handler
  current,    \* the update being handled, 0 for none
  cache,      \* muteStore.cache: entries of a host and an end
  table,      \* the mutes table, entries of the same form
  told,       \* history: what the chat may rely on, for each host
  answers,    \* history: how often the bot has sent an answer to each update;
              \* it ignores whether Telegram takes it
  dropped,    \* history: updates that a crash or a stop took from the channel
  spent       \* what has been used of each bound

vars == <<now, chat, confirmed, polled, queue, phase, step, current, cache, table,
          told, answers, dropped, spent>>

channel == <<confirmed, polled, queue>>
history == <<told, answers, dropped>>

Ids     == 1..MaxUpdates
Entry   == [host : Hosts, until : Int]
Limits  == [crashes |-> MaxCrashes, stops |-> MaxStops, faults |-> MaxFaults]

Spend(what) ==
  /\ spent[what] < Limits[what]
  /\ spent' = [spent EXCEPT ![what] = @ + 1]

-----------------------------------------------------------------------------
(* Durations, entries and the two stores.                                   *)

\* time.Duration(mins) * time.Minute in 64 bits.
Duration(mins) == ((mins * Minute + Half) % (2 * Half)) - Half

\* Small enough for the product not to wrap.
Representable(mins) == mins * Minute < Half

\* Variant: an end already there is kept.
PutKeeping(entries, h, until) ==
  IF \E e \in entries : e.host = h THEN entries
  ELSE entries \cup {[host |-> h, until |-> until]}

\* Variant: an end already there stays beside the new one.
PutBeside(entries, h, until) == entries \cup {[host |-> h, until |-> until]}

\* An assignment to the map, and the upsert of SetMute.
Put(entries, h, until) ==
  {e \in entries : e.host # h} \cup {[host |-> h, until |-> until]}

\* delete on the map, and DeleteMute.
Drop(entries, h) == {e \in entries : e.host # h}

MutedIn(entries, h) == \E e \in entries : e.host = h /\ now < e.until

AllRows == table

ActiveRows == {e \in table : now < e.until}

\* GetMutes of either backend; isMuted does not see the difference.
GetMutes == IF KeepsExpired THEN AllRows ELSE ActiveRows

-----------------------------------------------------------------------------
(* What the chat may rely on: nothing, that a host is muted until a certain *)
(* time, or that it is not.                                                 *)

Nothing == [kind |-> "nothing", until |-> 0, saved |-> FALSE, exact |-> FALSE]

Promise == [kind : {"nothing", "mute", "unmute"}, until : Int,
            saved : BOOLEAN, exact : BOOLEAN]

Init ==
  /\ now = 0 /\ chat = <<>> /\ confirmed = 0 /\ polled = 0 /\ queue = <<>>
  /\ phase = "off" /\ step = "idle" /\ current = 0
  /\ cache = {} /\ table = {}
  /\ told = [h \in Hosts |-> Nothing]
  /\ answers = [id \in Ids |-> 0]
  /\ dropped = {}
  /\ spent = [what \in DOMAIN Limits |-> 0]

-----------------------------------------------------------------------------
(* Time, the users, and the client library.                                 *)

Tick ==
  /\ now < MaxNow
  /\ now' = now + 1
  /\ UNCHANGED <<chat, channel, phase, step, current, cache, table, history, spent>>

Send(u) ==
  /\ Len(chat) < MaxUpdates
  /\ chat' = Append(chat, u)
  /\ UNCHANGED <<now, channel, phase, step, current, cache, table, history, spent>>

\* Variant: the offset of the next poll stays behind.
PollAgain ==
  /\ phase = "up"
  /\ polled < Len(chat) \/ confirmed < polled
  /\ confirmed' = polled
  /\ queue' = queue \o [i \in 1..(Len(chat) - confirmed) |-> confirmed + i]
  /\ polled' = Len(chat)
  /\ UNCHANGED <<now, chat, phase, step, current, cache, table, history, spent>>

\* GetUpdatesChan: a poll confirms the earlier ones and fetches what is new.
Poll ==
  /\ phase = "up"
  /\ polled < Len(chat) \/ confirmed < polled
  /\ confirmed' = polled
  /\ queue' = queue \o [i \in 1..(Len(chat) - polled) |-> polled + i]
  /\ polled' = Len(chat)
  /\ UNCHANGED <<now, chat, phase, step, current, cache, table, history, spent>>

-----------------------------------------------------------------------------
(* The process.                                                             *)

\* newMuteStore: if GetMutes fails the map stays empty.
NewMuteStore ==
  \/ /\ cache' = GetMutes
     /\ told' = [h \in Hosts |-> IF told[h].saved THEN told[h] ELSE Nothing]
     /\ UNCHANGED spent
  \/ /\ Spend("faults")
     /\ cache' = {}
     /\ told' = [h \in Hosts |-> Nothing]

\* Variant: what waits at Telegram is skipped.
StartFromLatest ==
  /\ phase \in {"off", "crashed"}
  /\ phase' = "up"
  /\ NewMuteStore
  /\ polled' = Len(chat)
  /\ UNCHANGED <<now, chat, confirmed, queue, step, current, table, answers, dropped>>

\* main: the store, then polls from offset 0, which is what Telegram has not
\* forgotten.
Start ==
  /\ phase \in {"off", "crashed"}
  /\ phase' = "up"
  /\ NewMuteStore
  /\ polled' = confirmed
  /\ UNCHANGED <<now, chat, confirmed, queue, step, current, table, answers, dropped>>

\* Memory and channel are gone; what was confirmed will not come again.
Exit ==
  /\ cache' = {} /\ queue' = <<>> /\ step' = "idle" /\ current' = 0
  /\ dropped' = dropped \cup
       {id \in 1..confirmed : id \in ToSet(queue) \/ (id = current /\ step # "idle")}
  /\ UNCHANGED <<now, chat, confirmed, polled, table, told, answers>>

Crash == phase = "up" /\ Spend("crashes") /\ phase' = "crashed" /\ Exit

\* The quit channel is only looked at between two updates.
Stop == phase = "up" /\ step = "idle" /\ Spend("stops") /\ phase' = "off" /\ Exit

\* A panic in a handler is recovered in main, which returns with code 0.
Panic == phase = "up" /\ step # "idle" /\ Spend("crashes") /\ phase' = "off" /\ Exit

\* A start that Telegram does not answer returns from main with code 0.
AbortStart ==
  /\ phase = "crashed"
  /\ phase' = "off"
  /\ UNCHANGED <<now, chat, channel, step, current, cache, table, history, spent>>

-----------------------------------------------------------------------------
(* The handlers.                                                            *)

\* The first update in the channel, and taking it.
First == chat[Head(queue)]

Take ==
  /\ phase = "up" /\ step = "idle" /\ queue # <<>>
  /\ queue' = Tail(queue)
  /\ UNCHANGED <<now, chat, confirmed, polled, phase, dropped, spent>>

Permitted(u) == Allowed = {} \/ u.from \in Allowed

\* A message from a chat that is not permitted is turned away.
RefuseMessage ==
  /\ Take /\ ~Permitted(First) /\ First.via = "message"
  /\ answers' = [answers EXCEPT ![Head(queue)] = @ + 1]
  /\ UNCHANGED <<step, current, cache, table, told>>

\* A button pressed in such a chat does nothing at all.
IgnoreButton ==
  /\ Take /\ ~Permitted(First) /\ First.via = "button"
  /\ UNCHANGED <<step, current, cache, table, told, answers>>

\* handleMute wants a positive number.
RefuseMinutes ==
  /\ Take /\ Permitted(First) /\ First.kind = "mute" /\ First.mins <= 0
  /\ answers' = [answers EXCEPT ![Head(queue)] = @ + 1]
  /\ UNCHANGED <<step, current, cache, table, told>>

\* Until the confirmation the chat may rely on nothing.
Pending(until, exact) ==
  told' = [told EXCEPT ![First.host] =
             [kind |-> "nothing", until |-> until, saved |-> FALSE, exact |-> exact]]

\* handleMute, and mute up to the database: the map first.
HandleMute ==
  /\ Take /\ Permitted(First) /\ First.kind = "mute" /\ First.mins > 0
  /\ cache' = Put(cache, First.host, now + Duration(First.mins))
  /\ Pending(now + First.mins * Minute, Representable(First.mins))
  /\ step' = "setMute" /\ current' = Head(queue)
  /\ UNCHANGED <<table, answers>>

\* Unmute button, and unmute up to the database.
HandleUnmute ==
  /\ Take /\ Permitted(First) /\ First.kind = "unmute"
  /\ cache' = Drop(cache, First.host)
  /\ Pending(0, TRUE)
  /\ step' = "deleteMute" /\ current' = Head(queue)
  /\ UNCHANGED <<table, answers>>

Saved == told' = [told EXCEPT ![chat[current].host].saved = TRUE]

\* The database fails and the error is only logged.
Fault == Spend("faults") /\ UNCHANGED <<table, told>>

\* Variant: an error of the database ends the handler.
SetMuteOrGiveUp ==
  /\ step = "setMute"
  /\ \/ \E e \in cache :
          /\ e.host = chat[current].host
          /\ table' = Put(table, e.host, e.until)
          /\ Saved /\ step' = "reply"
          /\ UNCHANGED <<current, spent>>
     \/ Fault /\ step' = "idle" /\ current' = 0
  /\ UNCHANGED <<now, chat, channel, phase, cache, answers, dropped>>

\* SetMute: the end the map already holds.
SetMute ==
  /\ step = "setMute"
  /\ \/ \E e \in cache :
          /\ e.host = chat[current].host
          /\ table' = Put(table, e.host, e.until)
          /\ Saved
          /\ UNCHANGED spent
     \/ Fault
  /\ step' = "reply"
  /\ UNCHANGED <<now, chat, channel, phase, current, cache, answers, dropped>>

\* Variant: the row is left alone.
DeleteMuteNot ==
  /\ step = "deleteMute"
  /\ \/ Saved /\ UNCHANGED <<table, spent>>
     \/ Fault
  /\ step' = "reply"
  /\ UNCHANGED <<now, chat, channel, phase, current, cache, answers, dropped>>

\* DeleteMute.
DeleteMute ==
  /\ step = "deleteMute"
  /\ \/ /\ table' = Drop(table, chat[current].host)
        /\ Saved
        /\ UNCHANGED spent
     \/ Fault
  /\ step' = "reply"
  /\ UNCHANGED <<now, chat, channel, phase, current, cache, answers, dropped>>

\* The confirmation, sent whatever the database said.
Reply ==
  /\ step = "reply"
  /\ told' = [told EXCEPT ![chat[current].host].kind = chat[current].kind]
  /\ answers' = [answers EXCEPT ![current] = @ + 1]
  /\ step' = "idle" /\ current' = 0
  /\ UNCHANGED <<now, chat, channel, phase, cache, table, dropped, spent>>

Handler ==
  \/ RefuseMessage \/ IgnoreButton \/ RefuseMinutes
  \/ HandleMute \/ HandleUnmute \/ SetMute \/ DeleteMute \/ Reply

Next ==
  \/ Tick \/ Poll \/ Handler
  \/ \E u \in Updates : Send(u)
  \/ Start \/ AbortStart \/ Crash \/ Panic \/ Stop

Spec == Init /\ [][Next]_vars

\* docker (restart: on-failure) starts a crashed bot again; the library polls
\* and the loop of main goes on.
FairSpec ==
  Spec /\ WF_vars(phase = "crashed" /\ Start) /\ WF_vars(Poll) /\ WF_vars(Handler)

-----------------------------------------------------------------------------
(* Properties.                                                              *)

\* Every variable has its type; map and table hold a host at most once, and
\* a handler past "idle" has its update.
TypeOK ==
  /\ now \in Nat /\ chat \in Seq(Updates)
  /\ confirmed \in 0..Len(chat) /\ polled \in 0..Len(chat)
  /\ queue \in Seq(1..Len(chat))
  /\ phase \in {"off", "up", "crashed"}
  /\ step \in {"idle", "setMute", "deleteMute", "reply"}
  /\ current \in 0..Len(chat) /\ (step # "idle" => current # 0)
  /\ cache \subseteq Entry /\ table \subseteq Entry
  /\ \A e, f \in cache : e.host = f.host => e = f
  /\ \A e, f \in table : e.host = f.host => e = f
  /\ told \in [Hosts -> Promise] /\ answers \in [Ids -> Nat] /\ dropped \subseteq Ids
  /\ spent \in [DOMAIN Limits -> Nat]

\* A host the bot has confirmed as muted is muted for exactly the minutes it
\* named, over restarts as long as the row was written and read back, unless
\* the number was too large for a duration.
ConfirmedMuteHolds ==
  \A h \in Hosts :
    phase = "up" /\ told[h].kind = "mute" /\ told[h].exact
      => (MutedIn(cache, h) <=> now < told[h].until)

\* A host the bot has confirmed as not muted stays so until the next command;
\* over restarts as long as the row was deleted.
ConfirmedUnmuteHolds ==
  \A h \in Hosts : phase = "up" /\ told[h].kind = "unmute" => ~MutedIn(cache, h)

Accepted(u) == Permitted(u) /\ (u.kind = "mute" => u.mins > 0)

Newest(h) ==
  LET mine == {id \in DOMAIN chat : chat[id].host = h /\ Accepted(chat[id])}
  IN  IF mine = {} THEN 0 ELSE CHOOSE id \in mine : \A j \in mine : j <= id

AllHandled == phase = "up" /\ step = "idle" /\ queue = <<>> /\ polled = Len(chat)

\* However often a restart makes Telegram deliver the same updates again: once
\* all are handled, and none was dropped, the last word on a host is the newest.
NewestWins ==
  AllHandled /\ dropped = {} /\ spent.faults = 0 =>
    \A h \in Hosts : Newest(h) # 0 =>
      LET u == chat[Newest(h)] IN
        /\ told[h].kind = u.kind
        /\ u.kind = "unmute" => ~MutedIn(cache, h)

\* An update is answered twice only if the process ended in between.
AnsweredOnce ==
  \A id \in Ids : answers[id] <= 1 + spent.crashes + spent.stops

\* A button pressed where the bot is not to be used: handleCallback returns.
Ignored(u) == ~Permitted(u) /\ u.via = "button"

\* The bot sends an answer to every message and to every button pressed in a
\* chat that is permitted, also when it refuses what is asked; unless a crash or
\* a stop took the update out of the channel after Telegram had forgotten it,
\* or the bot is switched off.
EveryUpdateAnswered ==
  \A id \in Ids :
    (id <= Len(chat) /\ ~Ignored(chat[id]))
      ~> (answers[id] > 0 \/ id \in dropped \/ phase = "off")
=============================================================================
