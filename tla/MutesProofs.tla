----------------------------- MODULE MutesProofs -----------------------------
(***************************************************************************)
(* Proofs about the mutes, for every set of hosts, chats and updates, every *)
(* width of a duration, both backends and every value of the bounds: what  *)
(* the bot has confirmed is true.                                          *)
(***************************************************************************)
EXTENDS Mutes, SequenceTheorems, TLAPS

-----------------------------------------------------------------------------
(* The inductive invariant.                                                 *)

\* No entry for the host.
Free(entries, h) == \A e \in entries : e.host # h

\* At time n: an entry for the host ends at t, and there is one unless t is over.
Ends(entries, h, t, n) ==
  /\ \A e \in entries : e.host = h => e.until = t
  /\ n < t => \E e \in entries : e.host = h

\* Entries that at time n bear out an answer of that kind about the host.
Bears(entries, h, kind, promise, n) ==
  /\ kind = "unmute" => Free(entries, h)
  /\ kind = "mute" /\ promise.exact => Ends(entries, h, promise.until, n)

\* The map bears out what the chat was told.
CacheBears ==
  phase = "up" => \A h \in Hosts : Bears(cache, h, told[h].kind, told[h], now)

\* So does the table, where the row was written.
TableBears ==
  \A h \in Hosts : told[h].saved => Bears(table, h, told[h].kind, told[h], now)

\* Until the answer is given the map, and then the table, will bear it out.
WillHold(u) ==
  /\ phase = "up"
  /\ told[u.host].kind = "nothing"
  /\ Bears(cache, u.host, u.kind, told[u.host], now)
  /\ step = "setMute" => u.kind = "mute" /\ ~told[u.host].saved
  /\ step = "deleteMute" => u.kind = "unmute" /\ ~told[u.host].saved
  /\ step = "reply" /\ told[u.host].saved
       => Bears(table, u.host, u.kind, told[u.host], now)

AnswerWillHold == step # "idle" => WillHold(chat[current])

Core == CacheBears /\ TableBears /\ AnswerWillHold

\* The last update that was taken out of the channel.
Reached == polled - Len(queue)

\* The channel holds what follows it, in order; the handler is at it; a process
\* that is not up has neither.
ChannelInOrder ==
  /\ \A i \in 1..Len(queue) : queue[i] = Reached + i
  /\ step = "idle" => current = 0
  /\ step # "idle" => current = Reached
  /\ phase = "up" => confirmed <= polled /\ Reached >= 0
  /\ phase # "up" => queue = <<>> /\ step = "idle"

\* An update the running process has dealt with.
DealtWith(id) == phase = "up" /\ id <= Reached /\ id # current

\* Beyond the end of a process an update is only answered once.
AnswersCounted ==
  \A id \in Ids :
    answers[id] <= spent.crashes + spent.stops + (IF DealtWith(id) THEN 1 ELSE 0)

\* What is refused never gets as far as the stores.
HandlesAccepted == step # "idle" => Accepted(chat[current])

\* An update that this process, or the next one, has still to deal with.
ToCome(id) == IF phase = "up" THEN id > Reached \/ id = current ELSE id > confirmed

\* The accepted updates about a host.
About(h) == {id \in DOMAIN chat : chat[id].host = h /\ Accepted(chat[id])}

\* If there is one there is a newest one.
NewestExists == \A h \in Hosts : About(h) # {} => \E id \in About(h) : \A j \in About(h) : j <= id

\* What was not dropped is still to come, or was the last word and is saved.
NewestKept ==
  dropped = {} /\ spent.faults = 0 =>
    /\ \A h \in Hosts : Newest(h) # 0 =>
         \/ ToCome(Newest(h))
         \/ told[h].kind = chat[Newest(h)].kind /\ told[h].saved
    /\ step = "reply" => told[chat[current].host].saved

IInv ==
  /\ TypeOK /\ Len(chat) <= MaxUpdates
  /\ Core /\ ChannelInOrder /\ AnswersCounted
  /\ HandlesAccepted /\ NewestExists /\ NewestKept

-----------------------------------------------------------------------------
(* Durations.                                                               *)

\* A number below the modulus is its own remainder.
LEMMA SmallRemainder ==
  ASSUME NEW a \in Nat, NEW n \in Nat \ {0}, a < n
  PROVE  a % n = a
OBVIOUS

\* A duration that does not wrap is what was asked for.
LEMMA DurationExact ==
  ASSUME NEW mins \in Int, mins > 0, Representable(mins)
  PROVE  Duration(mins) = mins * Minute
<1>. DEFINE x == mins * Minute
<1>1. Half \in Nat \ {0} /\ Minute \in Nat \ {0}
  BY MutesAssumption
<1>2. x \in Int /\ x >= 0 /\ x < Half
  BY <1>1 DEF Representable
<1>. HIDE DEF x
<1>3. x + Half \in Nat /\ 2 * Half \in Nat \ {0} /\ x + Half < 2 * Half
  BY <1>1, <1>2
<1>4. (x + Half) % (2 * Half) = x + Half
  BY <1>3, SmallRemainder
<1>5. ((x + Half) % (2 * Half)) - Half = x
  BY <1>1, <1>2, <1>4
<1>. QED  BY <1>5 DEF Duration, x

\* A duration that wraps is still a number.
LEMMA DurationType ==
  ASSUME NEW mins \in Int
  PROVE  Duration(mins) \in Int /\ mins * Minute \in Int
<1>1. Half \in Nat \ {0} /\ Minute \in Nat \ {0}
  BY MutesAssumption
<1>2. mins * Minute \in Int
  BY <1>1
<1>3. mins * Minute + Half \in Int /\ 2 * Half \in Nat \ {0}
  BY <1>1, <1>2
<1>4. (mins * Minute + Half) % (2 * Half) \in Int
  BY <1>3
<1>. QED  BY <1>1, <1>2, <1>4 DEF Duration

-----------------------------------------------------------------------------
(* Types.                                                                   *)

\* The three kinds of disturbance.
LEMMA LimitsDomain == DOMAIN Limits = {"crashes", "stops", "faults"}
BY DEF Limits

\* Spending from a bound keeps the account well formed.
LEMMA SpendType ==
  ASSUME TypeOK, NEW what \in DOMAIN Limits, Spend(what)
  PROVE  /\ spent' \in [DOMAIN Limits -> Nat]
         /\ spent'[what] = spent[what] + 1
         /\ \A other \in DOMAIN Limits : other # what => spent'[other] = spent[other]
<1>. DEFINE D == DOMAIN Limits
<1>1. spent \in [D -> Nat] /\ spent' = [spent EXCEPT ![what] = spent[what] + 1] /\ what \in D
  BY DEF TypeOK, Spend
<1>. HIDE DEF D
<1>2. /\ spent' \in [D -> Nat] /\ spent'[what] = spent[what] + 1
      /\ \A other \in D : other # what => spent'[other] = spent[other]
  BY <1>1
<1>. QED  BY <1>2 DEF D

\* What is sent is appended and changes nothing before it.
LEMMA SendFacts ==
  ASSUME TypeOK, NEW u \in Updates, Send(u)
  PROVE  /\ chat' \in Seq(Updates) /\ Len(chat) \in Nat /\ Len(chat') = Len(chat) + 1
         /\ DOMAIN chat = 1..Len(chat) /\ DOMAIN chat' = 1..Len(chat')
         /\ \A id \in 1..Len(chat) : chat'[id] = chat[id]
         /\ chat'[Len(chat')] = u
         /\ queue' = queue /\ queue' \in Seq(1..Len(chat'))
<1>1. chat \in Seq(Updates) /\ chat' = Append(chat, u)
  BY DEF TypeOK, Send
<1>2. /\ chat' \in Seq(Updates) /\ Len(chat) \in Nat /\ Len(chat') = Len(chat) + 1
      /\ \A id \in 1..Len(chat) : chat'[id] = chat[id]
      /\ chat'[Len(chat) + 1] = u
  BY <1>1, AppendProperties, LenProperties
<1>3. DOMAIN chat = 1..Len(chat) /\ DOMAIN chat' = 1..Len(chat')
  BY <1>1, <1>2, LenProperties
<1>4. queue \in Seq(1..Len(chat)) /\ queue' = queue
  BY DEF TypeOK, Send, channel
<1>5. 1..Len(chat) \subseteq 1..Len(chat')
  BY <1>2
<1>6. queue \in Seq(1..Len(chat'))
  BY <1>4, <1>5, SeqMonotonic
<1>. QED  BY <1>2, <1>3, <1>4, <1>6

\* A poll puts the updates behind the last one fetched at the end of the
\* channel.
LEMMA PollFacts ==
  ASSUME TypeOK, Poll
  PROVE  /\ queue' \in Seq(1..Len(chat)) /\ Len(queue) \in Nat /\ Len(chat) \in Nat
         /\ Len(queue') = Len(queue) + (Len(chat) - polled)
         /\ \A i \in 1..Len(queue') :
              queue'[i] = IF i <= Len(queue) THEN queue[i] ELSE polled + (i - Len(queue))
<1>. DEFINE n == Len(chat) - polled
            new == [i \in 1..n |-> polled + i]
            S == 1..Len(chat)
<1>1. Len(chat) \in Nat /\ polled \in 0..Len(chat) /\ queue \in Seq(S)
  BY LenProperties DEF TypeOK
<1>2. n \in Nat /\ new \in [1..n -> S]
  BY <1>1
<1>3. new \in Seq(S)
  BY <1>2, SeqDef
<1>4. Len(new) = n
  <2>1. DOMAIN new = 1..n /\ DOMAIN new = 1..Len(new) /\ Len(new) \in Nat
    BY <1>3, LenProperties
  <2>. HIDE DEF new, n
  <2>. QED  BY <1>2, <2>1
<1>5. queue' = queue \o new
  BY DEF Poll
<1>6. \A i \in 1..n : new[i] = polled + i
  OBVIOUS
<1>7. Len(queue) \in Nat
  BY <1>1, LenProperties
<1>. HIDE DEF new, S
<1>8. /\ queue' \in Seq(S) /\ Len(queue') = Len(queue) + n
      /\ \A i \in 1..(Len(queue) + n) :
           queue'[i] = IF i <= Len(queue) THEN queue[i] ELSE new[i - Len(queue)]
  BY <1>1, <1>3, <1>4, <1>5, ConcatProperties, ZenonT(60)
<1>9. ASSUME NEW i \in 1..(Len(queue) + n), ~(i <= Len(queue))
      PROVE  queue'[i] = polled + (i - Len(queue))
  <2>1. i - Len(queue) \in 1..n
    BY <1>2, <1>7, <1>9
  <2>. QED  BY <1>6, <1>8, <1>9, <2>1
<1>. QED  BY <1>1, <1>7, <1>8, <1>9 DEF S

\* The handler takes the first update of the channel.
LEMMA TakeFacts ==
  ASSUME TypeOK, Take
  PROVE  /\ Head(queue) \in 1..Len(chat) /\ Head(queue) = queue[1]
         /\ First \in Updates /\ First.host \in Hosts /\ First.mins \in Int
         /\ First.kind \in {"mute", "unmute"}
         /\ queue' \in Seq(1..Len(chat)) /\ Len(queue) \in Nat \ {0}
         /\ Len(queue') = Len(queue) - 1
         /\ \A i \in 1..Len(queue') : queue'[i] = queue[i + 1]
<1>1. queue \in Seq(1..Len(chat)) /\ queue # <<>> /\ queue' = Tail(queue)
  BY DEF TypeOK, Take
<1>2. /\ Head(queue) \in 1..Len(chat) /\ queue' \in Seq(1..Len(chat))
      /\ Len(queue') = Len(queue) - 1
      /\ \A i \in 1..Len(queue') : queue'[i] = queue[i + 1]
  BY <1>1, HeadTailProperties
<1>3. Len(queue) \in Nat \ {0} /\ Head(queue) = queue[1]
  BY <1>1, EmptySeq
<1>4. First \in Updates
  BY <1>2, ElementOfSeq DEF First, TypeOK
<1>5. First.host \in Hosts /\ First.mins \in Int /\ First.kind \in {"mute", "unmute"}
  BY <1>4, MutesAssumption
<1>. QED  BY <1>2, <1>3, <1>4, <1>5

\* Past "idle" the handler has an update.
LEMMA CurrentFacts ==
  ASSUME TypeOK, step # "idle"
  PROVE  /\ current \in 1..Len(chat)
         /\ chat[current] \in Updates /\ chat[current].host \in Hosts
         /\ chat[current].kind \in {"mute", "unmute"}
<1>1. current \in 1..Len(chat)
  BY LenProperties DEF TypeOK
<1>2. chat[current] \in Updates
  BY <1>1, ElementOfSeq DEF TypeOK
<1>. QED  BY <1>1, <1>2, MutesAssumption

\* Putting and dropping keep at most one entry of a host.
LEMMA EntriesType ==
  ASSUME NEW entries \in SUBSET Entry, NEW h \in Hosts, NEW t \in Int,
         \A e, f \in entries : e.host = f.host => e = f
  PROVE  /\ Put(entries, h, t) \subseteq Entry /\ Drop(entries, h) \subseteq Entry
         /\ \A e, f \in Put(entries, h, t) : e.host = f.host => e = f
         /\ \A e, f \in Drop(entries, h) : e.host = f.host => e = f
<1>1. [host |-> h, until |-> t] \in Entry /\ [host |-> h, until |-> t].host = h
  BY DEF Entry
<1>. DEFINE new == [host |-> h, until |-> t]
<1>2. Put(entries, h, t) = {e \in entries : e.host # h} \cup {new}
  BY DEF Put
<1>. HIDE DEF new
<1>. QED  BY <1>1, <1>2 DEF Drop, new

\* Counting an answer.
LEMMA AnswersType ==
  ASSUME TypeOK, NEW id, answers' = [answers EXCEPT ![id] = @ + 1]
  PROVE  answers' \in [Ids -> Nat]
<1>1. answers \in [Ids -> Nat]
  BY DEF TypeOK
<1>2. CASE id \in Ids
  BY <1>1, <1>2
<1>3. CASE id \notin Ids
  BY <1>1, <1>3
<1>. QED  BY <1>2, <1>3

\* A change of one promise.
LEMMA ToldType ==
  ASSUME TypeOK, NEW h \in Hosts, NEW p \in Promise, told' = [told EXCEPT ![h] = p]
  PROVE  told' \in [Hosts -> Promise]
BY DEF TypeOK

\* The end of the process keeps every type.
LEMMA ExitType ==
  ASSUME TypeOK, Len(chat) <= MaxUpdates, Exit,
         phase' \in {"off", "crashed"}, spent' \in [DOMAIN Limits -> Nat]
  PROVE  TypeOK'
<1>1. cache' = {} /\ queue' = <<>> /\ step' = "idle" /\ current' = 0
      /\ UNCHANGED <<now, chat, confirmed, polled, table, told, answers>>
  BY DEF Exit
<1>2. Len(chat) \in Nat /\ confirmed \in 0..Len(chat) /\ MaxUpdates \in Nat
  BY LenProperties, MutesAssumption DEF TypeOK
<1>3. 1..confirmed \subseteq Ids
  BY <1>2 DEF Ids
<1>4. dropped' \subseteq Ids
  BY <1>3 DEF Exit, TypeOK
<1>5. <<>> \in Seq(1..Len(chat))
  BY EmptySeq
<1>6. current' \in 0..Len(chat)
  BY <1>1, <1>2
<1>. QED  BY <1>1, <1>4, <1>5, <1>6 DEF TypeOK

\* One step per action.
LEMMA TypeStep == TypeOK /\ Len(chat) <= MaxUpdates /\ [Next]_vars => TypeOK'
<1>. SUFFICES ASSUME TypeOK, Len(chat) <= MaxUpdates, [Next]_vars PROVE TypeOK'
  OBVIOUS
<1>. USE LimitsDomain
<1>0. Len(chat) \in Nat
  BY LenProperties DEF TypeOK
<1>e. /\ cache \in SUBSET Entry /\ \A e, f \in cache : e.host = f.host => e = f
      /\ table \in SUBSET Entry /\ \A e, f \in table : e.host = f.host => e = f
  BY DEF TypeOK
<1>1. CASE UNCHANGED vars
  BY <1>1 DEF TypeOK, vars
<1>2. CASE Tick
  BY <1>2 DEF TypeOK, Tick, channel, history
<1>3. ASSUME NEW u \in Updates, Send(u) PROVE TypeOK'
  <2>1. /\ confirmed' \in 0..Len(chat') /\ polled' \in 0..Len(chat')
        /\ current' \in 0..Len(chat') /\ (step' # "idle" => current' # 0)
    BY <1>3, SendFacts DEF TypeOK, Send, channel
  <2>2. chat' \in Seq(Updates) /\ queue' \in Seq(1..Len(chat'))
    BY <1>3, SendFacts
  <2>. QED  BY <1>3, <2>1, <2>2 DEF TypeOK, Send, history
<1>4. CASE Poll
  <2>1. queue' \in Seq(1..Len(chat))
    BY <1>4, PollFacts
  <2>2. confirmed' \in 0..Len(chat) /\ polled' \in 0..Len(chat)
    BY <1>0, <1>4 DEF TypeOK, Poll
  <2>. QED  BY <1>4, <2>1, <2>2 DEF TypeOK, Poll, history
<1>5. CASE Start
  <2>1. cache' \subseteq Entry /\ (\A e, f \in cache' : e.host = f.host => e = f)
    BY <1>5 DEF TypeOK, Start, NewMuteStore, GetMutes, AllRows, ActiveRows
  <2>2. Nothing \in Promise
    BY DEF Nothing, Promise
  <2>3. told' \in [Hosts -> Promise]
    BY <1>5, <2>2 DEF TypeOK, Start, NewMuteStore
  <2>4. spent' \in [DOMAIN Limits -> Nat]
    BY <1>5, SpendType DEF TypeOK, Start, NewMuteStore
  <2>. QED  BY <1>5, <2>1, <2>3, <2>4 DEF TypeOK, Start
<1>6. CASE AbortStart
  BY <1>6 DEF TypeOK, AbortStart, channel, history
<1>7. CASE Crash \/ Panic \/ Stop
  BY <1>7, SpendType, ExitType DEF Crash, Panic, Stop
<1>8. CASE RefuseMessage \/ IgnoreButton \/ RefuseMinutes
  <2>1. queue' \in Seq(1..Len(chat)) /\ answers' \in [Ids -> Nat]
    BY <1>8, TakeFacts, AnswersType DEF TypeOK, RefuseMessage, IgnoreButton, RefuseMinutes
  <2>. QED  BY <1>8, <2>1 DEF TypeOK, RefuseMessage, IgnoreButton, RefuseMinutes, Take
<1>9. CASE HandleMute
  <2>1. Take /\ First.host \in Hosts /\ First.mins \in Int
        /\ Head(queue) \in 1..Len(chat) /\ queue' \in Seq(1..Len(chat))
    BY <1>9, TakeFacts DEF HandleMute
  <2>2. Duration(First.mins) \in Int /\ First.mins * Minute \in Int /\ now \in Int
    <3>1. now \in Int
      BY DEF TypeOK
    <3>2. \A mins \in Int : Duration(mins) \in Int /\ mins * Minute \in Int
      BY DurationType
    <3>. QED  BY <2>1, <3>1, <3>2
  <2>3. cache' \subseteq Entry /\ (\A e, f \in cache' : e.host = f.host => e = f)
    <3>. DEFINE h == First.host
                t == now + Duration(First.mins)
    <3>1. h \in Hosts /\ t \in Int /\ cache' = Put(cache, h, t)
      BY <1>9, <2>1, <2>2 DEF HandleMute
    <3>. HIDE DEF h, t
    <3>. QED  BY <1>e, <3>1, EntriesType
  <2>4. [kind |-> "nothing", until |-> now + First.mins * Minute, saved |-> FALSE,
         exact |-> Representable(First.mins)] \in Promise
    BY <2>2 DEF Promise, Representable
  <2>5. told' \in [Hosts -> Promise]
    BY <1>9, <2>1, <2>4 DEF TypeOK, HandleMute, Pending
  <2>. QED  BY <1>0, <1>9, <2>1, <2>3, <2>5, SMTT(30) DEF TypeOK, HandleMute, Take
<1>10. CASE HandleUnmute
  <2>1. Take /\ First.host \in Hosts
        /\ Head(queue) \in 1..Len(chat) /\ queue' \in Seq(1..Len(chat))
    BY <1>10, TakeFacts DEF HandleUnmute
  <2>2. cache' \subseteq Entry /\ (\A e, f \in cache' : e.host = f.host => e = f)
    <3>1. cache' = Drop(cache, First.host)
      BY <1>10 DEF HandleUnmute
    <3>. QED  BY <1>e, <3>1 DEF Drop
  <2>3. [kind |-> "nothing", until |-> 0, saved |-> FALSE, exact |-> TRUE] \in Promise
    BY DEF Promise
  <2>4. told' \in [Hosts -> Promise]
    BY <1>10, <2>1, <2>3 DEF TypeOK, HandleUnmute, Pending
  <2>. QED  BY <1>0, <1>10, <2>1, <2>2, <2>4, SMTT(30) DEF TypeOK, HandleUnmute, Take
<1>11. ASSUME step # "idle", Saved PROVE told' \in [Hosts -> Promise]
  <2>. DEFINE h == chat[current].host
  <2>1. h \in Hosts /\ told[h] \in Promise
    BY <1>11, CurrentFacts DEF TypeOK
  <2>2. [told[h] EXCEPT !.saved = TRUE] \in Promise
    BY <2>1 DEF Promise
  <2>3. told' = [told EXCEPT ![h] = [told[h] EXCEPT !.saved = TRUE]]
    BY <1>11 DEF Saved
  <2>. QED  BY <2>1, <2>2, <2>3, ToldType
<1>12. CASE SetMute
  <2>1. step = "setMute"
    BY <1>12 DEF SetMute
  <2>2. CASE \E e \in cache : /\ e.host = chat[current].host
                              /\ table' = Put(table, e.host, e.until)
                              /\ Saved /\ UNCHANGED spent
    <3>1. PICK e \in cache : table' = Put(table, e.host, e.until)
      BY <2>2
    <3>. DEFINE h == e.host
                t == e.until
    <3>2. h \in Hosts /\ t \in Int /\ table' = Put(table, h, t)
      BY <3>1 DEF TypeOK, Entry
    <3>. HIDE DEF h, t
    <3>3. table' \subseteq Entry /\ \A f, g \in table' : f.host = g.host => f = g
      BY <1>e, <3>2, EntriesType
    <3>4. told' \in [Hosts -> Promise] /\ spent' = spent
      BY <1>11, <2>1, <2>2
    <3>. QED  BY <1>12, <3>3, <3>4 DEF TypeOK, SetMute, channel
  <2>3. CASE Fault
    <3>1. spent' \in [DOMAIN Limits -> Nat] /\ UNCHANGED <<table, told>>
      BY <2>3, SpendType DEF Fault
    <3>. QED  BY <1>12, <3>1 DEF TypeOK, SetMute, channel
  <2>. QED  BY <1>12, <2>2, <2>3 DEF SetMute
<1>13. CASE DeleteMute
  <2>1. step = "deleteMute" /\ chat[current].host \in Hosts
    BY <1>13, CurrentFacts DEF DeleteMute
  <2>2. CASE table' = Drop(table, chat[current].host) /\ Saved /\ UNCHANGED spent
    <3>1. table' \subseteq Entry /\ \A f, g \in table' : f.host = g.host => f = g
      BY <2>2 DEF TypeOK, Drop
    <3>2. told' \in [Hosts -> Promise] /\ spent' = spent
      BY <1>11, <2>1, <2>2
    <3>. QED  BY <1>13, <3>1, <3>2 DEF TypeOK, DeleteMute, channel
  <2>3. CASE Fault
    <3>1. spent' \in [DOMAIN Limits -> Nat] /\ UNCHANGED <<table, told>>
      BY <2>3, SpendType DEF Fault
    <3>. QED  BY <1>13, <3>1 DEF TypeOK, DeleteMute, channel
  <2>. QED  BY <1>13, <2>2, <2>3 DEF DeleteMute
<1>14. CASE Reply
  <2>1. step = "reply"
    BY <1>14 DEF Reply
  <2>. DEFINE h == chat[current].host
  <2>2. h \in Hosts /\ told[h] \in Promise /\ chat[current].kind \in {"mute", "unmute"}
    BY <2>1, CurrentFacts DEF TypeOK
  <2>3. [told[h] EXCEPT !.kind = chat[current].kind] \in Promise
    BY <2>2 DEF Promise
  <2>4. told' = [told EXCEPT ![h] = [told[h] EXCEPT !.kind = chat[current].kind]]
    BY <1>14 DEF Reply
  <2>. HIDE DEF h
  <2>5. told' \in [Hosts -> Promise]
    BY <2>2, <2>3, <2>4, ToldType
  <2>6. answers' \in [Ids -> Nat]
    BY <1>14, AnswersType DEF Reply
  <2>. QED  BY <1>0, <1>14, <2>5, <2>6 DEF TypeOK, Reply, channel
<1>. QED
  BY <1>1, <1>2, <1>3, <1>4, <1>5, <1>6, <1>7, <1>8, <1>9, <1>10, <1>12, <1>13, <1>14
  DEF Next, Handler

-----------------------------------------------------------------------------
(* What the bot has confirmed is true.                                      *)

\* What an answer rests on does not change with time, ...
LEMMA BearsLater ==
  ASSUME NEW E, NEW h, NEW kind, NEW p \in Promise, NEW n \in Nat, NEW later \in Nat,
         later >= n, Bears(E, h, kind, p, n)
  PROVE  Bears(E, h, kind, p, later)
<1>1. p.until \in Int
  BY DEF Promise
<1>. QED  BY <1>1 DEF Bears, Ends

\* ... nor with the entries of other hosts, ...
LEMMA BearsSame ==
  ASSUME NEW E, NEW F, NEW h, NEW kind, NEW p, NEW n,
         \A e : e.host = h => (e \in E <=> e \in F),
         Bears(E, h, kind, p, n)
  PROVE  Bears(F, h, kind, p, n)
BY DEF Bears, Ends, Free

\* ... nor with what has expired.
LEMMA BearsActive ==
  ASSUME NEW E, NEW h, NEW kind, NEW p, NEW n, Bears(E, h, kind, p, n)
  PROVE  Bears({e \in E : n < e.until}, h, kind, p, n)
BY DEF Bears, Ends, Free

\* A promise and the kind it is about to take.
LEMMA BearsPromise ==
  ASSUME NEW E, NEW h, NEW kind, NEW p, NEW q, NEW n, p.exact = q.exact, p.until = q.until
  PROVE  Bears(E, h, kind, p, n) <=> Bears(E, h, kind, q, n)
BY DEF Bears

\* What the answer to u rests on, piece by piece.
LEMMA WillHoldIntro ==
  ASSUME NEW u, NEW p, chat'[current'] = u, told'[u.host] = p, phase' = "up",
         p.kind = "nothing", Bears(cache', u.host, u.kind, p, now'),
         step' = "setMute" => u.kind = "mute" /\ ~p.saved,
         step' = "deleteMute" => u.kind = "unmute" /\ ~p.saved,
         step' = "reply" /\ p.saved => Bears(table', u.host, u.kind, p, now')
  PROVE  AnswerWillHold'
BY DEF AnswerWillHold, WillHold

\* Steps that leave the promises and both stores alone: time only goes on, and
\* what was sent stays as it is.
LEMMA QuietCore ==
  ASSUME TypeOK, Core,
         UNCHANGED <<step, current, cache, table, told>>,
         now' \in Nat, now' >= now,
         phase' = "up" => phase = "up", step # "idle" => phase' = phase,
         step # "idle" => chat'[current] = chat[current]
  PROVE  Core'
<1>1. now \in Nat /\ \A h \in Hosts : told[h] \in Promise
  BY DEF TypeOK
<1>2. ASSUME NEW E, NEW h \in Hosts, NEW kind, Bears(E, h, kind, told[h], now)
      PROVE  Bears(E, h, kind, told[h], now')
  BY <1>1, <1>2, BearsLater
<1>3. CacheBears'
  BY <1>2 DEF Core, CacheBears
<1>4. TableBears'
  BY <1>2 DEF Core, TableBears
<1>5. ASSUME step # "idle" PROVE AnswerWillHold'
  <2>. DEFINE u == chat[current]
              p == told[u.host]
  <2>1. WillHold(u) /\ u.host \in Hosts /\ chat'[current'] = u /\ told'[u.host] = p
    BY <1>5, CurrentFacts DEF Core, AnswerWillHold
  <2>. HIDE DEF u
  <2>2. /\ phase = "up" /\ p.kind = "nothing" /\ Bears(cache, u.host, u.kind, p, now)
        /\ step = "setMute" => u.kind = "mute" /\ ~p.saved
        /\ step = "deleteMute" => u.kind = "unmute" /\ ~p.saved
        /\ step = "reply" /\ p.saved => Bears(table, u.host, u.kind, p, now)
    BY <2>1 DEF WillHold
  <2>3. /\ Bears(cache, u.host, u.kind, p, now')
        /\ step = "reply" /\ p.saved => Bears(table, u.host, u.kind, p, now')
    BY <1>2, <2>1, <2>2
  <2>. HIDE DEF p
  <2>. QED  BY <1>5, <2>1, <2>2, <2>3, WillHoldIntro
<1>6. ASSUME step = "idle" PROVE AnswerWillHold'
  BY <1>6 DEF AnswerWillHold
<1>. QED  BY <1>3, <1>4, <1>5, <1>6 DEF Core

\* The end of the process takes the map and the handler with it.
LEMMA ExitCore ==
  ASSUME Core, Exit, phase' # "up"
  PROVE  Core'
<1>1. step' = "idle" /\ UNCHANGED <<now, table, told>>
  BY DEF Exit
<1>. QED  BY <1>1 DEF Core, CacheBears, TableBears, AnswerWillHold

\* A new process relies on what is in the table, whichever rows GetMutes
\* returns.
LEMMA StartCore ==
  ASSUME TypeOK, Core, ChannelInOrder, Start
  PROVE  Core'
<1>1. step = "idle" /\ UNCHANGED <<now, step, table>>
  BY DEF Start, ChannelInOrder
<1>2. ASSUME NEW h \in Hosts, told'[h] # Nothing
      PROVE  told'[h] = told[h] /\ told[h].saved /\ cache' = GetMutes
  BY <1>2 DEF Start, NewMuteStore
<1>3. Nothing.kind = "nothing" /\ Nothing.saved = FALSE
  BY DEF Nothing
<1>4. ASSUME NEW h \in Hosts, told'[h] # Nothing
      PROVE  /\ Bears(table', h, told'[h].kind, told'[h], now')
             /\ Bears(cache', h, told'[h].kind, told'[h], now')
  <2>1. Bears(table, h, told[h].kind, told[h], now)
    BY <1>2, <1>4 DEF Core, TableBears
  <2>2. cache' = table \/ cache' = {e \in table : now < e.until}
    BY <1>2, <1>4 DEF GetMutes, AllRows, ActiveRows
  <2>. QED  BY <1>1, <1>2, <1>4, <2>1, <2>2, BearsActive
<1>5. ASSUME NEW h \in Hosts, told'[h] = Nothing
      PROVE  Bears(cache', h, told'[h].kind, told'[h], now')
  BY <1>3, <1>5 DEF Bears
<1>6. CacheBears' /\ TableBears'
  BY <1>3, <1>4, <1>5 DEF CacheBears, TableBears
<1>. QED  BY <1>1, <1>6 DEF Core, AnswerWillHold

\* An update that begins to be handled takes back what was promised about its
\* host; the other hosts are not touched.
LEMMA HandleCore ==
  ASSUME TypeOK, Core, Take, NEW until \in Int, NEW exact \in BOOLEAN,
         Pending(until, exact), UNCHANGED table,
         step' \in {"setMute", "deleteMute"}, current' = Head(queue),
         step' = "setMute" => First.kind = "mute",
         step' = "deleteMute" => First.kind = "unmute",
         \A e : e.host # First.host => (e \in cache <=> e \in cache'),
         First.kind = "unmute" => Free(cache', First.host),
         First.kind = "mute" /\ exact => Ends(cache', First.host, until, now)
  PROVE  Core'
<1>. DEFINE h == First.host
            p == [kind |-> "nothing", until |-> until, saved |-> FALSE, exact |-> exact]
<1>1. h \in Hosts /\ phase = "up" /\ UNCHANGED <<now, chat, phase>>
  BY TakeFacts DEF Take
<1>2. told'[h] = p /\ p.kind = "nothing" /\ p.saved = FALSE /\ p.exact = exact /\ p.until = until
  BY <1>1 DEF Pending, TypeOK
<1>3. ASSUME NEW g \in Hosts, g # h PROVE told'[g] = told[g]
  BY <1>3 DEF Pending, TypeOK
<1>4. chat'[current'] = First
  BY <1>1 DEF First
<1>. HIDE DEF p
<1>5. ASSUME NEW g \in Hosts PROVE Bears(cache', g, told'[g].kind, told'[g], now')
  <2>1. CASE g = h
    BY <1>2, <2>1 DEF Bears
  <2>2. CASE g # h
    <3>1. Bears(cache, g, told[g].kind, told[g], now)
      BY <1>1 DEF Core, CacheBears
    <3>2. \A e : e.host = g => (e \in cache <=> e \in cache')
      BY <2>2
    <3>3. Bears(cache', g, told[g].kind, told[g], now)
      BY <3>1, <3>2, BearsSame
    <3>. QED  BY <1>1, <1>3, <2>2, <3>3
  <2>. QED  BY <2>1, <2>2
<1>6. ASSUME NEW g \in Hosts, told'[g].saved
      PROVE  Bears(table', g, told'[g].kind, told'[g], now')
  <2>1. g # h
    BY <1>2, <1>6
  <2>. QED  BY <1>1, <1>3, <1>6, <2>1 DEF Core, TableBears
<1>7. Bears(cache', h, First.kind, told'[h], now')
  BY <1>1, <1>2 DEF Bears
<1>8. AnswerWillHold'
  <2>. DEFINE u == First
  <2>1. /\ chat'[current'] = u /\ told'[u.host] = p /\ phase' = "up"
        /\ Bears(cache', u.host, u.kind, p, now')
    BY <1>1, <1>2, <1>4, <1>7
  <2>2. /\ step' = "setMute" => u.kind = "mute"
        /\ step' = "deleteMute" => u.kind = "unmute"
        /\ step' # "reply"
    OBVIOUS
  <2>. HIDE DEF u
  <2>. QED  BY <1>2, <2>1, <2>2, WillHoldIntro
<1>. QED  BY <1>5, <1>6, <1>8 DEF Core, CacheBears, TableBears


\* The row takes the end that the map holds, and is then good for as much.
LEMMA SetMuteCore ==
  ASSUME TypeOK, Core, SetMute
  PROVE  Core'
<1>. DEFINE u == chat[current]
            h == u.host
            p == told[h]
            q == [p EXCEPT !.saved = TRUE]
<1>1. /\ step = "setMute" /\ step' = "reply" /\ current \in 1..Len(chat) /\ h \in Hosts
      /\ UNCHANGED <<now, chat, phase, current, cache>>
  BY CurrentFacts DEF SetMute
<1>2. /\ phase = "up" /\ p.kind = "nothing" /\ u.kind = "mute" /\ p.saved = FALSE
      /\ Bears(cache, h, u.kind, p, now) /\ p \in Promise
  BY <1>1 DEF Core, AnswerWillHold, WillHold, TypeOK, Promise
<1>3. ASSUME Fault PROVE Core'
  <2>1. UNCHANGED <<table, told>>
    BY <1>3 DEF Fault
  <2>2. CacheBears' /\ TableBears'
    BY <1>1, <2>1 DEF Core, CacheBears, TableBears
  <2>3. chat'[current'] = u /\ told'[u.host] = p /\ phase' = "up"
        /\ Bears(cache', u.host, u.kind, p, now')
    BY <1>1, <1>2, <2>1
  <2>. HIDE DEF u, p
  <2>4. AnswerWillHold'
    BY <1>1, <1>2, <2>3, WillHoldIntro
  <2>. QED  BY <2>2, <2>4 DEF Core
<1>4. ASSUME NEW e \in cache, e.host = h, table' = Put(table, e.host, e.until), Saved
      PROVE  Core'
  <2>1. told'[h] = q /\ \A g \in Hosts : g # h => told'[g] = told[g]
    BY <1>1, <1>4 DEF Saved, TypeOK
  <2>2. q.kind = p.kind /\ q.until = p.until /\ q.exact = p.exact /\ q.saved = TRUE
    BY <1>2 DEF Promise
  <2>. HIDE DEF q
  <2>3. table' = {f \in table : f.host # h} \cup {[host |-> h, until |-> e.until]}
    BY <1>4 DEF Put
  <2>4. \A f \in table' : f.host = h => f.until = e.until
    BY <2>3
  <2>5. \E f \in table' : f.host = h
    <3>1. [host |-> h, until |-> e.until] \in table' /\ [host |-> h, until |-> e.until].host = h
      BY <2>3
    <3>. QED  BY <3>1
  <2>6. p.exact => e.until = p.until
    BY <1>2, <1>4 DEF Bears, Ends
  <2>7. Bears(table', h, u.kind, q, now)
    BY <1>2, <2>2, <2>4, <2>5, <2>6 DEF Bears, Ends
  <2>8. Bears(cache, h, u.kind, q, now)
    BY <1>2, <2>2, BearsPromise
  <2>9. ASSUME NEW g \in Hosts PROVE Bears(cache', g, told'[g].kind, told'[g], now')
    <3>1. CASE g = h
      BY <1>1, <1>2, <2>1, <2>2, <3>1 DEF Bears
    <3>2. CASE g # h
      BY <1>1, <1>2, <2>1, <3>2 DEF Core, CacheBears
    <3>. QED  BY <3>1, <3>2
  <2>10. ASSUME NEW g \in Hosts, told'[g].saved
         PROVE  Bears(table', g, told'[g].kind, told'[g], now')
    <3>1. CASE g = h
      BY <1>1, <1>2, <2>1, <2>2, <3>1 DEF Bears
    <3>2. CASE g # h
      <4>1. Bears(table, g, told[g].kind, told[g], now)
        BY <2>1, <2>10, <3>2 DEF Core, TableBears
      <4>2. \A f : f.host = g => (f \in table <=> f \in table')
        BY <2>3, <3>2
      <4>3. Bears(table', g, told[g].kind, told[g], now)
        BY <4>1, <4>2, BearsSame
      <4>. QED  BY <1>1, <2>1, <3>2, <4>3
    <3>. QED  BY <3>1, <3>2
  <2>11. chat'[current'] = u /\ told'[u.host] = q /\ phase' = "up" /\ step' = "reply"
         /\ q.kind = "nothing" /\ now' = now /\ cache' = cache
    BY <1>1, <1>2, <2>1, <2>2
  <2>12. Bears(table', u.host, u.kind, q, now') /\ Bears(cache', u.host, u.kind, q, now')
    BY <2>7, <2>8, <2>11
  <2>. HIDE DEF u
  <2>13. AnswerWillHold'
    BY <2>11, <2>12, WillHoldIntro
  <2>. QED  BY <2>9, <2>10, <2>13 DEF Core, CacheBears, TableBears
<1>. QED  BY <1>3, <1>4 DEF SetMute

\* Nothing is left of the row.
LEMMA DeleteMuteCore ==
  ASSUME TypeOK, Core, DeleteMute
  PROVE  Core'
<1>. DEFINE u == chat[current]
            h == u.host
            p == told[h]
            q == [p EXCEPT !.saved = TRUE]
<1>1. /\ step = "deleteMute" /\ step' = "reply" /\ current \in 1..Len(chat) /\ h \in Hosts
      /\ UNCHANGED <<now, chat, phase, current, cache>>
  BY CurrentFacts DEF DeleteMute
<1>2. /\ phase = "up" /\ p.kind = "nothing" /\ u.kind = "unmute" /\ p.saved = FALSE
      /\ Bears(cache, h, u.kind, p, now) /\ p \in Promise
  BY <1>1 DEF Core, AnswerWillHold, WillHold, TypeOK, Promise
<1>3. ASSUME Fault PROVE Core'
  <2>1. UNCHANGED <<table, told>>
    BY <1>3 DEF Fault
  <2>2. CacheBears' /\ TableBears'
    BY <1>1, <2>1 DEF Core, CacheBears, TableBears
  <2>3. chat'[current'] = u /\ told'[u.host] = p /\ phase' = "up"
        /\ Bears(cache', u.host, u.kind, p, now')
    BY <1>1, <1>2, <2>1
  <2>. HIDE DEF u, p
  <2>4. AnswerWillHold'
    BY <1>1, <1>2, <2>3, WillHoldIntro
  <2>. QED  BY <2>2, <2>4 DEF Core
<1>4. ASSUME table' = Drop(table, h), Saved
      PROVE  Core'
  <2>1. told'[h] = q /\ \A g \in Hosts : g # h => told'[g] = told[g]
    BY <1>1, <1>4 DEF Saved, TypeOK
  <2>2. q.kind = p.kind /\ q.until = p.until /\ q.exact = p.exact /\ q.saved = TRUE
    BY <1>2 DEF Promise
  <2>. HIDE DEF q
  <2>3. table' = {f \in table : f.host # h}
    BY <1>4 DEF Drop
  <2>7. Bears(table', h, u.kind, q, now)
    BY <1>2, <2>3 DEF Bears, Free
  <2>8. Bears(cache, h, u.kind, q, now)
    BY <1>2, <2>2, BearsPromise
  <2>9. ASSUME NEW g \in Hosts PROVE Bears(cache', g, told'[g].kind, told'[g], now')
    <3>1. CASE g = h
      BY <1>1, <1>2, <2>1, <2>2, <3>1 DEF Bears
    <3>2. CASE g # h
      BY <1>1, <1>2, <2>1, <3>2 DEF Core, CacheBears
    <3>. QED  BY <3>1, <3>2
  <2>10. ASSUME NEW g \in Hosts, told'[g].saved
         PROVE  Bears(table', g, told'[g].kind, told'[g], now')
    <3>1. CASE g = h
      BY <1>1, <1>2, <2>1, <2>2, <3>1 DEF Bears
    <3>2. CASE g # h
      <4>1. Bears(table, g, told[g].kind, told[g], now)
        BY <2>1, <2>10, <3>2 DEF Core, TableBears
      <4>2. \A f : f.host = g => (f \in table <=> f \in table')
        BY <2>3, <3>2
      <4>3. Bears(table', g, told[g].kind, told[g], now)
        BY <4>1, <4>2, BearsSame
      <4>. QED  BY <1>1, <2>1, <3>2, <4>3
    <3>. QED  BY <3>1, <3>2
  <2>11. chat'[current'] = u /\ told'[u.host] = q /\ phase' = "up" /\ step' = "reply"
         /\ q.kind = "nothing" /\ now' = now /\ cache' = cache
    BY <1>1, <1>2, <2>1, <2>2
  <2>12. Bears(table', u.host, u.kind, q, now') /\ Bears(cache', u.host, u.kind, q, now')
    BY <2>7, <2>8, <2>11
  <2>. HIDE DEF u
  <2>13. AnswerWillHold'
    BY <2>11, <2>12, WillHoldIntro
  <2>. QED  BY <2>9, <2>10, <2>13 DEF Core, CacheBears, TableBears
<1>. QED  BY <1>3, <1>4 DEF DeleteMute

\* The answer promises what both stores already bear out.
LEMMA ReplyCore ==
  ASSUME TypeOK, Core, Reply
  PROVE  Core'
<1>. DEFINE u == chat[current]
            h == u.host
            p == told[h]
            q == [p EXCEPT !.kind = u.kind]
<1>1. /\ step = "reply" /\ step' = "idle" /\ h \in Hosts
      /\ UNCHANGED <<now, chat, phase, cache, table>>
  BY CurrentFacts DEF Reply
<1>2. /\ phase = "up" /\ Bears(cache, h, u.kind, p, now) /\ p \in Promise
      /\ p.saved => Bears(table, h, u.kind, p, now)
  BY <1>1 DEF Core, AnswerWillHold, WillHold, TypeOK
<1>3. told'[h] = q /\ \A g \in Hosts : g # h => told'[g] = told[g]
  BY <1>1 DEF Reply, TypeOK
<1>4. q.kind = u.kind /\ q.until = p.until /\ q.exact = p.exact /\ q.saved = p.saved
  BY <1>2 DEF Promise
<1>. HIDE DEF q
<1>5. /\ Bears(cache, h, u.kind, q, now)
      /\ p.saved => Bears(table, h, u.kind, q, now)
  BY <1>2, <1>4, BearsPromise
<1>6. ASSUME NEW g \in Hosts PROVE Bears(cache', g, told'[g].kind, told'[g], now')
  <2>1. CASE g = h
    BY <1>1, <1>3, <1>4, <1>5, <2>1
  <2>2. CASE g # h
    BY <1>1, <1>2, <1>3, <2>2 DEF Core, CacheBears
  <2>. QED  BY <2>1, <2>2
<1>7. ASSUME NEW g \in Hosts, told'[g].saved
      PROVE  Bears(table', g, told'[g].kind, told'[g], now')
  <2>1. CASE g = h
    BY <1>1, <1>3, <1>4, <1>5, <1>7, <2>1
  <2>2. CASE g # h
    BY <1>1, <1>3, <1>7, <2>2 DEF Core, TableBears
  <2>. QED  BY <2>1, <2>2
<1>. QED  BY <1>1, <1>6, <1>7 DEF Core, CacheBears, TableBears, AnswerWillHold

\* One step per action.
LEMMA CoreStep == TypeOK /\ Core /\ ChannelInOrder /\ [Next]_vars => Core'
<1>. SUFFICES ASSUME TypeOK, Core, ChannelInOrder, [Next]_vars PROVE Core'
  OBVIOUS
<1>0. now \in Nat
  BY DEF TypeOK
<1>1. CASE UNCHANGED vars
  BY <1>0, <1>1, QuietCore DEF vars
<1>2. CASE Tick
  BY <1>0, <1>2, QuietCore DEF Tick, history
<1>3. ASSUME NEW u \in Updates, Send(u) PROVE Core'
  <2>1. step # "idle" => chat'[current] = chat[current]
    BY <1>3, SendFacts, CurrentFacts
  <2>2. UNCHANGED <<step, current, cache, table, told>> /\ now' = now /\ phase' = phase
    BY <1>3 DEF Send, history
  <2>3. now' \in Nat /\ now' >= now
    BY <1>0, <2>2
  <2>. QED  BY <2>1, <2>2, <2>3, QuietCore
<1>4. CASE Poll
  BY <1>0, <1>4, QuietCore DEF Poll, history
<1>5. CASE Start
  BY <1>5, StartCore
<1>6. CASE AbortStart
  BY <1>0, <1>6, QuietCore DEF AbortStart, history, ChannelInOrder
<1>7. CASE Crash \/ Panic \/ Stop
  BY <1>7, ExitCore DEF Crash, Panic, Stop
<1>8. CASE RefuseMessage \/ IgnoreButton \/ RefuseMinutes
  BY <1>0, <1>8, QuietCore DEF RefuseMessage, IgnoreButton, RefuseMinutes, Take
<1>9. CASE HandleMute
  <2>. DEFINE h == First.host
              d == Duration(First.mins)
              exact == Representable(First.mins)
              until == now + First.mins * Minute
  <2>1. /\ Take /\ h \in Hosts /\ First.mins \in Int /\ First.mins > 0
        /\ Head(queue) \in 1..Len(chat)
    BY <1>9, TakeFacts DEF HandleMute
  <2>2. until \in Int /\ exact \in BOOLEAN /\ (exact => now + d = until)
    <3>1. \A mins \in Int : mins * Minute \in Int
      BY DurationType
    <3>2. exact => d = First.mins * Minute
      BY <2>1, DurationExact
    <3>3. exact \in BOOLEAN
      BY DEF Representable
    <3>4. First.mins * Minute \in Int
      BY <2>1, <3>1
    <3>5. until \in Int
      BY <1>0, <3>4
    <3>6. exact => now + d = until
      BY <3>2
    <3>. QED  BY <3>3, <3>5, <3>6
  <2>3. /\ Pending(until, exact) /\ UNCHANGED table /\ step' = "setMute"
        /\ current' = Head(queue) /\ First.kind = "mute"
        /\ cache' = Put(cache, h, now + d)
    BY <1>9 DEF HandleMute
  <2>. HIDE DEF until, exact, d
  <2>4. cache' = {e \in cache : e.host # h} \cup {[host |-> h, until |-> now + d]}
    BY <2>3 DEF Put
  <2>5. \A e : e.host # First.host => (e \in cache <=> e \in cache')
    BY <2>4
  <2>6. exact => Ends(cache', First.host, until, now)
    <3>1. /\ [host |-> h, until |-> now + d] \in cache'
          /\ [host |-> h, until |-> now + d].host = h
      BY <2>4
    <3>2. \A e \in cache' : e.host = h => e.until = now + d
      BY <2>4
    <3>. QED  BY <2>2, <3>1, <3>2 DEF Ends
  <2>. QED  BY <2>1, <2>2, <2>3, <2>5, <2>6, HandleCore
<1>10. CASE HandleUnmute
  <2>1. /\ Take /\ Pending(0, TRUE) /\ UNCHANGED table /\ step' = "deleteMute"
        /\ current' = Head(queue) /\ First.kind = "unmute"
        /\ cache' = Drop(cache, First.host)
    BY <1>10 DEF HandleUnmute
  <2>2. cache' = {e \in cache : e.host # First.host}
    BY <2>1 DEF Drop
  <2>3. Free(cache', First.host)
    BY <2>2 DEF Free
  <2>4. \A e : e.host # First.host => (e \in cache <=> e \in cache')
    BY <2>2
  <2>5. 0 \in Int /\ TRUE \in BOOLEAN /\ First.kind # "mute" /\ step' # "setMute"
    BY <2>1
  <2>. QED  BY <2>1, <2>3, <2>4, <2>5, HandleCore
<1>11. CASE SetMute
  BY <1>11, SetMuteCore
<1>12. CASE DeleteMute
  BY <1>12, DeleteMuteCore
<1>13. CASE Reply
  BY <1>13, ReplyCore
<1>. QED
  BY <1>1, <1>2, <1>3, <1>4, <1>5, <1>6, <1>7, <1>8, <1>9, <1>10, <1>11, <1>12, <1>13
  DEF Next, Handler

-----------------------------------------------------------------------------
(* The channel, and how often an update is answered.                        *)

\* The numbers that the channel is counted with.
LEMMA Counts ==
  ASSUME TypeOK
  PROVE  /\ Len(chat) \in Nat /\ Len(queue) \in Nat /\ polled \in Nat /\ polled <= Len(chat)
         /\ confirmed \in Nat /\ confirmed <= Len(chat) /\ Reached \in Int
         /\ DOMAIN chat = 1..Len(chat) /\ DOMAIN queue = 1..Len(queue)
BY LenProperties DEF TypeOK, Reached

\* Taking an update: it is the one behind the last one taken.
LEMMA TakeReached ==
  ASSUME TypeOK, ChannelInOrder, Take
  PROVE  /\ Head(queue) = Reached + 1 /\ Reached' = Reached + 1 /\ current = 0
         /\ phase = "up" /\ phase' = "up" /\ step = "idle"
         /\ \A i \in 1..Len(queue') : queue'[i] = Reached' + i
         /\ UNCHANGED <<chat, confirmed, polled, dropped, spent>>
<1>1. /\ Len(queue) \in Nat \ {0} /\ Len(queue') = Len(queue) - 1 /\ Head(queue) = queue[1]
      /\ \A i \in 1..Len(queue') : queue'[i] = queue[i + 1]
  BY TakeFacts
<1>2. /\ UNCHANGED <<chat, confirmed, polled, dropped, spent>>
      /\ phase = "up" /\ phase' = "up" /\ step = "idle"
  BY DEF Take
<1>3. /\ \A i \in 1..Len(queue) : queue[i] = Reached + i
      /\ current = 0
  BY <1>2 DEF ChannelInOrder
<1>4. Reached' = Reached + 1 /\ Reached \in Int
  BY <1>1, <1>2, Counts DEF Reached
<1>5. ASSUME NEW i \in 1..Len(queue') PROVE queue'[i] = Reached' + i
  BY <1>1, <1>3, <1>4, <1>5
<1>6. Head(queue) = Reached + 1
  BY <1>1, <1>3
<1>. QED  BY <1>2, <1>3, <1>4, <1>5, <1>6

\* A poll moves nothing but the end of the channel.
LEMMA PollReached ==
  ASSUME TypeOK, ChannelInOrder, Poll
  PROVE  /\ Reached' = Reached
         /\ \A i \in 1..Len(queue') : queue'[i] = Reached + i
<1>1. /\ Len(queue) \in Nat /\ Len(chat) \in Nat /\ polled \in Nat /\ polled' = Len(chat)
      /\ Len(queue') = Len(queue) + (Len(chat) - polled)
      /\ \A i \in 1..Len(queue') :
           queue'[i] = IF i <= Len(queue) THEN queue[i] ELSE polled + (i - Len(queue))
  BY PollFacts, Counts DEF Poll
<1>2. Reached' = Reached
  BY <1>1 DEF Reached
<1>3. ASSUME NEW i \in 1..Len(queue') PROVE queue'[i] = Reached + i
  <2>1. CASE i <= Len(queue)
    BY <1>1, <1>3, <2>1 DEF ChannelInOrder
  <2>2. CASE ~(i <= Len(queue))
    BY <1>1, <1>3, <2>2 DEF Reached
  <2>. QED  BY <2>1, <2>2
<1>. QED  BY <1>2, <1>3

\* Steps that do not touch the channel.
LEMMA QuietChannel ==
  ASSUME ChannelInOrder, UNCHANGED <<confirmed, polled, queue, step, current>>,
         (phase' = "up") <=> (phase = "up")
  PROVE  ChannelInOrder'
BY DEF ChannelInOrder, Reached

\* The channel is in order after every step.
LEMMA ChannelStep == TypeOK /\ ChannelInOrder /\ [Next]_vars => ChannelInOrder'
<1>. SUFFICES ASSUME TypeOK, ChannelInOrder, [Next]_vars PROVE ChannelInOrder'
  OBVIOUS
<1>1. CASE UNCHANGED vars
  BY <1>1, QuietChannel DEF vars
<1>2. CASE Tick \/ AbortStart \/ \E u \in Updates : Send(u)
  BY <1>2, QuietChannel DEF Tick, AbortStart, Send, channel
<1>3. CASE Poll
  <2>1. /\ phase = "up" /\ UNCHANGED <<phase, step, current>>
        /\ confirmed' = polled /\ polled' = Len(chat)
    BY <1>3 DEF Poll
  <2>2. confirmed' <= polled'
    BY <2>1, Counts
  <2>. QED  BY <1>3, <2>1, <2>2, PollReached DEF ChannelInOrder
<1>4. CASE Start
  <2>1. /\ queue' = <<>> /\ step' = "idle" /\ current' = 0 /\ phase' = "up"
        /\ confirmed' = confirmed /\ polled' = confirmed
    BY <1>4 DEF Start, ChannelInOrder
  <2>2. Len(queue') = 0 /\ Reached' = confirmed /\ confirmed \in Nat
    BY <2>1, Counts DEF Reached
  <2>. QED  BY <2>1, <2>2 DEF ChannelInOrder
<1>5. CASE Crash \/ Panic \/ Stop
  <2>1. queue' = <<>> /\ step' = "idle" /\ current' = 0 /\ phase' # "up"
    BY <1>5 DEF Crash, Panic, Stop, Exit
  <2>2. Len(queue') = 0
    BY <2>1
  <2>. QED  BY <2>1, <2>2 DEF ChannelInOrder
<1>6. CASE RefuseMessage \/ IgnoreButton \/ RefuseMinutes
  <2>1. Take /\ UNCHANGED <<step, current>>
    BY <1>6 DEF RefuseMessage, IgnoreButton, RefuseMinutes
  <2>. QED  BY <2>1, TakeReached, Counts DEF ChannelInOrder
<1>7. CASE HandleMute \/ HandleUnmute
  <2>1. Take /\ step' # "idle" /\ current' = Head(queue)
    BY <1>7 DEF HandleMute, HandleUnmute
  <2>. QED  BY <2>1, TakeReached, Counts DEF ChannelInOrder
<1>8. CASE SetMute \/ DeleteMute
  <2>1. /\ step # "idle" /\ step' = "reply" /\ UNCHANGED <<confirmed, polled, queue, phase, current>>
    BY <1>8 DEF SetMute, DeleteMute, channel
  <2>. QED  BY <2>1 DEF ChannelInOrder, Reached
<1>9. CASE Reply
  <2>1. /\ step # "idle" /\ step' = "idle" /\ current' = 0
        /\ UNCHANGED <<confirmed, polled, queue, phase>>
    BY <1>9 DEF Reply, channel
  <2>. QED  BY <2>1 DEF ChannelInOrder, Reached
<1>. QED  BY <1>1, <1>2, <1>3, <1>4, <1>5, <1>6, <1>7, <1>8, <1>9 DEF Next, Handler

\* A step that answers nothing, uses up neither crash nor stop, and undoes
\* nothing the process has dealt with.
LEMMA QuietAnswers ==
  ASSUME TypeOK, AnswersCounted, answers' = answers,
         spent'.crashes = spent.crashes, spent'.stops = spent.stops,
         \A id \in Ids : DealtWith(id) => DealtWith(id)'
  PROVE  AnswersCounted'
<1>1. answers \in [Ids -> Nat] /\ spent.crashes \in Nat /\ spent.stops \in Nat
  BY LimitsDomain DEF TypeOK
<1>. QED  BY <1>1 DEF AnswersCounted

\* A step that gives the answer to an update not dealt with before.
LEMMA AnswerCounted ==
  ASSUME TypeOK, AnswersCounted, UNCHANGED spent, NEW n,
         answers' = [answers EXCEPT ![n] = @ + 1],
         ~DealtWith(n), DealtWith(n)',
         \A id \in Ids : DealtWith(id) => DealtWith(id)'
  PROVE  AnswersCounted'
<1>1. answers \in [Ids -> Nat] /\ spent.crashes \in Nat /\ spent.stops \in Nat
  BY LimitsDomain DEF TypeOK
<1>2. ASSUME NEW id \in Ids
      PROVE  answers'[id] <= spent.crashes + spent.stops + (IF DealtWith(id)' THEN 1 ELSE 0)
  <2>1. CASE id = n
    BY <1>1, <2>1 DEF AnswersCounted
  <2>2. CASE id # n
    BY <1>1, <2>2 DEF AnswersCounted
  <2>. QED  BY <2>1, <2>2
<1>. QED  BY <1>2 DEF AnswersCounted

\* Only faults are spent on the database.
LEMMA FaultSpends ==
  ASSUME TypeOK, Spend("faults")
  PROVE  /\ spent'.crashes = spent.crashes /\ spent'.stops = spent.stops
         /\ spent.faults \in Nat /\ spent'.faults = spent.faults + 1
<1>1. {"crashes", "stops", "faults"} = DOMAIN Limits
  BY LimitsDomain
<1>2. spent.faults \in Nat
  BY <1>1 DEF TypeOK
<1>3. \A what \in DOMAIN Limits : Spend(what) =>
        /\ spent'[what] = spent[what] + 1
        /\ \A other \in DOMAIN Limits : other # what => spent'[other] = spent[other]
  BY SpendType
<1>. QED  BY <1>1, <1>2, <1>3

\* The end of a process is paid for.
LEMMA EndSpends ==
  ASSUME TypeOK, Crash \/ Panic \/ Stop
  PROVE  /\ spent.crashes \in Nat /\ spent.stops \in Nat
         /\ spent'.crashes \in Nat /\ spent'.stops \in Nat
         /\ spent'.crashes + spent'.stops = spent.crashes + spent.stops + 1
         /\ spent'.faults = spent.faults
<1>1. {"crashes", "stops", "faults"} = DOMAIN Limits
  BY LimitsDomain
<1>2. spent.crashes \in Nat /\ spent.stops \in Nat
  BY <1>1 DEF TypeOK
<1>3. \A what \in DOMAIN Limits : Spend(what) =>
        /\ spent'[what] = spent[what] + 1
        /\ \A other \in DOMAIN Limits : other # what => spent'[other] = spent[other]
  BY SpendType
<1>4. Spend("crashes") \/ Spend("stops")
  BY DEF Crash, Panic, Stop
<1>. QED  BY <1>1, <1>2, <1>3, <1>4

\* One step per action.
LEMMA AnswersStep ==
  TypeOK /\ ChannelInOrder /\ AnswersCounted /\ [Next]_vars => AnswersCounted'
<1>. SUFFICES ASSUME TypeOK, ChannelInOrder, AnswersCounted, [Next]_vars PROVE AnswersCounted'
  OBVIOUS
<1>0. \A id \in Ids : id \in Nat \ {0}
  BY MutesAssumption DEF Ids
<1>1. CASE UNCHANGED vars
  BY <1>1, QuietAnswers DEF vars, DealtWith, Reached
<1>2. CASE Tick \/ AbortStart \/ \E u \in Updates : Send(u)
  <2>1. /\ UNCHANGED <<answers, spent, polled, queue, current>>
        /\ phase = "up" => phase' = "up"
    BY <1>2 DEF Tick, AbortStart, Send, channel, history
  <2>. QED  BY <2>1, QuietAnswers DEF DealtWith, Reached
<1>3. CASE Poll
  <2>1. UNCHANGED <<answers, spent, phase, current>> /\ Reached' = Reached
    BY <1>3, PollReached DEF Poll, history
  <2>. QED  BY <2>1, QuietAnswers DEF DealtWith
<1>4. CASE Start
  <2>1. phase # "up" /\ UNCHANGED answers
    BY <1>4 DEF Start
  <2>2. spent'.crashes = spent.crashes /\ spent'.stops = spent.stops
    BY <1>4, FaultSpends DEF Start, NewMuteStore
  <2>. QED  BY <2>1, <2>2, QuietAnswers DEF DealtWith
<1>5. CASE Crash \/ Panic \/ Stop
  <2>1. phase' # "up" /\ UNCHANGED answers
    BY <1>5 DEF Crash, Panic, Stop, Exit
  <2>2. answers \in [Ids -> Nat]
    BY DEF TypeOK
  <2>. QED  BY <1>5, <2>1, <2>2, EndSpends DEF AnswersCounted, DealtWith
<1>i. CASE IgnoreButton
  <2>1. Take /\ UNCHANGED <<current, answers>>
    BY <1>i DEF IgnoreButton
  <2>2. Reached' = Reached + 1 /\ current = 0
        /\ phase = "up" /\ phase' = "up" /\ UNCHANGED spent /\ Reached \in Int
    BY <2>1, TakeReached, Counts
  <2>3. \A id \in Ids : DealtWith(id) => DealtWith(id)'
    BY <1>0, <2>1, <2>2 DEF DealtWith
  <2>. QED  BY <2>1, <2>2, <2>3, QuietAnswers
<1>6. CASE RefuseMessage \/ RefuseMinutes
  <2>1. /\ Take /\ UNCHANGED current
        /\ answers' = [answers EXCEPT ![Head(queue)] = @ + 1]
    BY <1>6 DEF RefuseMessage, RefuseMinutes
  <2>2. PICK n : n = Head(queue)
    OBVIOUS
  <2>3. n = Reached + 1 /\ Reached' = Reached + 1 /\ current = 0 /\ current' = 0
        /\ phase = "up" /\ phase' = "up" /\ UNCHANGED spent /\ Reached \in Int /\ n # 0
    BY <2>1, <2>2, TakeReached, TakeFacts, Counts
  <2>4. ~DealtWith(n) /\ DealtWith(n)' /\ \A id \in Ids : DealtWith(id) => DealtWith(id)'
    BY <1>0, <2>3 DEF DealtWith
  <2>5. answers' = [answers EXCEPT ![n] = @ + 1]
    BY <2>1, <2>2
  <2>. QED  BY <2>3, <2>4, <2>5, AnswerCounted
<1>7. CASE HandleMute \/ HandleUnmute
  <2>1. Take /\ current' = Head(queue) /\ UNCHANGED answers
    BY <1>7 DEF HandleMute, HandleUnmute
  <2>2. current' = Reached + 1 /\ Reached' = Reached + 1
        /\ phase = "up" /\ phase' = "up" /\ UNCHANGED spent /\ Reached \in Int
    BY <2>1, TakeReached, Counts
  <2>3. \A id \in Ids : DealtWith(id) => DealtWith(id)'
    BY <1>0, <2>2 DEF DealtWith
  <2>. QED  BY <2>1, <2>2, <2>3, QuietAnswers
<1>8. CASE SetMute \/ DeleteMute
  <2>1. UNCHANGED <<answers, polled, queue, phase, current>>
    BY <1>8 DEF SetMute, DeleteMute, channel
  <2>2. spent'.crashes = spent.crashes /\ spent'.stops = spent.stops
    BY <1>8, FaultSpends DEF SetMute, DeleteMute, Fault
  <2>. QED  BY <2>1, <2>2, QuietAnswers DEF DealtWith, Reached
<1>9. CASE Reply
  <2>1. /\ step # "idle" /\ current' = 0 /\ UNCHANGED <<polled, queue, phase, spent>>
        /\ answers' = [answers EXCEPT ![current] = @ + 1]
    BY <1>9 DEF Reply, channel
  <2>2. PICK n : n = current
    OBVIOUS
  <2>3. phase = "up" /\ n = Reached /\ n \in Nat \ {0} /\ Reached' = Reached
    BY <2>1, <2>2, CurrentFacts, Counts DEF ChannelInOrder, Reached
  <2>4. ~DealtWith(n) /\ DealtWith(n)' /\ \A id \in Ids : DealtWith(id) => DealtWith(id)'
    BY <1>0, <2>1, <2>2, <2>3 DEF DealtWith
  <2>. QED  BY <2>1, <2>2, <2>4, AnswerCounted
<1>. QED  BY <1>1, <1>2, <1>3, <1>4, <1>5, <1>i, <1>6, <1>7, <1>8, <1>9 DEF Next, Handler

-----------------------------------------------------------------------------
(* The newest update.                                                       *)

\* What Newest finds.
LEMMA NewestFacts ==
  ASSUME TypeOK, NewestExists, NEW h \in Hosts
  PROVE  /\ Newest(h) # 0 <=> About(h) # {}
         /\ Newest(h) # 0 => Newest(h) \in About(h) /\ \A j \in About(h) : j <= Newest(h)
<1>1. Newest(h) = IF About(h) = {} THEN 0
                  ELSE CHOOSE id \in About(h) : \A j \in About(h) : j <= id
  BY DEF Newest, About
<1>2. About(h) # {} => \E id \in About(h) : \A j \in About(h) : j <= id
  BY DEF NewestExists
<1>3. \A id \in About(h) : id \in Nat \ {0}
  BY Counts DEF About
<1>. QED  BY <1>1, <1>2, <1>3

\* Nothing is said about a host by a step at which no update is sent.
LEMMA SameNewest ==
  ASSUME UNCHANGED chat
  PROVE  \A h : About(h)' = About(h) /\ Newest(h)' = Newest(h)
BY DEF About, Newest, Accepted, Permitted

\* The updates about a host after one more was sent.
LEMMA SendAbout ==
  ASSUME TypeOK, NEW u \in Updates, Send(u), NEW h \in Hosts
  PROVE  /\ About(h) \subseteq About(h)'
         /\ About(h)' \subseteq About(h) \cup {Len(chat) + 1}
         /\ \A id \in About(h) : id \in Nat /\ id <= Len(chat) /\ chat'[id] = chat[id]
<1>1. /\ Len(chat) \in Nat /\ Len(chat') = Len(chat) + 1
      /\ DOMAIN chat = 1..Len(chat) /\ DOMAIN chat' = 1..Len(chat')
      /\ \A id \in 1..Len(chat) : chat'[id] = chat[id]
  BY SendFacts
<1>2. About(h)' = {id \in DOMAIN chat' : chat'[id].host = h /\ Accepted(chat'[id])}
  BY DEF About, Accepted, Permitted
<1>. QED  BY <1>1, <1>2 DEF About

\* An update that is sent is newer than those before it.
LEMMA NewestExistsStep == TypeOK /\ NewestExists /\ [Next]_vars => NewestExists'
<1>. SUFFICES ASSUME TypeOK, NewestExists, [Next]_vars PROVE NewestExists'
  OBVIOUS
<1>1. CASE UNCHANGED chat
  BY <1>1, SameNewest DEF NewestExists
<1>2. ASSUME NEW u \in Updates, Send(u), NEW h \in Hosts, About(h)' # {}
      PROVE  \E id \in About(h)' : \A j \in About(h)' : j <= id
  <2>1. /\ About(h) \subseteq About(h)'
        /\ About(h)' \subseteq About(h) \cup {Len(chat) + 1}
        /\ \A id \in About(h) : id \in Nat /\ id <= Len(chat)
        /\ Len(chat) \in Nat
    BY <1>2, SendAbout, Counts
  <2>2. CASE Len(chat) + 1 \in About(h)'
    <3>1. \A j \in About(h)' : j <= Len(chat) + 1
      BY <2>1
    <3>. QED  BY <2>2, <3>1
  <2>3. CASE Len(chat) + 1 \notin About(h)'
    <3>1. About(h)' = About(h)
      BY <2>1, <2>3
    <3>. QED  BY <1>2, <3>1 DEF NewestExists
  <2>. QED  BY <2>2, <2>3
<1>3. UNCHANGED chat \/ \E u \in Updates : Send(u)
  BY DEF Next, vars, Tick, Poll, Start, AbortStart, Crash, Panic, Stop, Exit, Handler,
         RefuseMessage, IgnoreButton, RefuseMinutes, HandleMute, HandleUnmute, Take, SetMute, DeleteMute, Reply
<1>. QED  BY <1>1, <1>2, <1>3 DEF NewestExists

\* Only an accepted update gets to the stores.
LEMMA HandlesAcceptedStep == TypeOK /\ HandlesAccepted /\ [Next]_vars => HandlesAccepted'
<1>. SUFFICES ASSUME TypeOK, HandlesAccepted, [Next]_vars PROVE HandlesAccepted'
  OBVIOUS
<1>1. CASE step' = "idle"
  BY <1>1 DEF HandlesAccepted
<1>2. ASSUME step # "idle", current' = current, chat'[current] = chat[current] PROVE HandlesAccepted'
  BY <1>2 DEF HandlesAccepted, Accepted, Permitted
<1>3. CASE UNCHANGED <<step, current, chat>>
  BY <1>3 DEF HandlesAccepted, Accepted, Permitted
<1>4. ASSUME NEW u \in Updates, Send(u) PROVE HandlesAccepted'
  <2>1. UNCHANGED <<step, current>>
    BY <1>4 DEF Send
  <2>2. step # "idle" => chat'[current] = chat[current]
    BY <1>4, SendFacts, CurrentFacts
  <2>. QED  BY <1>1, <1>2, <2>1, <2>2
<1>5. CASE HandleMute \/ HandleUnmute
  <2>1. chat' = chat /\ current' = Head(queue)
    BY <1>5 DEF HandleMute, HandleUnmute, Take
  <2>2. chat'[current'] = First
    BY <2>1 DEF First
  <2>3. Accepted(First)
    BY <1>5 DEF Accepted, HandleMute, HandleUnmute
  <2>. DEFINE u == First
  <2>. HIDE DEF u
  <2>4. Accepted(u) /\ chat'[current'] = u
    BY <2>2, <2>3 DEF u
  <2>. QED  BY <2>4 DEF HandlesAccepted, Accepted, Permitted
<1>6. CASE SetMute \/ DeleteMute
  BY <1>2, <1>6 DEF SetMute, DeleteMute
<1>7. UNCHANGED <<step, current, chat>> \/ step' = "idle" \/ (\E u \in Updates : Send(u))
      \/ HandleMute \/ HandleUnmute \/ SetMute \/ DeleteMute
  BY DEF Next, vars, Tick, Poll, Start, AbortStart, Crash, Panic, Stop, Exit, Handler,
         RefuseMessage, IgnoreButton, RefuseMinutes, Take, Reply
<1>. QED  BY <1>1, <1>3, <1>4, <1>5, <1>6, <1>7

\* The last word on a host is kept: what is still to come or already said.
Kept(h, u, n) == ToCome(n) \/ (told[h].kind = u.kind /\ told[h].saved)

\* The reply to an update whose row was written.
ReplySaved == step = "reply" => told[chat[current].host].saved

\* A step that sends nothing only has to keep the newest update of each host.
LEMMA NewestKeptIntro ==
  ASSUME TypeOK, NewestExists, NewestKept, UNCHANGED chat, dropped \subseteq dropped',
         spent.faults \in Nat, spent'.faults \in Nat, spent'.faults >= spent.faults,
         spent'.faults = 0 /\ dropped' = {} => ReplySaved',
         ASSUME NEW h \in Hosts, NEW n \in About(h), \A j \in About(h) : j <= n,
                dropped' = {}, spent'.faults = 0, spent.faults = 0, Kept(h, chat[n], n)
         PROVE  Kept(h, chat[n], n)'
  PROVE  NewestKept'
<1>. SUFFICES ASSUME dropped' = {}, spent'.faults = 0
              PROVE  /\ \A h \in Hosts : Newest(h)' # 0 =>
                           \/ ToCome(Newest(h))'
                           \/ (told[h].kind = chat[Newest(h)].kind)' /\ (told[h].saved)'
                     /\ ReplySaved'
  BY DEF NewestKept, ReplySaved
<1>1. dropped = {} /\ spent.faults = 0
  OBVIOUS
<1>2. ASSUME NEW h \in Hosts, Newest(h)' # 0
      PROVE  \/ ToCome(Newest(h))'
             \/ (told[h].kind = chat[Newest(h)].kind)' /\ (told[h].saved)'
  <2>1. PICK n : n = Newest(h)
    OBVIOUS
  <2>2. Newest(h)' = n /\ n # 0
    BY <1>2, <2>1, SameNewest
  <2>3. n \in About(h) /\ \A j \in About(h) : j <= n
    BY <2>1, <2>2, NewestFacts
  <2>4. Kept(h, chat[n], n)
    BY <1>1, <2>1, <2>2 DEF NewestKept, Kept
  <2>5. Kept(h, chat[n], n)'
    BY <1>1, <2>3, <2>4
  <2>6. ToCome(n)' \/ (told'[h].kind = chat'[n].kind /\ told'[h].saved)
    BY <2>5 DEF Kept
  <2>. QED  BY <2>2, <2>6 DEF ToCome
<1>. QED  BY <1>2

\* Nothing that could still come is lost by the end of a process but what
\* is dropped.
LEMMA ExitKept ==
  ASSUME TypeOK, Len(chat) <= MaxUpdates, ChannelInOrder, phase = "up", phase' # "up", Exit,
         dropped' = {}, NEW n \in 1..Len(chat), ToCome(n)
  PROVE  ToCome(n)'
<1>1. /\ confirmed' = confirmed /\ confirmed \in Nat /\ n \in Nat \ {0}
      /\ Len(queue) \in Nat /\ polled \in Nat /\ DOMAIN queue = 1..Len(queue)
  BY Counts DEF Exit
<1>2. SUFFICES ASSUME ~(n > confirmed) PROVE FALSE
  BY <1>1 DEF ToCome
<1>3. n \in 1..confirmed
  BY <1>1, <1>2
<1>4. n \notin ToSet(queue) /\ ~(n = current /\ step # "idle")
  BY <1>3 DEF Exit
<1>5. n # current
  BY <1>1, <1>4 DEF ChannelInOrder
<1>6. n > Reached /\ confirmed <= polled /\ Reached >= 0
  BY <1>5 DEF ToCome, ChannelInOrder
<1>7. n - Reached \in 1..Len(queue) /\ queue[n - Reached] = n
  BY <1>1, <1>3, <1>6 DEF Reached, ChannelInOrder
<1>8. n \in ToSet(queue)
  BY <1>1, <1>7 DEF ToSet
<1>. QED  BY <1>4, <1>8

\* One step per action.
LEMMA NewestKeptStep ==
  /\ TypeOK /\ Len(chat) <= MaxUpdates /\ ChannelInOrder
  /\ HandlesAccepted /\ NewestExists /\ NewestKept /\ TypeOK' /\ [Next]_vars
  => NewestKept'
<1>. SUFFICES ASSUME TypeOK, Len(chat) <= MaxUpdates, ChannelInOrder, HandlesAccepted,
                     NewestExists, NewestKept, TypeOK', [Next]_vars
              PROVE  NewestKept'
  OBVIOUS
<1>f. spent.faults \in Nat /\ spent'.faults \in Nat
  BY LimitsDomain DEF TypeOK
<1>a. ASSUME NEW h \in Hosts, NEW n \in About(h)
      PROVE  n \in 1..Len(chat) /\ n \in Nat \ {0} /\ chat[n].host = h /\ Accepted(chat[n])
  BY Counts DEF About
<1>1. CASE UNCHANGED vars
  <2>1. UNCHANGED <<chat, confirmed, polled, queue, phase, step, current, told, dropped, spent>>
    BY <1>1 DEF vars
  <2>2. ASSUME NEW h \in Hosts, NEW n \in About(h), Kept(h, chat[n], n)
        PROVE  Kept(h, chat[n], n)'
    BY <2>1, <2>2 DEF Kept, ToCome, Reached
  <2>q. /\ spent'.faults >= spent.faults /\ dropped \subseteq dropped'
        /\ spent'.faults = 0 /\ dropped' = {} => ReplySaved'
    BY <1>f, <2>1 DEF NewestKept, ReplySaved
  <2>. QED  BY <1>f, <2>1, <2>2, <2>q, NewestKeptIntro
<1>2. CASE Tick \/ AbortStart
  <2>1. /\ UNCHANGED <<chat, confirmed, polled, queue, step, current, told, dropped, spent>>
        /\ (phase' = "up") <=> (phase = "up")
    BY <1>2 DEF Tick, AbortStart, channel, history
  <2>2. ASSUME NEW h \in Hosts, NEW n \in About(h), Kept(h, chat[n], n)
        PROVE  Kept(h, chat[n], n)'
    BY <2>1, <2>2 DEF Kept, ToCome, Reached
  <2>q. /\ spent'.faults >= spent.faults /\ dropped \subseteq dropped'
        /\ spent'.faults = 0 /\ dropped' = {} => ReplySaved'
    BY <1>f, <2>1 DEF NewestKept, ReplySaved
  <2>. QED  BY <1>f, <2>1, <2>2, <2>q, NewestKeptIntro
<1>3. ASSUME NEW u \in Updates, Send(u) PROVE NewestKept'
  <2>1. /\ UNCHANGED <<confirmed, polled, queue, phase, step, current, told, dropped, spent>>
        /\ Reached' = Reached
    BY <1>3 DEF Send, channel, history, Reached
  <2>. SUFFICES ASSUME dropped = {}, spent.faults = 0
                PROVE  /\ \A h \in Hosts : Newest(h)' # 0 =>
                             \/ ToCome(Newest(h))'
                             \/ (told[h].kind = chat[Newest(h)].kind)' /\ (told[h].saved)'
                       /\ ReplySaved'
    BY <2>1 DEF NewestKept, ReplySaved
  <2>2. ReplySaved'
    BY <1>3, <2>1, SendFacts, CurrentFacts DEF NewestKept, ReplySaved
  <2>3. NewestExists'
    BY <1>3, NewestExistsStep DEF Next
  <2>4. ASSUME NEW h \in Hosts, Newest(h)' # 0
        PROVE  \/ ToCome(Newest(h))'
               \/ (told[h].kind = chat[Newest(h)].kind)' /\ (told[h].saved)'
    <3>1. PICK n : n = Newest(h)'
      OBVIOUS
    <3>2. n \in About(h)' /\ \A j \in About(h)' : j <= n
      <4>1. Newest(h)' = IF About(h)' = {} THEN 0
                         ELSE CHOOSE id \in About(h)' : \A j \in About(h)' : j <= id
        BY DEF Newest, About
      <4>2. About(h)' # {} => \E id \in About(h)' : \A j \in About(h)' : j <= id
        BY <2>3 DEF NewestExists
      <4>. QED  BY <2>4, <3>1, <4>1, <4>2
    <3>3. /\ About(h) \subseteq About(h)'
          /\ About(h)' \subseteq About(h) \cup {Len(chat) + 1}
          /\ \A id \in About(h) : id \in Nat /\ id <= Len(chat) /\ chat'[id] = chat[id]
      BY <1>3, SendAbout
    <3>4. /\ Len(chat) \in Nat /\ polled <= Len(chat) /\ polled \in Nat /\ Len(queue) \in Nat
          /\ confirmed <= Len(chat) /\ confirmed \in Nat
      BY Counts
    <3>5. CASE n = Len(chat) + 1
      <4>1. IF phase' = "up" THEN n > Reached' \/ n = current' ELSE n > confirmed'
        BY <2>1, <3>4, <3>5 DEF Reached
      <4>. QED  BY <3>1, <4>1 DEF ToCome
    <3>6. CASE n # Len(chat) + 1
      <4>1. n \in About(h) /\ \A j \in About(h) : j <= n
        BY <3>2, <3>3, <3>6
      <4>2. Newest(h) # 0 /\ Newest(h) \in About(h) /\ \A j \in About(h) : j <= Newest(h)
        BY <4>1, NewestFacts
      <4>3. n = Newest(h) /\ chat'[n] = chat[n]
        BY <3>3, <4>1, <4>2
      <4>4. ToCome(n) \/ (told[h].kind = chat[n].kind /\ told[h].saved)
        BY <4>2, <4>3 DEF NewestKept
      <4>5. CASE ToCome(n)
        <5>1. IF phase' = "up" THEN n > Reached' \/ n = current' ELSE n > confirmed'
          BY <2>1, <4>5 DEF ToCome
        <5>. QED  BY <3>1, <5>1 DEF ToCome
      <4>6. CASE told[h].kind = chat[n].kind /\ told[h].saved
        BY <2>1, <3>1, <4>3, <4>6
      <4>. QED  BY <4>4, <4>5, <4>6
    <3>. QED  BY <3>5, <3>6
  <2>. QED  BY <2>2, <2>4
<1>4. CASE Poll
  <2>1. /\ UNCHANGED <<chat, phase, step, current, told, dropped, spent>> /\ phase = "up"
        /\ Reached' = Reached
    BY <1>4, PollReached DEF Poll, history
  <2>2. ASSUME NEW h \in Hosts, NEW n \in About(h), Kept(h, chat[n], n)
        PROVE  Kept(h, chat[n], n)'
    BY <2>1, <2>2 DEF Kept, ToCome
  <2>q. /\ spent'.faults >= spent.faults /\ dropped \subseteq dropped'
        /\ spent'.faults = 0 /\ dropped' = {} => ReplySaved'
    BY <1>f, <2>1 DEF NewestKept, ReplySaved
  <2>. QED  BY <1>f, <2>1, <2>2, <2>q, NewestKeptIntro
<1>5. CASE Start
  <2>1. /\ UNCHANGED <<chat, dropped>> /\ phase # "up" /\ phase' = "up" /\ step' = "idle"
        /\ queue' = <<>> /\ polled' = confirmed
    BY <1>5 DEF Start, ChannelInOrder
  <2>2. /\ spent'.faults >= spent.faults
        /\ spent'.faults = 0 => \A h \in Hosts : told[h].saved => told'[h] = told[h]
    BY <1>f, <1>5, FaultSpends DEF Start, NewMuteStore
  <2>3. Reached' = confirmed
    <3>1. Len(queue') = 0 /\ confirmed \in Nat
      BY <2>1, Counts
    <3>. QED  BY <2>1, <3>1 DEF Reached
  <2>4. ASSUME NEW h \in Hosts, NEW n \in About(h), spent'.faults = 0, Kept(h, chat[n], n)
        PROVE  Kept(h, chat[n], n)'
    BY <2>1, <2>2, <2>3, <2>4 DEF Kept, ToCome
  <2>q. /\ spent'.faults >= spent.faults /\ dropped \subseteq dropped'
        /\ spent'.faults = 0 /\ dropped' = {} => ReplySaved'
    BY <1>f, <2>1, <2>2 DEF NewestKept, ReplySaved
  <2>. QED  BY <1>f, <2>1, <2>4, <2>q, NewestKeptIntro
<1>6. CASE Crash \/ Panic \/ Stop
  <2>1. /\ UNCHANGED <<chat, told>> /\ phase = "up" /\ phase' # "up" /\ Exit
        /\ step' = "idle" /\ dropped \subseteq dropped'
    BY <1>6 DEF Crash, Panic, Stop, Exit
  <2>2. ASSUME NEW h \in Hosts, NEW n \in About(h), dropped' = {}, Kept(h, chat[n], n)
        PROVE  Kept(h, chat[n], n)'
    <3>1. n \in 1..Len(chat)
      BY <1>a
    <3>. QED  BY <2>1, <2>2, <3>1, ExitKept DEF Kept
  <2>q. /\ spent'.faults >= spent.faults /\ dropped \subseteq dropped'
        /\ spent'.faults = 0 /\ dropped' = {} => ReplySaved'
    BY <1>f, <1>6, <2>1, EndSpends DEF NewestKept, ReplySaved
  <2>. QED  BY <1>f, <2>1, <2>2, <2>q, NewestKeptIntro
<1>7. CASE RefuseMessage \/ IgnoreButton \/ RefuseMinutes
  <2>1. Take /\ UNCHANGED <<step, current, told>> /\ ~Accepted(First)
    BY <1>7, TakeFacts DEF RefuseMessage, IgnoreButton, RefuseMinutes, Accepted
  <2>2. /\ Head(queue) = Reached + 1 /\ Reached' = Reached + 1 /\ current = 0
        /\ phase = "up" /\ phase' = "up" /\ step = "idle" /\ UNCHANGED <<chat, dropped, spent>>
        /\ Reached \in Int
    BY <2>1, TakeReached, Counts
  <2>3. ASSUME NEW h \in Hosts, NEW n \in About(h), Kept(h, chat[n], n)
        PROVE  Kept(h, chat[n], n)'
    <3>1. n # Head(queue) /\ n \in Nat \ {0}
      BY <1>a, <2>1 DEF First
    <3>. QED  BY <2>1, <2>2, <2>3, <3>1 DEF Kept, ToCome
  <2>q. /\ spent'.faults >= spent.faults /\ dropped \subseteq dropped'
        /\ spent'.faults = 0 /\ dropped' = {} => ReplySaved'
    BY <1>f, <2>1, <2>2 DEF NewestKept, ReplySaved
  <2>. QED  BY <1>f, <2>2, <2>3, <2>q, NewestKeptIntro
<1>8. CASE HandleMute \/ HandleUnmute
  <2>1. /\ Take /\ step' \in {"setMute", "deleteMute"} /\ current' = Head(queue)
        /\ Accepted(First)
        /\ \A h \in Hosts : h # First.host => told'[h] = told[h]
    BY <1>8, TakeFacts DEF HandleMute, HandleUnmute, Pending, Accepted, TypeOK
  <2>2. /\ Head(queue) = Reached + 1 /\ Reached' = Reached + 1 /\ current = 0
        /\ phase = "up" /\ phase' = "up" /\ UNCHANGED <<chat, dropped, spent>>
        /\ Reached \in Int
    BY <2>1, TakeReached, Counts
  <2>3. ASSUME NEW h \in Hosts, NEW n \in About(h), \A j \in About(h) : j <= n,
               Kept(h, chat[n], n)
        PROVE  Kept(h, chat[n], n)'
    <3>1. n \in Nat \ {0}
      BY <1>a
    <3>2. CASE h = First.host
      <4>1. Head(queue) \in About(h)
        BY <2>1, <3>2, TakeFacts, Counts DEF About, First
      <4>2. Head(queue) <= n
        BY <2>3, <4>1
      <4>. QED  BY <2>1, <2>2, <3>1, <4>2 DEF Kept, ToCome
    <3>3. CASE h # First.host
      BY <2>1, <2>2, <2>3, <3>1, <3>3 DEF Kept, ToCome
    <3>. QED  BY <3>2, <3>3
  <2>q. /\ spent'.faults >= spent.faults /\ dropped \subseteq dropped'
        /\ spent'.faults = 0 /\ dropped' = {} => ReplySaved'
    BY <1>f, <2>1, <2>2 DEF NewestKept, ReplySaved
  <2>. QED  BY <1>f, <2>2, <2>3, <2>q, NewestKeptIntro
<1>9. CASE SetMute \/ DeleteMute
  <2>1. /\ step # "idle" /\ step' = "reply" /\ (Fault \/ (Saved /\ UNCHANGED spent))
        /\ UNCHANGED <<chat, polled, queue, phase, current, dropped>>
    BY <1>9 DEF SetMute, DeleteMute, channel
  <2>2. chat[current].host \in Hosts /\ phase = "up"
    BY <2>1, CurrentFacts DEF ChannelInOrder
  <2>3. spent'.faults >= spent.faults /\ (spent'.faults = 0 => Saved)
    BY <1>f, <2>1, FaultSpends DEF Fault
  <2>4. ASSUME Saved
        PROVE  /\ told'[chat[current].host].saved = TRUE
               /\ \A h \in Hosts : told'[h].kind = told[h].kind
                    /\ (told[h].saved => told'[h].saved)
    <3>. DEFINE g == chat[current].host
    <3>1. told' = [told EXCEPT ![g] = [told[g] EXCEPT !.saved = TRUE]] /\ g \in Hosts
      BY <2>2, <2>4 DEF Saved
    <3>. HIDE DEF g
    <3>2. \A h \in Hosts : told'[h] = IF h = g THEN [told[g] EXCEPT !.saved = TRUE] ELSE told[h]
      BY <3>1 DEF TypeOK
    <3>3. \A h \in Hosts : told[h] \in Promise
      BY DEF TypeOK
    <3>4. \A p \in Promise : [p EXCEPT !.saved = TRUE].kind = p.kind /\ [p EXCEPT !.saved = TRUE].saved = TRUE
      BY DEF Promise
    <3>5. told'[g].saved = TRUE /\ \A h \in Hosts : told'[h].kind = told[h].kind /\ (told[h].saved => told'[h].saved)
      BY <3>1, <3>2, <3>3, <3>4, ZenonT(60)
    <3>. QED  BY <3>5 DEF g
  <2>5. spent'.faults = 0 => ReplySaved'
    BY <2>1, <2>3, <2>4 DEF ReplySaved
  <2>6. ASSUME NEW h \in Hosts, NEW n \in About(h), spent'.faults = 0, Kept(h, chat[n], n)
        PROVE  Kept(h, chat[n], n)'
    BY <2>1, <2>2, <2>3, <2>4, <2>6 DEF Kept, ToCome, Reached
  <2>. QED  BY <1>f, <2>1, <2>3, <2>5, <2>6, NewestKeptIntro
<1>10. CASE Reply
  <2>1. /\ step = "reply" /\ step' = "idle" /\ current' = 0
        /\ UNCHANGED <<chat, polled, queue, phase, dropped, spent>>
    BY <1>10 DEF Reply, channel
  <2>. DEFINE u == chat[current]
              g == u.host
  <2>2. phase = "up" /\ current = Reached /\ g \in Hosts /\ Accepted(u) /\ current \in 1..Len(chat)
    BY <2>1, CurrentFacts DEF ChannelInOrder, HandlesAccepted
  <2>3. current \in About(g)
    BY <2>2, Counts DEF About
  <2>4. /\ told[g].saved => told'[g].kind = u.kind /\ told'[g].saved
        /\ \A h \in Hosts : h # g => told'[h] = told[h]
    <3>1. told' = [told EXCEPT ![g] = [told[g] EXCEPT !.kind = u.kind]] /\ g \in Hosts
      BY <1>10, <2>2 DEF Reply
    <3>2. told[g] \in Promise
      BY <2>2 DEF TypeOK
    <3>. HIDE DEF g, u
    <3>. QED  BY <3>1, <3>2 DEF TypeOK, Promise
  <2>5. ASSUME NEW h \in Hosts, NEW n \in About(h), \A j \in About(h) : j <= n,
               dropped = {}, spent.faults = 0, Kept(h, chat[n], n)
        PROVE  Kept(h, chat[n], n)'
    <3>1. n \in Nat \ {0} /\ chat[n].host = h
      BY <1>a
    <3>2. Reached' = Reached /\ Reached \in Int
      BY <2>1, Counts DEF Reached
    <3>3. CASE n > Reached
      BY <2>1, <2>2, <3>2, <3>3 DEF Kept, ToCome
    <3>4. CASE ~(n > Reached) /\ h = g
      <4>1. current <= n
        BY <2>3, <2>5, <3>4
      <4>2. n = current
        BY <2>2, <3>1, <3>4, <4>1
      <4>3. told[g].saved
        BY <2>1, <2>5 DEF NewestKept
      <4>. QED  BY <2>1, <2>4, <3>4, <4>2, <4>3 DEF Kept
    <3>5. CASE ~(n > Reached) /\ h # g
      <4>1. n # current
        BY <3>1, <3>5
      <4>2. told[h].kind = chat[n].kind /\ told[h].saved
        BY <2>2, <2>5, <3>5, <4>1 DEF Kept, ToCome
      <4>. QED  BY <2>1, <2>4, <3>5, <4>2 DEF Kept
    <3>. QED  BY <3>3, <3>4, <3>5
  <2>6. ReplySaved'
    BY <2>1 DEF ReplySaved
  <2>7. spent'.faults >= spent.faults /\ dropped \subseteq dropped'
    BY <1>f, <2>1
  <2>. QED  BY <1>f, <2>1, <2>5, <2>6, <2>7, NewestKeptIntro
<1>. QED  BY <1>1, <1>2, <1>3, <1>4, <1>5, <1>6, <1>7, <1>8, <1>9, <1>10 DEF Next, Handler

-----------------------------------------------------------------------------
(* The theorems.                                                            *)

\* Before anything is sent there is nothing to bear out.
LEMMA InitIInv == Init => IInv
<1>. SUFFICES ASSUME Init PROVE IInv
  OBVIOUS
<1>1. MaxUpdates \in Nat /\ Ids \subseteq Nat
  BY MutesAssumption DEF Ids
<1>2. Len(chat) = 0 /\ Len(queue) = 0 /\ DOMAIN chat = {}
  BY DEF Init
<1>3. TypeOK
  <2>1. chat \in Seq(Updates) /\ queue \in Seq(1..Len(chat))
    BY EmptySeq DEF Init
  <2>2. told \in [Hosts -> Promise]
    BY DEF Init, Nothing, Promise
  <2>3. /\ answers \in [Ids -> Nat] /\ spent \in [DOMAIN Limits -> Nat]
        /\ dropped \subseteq Ids /\ cache \subseteq Entry /\ table \subseteq Entry
    BY DEF Init
  <2>. QED  BY <1>2, <2>1, <2>2, <2>3 DEF TypeOK, Init
<1>4. Core
  BY DEF Init, Core, CacheBears, TableBears, AnswerWillHold, Nothing
<1>5. ChannelInOrder
  BY <1>2 DEF Init, ChannelInOrder
<1>6. AnswersCounted
  BY LimitsDomain DEF Init, AnswersCounted
<1>7. \A h : About(h) = {} /\ Newest(h) = 0
  BY <1>2 DEF About, Newest
<1>8. HandlesAccepted /\ NewestExists /\ NewestKept
  BY <1>7 DEF Init, HandlesAccepted, NewestExists, NewestKept
<1>. QED  BY <1>1, <1>2, <1>3, <1>4, <1>5, <1>6, <1>8 DEF IInv

\* No step sends more than the bound allows.
LEMMA SentBounded == TypeOK /\ Len(chat) <= MaxUpdates /\ [Next]_vars => Len(chat') <= MaxUpdates
<1>. SUFFICES ASSUME TypeOK, Len(chat) <= MaxUpdates, [Next]_vars PROVE Len(chat') <= MaxUpdates
  OBVIOUS
<1>1. ASSUME NEW u \in Updates, Send(u) PROVE Len(chat') <= MaxUpdates
  BY <1>1, SendFacts, MutesAssumption DEF Send
<1>2. UNCHANGED chat \/ \E u \in Updates : Send(u)
  BY DEF Next, vars, Tick, Poll, Start, AbortStart, Crash, Panic, Stop, Exit, Handler,
         RefuseMessage, IgnoreButton, RefuseMinutes, HandleMute, HandleUnmute, Take, SetMute, DeleteMute, Reply
<1>. QED  BY <1>1, <1>2

\* The invariant is inductive.
LEMMA StepIInv == IInv /\ [Next]_vars => IInv'
BY TypeStep, SentBounded, CoreStep, ChannelStep, AnswersStep, HandlesAcceptedStep,
   NewestExistsStep, NewestKeptStep DEF IInv

\* Whatever the bot does, IInv holds.
LEMMA IInvAlways == Spec => []IInv
BY InitIInv, StepIInv, PTL DEF Spec

\* Every variable keeps its type, map and table hold a host at most once, and
\* a handler past its first step has its update.
THEOREM TypeCorrect == Spec => []TypeOK
<1>1. IInv => TypeOK
  BY DEF IInv
<1>. QED  BY <1>1, IInvAlways, PTL

\* A host confirmed as muted is muted for exactly the minutes it named, over
\* restarts, late faults of the database and expired rows: handleMute, mute,
\* SetMute, newMuteStore and isMuted together.
THEOREM ConfirmedMuteHoldsAlways == Spec => []ConfirmedMuteHolds
<1>1. ASSUME IInv PROVE ConfirmedMuteHolds
  <2>. SUFFICES ASSUME NEW h \in Hosts, phase = "up", told[h].kind = "mute", told[h].exact
                PROVE  MutedIn(cache, h) <=> now < told[h].until
    BY DEF ConfirmedMuteHolds
  <2>1. Bears(cache, h, told[h].kind, told[h], now)
    BY <1>1 DEF IInv, Core, CacheBears
  <2>2. Ends(cache, h, told[h].until, now)
    BY <2>1 DEF Bears
  <2>. QED  BY <2>2 DEF Ends, MutedIn
<1>. QED  BY <1>1, IInvAlways, PTL

\* A host confirmed as not muted is not, until the next command is handled.
THEOREM ConfirmedUnmuteHoldsAlways == Spec => []ConfirmedUnmuteHolds
<1>1. ASSUME IInv PROVE ConfirmedUnmuteHolds
  <2>. SUFFICES ASSUME NEW h \in Hosts, phase = "up", told[h].kind = "unmute"
                PROVE  ~MutedIn(cache, h)
    BY DEF ConfirmedUnmuteHolds
  <2>1. Bears(cache, h, told[h].kind, told[h], now)
    BY <1>1 DEF IInv, Core, CacheBears
  <2>. QED  BY <2>1 DEF Bears, Free, MutedIn
<1>. QED  BY <1>1, IInvAlways, PTL

\* An update is answered twice only if the process ended in between.
THEOREM AnsweredOnceAlways == Spec => []AnsweredOnce
<1>1. ASSUME IInv PROVE AnsweredOnce
  <2>1. spent.crashes \in Nat /\ spent.stops \in Nat /\ answers \in [Ids -> Nat]
    BY <1>1, LimitsDomain DEF IInv, TypeOK
  <2>. QED  BY <1>1, <2>1 DEF IInv, AnswersCounted, AnsweredOnce
<1>. QED  BY <1>1, IInvAlways, PTL

\* However often the updates come again: once all are handled, and none was
\* dropped and no row refused, the newest one about a host has the last word.
THEOREM NewestWinsAlways == Spec => []NewestWins
<1>1. ASSUME IInv PROVE NewestWins
  <2>. SUFFICES ASSUME AllHandled, dropped = {}, spent.faults = 0,
                       NEW h \in Hosts, Newest(h) # 0
                PROVE  /\ told[h].kind = chat[Newest(h)].kind
                       /\ chat[Newest(h)].kind = "unmute" => ~MutedIn(cache, h)
    BY DEF NewestWins
  <2>. DEFINE n == Newest(h)
  <2>1. TypeOK /\ ChannelInOrder /\ NewestExists /\ NewestKept /\ CacheBears
    BY <1>1 DEF IInv, Core
  <2>2. n \in About(h)
    BY <2>1, NewestFacts
  <2>3. n \in 1..Len(chat) /\ Len(chat) \in Nat
    BY <2>1, <2>2, Counts DEF About
  <2>4. phase = "up" /\ Reached = Len(chat) /\ current = 0
    <3>1. phase = "up" /\ step = "idle" /\ Len(queue) = 0 /\ polled = Len(chat)
      BY DEF AllHandled
    <3>. QED  BY <2>1, <2>3, <3>1 DEF Reached, ChannelInOrder
  <2>5. ~ToCome(n)
    BY <2>3, <2>4 DEF ToCome
  <2>6. told[h].kind = chat[n].kind
    BY <2>1, <2>5 DEF NewestKept
  <2>7. chat[n].kind = "unmute" => Free(cache, h)
    BY <2>1, <2>4, <2>6 DEF CacheBears, Bears
  <2>. QED  BY <2>6, <2>7 DEF Free, MutedIn
<1>. QED  BY <1>1, IInvAlways, PTL
=============================================================================
