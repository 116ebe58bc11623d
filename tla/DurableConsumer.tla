-------------------------- MODULE DurableConsumer --------------------------
(***************************************************************************)
(* A JetStream push consumer with a durable name and explicit              *)
(* acknowledgement, as the processes of this system use it: they call      *)
(* Subscribe(..., Durable(name), DeliverNew()), Ack at the end of the      *)
(* callback, and Unsubscribe on a signal.  The server and the client       *)
(* library are external to the repository.                                 *)
(*                                                                         *)
(* exists   the server holds a consumer of that name                       *)
(* mine     this subscription created it, so Unsubscribe deletes it        *)
(* backlog  stored messages the server has not pushed yet (nobody bound)   *)
(* inbox    pushed messages waiting in the client for the callback         *)
(* unacked  pushed messages the server has no acknowledgement of           *)
(***************************************************************************)
EXTENDS SequencesExt

Consumer(Messages) ==
  [exists : BOOLEAN, mine : BOOLEAN, backlog : Seq(Messages), inbox : Seq(Messages),
   unacked : SUBSET Messages]

NoConsumer ==
  [exists |-> FALSE, mine |-> FALSE, backlog |-> <<>>, inbox |-> <<>>, unacked |-> {}]

\* DeliverNew: a consumer starts empty, whatever the stream already stores.
NewConsumer == [NoConsumer EXCEPT !.exists = TRUE, !.mine = TRUE]

\* A message reaches the stream.
Stored(c, m, bound) ==
  IF ~c.exists THEN c
  ELSE IF bound THEN [c EXCEPT !.inbox = Append(@, m), !.unacked = @ \cup {m}]
       ELSE [c EXCEPT !.backlog = Append(@, m)]

\* Subscribe binds to an existing consumer and is pushed its backlog, or
\* creates one.
Subscribed(c) ==
  IF c.exists
  THEN [c EXCEPT !.mine = FALSE, !.inbox = c.backlog, !.backlog = <<>>,
                 !.unacked = @ \cup ToSet(c.backlog)]
  ELSE NewConsumer

\* The acknowledgement did not come within AckWait: the server pushes again.
Redelivered(c, m) == [c EXCEPT !.inbox = Append(@, m)]

Taken(c) == [c EXCEPT !.inbox = Tail(@)]

Acked(c, m) == [c EXCEPT !.unacked = @ \ {m}]

\* The client is gone without a word; the server keeps the consumer.
Abandoned(c) == [c EXCEPT !.mine = FALSE, !.inbox = <<>>]

Unsubscribed(c) == IF c.mine THEN NoConsumer ELSE Abandoned(c)

\* Messages that will still reach a callback.
Undone(c) == ToSet(c.backlog) \cup c.unacked

InInbox(c, m) == m \in ToSet(c.inbox)

=============================================================================
