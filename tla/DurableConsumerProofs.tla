----------------------- MODULE DurableConsumerProofs -----------------------
(***************************************************************************)
(* Every operation on a durable consumer keeps its type, and what each     *)
(* does to the messages inside and to the deliveries of them to come.      *)
(***************************************************************************)
EXTENDS DurableConsumer, SequenceTheorems, FiniteSetTheorems, FunctionTheorems, TLAPS

\* The empty queue of a fresh client is a queue of messages of any kind.
LEMMA EmptyType == ASSUME NEW M PROVE <<>> \in Seq(M)
OBVIOUS

\* What is pushed from a backlog are messages of that backlog.
LEMMA ToSetType ==
  ASSUME NEW M, NEW s \in Seq(M)
  PROVE  ToSet(s) \subseteq M
BY DEF ToSet

\* DeliverNew creates a consumer with nothing in it.
LEMMA NewConsumerType ==
  ASSUME NEW M
  PROVE  NoConsumer \in Consumer(M) /\ NewConsumer \in Consumer(M)
<1>1. NoConsumer \in Consumer(M)
  BY EmptyType DEF Consumer, NoConsumer
<1>2. NewConsumer \in Consumer(M)
  BY EmptyType DEF Consumer, NoConsumer, NewConsumer
<1>. QED  BY <1>1, <1>2

\* A stored message goes to the inbox or to the backlog and nowhere else.
LEMMA StoredType ==
  ASSUME NEW M, NEW c \in Consumer(M), NEW m \in M, NEW bound \in BOOLEAN
  PROVE  Stored(c, m, bound) \in Consumer(M)
<1>1. Append(c.inbox, m) \in Seq(M) /\ Append(c.backlog, m) \in Seq(M)
  BY AppendProperties DEF Consumer
<1>2. [c EXCEPT !.inbox = Append(@, m), !.unacked = @ \cup {m}] \in Consumer(M)
  BY <1>1 DEF Consumer
<1>3. [c EXCEPT !.backlog = Append(@, m)] \in Consumer(M)
  BY <1>1 DEF Consumer
<1>. QED  BY <1>2, <1>3 DEF Stored

\* Binding to a consumer moves its backlog to the client.
LEMMA SubscribedType ==
  ASSUME NEW M, NEW c \in Consumer(M)
  PROVE  Subscribed(c) \in Consumer(M)
<1>1. ToSet(c.backlog) \subseteq M
  BY ToSetType DEF Consumer
<1>2. [c EXCEPT !.mine = FALSE, !.inbox = c.backlog, !.backlog = <<>>,
               !.unacked = @ \cup ToSet(c.backlog)] \in Consumer(M)
  BY <1>1, EmptyType DEF Consumer
<1>. QED  BY <1>2, NewConsumerType DEF Subscribed

\* A redelivery puts a known message into the inbox again.
LEMMA RedeliveredType ==
  ASSUME NEW M, NEW c \in Consumer(M), NEW m \in M
  PROVE  Redelivered(c, m) \in Consumer(M)
<1>1. Append(c.inbox, m) \in Seq(M)
  BY AppendProperties DEF Consumer
<1>. QED  BY <1>1 DEF Consumer, Redelivered

\* The callback takes a message only from an inbox that has one.
LEMMA TakenType ==
  ASSUME NEW M, NEW c \in Consumer(M), c.inbox # <<>>
  PROVE  Taken(c) \in Consumer(M) /\ Head(c.inbox) \in M
<1>1. Tail(c.inbox) \in Seq(M) /\ Head(c.inbox) \in M
  BY HeadTailProperties DEF Consumer
<1>. QED  BY <1>1 DEF Consumer, Taken

\* Acknowledging, losing the client and unsubscribing only remove.
LEMMA DroppedType ==
  ASSUME NEW M, NEW c \in Consumer(M)
  PROVE  /\ \A m : Acked(c, m) \in Consumer(M)
         /\ Abandoned(c) \in Consumer(M)
         /\ Unsubscribed(c) \in Consumer(M)
<1>1. ASSUME NEW m PROVE Acked(c, m) \in Consumer(M)
  BY DEF Consumer, Acked
<1>2. Abandoned(c) \in Consumer(M)
  BY EmptyType DEF Consumer, Abandoned
<1>. QED  BY <1>1, <1>2, NewConsumerType DEF Unsubscribed

-----------------------------------------------------------------------------
(* What the operations on a consumer do to the messages in it.              *)

Inside(c) == ToSet(c.backlog) \cup ToSet(c.inbox) \cup c.unacked

\* A queue that is appended to has one element more.
LEMMA ToSetAppend ==
  ASSUME NEW M, NEW s \in Seq(M), NEW m \in M
  PROVE  ToSet(Append(s, m)) = ToSet(s) \cup {m}
<1>1. /\ DOMAIN Append(s, m) = 1..(Len(s) + 1) /\ DOMAIN s = 1..Len(s) /\ Len(s) \in Nat
      /\ \A i \in 1..Len(s) : Append(s, m)[i] = s[i]
      /\ Append(s, m)[Len(s) + 1] = m
  BY AppendProperties, LenProperties
<1>2. \A x \in ToSet(Append(s, m)) : x \in ToSet(s) \cup {m}
  <2>. TAKE x \in ToSet(Append(s, m))
  <2>1. PICK i \in 1..(Len(s) + 1) : x = Append(s, m)[i]
    BY <1>1 DEF ToSet
  <2>2. CASE i = Len(s) + 1
    BY <1>1, <2>1, <2>2
  <2>3. CASE i \in 1..Len(s)
    BY <1>1, <2>1, <2>3 DEF ToSet
  <2>. QED  BY <1>1, <2>2, <2>3
<1>3. \A x \in ToSet(s) : x \in ToSet(Append(s, m))
  <2>. TAKE x \in ToSet(s)
  <2>1. PICK i \in 1..Len(s) : x = s[i]
    BY <1>1 DEF ToSet
  <2>2. i \in 1..(Len(s) + 1) /\ x = Append(s, m)[i]
    BY <1>1, <2>1
  <2>. QED  BY <1>1, <2>2 DEF ToSet
<1>4. m \in ToSet(Append(s, m))
  <2>1. Len(s) + 1 \in DOMAIN Append(s, m)
    BY <1>1
  <2>. QED  BY <1>1, <2>1 DEF ToSet
<1>. QED  BY <1>2, <1>3, <1>4

\* A queue from which the first element is taken has nothing new.
LEMMA ToSetTail ==
  ASSUME NEW M, NEW s \in Seq(M), s # <<>>
  PROVE  ToSet(Tail(s)) \subseteq ToSet(s) /\ Head(s) \in ToSet(s)
<1>1. /\ DOMAIN s = 1..Len(s) /\ Len(s) \in Nat /\ Len(s) # 0
      /\ Tail(s) \in Seq(M) /\ Len(Tail(s)) = Len(s) - 1
      /\ \A i \in 1..Len(Tail(s)) : Tail(s)[i] = s[i + 1]
  BY HeadTailProperties, LenProperties, EmptySeq
<1>2. DOMAIN Tail(s) = 1..Len(Tail(s))
  BY <1>1, LenProperties
<1>3. ASSUME NEW x \in ToSet(Tail(s)) PROVE x \in ToSet(s)
  <2>1. PICK i \in 1..Len(Tail(s)) : x = Tail(s)[i]
    BY <1>2 DEF ToSet
  <2>2. i + 1 \in 1..Len(s) /\ x = s[i + 1]
    BY <1>1, <2>1
  <2>. QED  BY <1>1, <2>2 DEF ToSet
<1>4. Head(s) \in ToSet(s)
  <2>1. Head(s) = s[1] /\ 1 \in 1..Len(s)
    BY <1>1
  <2>. QED  BY <1>1, <2>1 DEF ToSet
<1>. QED  BY <1>3, <1>4

\* What was in a queue is its head or in its tail.
LEMMA ToSetHead ==
  ASSUME NEW M, NEW s \in Seq(M), s # <<>>
  PROVE  ToSet(s) \subseteq ToSet(Tail(s)) \cup {Head(s)}
<1>1. /\ DOMAIN s = 1..Len(s) /\ Len(s) \in Nat /\ Tail(s) \in Seq(M)
      /\ Len(Tail(s)) = Len(s) - 1 /\ Head(s) = s[1]
      /\ \A i \in 1..Len(Tail(s)) : Tail(s)[i] = s[i + 1]
  BY HeadTailProperties, LenProperties, EmptySeq
<1>2. DOMAIN Tail(s) = 1..Len(Tail(s))
  BY <1>1, LenProperties
<1>3. ASSUME NEW x \in ToSet(s), x # Head(s) PROVE x \in ToSet(Tail(s))
  <2>1. PICK i \in 1..Len(s) : x = s[i]
    BY <1>1 DEF ToSet
  <2>2. PICK j : j = i - 1
    OBVIOUS
  <2>3. j \in 1..Len(Tail(s)) /\ i = j + 1
    BY <1>1, <1>3, <2>1, <2>2
  <2>4. Tail(s)[j] = x
    BY <1>1, <2>1, <2>3
  <2>. QED  BY <1>2, <2>3, <2>4 DEF ToSet
<1>. QED  BY <1>3

\* A queue holds finitely many messages, not more than it is long.
LEMMA ToSetFinite ==
  ASSUME NEW M, NEW s \in Seq(M)
  PROVE  IsFiniteSet(ToSet(s)) /\ Cardinality(ToSet(s)) <= Len(s) /\ Len(s) \in Nat
<1>1. s \in [1..Len(s) -> M] /\ DOMAIN s = 1..Len(s) /\ Len(s) \in Nat
  BY LenProperties
<1>2. s \in Surjection(1..Len(s), ToSet(s))
  BY <1>1 DEF Surjection, ToSet
<1>3. IsFiniteSet(1..Len(s)) /\ Cardinality(1..Len(s)) = Len(s)
  <2>1. PICK n \in Nat : n = Len(s)
    BY <1>1
  <2>2. IsFiniteSet(1..n) /\ Cardinality(1..n) = IF 1 > n THEN 0 ELSE n - 1 + 1
    BY FS_Interval
  <2>. QED  BY <2>1, <2>2
<1>4. IsFiniteSet(ToSet(s)) /\ Cardinality(ToSet(s)) <= Cardinality(1..Len(s))
  BY <1>2, <1>3, FS_Surjection
<1>. QED  BY <1>1, <1>3, <1>4

\* A consumer that does not exist takes nothing; an existing one takes the
\* message, which is still to be done from then on.
LEMMA StoredInside ==
  ASSUME NEW M, NEW c \in Consumer(M), NEW m \in M, NEW b \in BOOLEAN
  PROVE  /\ Inside(Stored(c, m, b)) \subseteq Inside(c) \cup {m}
         /\ Undone(c) \subseteq Undone(Stored(c, m, b))
         /\ c.exists => m \in Undone(Stored(c, m, b))
         /\ Stored(c, m, b).exists = c.exists
<1>1. /\ c.inbox \in Seq(M) /\ c.backlog \in Seq(M)
      /\ c = [exists |-> c.exists, mine |-> c.mine, backlog |-> c.backlog,
              inbox |-> c.inbox, unacked |-> c.unacked]
  BY DEF Consumer
<1>2. /\ ToSet(Append(c.inbox, m)) = ToSet(c.inbox) \cup {m}
      /\ ToSet(Append(c.backlog, m)) = ToSet(c.backlog) \cup {m}
  BY <1>1, ToSetAppend
<1>3. CASE ~c.exists
  BY <1>3 DEF Stored
<1>4. CASE c.exists /\ b
  <2>1. /\ Stored(c, m, b).exists = c.exists
        /\ Stored(c, m, b).mine = c.mine
        /\ Stored(c, m, b).backlog = c.backlog
        /\ Stored(c, m, b).inbox = Append(c.inbox, m)
        /\ Stored(c, m, b).unacked = c.unacked \cup {m}
    BY <1>1, <1>4 DEF Stored
  <2>. QED  BY <1>2, <1>4, <2>1 DEF Inside, Undone
<1>5. CASE c.exists /\ ~b
  <2>1. /\ Stored(c, m, b).exists = c.exists
        /\ Stored(c, m, b).mine = c.mine
        /\ Stored(c, m, b).backlog = Append(c.backlog, m)
        /\ Stored(c, m, b).inbox = c.inbox
        /\ Stored(c, m, b).unacked = c.unacked
    BY <1>1, <1>5 DEF Stored
  <2>. QED  BY <1>2, <1>5, <2>1 DEF Inside, Undone
<1>. QED  BY <1>3, <1>4, <1>5

\* No queue, no elements.
LEMMA ToSetEmpty == ToSet(<<>>) = {}
BY DEF ToSet

\* Binding to a consumer keeps what is to be done; a new one is empty.
LEMMA SubscribedInside ==
  ASSUME NEW M, NEW c \in Consumer(M)
  PROVE  /\ c.exists => /\ Inside(Subscribed(c)) \subseteq Inside(c)
                        /\ Undone(c) \subseteq Undone(Subscribed(c))
         /\ ~c.exists => Inside(Subscribed(c)) = {}
         /\ Subscribed(c).exists
<1>1. c = [exists |-> c.exists, mine |-> c.mine, backlog |-> c.backlog,
           inbox |-> c.inbox, unacked |-> c.unacked]
  BY DEF Consumer
<1>2. CASE c.exists
  <2>1. /\ Subscribed(c).exists = c.exists
        /\ Subscribed(c).mine = FALSE
        /\ Subscribed(c).backlog = <<>>
        /\ Subscribed(c).inbox = c.backlog
        /\ Subscribed(c).unacked = c.unacked \cup ToSet(c.backlog)
    BY <1>1, <1>2 DEF Subscribed
  <2>. QED  BY <1>2, <2>1, ToSetEmpty DEF Inside, Undone
<1>3. CASE ~c.exists
  <2>1. /\ Subscribed(c).exists = TRUE
        /\ Subscribed(c).mine = TRUE
        /\ Subscribed(c).backlog = <<>>
        /\ Subscribed(c).inbox = <<>>
        /\ Subscribed(c).unacked = {}
    BY <1>3 DEF Subscribed, NewConsumer, NoConsumer
  <2>. QED  BY <1>3, <2>1, ToSetEmpty DEF Inside, Undone
<1>. QED  BY <1>2, <1>3

\* The other operations bring nothing new in, and only an acknowledgement
\* ends what is to be done.
LEMMA KeptInside ==
  ASSUME NEW M, NEW c \in Consumer(M)
  PROVE  /\ Inside(Abandoned(c)) \subseteq Inside(c)
         /\ Undone(Abandoned(c)) = Undone(c)
         /\ Abandoned(c).exists = c.exists
         /\ \A m : /\ Inside(Acked(c, m)) \subseteq Inside(c)
                   /\ Undone(c) \subseteq Undone(Acked(c, m)) \cup {m}
                   /\ Acked(c, m).exists = c.exists
         /\ \A m \in M : /\ Inside(Redelivered(c, m)) \subseteq Inside(c) \cup {m}
                         /\ Undone(Redelivered(c, m)) = Undone(c)
                         /\ Redelivered(c, m).exists = c.exists
         /\ c.inbox # <<>> => /\ Inside(Taken(c)) \subseteq Inside(c)
                              /\ Head(c.inbox) \in Inside(c)
                              /\ Undone(Taken(c)) = Undone(c)
                              /\ Taken(c).exists = c.exists
<1>1. /\ c.inbox \in Seq(M) /\ c.backlog \in Seq(M)
      /\ c = [exists |-> c.exists, mine |-> c.mine, backlog |-> c.backlog,
              inbox |-> c.inbox, unacked |-> c.unacked]
  BY DEF Consumer
<1>2. /\ Inside(Abandoned(c)) \subseteq Inside(c)
      /\ Undone(Abandoned(c)) = Undone(c) /\ Abandoned(c).exists = c.exists
  <2>1. /\ Abandoned(c).exists = c.exists
        /\ Abandoned(c).mine = FALSE
        /\ Abandoned(c).backlog = c.backlog
        /\ Abandoned(c).inbox = <<>>
        /\ Abandoned(c).unacked = c.unacked
    BY <1>1 DEF Abandoned
  <2>. QED  BY <2>1, ToSetEmpty DEF Inside, Undone
<1>3. ASSUME NEW m
      PROVE  /\ Inside(Acked(c, m)) \subseteq Inside(c)
             /\ Undone(c) \subseteq Undone(Acked(c, m)) \cup {m}
             /\ Acked(c, m).exists = c.exists
  <2>1. /\ Acked(c, m).exists = c.exists
        /\ Acked(c, m).mine = c.mine
        /\ Acked(c, m).backlog = c.backlog
        /\ Acked(c, m).inbox = c.inbox
        /\ Acked(c, m).unacked = c.unacked \ {m}
    BY <1>1 DEF Acked
  <2>. QED  BY <2>1 DEF Inside, Undone
<1>4. ASSUME NEW m \in M
      PROVE  /\ Inside(Redelivered(c, m)) \subseteq Inside(c) \cup {m}
             /\ Undone(Redelivered(c, m)) = Undone(c)
             /\ Redelivered(c, m).exists = c.exists
  <2>1. /\ Redelivered(c, m).exists = c.exists
        /\ Redelivered(c, m).mine = c.mine
        /\ Redelivered(c, m).backlog = c.backlog
        /\ Redelivered(c, m).inbox = Append(c.inbox, m)
        /\ Redelivered(c, m).unacked = c.unacked
    BY <1>1 DEF Redelivered
  <2>2. ToSet(Append(c.inbox, m)) = ToSet(c.inbox) \cup {m}
    BY <1>1, ToSetAppend
  <2>. QED  BY <2>1, <2>2 DEF Inside, Undone
<1>5. ASSUME c.inbox # <<>>
      PROVE  /\ Inside(Taken(c)) \subseteq Inside(c) /\ Head(c.inbox) \in Inside(c)
             /\ Undone(Taken(c)) = Undone(c) /\ Taken(c).exists = c.exists
  <2>1. /\ Taken(c).exists = c.exists
        /\ Taken(c).mine = c.mine
        /\ Taken(c).backlog = c.backlog
        /\ Taken(c).inbox = Tail(c.inbox)
        /\ Taken(c).unacked = c.unacked
    BY <1>1 DEF Taken
  <2>2. ToSet(Tail(c.inbox)) \subseteq ToSet(c.inbox) /\ Head(c.inbox) \in ToSet(c.inbox)
    BY <1>1, <1>5, ToSetTail
  <2>. QED  BY <2>1, <2>2 DEF Inside, Undone
<1>. QED  BY <1>2, <1>3, <1>4, <1>5

-----------------------------------------------------------------------------
(* What the operations do to each field.                                    *)

\* Only a message that reaches an existing consumer goes anywhere: to the
\* client that is bound, else to the backlog.
LEMMA StoredFields ==
  ASSUME NEW M, NEW c \in Consumer(M), NEW m, NEW bound
  PROVE  /\ Stored(c, m, bound).inbox
              = (IF c.exists /\ bound THEN Append(c.inbox, m) ELSE c.inbox)
         /\ Stored(c, m, bound).backlog
              = (IF c.exists /\ ~bound THEN Append(c.backlog, m) ELSE c.backlog)
         /\ Stored(c, m, bound).unacked
              = (IF c.exists /\ bound THEN c.unacked \cup {m} ELSE c.unacked)
<1>1. c = [exists |-> c.exists, mine |-> c.mine, backlog |-> c.backlog,
           inbox |-> c.inbox, unacked |-> c.unacked]
  BY DEF Consumer
<1>. QED  BY <1>1 DEF Stored

\* A subscription starts with the backlog in the client.
LEMMA SubscribedFields ==
  ASSUME NEW M, NEW c \in Consumer(M)
  PROVE  /\ Subscribed(c).inbox = (IF c.exists THEN c.backlog ELSE <<>>)
         /\ Subscribed(c).backlog = <<>>
         /\ NewConsumer.inbox = <<>> /\ NewConsumer.backlog = <<>>
<1>1. c = [exists |-> c.exists, mine |-> c.mine, backlog |-> c.backlog,
           inbox |-> c.inbox, unacked |-> c.unacked]
  BY DEF Consumer
<1>. QED  BY <1>1 DEF Subscribed, NewConsumer, NoConsumer

\* The operations while a client is bound leave the backlog alone.
LEMMA BoundFields ==
  ASSUME NEW M, NEW c \in Consumer(M), NEW m
  PROVE  /\ Redelivered(c, m).inbox = Append(c.inbox, m)
         /\ Redelivered(c, m).backlog = c.backlog
         /\ Redelivered(c, m).unacked = c.unacked
         /\ Taken(c).inbox = Tail(c.inbox)
         /\ Taken(c).backlog = c.backlog /\ Taken(c).unacked = c.unacked
         /\ Acked(c, m).inbox = c.inbox
         /\ Acked(c, m).backlog = c.backlog /\ Acked(c, m).unacked = c.unacked \ {m}
<1>1. c = [exists |-> c.exists, mine |-> c.mine, backlog |-> c.backlog,
           inbox |-> c.inbox, unacked |-> c.unacked]
  BY DEF Consumer
<1>. QED  BY <1>1 DEF Redelivered, Taken, Acked

\* A client that goes takes its inbox with it.
LEMMA GoneFields ==
  ASSUME NEW M, NEW c \in Consumer(M)
  PROVE  /\ Abandoned(c).inbox = <<>> /\ Unsubscribed(c).inbox = <<>>
         /\ Abandoned(c).backlog = c.backlog
         /\ Unsubscribed(c).backlog \in {<<>>, c.backlog}
<1>1. c = [exists |-> c.exists, mine |-> c.mine, backlog |-> c.backlog,
           inbox |-> c.inbox, unacked |-> c.unacked]
  BY DEF Consumer
<1>. QED  BY <1>1 DEF Abandoned, Unsubscribed, NoConsumer

-----------------------------------------------------------------------------
(* How many deliveries of a message are to come.                            *)

\* How often q holds m.
Occurs(q, m) == Cardinality({i \in 1..Len(q) : q[i] = m})

\* The server has no acknowledgement of m and the client, whose callback has cur
\* in hand, does not hold it: it is pushed once more without anything new going
\* wrong.
Lapsed(c, cur, m) == IF m \in c.unacked /\ m # cur /\ m \notin ToSet(c.inbox) THEN 1 ELSE 0

\* Deliveries of m to come if nothing further goes wrong.
ToCome(c, cur, m) == Occurs(c.inbox, m) + Occurs(c.backlog, m) + Lapsed(c, cur, m)

\* The places of m in a queue are finitely many; none if m is not in it.
LEMMA OccursType ==
  ASSUME NEW M, NEW q \in Seq(M), NEW m
  PROVE  /\ IsFiniteSet({i \in 1..Len(q) : q[i] = m}) /\ Occurs(q, m) \in Nat
         /\ m \in ToSet(q) <=> Occurs(q, m) >= 1
<1>. DEFINE A == {i \in 1..Len(q) : q[i] = m}
<1>1. IsFiniteSet(1..Len(q)) /\ DOMAIN q = 1..Len(q)
  BY FS_Interval, LenProperties
<1>2. IsFiniteSet(A)
  BY <1>1, FS_Subset
<1>3. Cardinality(A) \in Nat /\ (Cardinality(A) = 0 <=> A = {})
  BY <1>2, FS_CardinalityType, FS_EmptySet
<1>4. m \in ToSet(q) <=> A # {}
  BY <1>1 DEF ToSet
<1>. QED  BY <1>2, <1>3, <1>4 DEF Occurs

\* An empty queue has no message.
LEMMA OccursEmpty == \A m : Occurs(<<>>, m) = 0
<1>1. \A m : {i \in 1..Len(<<>>) : <<>>[i] = m} = {}
  OBVIOUS
<1>. QED  BY <1>1, FS_EmptySet DEF Occurs

\* Appending adds one place at most, and only for the message appended.
LEMMA OccursAppend ==
  ASSUME NEW M, NEW q \in Seq(M), NEW e \in M, NEW m
  PROVE  Occurs(Append(q, e), m) = Occurs(q, m) + (IF e = m THEN 1 ELSE 0)
<1>. DEFINE A == {i \in 1..Len(q) : q[i] = m}
            B == {i \in 1..Len(Append(q, e)) : Append(q, e)[i] = m}
            n == Len(q) + 1
<1>1. /\ Len(q) \in Nat /\ Len(Append(q, e)) = Len(q) + 1
      /\ \A i \in 1..Len(q) : Append(q, e)[i] = q[i]
      /\ Append(q, e)[Len(q) + 1] = e
  BY AppendProperties, LenProperties
<1>2. IsFiniteSet(A) /\ Cardinality(A) \in Nat /\ n \notin A
  <2>1. IsFiniteSet(A)
    BY OccursType
  <2>. QED  BY <1>1, <2>1, FS_CardinalityType
<1>3. Occurs(q, m) = Cardinality(A) /\ Occurs(Append(q, e), m) = Cardinality(B)
  BY DEF Occurs
<1>. HIDE DEF n
<1>4. CASE e = m
  <2>1. B = A \cup {n}
    BY <1>1, <1>4 DEF n
  <2>2. Cardinality(A \cup {n}) = Cardinality(A) + 1
    BY <1>2, FS_AddElement
  <2>. QED  BY <1>3, <1>4, <2>1, <2>2
<1>5. CASE e # m
  <2>1. B = A
    BY <1>1, <1>5
  <2>. HIDE DEF A, B
  <2>. QED  BY <1>2, <1>3, <1>5, <2>1
<1>. QED  BY <1>4, <1>5

\* Taking the first message takes one place of it.
LEMMA OccursTail ==
  ASSUME NEW M, NEW q \in Seq(M), q # <<>>, NEW m
  PROVE  Occurs(Tail(q), m) + (IF Head(q) = m THEN 1 ELSE 0) <= Occurs(q, m)
<1>. DEFINE r == Tail(q)
            A == {i \in 1..Len(r) : r[i] = m}
            B == {i \in 1..Len(q) : q[i] = m}
            C == B \ {1}
<1>1. /\ Len(q) \in Nat \ {0} /\ Len(r) = Len(q) - 1 /\ r \in Seq(M)
      /\ \A i \in 1..Len(r) : r[i] = q[i + 1]
      /\ Head(q) = q[1]
  BY HeadTailProperties, LenProperties, EmptySeq
<1>2. /\ IsFiniteSet(A) /\ Cardinality(A) \in Nat
      /\ IsFiniteSet(B) /\ Cardinality(B) \in Nat
  BY <1>1, OccursType DEF Occurs
<1>3. IsFiniteSet(C) /\ Cardinality(C) \in Nat
  BY <1>2, FS_RemoveElement, FS_CardinalityType
<1>4. PICK f : f = [i \in A |-> i + 1]
  OBVIOUS
<1>5. \A i \in A : i \in Nat /\ i + 1 \in C
  BY <1>1
<1>6. f \in [A -> C] /\ \A i \in A : f[i] = i + 1
  BY <1>4, <1>5
<1>7. \A i, j \in A : f[i] = f[j] => i = j
  BY <1>5, <1>6
<1>. HIDE DEF A, C
<1>8. f \in Injection(A, C)
  BY <1>6, <1>7 DEF Injection, IsInjective
<1>9. Cardinality(A) <= Cardinality(C)
  BY <1>3, <1>8, FS_Injection
<1>10. Cardinality(C) = IF 1 \in B THEN Cardinality(B) - 1 ELSE Cardinality(B)
  BY <1>2, FS_RemoveElement DEF C
<1>11. 1 \in B <=> Head(q) = m
  BY <1>1
<1>12. Occurs(r, m) = Cardinality(A) /\ Occurs(q, m) = Cardinality(B)
  BY DEF Occurs, A
<1>. QED  BY <1>2, <1>9, <1>10, <1>11, <1>12

-----------------------------------------------------------------------------
(* What the operations on a consumer do to the deliveries to come.          *)

\* A number; zero for a message that is nowhere.
LEMMA ToComeType ==
  ASSUME NEW M, NEW c \in Consumer(M), NEW cur, NEW m
  PROVE  /\ ToCome(c, cur, m) \in Nat
         /\ m \notin Inside(c) /\ m # cur => ToCome(c, cur, m) = 0
<1>1. c.inbox \in Seq(M) /\ c.backlog \in Seq(M)
  BY DEF Consumer
<1>2. /\ Occurs(c.inbox, m) \in Nat /\ (m \in ToSet(c.inbox) <=> Occurs(c.inbox, m) >= 1)
      /\ Occurs(c.backlog, m) \in Nat /\ (m \in ToSet(c.backlog) <=> Occurs(c.backlog, m) >= 1)
  BY <1>1, OccursType
<1>. QED  BY <1>2 DEF ToCome, Lapsed, Inside

\* Storing a message adds one delivery of it.
LEMMA ToComeStored ==
  ASSUME NEW M, NEW c \in Consumer(M), NEW e \in M, NEW b, NEW cur, NEW m
  PROVE  ToCome(Stored(c, e, b), cur, m)
           <= ToCome(c, cur, m) + (IF e = m THEN 1 ELSE 0)
<1>1. c.inbox \in Seq(M) /\ c.backlog \in Seq(M)
  BY DEF Consumer
<1>2. Occurs(c.inbox, m) \in Nat /\ Occurs(c.backlog, m) \in Nat
  BY <1>1, OccursType
<1>3. PICK a : a = IF e = m THEN 1 ELSE 0
  OBVIOUS
<1>4. CASE ~c.exists
  BY <1>2, <1>4 DEF Stored, ToCome, Lapsed
<1>5. CASE c.exists /\ b
  <2>1. /\ Stored(c, e, b).inbox = Append(c.inbox, e)
        /\ Stored(c, e, b).backlog = c.backlog
        /\ Stored(c, e, b).unacked = c.unacked \cup {e}
    BY <1>5 DEF Stored, Consumer
  <2>2. /\ Occurs(Append(c.inbox, e), m) = Occurs(c.inbox, m) + a
        /\ ToSet(Append(c.inbox, e)) = ToSet(c.inbox) \cup {e}
    BY <1>1, <1>3, OccursAppend, ToSetAppend
  <2>3. Lapsed(Stored(c, e, b), cur, m) <= Lapsed(c, cur, m)
    BY <2>1, <2>2 DEF Lapsed
  <2>. QED  BY <1>2, <1>3, <2>1, <2>2, <2>3 DEF ToCome, Lapsed
<1>6. CASE c.exists /\ ~b
  <2>1. /\ Stored(c, e, b).inbox = c.inbox
        /\ Stored(c, e, b).backlog = Append(c.backlog, e)
        /\ Stored(c, e, b).unacked = c.unacked
    BY <1>6 DEF Stored, Consumer
  <2>2. Occurs(Append(c.backlog, e), m) = Occurs(c.backlog, m) + a
    BY <1>1, <1>3, OccursAppend
  <2>. QED  BY <1>2, <1>3, <2>1, <2>2 DEF ToCome, Lapsed
<1>. QED  BY <1>4, <1>5, <1>6

\* Pushing a message again adds one delivery, unless that had lapsed.
LEMMA ToComeRedelivered ==
  ASSUME NEW M, NEW c \in Consumer(M), NEW e \in c.unacked, NEW cur, NEW m
  PROVE  /\ ToCome(Redelivered(c, e), cur, m) <= ToCome(c, cur, m) + 1
         /\ e # cur /\ e \notin ToSet(c.inbox) =>
              ToCome(Redelivered(c, e), cur, m) <= ToCome(c, cur, m)
<1>1. c.inbox \in Seq(M) /\ c.backlog \in Seq(M) /\ e \in M
  BY DEF Consumer
<1>2. Occurs(c.inbox, m) \in Nat /\ Occurs(c.backlog, m) \in Nat
  BY <1>1, OccursType
<1>3. PICK a : a = IF e = m THEN 1 ELSE 0
  OBVIOUS
<1>4. /\ Redelivered(c, e).inbox = Append(c.inbox, e)
      /\ Redelivered(c, e).backlog = c.backlog
      /\ Redelivered(c, e).unacked = c.unacked
  BY DEF Redelivered, Consumer
<1>5. /\ Occurs(Append(c.inbox, e), m) = Occurs(c.inbox, m) + a
      /\ ToSet(Append(c.inbox, e)) = ToSet(c.inbox) \cup {e}
  BY <1>1, <1>3, OccursAppend, ToSetAppend
<1>6. Lapsed(Redelivered(c, e), cur, m) <= Lapsed(c, cur, m)
  BY <1>4, <1>5 DEF Lapsed
<1>7. ASSUME e # cur, e \notin ToSet(c.inbox)
      PROVE  Lapsed(Redelivered(c, e), cur, m) + a <= Lapsed(c, cur, m)
  BY <1>3, <1>4, <1>5, <1>7 DEF Lapsed
<1>. QED  BY <1>2, <1>3, <1>4, <1>5, <1>6, <1>7 DEF ToCome, Lapsed

\* Binding to a consumer pushes what waited for it; the client's queue was gone.
LEMMA ToComeSubscribed ==
  ASSUME NEW M, NEW c \in Consumer(M), NEW cur, NEW m
  PROVE  /\ ToCome(Subscribed(c), cur, m) <= ToCome(c, cur, m)
         /\ ToCome(NewConsumer, cur, m) <= ToCome(c, cur, m)
<1>1. c.inbox \in Seq(M) /\ c.backlog \in Seq(M)
  BY DEF Consumer
<1>2. /\ Occurs(c.inbox, m) \in Nat /\ (m \in ToSet(c.inbox) <=> Occurs(c.inbox, m) >= 1)
      /\ Occurs(c.backlog, m) \in Nat
  BY <1>1, OccursType
<1>3. /\ NewConsumer.inbox = <<>> /\ NewConsumer.backlog = <<>> /\ NewConsumer.unacked = {}
      /\ Occurs(<<>>, m) = 0
  BY OccursEmpty DEF NewConsumer, NoConsumer
<1>4. ToCome(NewConsumer, cur, m) <= ToCome(c, cur, m)
  BY <1>2, <1>3 DEF ToCome, Lapsed
<1>5. CASE c.exists
  <2>1. /\ Subscribed(c).inbox = c.backlog /\ Subscribed(c).backlog = <<>>
        /\ Subscribed(c).unacked = c.unacked \cup ToSet(c.backlog)
    BY <1>5 DEF Subscribed, Consumer
  <2>2. Lapsed(Subscribed(c), cur, m) <= Lapsed(c, cur, m) + Occurs(c.inbox, m)
    BY <1>2, <2>1 DEF Lapsed
  <2>. QED  BY <1>2, <1>3, <1>4, <2>1, <2>2 DEF ToCome, Lapsed
<1>6. CASE ~c.exists
  BY <1>4, <1>6 DEF Subscribed
<1>. QED  BY <1>4, <1>5, <1>6

\* The callback takes the first message, which is one delivery.
LEMMA ToComeTaken ==
  ASSUME NEW M, NEW c \in Consumer(M), c.inbox # <<>>, NEW cur, NEW m,
         NEW cur2, cur2 = Head(c.inbox), m # cur
  PROVE  ToCome(Taken(c), cur2, m) + (IF cur2 = m THEN 1 ELSE 0) <= ToCome(c, cur, m)
<1>1. c.inbox \in Seq(M) /\ c.backlog \in Seq(M)
  BY DEF Consumer
<1>2. PICK t : t = Tail(c.inbox)
  OBVIOUS
<1>3. Taken(c).inbox = t /\ Taken(c).backlog = c.backlog /\ Taken(c).unacked = c.unacked
  BY <1>2 DEF Taken, Consumer
<1>4. PICK a \in {0, 1} : a = IF cur2 = m THEN 1 ELSE 0
  OBVIOUS
<1>5. /\ t \in Seq(M) /\ Occurs(t, m) + a <= Occurs(c.inbox, m)
  BY <1>1, <1>2, <1>4, OccursTail, HeadTailProperties
<1>6. /\ Occurs(c.inbox, m) \in Nat /\ (m \in ToSet(c.inbox) <=> Occurs(c.inbox, m) >= 1)
      /\ Occurs(t, m) \in Nat /\ (m \in ToSet(t) <=> Occurs(t, m) >= 1)
      /\ Occurs(c.backlog, m) \in Nat
  BY <1>1, <1>5, OccursType
<1>7. CASE Lapsed(Taken(c), cur2, m) = 0
  BY <1>3, <1>4, <1>5, <1>6, <1>7 DEF ToCome, Lapsed
<1>8. CASE Lapsed(Taken(c), cur2, m) # 0
  <2>1. /\ m \in c.unacked /\ m # cur2 /\ m \notin ToSet(t)
        /\ Lapsed(Taken(c), cur2, m) = 1 /\ a = 0
    BY <1>3, <1>4, <1>8 DEF Lapsed
  <2>2. CASE m \in ToSet(c.inbox)
    <3>1. Occurs(t, m) = 0 /\ Occurs(c.inbox, m) >= 1
      BY <1>6, <2>1, <2>2
    <3>. QED  BY <1>3, <1>4, <1>6, <2>1, <3>1 DEF ToCome, Lapsed
  <2>3. CASE m \notin ToSet(c.inbox)
    <3>1. Lapsed(c, cur, m) = 1
      BY <2>1, <2>3 DEF Lapsed
    <3>. QED  BY <1>3, <1>4, <1>5, <1>6, <2>1, <3>1 DEF ToCome
  <2>. QED  BY <2>2, <2>3
<1>. QED  BY <1>7, <1>8

\* The acknowledgement of the message in hand leaves nothing lapsed of it.
LEMMA ToComeAcked ==
  ASSUME NEW M, NEW c \in Consumer(M), NEW cur, NEW cur2, NEW m
  PROVE  ToCome(Acked(c, cur), cur2, m) <= ToCome(c, cur, m)
<1>1. c.inbox \in Seq(M) /\ c.backlog \in Seq(M)
  BY DEF Consumer
<1>2. Occurs(c.inbox, m) \in Nat /\ Occurs(c.backlog, m) \in Nat
  BY <1>1, OccursType
<1>3. /\ Acked(c, cur).inbox = c.inbox /\ Acked(c, cur).backlog = c.backlog
      /\ Acked(c, cur).unacked = c.unacked \ {cur}
  BY DEF Acked, Consumer
<1>4. Lapsed(Acked(c, cur), cur2, m) <= Lapsed(c, cur, m)
  BY <1>3 DEF Lapsed
<1>. QED  BY <1>2, <1>3, <1>4 DEF ToCome, Lapsed

\* What is lost with the client's queue has lapsed, deleting the consumer leaves
\* nothing; the callback still has what it has.
LEMMA ToComeDropped ==
  ASSUME NEW M, NEW c \in Consumer(M), NEW cur, NEW m
  PROVE  /\ ToCome(Abandoned(c), cur, m) <= ToCome(c, cur, m)
         /\ ToCome(Unsubscribed(c), cur, m) <= ToCome(c, cur, m)
<1>1. c.inbox \in Seq(M) /\ c.backlog \in Seq(M)
  BY DEF Consumer
<1>2. /\ Occurs(c.inbox, m) \in Nat /\ (m \in ToSet(c.inbox) <=> Occurs(c.inbox, m) >= 1)
      /\ Occurs(c.backlog, m) \in Nat /\ Occurs(<<>>, m) = 0
  BY <1>1, OccursType, OccursEmpty
<1>3. /\ Abandoned(c).inbox = <<>> /\ Abandoned(c).backlog = c.backlog
      /\ Abandoned(c).unacked = c.unacked
  BY DEF Abandoned, Consumer
<1>4. NoConsumer.inbox = <<>> /\ NoConsumer.backlog = <<>> /\ NoConsumer.unacked = {}
  BY DEF NoConsumer
<1>5. Lapsed(Abandoned(c), cur, m) <= Lapsed(c, cur, m) + Occurs(c.inbox, m)
  BY <1>2, <1>3 DEF Lapsed
<1>6. ToCome(Abandoned(c), cur, m) <= ToCome(c, cur, m)
  BY <1>2, <1>3, <1>5 DEF ToCome, Lapsed
<1>7. ToCome(NoConsumer, cur, m) <= ToCome(c, cur, m)
  BY <1>2, <1>4 DEF ToCome, Lapsed
<1>. QED  BY <1>6, <1>7 DEF Unsubscribed

\* A callback that dies lets its message lapse, at most.
LEMMA ToComeExit ==
  ASSUME NEW M, NEW c \in Consumer(M), NEW cur, NEW cur2, NEW m
  PROVE  ToCome(c, cur2, m) <= ToCome(c, cur, m) + 1
<1>1. c.inbox \in Seq(M) /\ c.backlog \in Seq(M)
  BY DEF Consumer
<1>2. Occurs(c.inbox, m) \in Nat /\ Occurs(c.backlog, m) \in Nat
  BY <1>1, OccursType
<1>. QED  BY <1>2 DEF ToCome, Lapsed
=============================================================================
