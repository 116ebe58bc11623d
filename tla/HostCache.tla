----------------------------- MODULE HostCache -----------------------------
(***************************************************************************)
(* internal/hostcache: the last event of every host and when it came.      *)
(* An event is its host, its number at the agent, and which of the         *)
(* optional parts (SysInfo, Ports, Temperatures, TopProcesses) it carries; *)
(* a cached part is the number of the event it comes from, 0 for none.     *)
(* Of lastSeen only the hosts seen less than 30 seconds ago are kept.      *)
(* Every method runs under the lock of the cache, so each is one operator. *)
(***************************************************************************)
EXTENDS Naturals

CONSTANTS Hosts, Parts

Event == [host : Hosts, tick : Nat \ {0}, has : SUBSET Parts]
Slot  == [tick : Nat, part : [Parts -> Nat]]
Cache == [slot : [Hosts -> Slot], recent : SUBSET Hosts]

EmptySlot == [tick |-> 0, part |-> [p \in Parts |-> 0]]
NewCache  == [slot |-> [h \in Hosts |-> EmptySlot], recent |-> {}]

Replaced(c, e, parts) ==
  [slot   |-> [c.slot EXCEPT ![e.host] = [tick |-> e.tick, part |-> parts]],
   recent |-> c.recent \cup {e.host}]

\* Set: what the event does not carry is gone.
Set(c, e) == Replaced(c, e, [p \in Parts |-> IF p \in e.has THEN e.tick ELSE 0])

\* SetWithMerge: what the event does not carry is kept.
SetWithMerge(c, e) ==
  Replaced(c, e, [p \in Parts |-> IF p \in e.has THEN e.tick ELSE c.slot[e.host].part[p]])

\* GetAll and Get know the hosts that ever sent something.
GetAll(c) == {h \in Hosts : c.slot[h].tick # 0}

IsOnline(c, h) == h \in c.recent

\* 30 seconds have passed since the host was seen.
Aged(c, h) == [c EXCEPT !.recent = @ \ {h}]
=============================================================================
