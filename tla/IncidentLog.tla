---------------------------- MODULE IncidentLog ----------------------------
(***************************************************************************)
(* What the alerter promises to everyone who reads the incidents table: a  *)
(* host and a metric are either quiet or in one incident; an incident is   *)
(* opened under a new, larger id, is resolved once, and is never reopened. *)
(***************************************************************************)
EXTENDS Integers

CONSTANT Keys       \* pairs of a host and a metric

VARIABLES
  current,    \* the id of the incident a key is in, or Quiet
  past,       \* ids of resolved incidents
  next        \* the next id

Quiet == 0

Init ==
  /\ current = [k \in Keys |-> Quiet]
  /\ past = {}
  /\ next = 1

Raise(k) ==
  /\ current[k] = Quiet
  /\ current' = [current EXCEPT ![k] = next]
  /\ next' = next + 1
  /\ UNCHANGED past

Resolve(k) ==
  /\ current[k] # Quiet
  /\ past' = past \cup {current[k]}
  /\ current' = [current EXCEPT ![k] = Quiet]
  /\ UNCHANGED next

Next == \E k \in Keys : Raise(k) \/ Resolve(k)

Spec == Init /\ [][Next]_<<current, past, next>>
=============================================================================
