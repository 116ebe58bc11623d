---------------------------- MODULE MCCommands ----------------------------
(* Instance of the commands for TLC. *)
EXTENDS Commands

CONSTANTS h1, h2

TwoAndOne == [h \in Hosts |-> IF h = h1 THEN 2 ELSE 1]
=============================================================================
