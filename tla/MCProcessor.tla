---------------------------- MODULE MCProcessor ----------------------------
(* Values of the processor's constants for TLC. *)
EXTENDS Processor

TwoAndOne  == [s \in Streams |-> IF s = "metrics" THEN 2 ELSE 1]
OneAndNone == [s \in Streams |-> IF s = "metrics" THEN 1 ELSE 0]
=============================================================================
