---------------------------- MODULE MCRulesSetup ----------------------------
(* Values of the constants of RulesSetup for TLC. *)
EXTENDS RulesSetup

AllThree == {"alerter", "dashboard", "bot"}

\* A CPU rule switched off, and a stricter RAM rule.
Edits ==
  {[metric |-> "cpu", threshold |-> 60, count |-> 3, enabled |-> FALSE],
   [metric |-> "ram", threshold |-> 70, count |-> 1, enabled |-> TRUE]}
=============================================================================
