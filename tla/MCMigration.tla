---------------------------- MODULE MCMigration ----------------------------
(* Values of the migration's constants for TLC. *)
EXTENDS Migration

Rows(metrics, speedtest, rules, incidents) ==
  [t \in Numbered |-> CASE t = "metrics" -> metrics [] t = "speedtest" -> speedtest
                        [] t = "rules" -> rules [] t = "incidents" -> incidents]

NoMetrics == Rows(0, 1, 3, 1)
=============================================================================
