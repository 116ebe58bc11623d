---------------------------- MODULE MCDashboard ----------------------------
(* Instance of the dashboard for TLC. *)
EXTENDS Dashboard

CONSTANTS h1, h2

OnePart   == {"sysInfo"}
TwoAndOne == [h \in Hosts |-> IF h = h1 THEN 2 ELSE 1]
=============================================================================
