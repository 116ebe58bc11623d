----------------------------- MODULE MCAlerter -----------------------------
(* Values of the alerter's constants for TLC. *)
EXTENDS Alerter

Level(cpu, ram, disk) ==
  [m \in Metrics |-> CASE m = "cpu" -> cpu [] m = "ram" -> ram [] m = "disk" -> disk]

Calm    == Level(50, 50, 50)
HotCpu  == Level(90, 50, 50)
HotRam  == Level(50, 90, 50)
HotAll  == Level(90, 90, 90)

CpuReadings == {Calm, HotCpu}
RamReadings == {Calm, HotRam}
AllReadings == {Calm, HotAll}
BothReadings == {Calm, HotCpu, HotRam}

Rule(m, threshold, count, enabled) ==
  [metric |-> m, threshold |-> threshold, count |-> count, enabled |-> enabled]

CpuTwice == {Rule("cpu", 60, 2, TRUE)}
CpuOff   == {Rule("cpu", 60, 2, TRUE), Rule("cpu", 60, 2, FALSE)}
RamOff   == {Rule("ram", 80, 1, FALSE), Rule("ram", 80, 1, TRUE)}
AtLimit  == {Rule("cpu", 90, 1, TRUE), Rule("ram", 80, 1, FALSE)}

NoSettings == {}

\* A table never used, and one whose CPU rule was set to two readings.
Fresh     == {EmptyRules}
EditedCpu == {Updated(Initialised(EmptyRules), 1, Rule("cpu", 60, 2, TRUE))}
EitherTable == Fresh \cup EditedCpu
=============================================================================
