--------------------------- MODULE MCPerfCounters ---------------------------
(***************************************************************************)
(* Small instances of PerfCounters for TLC.                                *)
(***************************************************************************)
EXTENDS PerfCounters

\* The six counters of PerfFds, fd[5] summed into the column of fd[2].
SixColumns == [k \in 0 .. 5 |-> IF k = 5 THEN 2 ELSE k]

\* Three and four counters, the last summed into the column of fd[1].
ThreeColumns == [k \in 0 .. 2 |-> IF k = 2 THEN 1 ELSE k]
FourColumns == [k \in 0 .. 3 |-> IF k = 3 THEN 1 ELSE k]

NoOuter == {}

\* A PMU with room for everything.
Roomy == SUBSET Event

\* A PMU with two counters, any event on any of them.
TwoSlots == {S \in SUBSET Event : Cardinality(S) <= 2}

\* The SiFive U74: cycles and instructions have counters of their own, two
\* more are programmable ("the SoC's 4 hardware counter slots").
U74 == {S \in SUBSET Event : Cardinality(S \ {0, 1}) <= 2}
=============================================================================
