\* Three counters and the event of an outer perf stat on a PMU with two
\* counters: the kernel rotates them.  Workers may do the inference.
CONSTANTS
  NFds = 3
  Column <- ThreeColumns
  NWarmup = 1
  NRuns = 2
  InferParts = 1
  Shared = {0}
  NClosed = 2
  MaxInterrupts = 1
  Outer = {stat}
  Hostable <- TwoSlots
SPECIFICATION Spec
INVARIANTS RowsPure LatencyExact
