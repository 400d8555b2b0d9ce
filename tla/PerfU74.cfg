\* The six counters of the harness on the four counters of the U74, in a
\* program with one thread.
CONSTANTS
  NFds = 6
  Column <- SixColumns
  NWarmup = 0
  NRuns = 1
  InferParts = 2
  Shared = {}
  NClosed = 5
  MaxInterrupts = 0
  Outer <- NoOuter
  Hostable <- U74
SPECIFICATION Spec
INVARIANTS RowsComplete
