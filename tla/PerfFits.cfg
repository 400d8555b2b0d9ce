\* Four counters, one column fed by two of them, on a PMU that can host them
\* together with the event of an outer perf stat; the second part of an
\* inference may be done by worker threads.
CONSTANTS
  NFds = 4
  Column <- FourColumns
  NWarmup = 1
  NRuns = 2
  InferParts = 2
  Shared = {1}
  NClosed = 3
  MaxInterrupts = 3
  Outer = {stat}
  Hostable <- Roomy
SPECIFICATION Spec
INVARIANTS TypeOK RowsComplete OverheadBalanced
PROPERTIES KeepsPromise
