SPECIFICATION Spec
CONSTANTS
  NWarmup = 5
  Number <- MCNumber
  Schedule <- MCRiscv
  Installed <- MCOneSkipped
  Unusable = {}
  Perfs = {"absent"}
  Fallback = TRUE
  MayFill = FALSE
  MaxBoots = 1
  MaxCuts = 0
  MaxTroubles = 0
INVARIANT TxtNamesWhatRan
