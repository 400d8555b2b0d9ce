SPECIFICATION Spec
CONSTANTS
  NWarmup = 5
  Number <- MCNumber
  Schedule <- MCFew
  Installed <- MCFewInstalled
  Unusable <- MCNoModel
  Perfs = {"few"}
  Fallback = TRUE
  MayFill = FALSE
  MaxBoots = 1
  MaxCuts = 0
  MaxTroubles = 0
INVARIANT FallbackMeasures
