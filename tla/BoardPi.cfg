SPECIFICATION Spec
CONSTANTS
  NWarmup = 5
  Number <- MCNumber
  Schedule <- MCPi
  Installed <- MCPiInstalled
  Unusable = {}
  Perfs = {"absent", "full"}
  Fallback = FALSE
  MayFill = FALSE
  MaxBoots = 2
  MaxCuts = 0
  MaxTroubles = 0
INVARIANTS TxtNamesWhatRan WarmedUpOthers
