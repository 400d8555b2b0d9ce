SPECIFICATION Spec
CONSTANTS
  NWarmup = 5
  Number <- MCNumber
  Schedule <- MCFew
  Installed <- MCFewInstalled
  Unusable <- MCNoModel
  Perfs = {"full", "few"}
  Fallback = TRUE
  MayFill = TRUE
  MaxBoots = 2
  MaxCuts = 1
  MaxTroubles = 2
INVARIANTS TxtWellFormed ReportAfterCsv FreshAtEnd
PROPERTIES OnCardKept CampaignEnds
