SPECIFICATION Spec
CONSTANTS
  Cards <- MCCards
  Published <- MCPublished
  NRuns = 3
  MaxFaults = 2
  MaxScripts = 3
INVARIANTS ResultsOfCard LatenciesCover
PROPERTIES PublishedKept
