SPECIFICATION Spec
CONSTANTS
  Cards <- MCCards
  Published <- MCPublished
  NRuns = 3
  MaxFaults = 2
  MaxScripts = 3
INVARIANT LatenciesOfCard
