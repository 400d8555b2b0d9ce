SPECIFICATION Spec
CONSTANTS
  TypeOf <- MCTypeOf
  LexOrder <- MCLexOrder
  NumeralOf <- MCNumeralOf
  Modules = "MOD"
  Optional = {"A", "B", "D", "G", "N", "S", "P", "Q", "R", "MOD", "T", "U", "I", "V", "W"}
  ChoiceSyms = {"C", "X"}
  Trees <- MCTrees
  Autos = {}
  Decimals <- MCNumeralOf
  Hexes = {}
  Prefixed = {}
  AllNoY = {}
  Packages = {"B", "Q", "T"}
  Defconfigs <- MCDefconfigs
  Texts <- MCTexts
  MaxDrawn = 1
  Plans <- MCPlans
  Updates <- MCUpdates
INVARIANTS RoundTrip DefconfigRestores UpToDate Consistent SetTakesEffect AllAsked NothingUnsaved
PROPERTIES   Ends
