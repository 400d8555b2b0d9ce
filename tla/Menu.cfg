SPECIFICATION MCSpec
CONSTANTS
  TypeOf <- MCTypeOf
  LexOrder <- MCLexOrder
  NumeralOf <- MCNumeralOf
  Modules = "n"
  Optional = {"A", "B", "D", "T", "U", "N"}
  ChoiceSyms = {"C"}
  Entries <- MCEntries
  Blocks <- MCBlocks
  Vals <- MCVals
  MaxSize = 4
  MaxRows = 3
  MaxTyped = 2
  Names = {1, 2, 3, 4}
  MaxItems = 4
  Heights = {1, 2, 4}
  BoxWidth = 3
  MaxLen = 4
  MaxLines = 4
  MaxRight = 1
INVARIANTS ConditionsHandedDown NothingLost Reachable Selected PrintsAsRead SearchFinds DialogsRight
CHECK_DEADLOCK FALSE
