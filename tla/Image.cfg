SPECIFICATION Spec
CONSTANTS
  UnsafePaths = {"/usr/include"}
  NumeralOf <- MCNumeralOf
  SystemIds = {100, 101, 102, 103}
  UserIds = {1000, 1001}
  Programs <- MCPrograms
  Libs <- MCLibs
  Skeleton <- MCSkeleton
  Passwd <- MCPasswd
  Group <- MCGroup
  Plans <- MCPlans
CHECK_DEADLOCK FALSE
INVARIANTS ArgsFit NoUnsafePath Reconciled Installed Fresh AsTables UsersKept
