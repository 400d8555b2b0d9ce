------------------------------ MODULE MCKConf ------------------------------
(* What may happen to the trees of MCKTrees: programs, files, failures.     *)
EXTENDS MCKTrees, KFront

AllTexts == [int |-> {"9"}, hex |-> {}, string |-> {"n"}]
AllUpdates == [t \in DOMAIN Files |-> IF t = "before" THEN {"after"} ELSE {}]

Once == [runs |-> <<ConfModes>>, edits |-> 0, faults |-> 1, keys |-> 0]
Saved == [runs |-> <<{"oldconfig", "allyesconfig", "allmodconfig", "randconfig"}, {"savedefconfig"}>>,
          edits |-> 0, faults |-> 1, keys |-> 0]
Twice == [runs |-> <<{"defconfig"}, {"syncconfig"}, {"syncconfig"}, {"syncconfig"}>>,
          edits |-> 2, faults |-> 1, keys |-> 0]
Pressed == [runs |-> <<FrontModes>>, edits |-> 0, faults |-> 0, keys |-> 2]
More == [Pressed EXCEPT !.keys = 3, !.faults = 1]
AllPlans == [t \in DOMAIN Files |->
  CASE t = "before" -> {Twice} [] t \in {"after", "loop"} -> {Once} [] t = "pages" -> {More}
    [] OTHER -> {Once, Saved, Pressed}]

Str(name, text) == [Line(name, text) EXCEPT !.quoted = TRUE]
AllDefconfigs ==
  {Absent,
   <<Line("A", "y"), Line("B", "y"), Line("N", "1"), Line("P", "y"), Line("Q", "y"), Line("R", "y")>>,
   <<Line("A", "y"), Line("B", "y"), Str("S", "n")>>,
   <<Line("MOD", "y"), Line("U", "m"), NotSet("T"), Line("V", "m"), Line("W", "y"), Line("X", "m")>>}
MCUpdates == AllUpdates
MCPlans == AllPlans
MCTexts == AllTexts
MCDefconfigs == AllDefconfigs
=============================================================================
