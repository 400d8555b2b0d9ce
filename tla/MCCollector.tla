---------------------------- MODULE MCCollector -----------------------------
(***************************************************************************)
(* Instances of Collector for TLC: a board that ran two campaigns on one   *)
(* card, another whose second program left no CSV, and a card that never   *)
(* was in a board.                                                         *)
(***************************************************************************)
EXTENDS Collector, TLC

Ran(n, counters) == [campaign |-> n, counters |-> counters]
Both == {"cycles", "l1_loads"}
Whole(n) == [campaign |-> n, rows |-> NRuns]

\* Its first campaign was cut short while perf was printing.
MCTwice ==
  [booted |-> TRUE,
   txt |-> "a" :> <<Ran(1, {"cycles"}), Ran(2, Both)>>
           @@ "b" :> <<Ran(1, {}), Ran(2, Both)>>,
   csv |-> "a" :> Whole(2) @@ "b" :> Whole(2)]

MCOther ==
  [booted |-> TRUE,
   txt |-> "a" :> <<Ran(3, Both)>> @@ "c" :> <<Ran(3, {})>>,
   csv |-> "a" :> [campaign |-> 3, rows |-> NRuns - 1]]

MCUnused == [booted |-> FALSE, txt |-> <<>>, csv |-> <<>>]

MCCards == {MCTwice, MCOther, MCUnused}

\* The results kept in the repository.
MCPublished ==
  [res |-> Dir("a" :> <<Ran(9, Both)>>), lat |-> Dir("a" :> Whole(9))]
=============================================================================
