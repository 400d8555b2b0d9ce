--------------------------- MODULE KScreen_proofs ---------------------------
(***************************************************************************)
(* Proofs about the menus and lists of menuconfig and about all of its     *)
(* dialogs (KDialog), and about the search for an option (KSearch), for any *)
(* rows, sizes and keys.                                                   *)
(***************************************************************************)
EXTENDS KText_proofs, KSearch, FiniteSetTheorems

-----------------------------------------------------------------------------
(* The rows of a menu or list.                                             *)

RowRec == [item : Int, lit : BOOLEAN]
Panes == (UNION {[S -> RowRec] : S \in SUBSET Int}) \union {<<>>}
MenuRec ==
  [kind : {"menu"}, items : Seq(BOOLEAN), selected : Int, saved : Nat, height : Nat, first : Int,
   scroll : Int, choice : Int, rows : Panes, stale : BOOLEAN, due : Int, button : Int,
   bright : Int, resized : BOOLEAN]
ListRec ==
  [kind : {"list"}, items : Seq(BOOLEAN), height : Nat, scroll : Int, choice : Int, rows : Panes,
   due : Int, button : Int, bright : Int, resized : BOOLEAN]
WinRec == MenuRec \union ListRec
Common(d) == <<d.items, d.height, d.button, d.bright, d.resized>>
Extra(d) == <<d.selected, d.saved, d.first, d.stale>>
\* What stays when the rows are scrolled or lit.
Kin(e, d) == e \in WinRec /\ e.kind = d.kind /\ Common(e) = Common(d) /\ (d.kind = "menu" => Extra(e) = Extra(d))
Pane(d) == <<d.scroll, d.choice, d.rows>>

\* The rows are set.
LEMMA SetRows ==
  ASSUME NEW d \in WinRec, NEW r \in Panes, NEW e, e = [d EXCEPT !.rows = r]
  PROVE  Kin(e, d) /\ Pane(e) = <<d.scroll, d.choice, r>>
<1>1. CASE d \in MenuRec
  <2>1. e \in MenuRec
    BY <1>1 DEF MenuRec
  <2>2. e.kind = d.kind /\ Common(e) = Common(d) /\ Extra(e) = Extra(d) /\ Pane(e) = <<d.scroll, d.choice, r>>
    BY <1>1 DEF MenuRec, Common, Extra, Pane
  <2> QED
    BY <2>1, <2>2 DEF Kin, WinRec
<1>2. CASE d \in ListRec
  <2>1. e \in ListRec /\ d.kind = "list"
    BY <1>2 DEF ListRec
  <2>2. e.kind = d.kind /\ Common(e) = Common(d) /\ Pane(e) = <<d.scroll, d.choice, r>>
    BY <1>2 DEF ListRec, Common, Pane
  <2> QED
    BY <2>1, <2>2 DEF Kin, WinRec
<1> QED
  BY <1>1, <1>2 DEF WinRec

\* The scroll is set, with the rows.
LEMMA SetScroll ==
  ASSUME NEW d \in WinRec, NEW r \in Panes, NEW s \in Int, NEW e, e = [d EXCEPT !.scroll = s, !.rows = r]
  PROVE  Kin(e, d) /\ Pane(e) = <<s, d.choice, r>>
<1>1. CASE d \in MenuRec
  <2>1. e \in MenuRec
    BY <1>1 DEF MenuRec
  <2>2. e.kind = d.kind /\ Common(e) = Common(d) /\ Extra(e) = Extra(d) /\ Pane(e) = <<s, d.choice, r>>
    BY <1>1 DEF MenuRec, Common, Extra, Pane
  <2> QED
    BY <2>1, <2>2 DEF Kin, WinRec
<1>2. CASE d \in ListRec
  <2>1. e \in ListRec /\ d.kind = "list"
    BY <1>2 DEF ListRec
  <2>2. e.kind = d.kind /\ Common(e) = Common(d) /\ Pane(e) = <<s, d.choice, r>>
    BY <1>2 DEF ListRec, Common, Pane
  <2> QED
    BY <2>1, <2>2 DEF Kin, WinRec
<1> QED
  BY <1>1, <1>2 DEF WinRec

\* The choice is set.
LEMMA SetChoice ==
  ASSUME NEW d \in WinRec, NEW c \in Int, NEW e, e = [d EXCEPT !.choice = c]
  PROVE  Kin(e, d) /\ Pane(e) = <<d.scroll, c, d.rows>>
<1>1. CASE d \in MenuRec
  <2>1. e \in MenuRec
    BY <1>1 DEF MenuRec
  <2>2. e.kind = d.kind /\ Common(e) = Common(d) /\ Extra(e) = Extra(d) /\ Pane(e) = <<d.scroll, c, d.rows>>
    BY <1>1 DEF MenuRec, Common, Extra, Pane
  <2> QED
    BY <2>1, <2>2 DEF Kin, WinRec
<1>2. CASE d \in ListRec
  <2>1. e \in ListRec /\ d.kind = "list"
    BY <1>2 DEF ListRec
  <2>2. e.kind = d.kind /\ Common(e) = Common(d) /\ Pane(e) = <<d.scroll, c, d.rows>>
    BY <1>2 DEF ListRec, Common, Pane
  <2> QED
    BY <2>1, <2>2 DEF Kin, WinRec
<1> QED
  BY <1>1, <1>2 DEF WinRec

\* The item that is due is set.
LEMMA SetAim ==
  ASSUME NEW d \in WinRec, NEW x \in Int, NEW e, e = [d EXCEPT !.due = x]
  PROVE  Kin(e, d) /\ Pane(e) = Pane(d) /\ e.due = x
<1>1. CASE d \in MenuRec
  <2>1. e \in MenuRec /\ e.due = x
    BY <1>1 DEF MenuRec
  <2>2. e.kind = d.kind /\ Common(e) = Common(d) /\ Extra(e) = Extra(d) /\ Pane(e) = Pane(d)
    BY <1>1 DEF MenuRec, Common, Extra, Pane
  <2> QED
    BY <2>1, <2>2 DEF Kin, WinRec
<1>2. CASE d \in ListRec
  <2>1. e \in ListRec /\ d.kind = "list" /\ e.due = x
    BY <1>2 DEF ListRec
  <2>2. e.kind = d.kind /\ Common(e) = Common(d) /\ Pane(e) = Pane(d)
    BY <1>2 DEF ListRec, Common, Pane
  <2> QED
    BY <2>1, <2>2 DEF Kin, WinRec
<1> QED
  BY <1>1, <1>2 DEF WinRec

\* The window is in the list of items and the chosen row is in the window.
Ranged(d) ==
  /\ d \in WinRec /\ d.height > 0 /\ ItemCount(d) > 0
  /\ d.scroll \in 0..(ItemCount(d) - RowCount(d)) /\ d.choice \in 0..(RowCount(d) - 1)
  /\ d.rows \in [0..(RowCount(d) - 1) -> RowRec]
\* Every row but one shows its item and is not lit; all but the chosen one.
DarkBut(d, rows) == \A i \in 0..(RowCount(d) - 1) : i \notin rows => d.rows[i] = [item |-> d.scroll + i, lit |-> FALSE]
Bright(d) == \A i \in 0..(RowCount(d) - 1) : d.rows[i] = [item |-> d.scroll + i, lit |-> i = d.choice]

\* Numbers of rows and items.
LEMMA Counts ==
  ASSUME NEW d, Ranged(d)
  PROVE  /\ ItemCount(d) \in Nat \ {0} /\ RowCount(d) \in Nat \ {0} /\ RowCount(d) <= ItemCount(d)
         /\ RowCount(d) = Smaller(d.height, ItemCount(d)) /\ d.height \in Nat \ {0}
         /\ d.scroll \in Nat /\ d.choice \in Nat /\ d.due \in Int
<1>1. d.items \in Seq(BOOLEAN) /\ d.height \in Nat /\ d.due \in Int
  BY DEF Ranged, WinRec, MenuRec, ListRec
<1>2. Len(d.items) \in Nat
  BY <1>1, LenProperties
<1>3. /\ ItemCount(d) \in Nat \ {0} /\ RowCount(d) \in Nat \ {0} /\ RowCount(d) <= ItemCount(d)
      /\ RowCount(d) = Smaller(d.height, ItemCount(d)) /\ d.height \in Nat \ {0}
  BY <1>1, <1>2 DEF Ranged, ItemCount, RowCount, Smaller
<1> QED
  BY <1>1, <1>3 DEF Ranged

\* What the rows and items are counted from.
LEMMA SameCounts ==
  ASSUME NEW d, NEW e, Kin(e, d)
  PROVE  ItemCount(e) = ItemCount(d) /\ RowCount(e) = RowCount(d) /\ e.height = d.height /\ e.items = d.items
BY DEF Kin, Common, ItemCount, RowCount

\* Rows, as functions.
LEMMA RowsAre ==
  ASSUME NEW n \in Nat, NEW r \in [0..(n - 1) -> RowRec] PROVE r \in Panes
<1>1. 0..(n - 1) \in SUBSET Int
  OBVIOUS
<1> QED
  BY <1>1 DEF Panes

\* A row is printed.
RowIs(e, d, row, lit) ==
  /\ Kin(e, d) /\ Ranged(e) /\ e.scroll = d.scroll /\ e.choice = d.choice
  /\ \A i \in 0..(RowCount(d) - 1) :
       e.rows[i] = IF i = row THEN [item |-> d.scroll + row, lit |-> lit] ELSE d.rows[i]

\* An item is printed in its row, and no other row changes.
LEMMA Prints1 ==
  ASSUME NEW d, Ranged(d), NEW row \in 0..(RowCount(d) - 1), NEW lit \in BOOLEAN, NEW e, e = PrintItem(d, row, lit)
  PROVE  RowIs(e, d, row, lit)
<1> DEFINE new == [item |-> d.scroll + row, lit |-> lit]
           r == [d.rows EXCEPT ![row] = new]
<1>1. /\ d \in WinRec /\ d.rows \in [0..(RowCount(d) - 1) -> RowRec] /\ RowCount(d) \in Nat /\ d.scroll \in Nat
  BY Counts DEF Ranged
<1>2. new \in RowRec
  BY <1>1 DEF RowRec
<1>3. e = [d EXCEPT !.rows = r]
  BY DEF PrintItem
<1> HIDE DEF new
<1>4. r \in [0..(RowCount(d) - 1) -> RowRec] /\ \A i \in 0..(RowCount(d) - 1) : r[i] = IF i = row THEN new ELSE d.rows[i]
  BY <1>1, <1>2
<1> HIDE DEF r
<1>5. r \in Panes
  BY <1>1, <1>4, RowsAre
<1>6. Kin(e, d) /\ Pane(e) = <<d.scroll, d.choice, r>>
  BY <1>1, <1>3, <1>5, SetRows
<1>7. e.scroll = d.scroll /\ e.choice = d.choice /\ e.rows = r
  BY <1>6 DEF Pane
<1>8. ItemCount(e) = ItemCount(d) /\ RowCount(e) = RowCount(d) /\ e.height = d.height
  BY <1>6, SameCounts
<1>9. Ranged(e)
  BY <1>4, <1>6, <1>7, <1>8 DEF Ranged, Kin
<1> QED
  BY <1>4, <1>6, <1>7, <1>9 DEF new, RowIs

\* The rows are scrolled by one.
LEMMA ScrollsBy ==
  ASSUME NEW d, Ranged(d), NEW n \in {-1, 1}, d.scroll + n \in 0..(ItemCount(d) - RowCount(d)),
         NEW e, e = DoScroll(d, n)
  PROVE  /\ Kin(e, d) /\ Ranged(e) /\ e.scroll = d.scroll + n /\ e.choice = d.choice
         /\ DarkBut(d, {}) => DarkBut(e, {IF n = 1 THEN RowCount(d) - 1 ELSE 0})
<1> DEFINE R == RowCount(d)
           s == d.scroll + n
           r == [i \in DOMAIN d.rows |-> IF i + n \in DOMAIN d.rows THEN d.rows[i + n] ELSE BlankRow]
<1>1. /\ d \in WinRec /\ d.rows \in [0..(R - 1) -> RowRec] /\ R \in Nat \ {0} /\ d.scroll \in Nat
      /\ DOMAIN d.rows = 0..(R - 1)
  BY Counts DEF Ranged
<1>2. BlankRow \in RowRec
  BY DEF BlankRow, RowRec, NoItem
<1>3. e = [d EXCEPT !.scroll = s, !.rows = r]
  BY DEF DoScroll
<1>0. R = RowCount(d)
  OBVIOUS
<1> HIDE DEF R
<1>4. /\ r \in [0..(R - 1) -> RowRec]
      /\ \A i \in 0..(R - 1) : r[i] = IF i + n \in 0..(R - 1) THEN d.rows[i + n] ELSE BlankRow
  BY <1>1, <1>2
<1>5. s \in Int
  BY <1>1
<1> HIDE DEF r, s
<1>6. r \in Panes
  BY <1>1, <1>4, RowsAre
<1>7. Kin(e, d) /\ Pane(e) = <<s, d.choice, r>>
  BY <1>1, <1>3, <1>5, <1>6, SetScroll
<1>8. e.scroll = s /\ e.choice = d.choice /\ e.rows = r
  BY <1>7 DEF Pane
<1>9. ItemCount(e) = ItemCount(d) /\ RowCount(e) = R /\ e.height = d.height
  BY <1>7, SameCounts DEF R
<1>10. Ranged(e)
  BY <1>4, <1>7, <1>8, <1>9 DEF Ranged, Kin, R, s
<1>11. ASSUME DarkBut(d, {}), NEW i \in 0..(R - 1), i # (IF n = 1 THEN R - 1 ELSE 0)
       PROVE  e.rows[i] = [item |-> e.scroll + i, lit |-> FALSE]
  <2>1. i + n \in 0..(R - 1)
    BY <1>1, <1>11
  <2>2. d.rows[i + n] = [item |-> d.scroll + (i + n), lit |-> FALSE]
    BY <1>11, <2>1 DEF DarkBut, R
  <2>3. d.scroll + (i + n) = s + i
    BY <1>1, <2>1 DEF s
  <2> QED
    BY <1>4, <1>8, <2>1, <2>2, <2>3
<1> QED
  BY <1>7, <1>8, <1>9, <1>10, <1>11 DEF DarkBut, R, s

\* Another row is chosen.
LEMMA Chooses ==
  ASSUME NEW d, Ranged(d), NEW c \in 0..(RowCount(d) - 1), NEW e, e = [d EXCEPT !.choice = c]
  PROVE  /\ Kin(e, d) /\ Ranged(e) /\ e.scroll = d.scroll /\ e.choice = c
         /\ DarkBut(d, {}) => DarkBut(e, {})
<1>1. d \in WinRec /\ RowCount(d) \in Nat
  BY Counts DEF Ranged
<1>2. Kin(e, d) /\ Pane(e) = <<d.scroll, c, d.rows>>
  BY <1>1, SetChoice
<1>3. e.scroll = d.scroll /\ e.choice = c /\ e.rows = d.rows
  BY <1>2 DEF Pane
<1>4. ItemCount(e) = ItemCount(d) /\ RowCount(e) = RowCount(d) /\ e.height = d.height
  BY <1>2, SameCounts
<1> QED
  BY <1>2, <1>3, <1>4 DEF Ranged, Kin, DarkBut

\* What a step over the rows, all of them not lit, leads to: the window goes
\* on being right and the chosen item is j.
Stepped(e, d, j) ==
  /\ Kin(e, d) /\ Ranged(e) /\ ChosenItem(e) = j
  /\ DarkBut(d, {}) => DarkBut(e, {})
\* A step is one of two kinds: the rows are scrolled by one, and the row that
\* is new is printed, or another row is chosen.
LEMMA StepScrolls ==
  ASSUME NEW d, Ranged(d), NEW n \in {-1, 1}, d.scroll + n \in 0..(ItemCount(d) - RowCount(d)),
         NEW e, e = PrintItem(DoScroll(d, n), IF n = 1 THEN RowCount(d) - 1 ELSE 0, FALSE)
  PROVE  Stepped(e, d, ChosenItem(d) + n)
<1> DEFINE f == DoScroll(d, n)
           row == IF n = 1 THEN RowCount(d) - 1 ELSE 0
<1>1. /\ Kin(f, d) /\ Ranged(f) /\ f.scroll = d.scroll + n /\ f.choice = d.choice
      /\ DarkBut(d, {}) => DarkBut(f, {row})
  BY ScrollsBy
<1>2. RowCount(d) \in Nat \ {0} /\ d.scroll \in Nat /\ d.choice \in Nat
  BY Counts
<1>3. RowCount(f) = RowCount(d)
  BY <1>1, SameCounts
<1>4. row \in 0..(RowCount(f) - 1)
  BY <1>2, <1>3
<1>5. e = PrintItem(f, row, FALSE)
  OBVIOUS
<1> HIDE DEF f, row
<1>6. PICK lit \in BOOLEAN : lit = FALSE
  OBVIOUS
<1>7. e = PrintItem(f, row, lit)
  BY <1>5, <1>6, Zenon
<1>a. Ranged(f) /\ row \in 0..(RowCount(f) - 1) /\ lit \in BOOLEAN
  BY <1>1, <1>4
<1>b. RowIs(e, f, row, lit)
  BY <1>a, <1>7, Prints1
<1>8. /\ Kin(e, f) /\ Ranged(e) /\ e.scroll = f.scroll /\ e.choice = f.choice
      /\ \A i \in 0..(RowCount(f) - 1) :
           e.rows[i] = IF i = row THEN [item |-> f.scroll + row, lit |-> lit] ELSE f.rows[i]
  BY <1>b DEF RowIs
<1>9. Kin(e, d)
  BY <1>1, <1>8 DEF Kin
<1>10. ChosenItem(e) = ChosenItem(d) + n
  <2>1. e.scroll = d.scroll + n /\ e.choice = d.choice
    BY <1>1, <1>8
  <2>2. n \in Int
    OBVIOUS
  <2>3. (d.scroll + n) + d.choice = (d.scroll + d.choice) + n
    BY <1>2, <2>2
  <2> QED
    BY <2>1, <2>3 DEF ChosenItem
<1>11. RowCount(e) = RowCount(f)
  BY <1>8, SameCounts
<1>12. DarkBut(f, {row}) => DarkBut(e, {})
  BY <1>6, <1>8, <1>11 DEF DarkBut
<1> QED
  BY <1>1, <1>8, <1>9, <1>10, <1>12 DEF Stepped

\* (The second kind.)
LEMMA StepChooses ==
  ASSUME NEW d, Ranged(d), NEW c \in 0..(RowCount(d) - 1), NEW e, e = [d EXCEPT !.choice = c]
  PROVE  Stepped(e, d, d.scroll + c)
BY Chooses DEF Stepped, ChosenItem

\* One line up or down, in the list of all items.
Before(d, k) == Larger(ChosenItem(d) - k, 0)
After(d, k) == Smaller(ChosenItem(d) + k, ItemCount(d) - 1)

\* A line up or down changes the item by one, and not beyond the ends.
LEMMA Steps ==
  ASSUME NEW d, Ranged(d)
  PROVE  /\ Stepped(LineUp(d), d, Before(d, 1)) /\ Stepped(StepUp(d), d, Before(d, 1))
         /\ Stepped(LineDown(d), d, After(d, 1)) /\ Stepped(StepDown(d), d, After(d, 1))
<1> DEFINE R == RowCount(d)
           n == ItemCount(d)
           up == PrintItem(DoScroll(d, -1), 0, FALSE)
           down == PrintItem(DoScroll(d, 1), R - 1, FALSE)
           less == IF d.choice > 0 THEN d.choice - 1 ELSE 0
           more == IF d.choice + 1 < R THEN d.choice + 1 ELSE R - 1
           above == [d EXCEPT !.choice = less]
           below == [d EXCEPT !.choice = more]
<1>1. /\ n \in Nat \ {0} /\ R \in Nat \ {0} /\ R <= n /\ d.scroll \in 0..(n - R) /\ d.choice \in 0..(R - 1)
      /\ d.scroll \in Nat /\ d.choice \in Nat /\ ChosenItem(d) = d.scroll + d.choice
  BY Counts DEF Ranged, ChosenItem
<1>2. ASSUME d.scroll > 0 PROVE Stepped(up, d, Before(d, 1))
  <2>1. d.scroll + -1 \in 0..(n - R) /\ ChosenItem(d) + -1 = Before(d, 1)
    BY <1>1, <1>2 DEF Before, Larger
  <2>2. PICK m \in {-1, 1} : m = -1
    OBVIOUS
  <2>3. up = PrintItem(DoScroll(d, m), IF m = 1 THEN R - 1 ELSE 0, FALSE)
    BY <2>2
  <2> HIDE DEF up
  <2>4. Stepped(up, d, ChosenItem(d) + m)
    BY <2>1, <2>2, <2>3, StepScrolls
  <2> QED
    BY <2>1, <2>2, <2>4
<1>3. ASSUME d.scroll + R < n PROVE Stepped(down, d, After(d, 1))
  <2>1. d.scroll + 1 \in 0..(n - R) /\ ChosenItem(d) + 1 = After(d, 1)
    BY <1>1, <1>3 DEF After, Smaller
  <2>2. PICK m \in {-1, 1} : m = 1
    OBVIOUS
  <2>3. down = PrintItem(DoScroll(d, m), IF m = 1 THEN R - 1 ELSE 0, FALSE)
    BY <2>2
  <2> HIDE DEF down
  <2>4. Stepped(down, d, ChosenItem(d) + m)
    BY <2>1, <2>2, <2>3, StepScrolls
  <2> QED
    BY <2>1, <2>2, <2>4
<1>4. ASSUME d.scroll = 0 \/ d.choice > 0 PROVE Stepped(above, d, Before(d, 1))
  <2>1. less \in 0..(R - 1) /\ d.scroll + less = Before(d, 1)
    BY <1>1, <1>4 DEF Before, Larger
  <2> HIDE DEF less
  <2> QED
    BY <2>1, StepChooses
<1>5. ASSUME d.scroll + R >= n \/ d.choice < R - 1 PROVE Stepped(below, d, After(d, 1))
  <2>1. more \in 0..(R - 1) /\ d.scroll + more = After(d, 1)
    BY <1>1, <1>5 DEF After, Smaller
  <2> HIDE DEF more
  <2> QED
    BY <2>1, StepChooses
<1>6. LineUp(d) = IF d.choice < 2 /\ d.scroll > 0 THEN up ELSE above
  BY DEF LineUp
<1>7. StepUp(d) = IF d.scroll > 0 THEN up ELSE above
  BY DEF StepUp
<1>8. LineDown(d) = IF d.choice > R - 3 /\ d.scroll + R < n THEN down ELSE below
  BY DEF LineDown
<1>9. StepDown(d) = IF d.scroll + R < n THEN down ELSE below
  <2>1. CASE d.choice + 1 < R
    BY <2>1 DEF StepDown
  <2>2. CASE ~(d.choice + 1 < R)
    <3>1. d.choice = R - 1
      BY <1>1, <2>2
    <3> QED
      BY <2>2, <3>1 DEF StepDown
  <2> QED
    BY <2>1, <2>2
<1> HIDE DEF up, down, above, below
<1>10. Stepped(LineUp(d), d, Before(d, 1))
  BY <1>1, <1>2, <1>4, <1>6
<1>11. Stepped(StepUp(d), d, Before(d, 1))
  BY <1>1, <1>2, <1>4, <1>7
<1>12. Stepped(LineDown(d), d, After(d, 1))
  BY <1>1, <1>3, <1>5, <1>8
<1>13. Stepped(StepDown(d), d, After(d, 1))
  BY <1>1, <1>3, <1>5, <1>9
<1> QED
  BY <1>10, <1>11, <1>12, <1>13

\* The states that a page of steps goes through.
LEMMA UpSteps ==
  ASSUME NEW d, NEW n \in Nat, n = RowCount(d), NEW e, e = PageUp(d)
  PROVE  \E g : g[0] = d /\ (\A i \in 1..n : g[i] = StepUp(g[i - 1])) /\ e = g[n]
<1> DEFINE turns == [i \in 1..n |-> i]
<1>1. PICK g : /\ g[0] = d /\ \A i \in 1..n : g[i] = StepUp(g[i - 1])
               /\ Ups!Folded(0, d, turns) = g[n]
  <2>1. DOMAIN turns = 1..n
    OBVIOUS
  <2> HIDE DEF turns
  <2> QED
    BY <2>1, Ups!FoldSteps DEF TurnUp
<1>2. e = g[n]
  BY <1>1 DEF PageUp, FoldLeft, MapThenFoldSet, Max, Ups!FoldLeft, Ups!MapThenFoldSet, Ups!Max,
              TurnUp, Ups!Folded
<1> QED
  BY <1>1, <1>2

\* The loop of a page down goes through its steps one by one.
LEMMA DownSteps ==
  ASSUME NEW d, NEW n \in Nat, n = RowCount(d), NEW e, e = PageDown(d)
  PROVE  \E g : g[0] = d /\ (\A i \in 1..n : g[i] = StepDown(g[i - 1])) /\ e = g[n]
<1> DEFINE turns == [i \in 1..n |-> i]
<1>1. PICK g : /\ g[0] = d /\ \A i \in 1..n : g[i] = StepDown(g[i - 1])
               /\ Downs!Folded(0, d, turns) = g[n]
  <2>1. DOMAIN turns = 1..n
    OBVIOUS
  <2> HIDE DEF turns
  <2> QED
    BY <2>1, Downs!FoldSteps DEF TurnDown
<1>2. e = g[n]
  BY <1>1 DEF PageDown, FoldLeft, MapThenFoldSet, Max, Downs!FoldLeft, Downs!MapThenFoldSet, Downs!Max,
              TurnDown, Downs!Folded
<1> QED
  BY <1>1, <1>2

\* One page up or down.
LEMMA Pages ==
  ASSUME NEW d, Ranged(d)
  PROVE  Stepped(PageUp(d), d, Before(d, RowCount(d))) /\ Stepped(PageDown(d), d, After(d, RowCount(d)))
<1> DEFINE R == RowCount(d)
           n == ItemCount(d)
<1>1. /\ n \in Nat \ {0} /\ R \in Nat /\ ChosenItem(d) \in 0..(n - 1)
  BY Counts DEF Ranged, ChosenItem
<1>3. Stepped(d, d, ChosenItem(d))
  BY DEF Stepped, Kin, Ranged
<1>0. R = RowCount(d)
  OBVIOUS
<1> HIDE DEF R
<1>4. Stepped(PageUp(d), d, Before(d, R))
  <2>1. PICK g : g[0] = d /\ (\A i \in 1..R : g[i] = StepUp(g[i - 1])) /\ PageUp(d) = g[R]
    BY <1>0, <1>1, UpSteps
  <2>2. PageUp(d) = g[R]
    BY <2>1
  <2> DEFINE T == {i \in 0..R : Stepped(g[i], d, Before(d, i))}
  <2>3. 0 \in T
    <3>1. Before(d, 0) = ChosenItem(d) /\ 0 \in 0..R
      BY <1>1 DEF Before, Larger
    <3> QED
      BY <1>3, <2>1, <3>1
  <2>4. ASSUME NEW i \in 0..(R - 1), i \in T PROVE i + 1 \in T
    <3>1. i + 1 \in 1..R /\ (i + 1) - 1 = i
      BY <1>1
    <3>2. g[i + 1] = StepUp(g[i])
      BY <2>1, <3>1
    <3>3. Stepped(g[i], d, Before(d, i))
      BY <2>4
    <3>4. Stepped(g[i + 1], g[i], Before(g[i], 1))
      BY <3>2, <3>3, Steps DEF Stepped
    <3>5. Before(g[i], 1) = Before(d, i + 1)
      BY <1>1, <3>3 DEF Stepped, Before, Larger
    <3>6. Stepped(g[i + 1], d, Before(d, i + 1))
      BY <3>3, <3>4, <3>5 DEF Stepped, Kin
    <3> QED
      BY <3>1, <3>6
  <2> HIDE DEF T
  <2>5. R \in T
    BY <1>1, <2>3, <2>4, Ups!UpTo
  <2> QED
    BY <2>2, <2>5 DEF T
<1>5. Stepped(PageDown(d), d, After(d, R))
  <2>1. PICK g : g[0] = d /\ (\A i \in 1..R : g[i] = StepDown(g[i - 1])) /\ PageDown(d) = g[R]
    BY <1>0, <1>1, DownSteps
  <2>2. PageDown(d) = g[R]
    BY <2>1
  <2> DEFINE T == {i \in 0..R : Stepped(g[i], d, After(d, i))}
  <2>3. 0 \in T
    <3>1. After(d, 0) = ChosenItem(d) /\ 0 \in 0..R
      BY <1>1 DEF After, Smaller
    <3> QED
      BY <1>3, <2>1, <3>1
  <2>4. ASSUME NEW i \in 0..(R - 1), i \in T PROVE i + 1 \in T
    <3>1. i + 1 \in 1..R /\ (i + 1) - 1 = i
      BY <1>1
    <3>2. g[i + 1] = StepDown(g[i])
      BY <2>1, <3>1
    <3>3. Stepped(g[i], d, After(d, i))
      BY <2>4
    <3>4. Stepped(g[i + 1], g[i], After(g[i], 1))
      BY <3>2, <3>3, Steps DEF Stepped
    <3>5. ItemCount(g[i]) = n
      BY <3>3, SameCounts DEF Stepped
    <3>6. After(g[i], 1) = After(d, i + 1)
      BY <1>1, <3>3, <3>5 DEF Stepped, After, Smaller
    <3>7. Stepped(g[i + 1], d, After(d, i + 1))
      BY <3>3, <3>4, <3>6 DEF Stepped, Kin
    <3> QED
      BY <3>1, <3>7
  <2> HIDE DEF T
  <2>5. R \in T
    BY <1>1, <2>3, <2>4, Downs!UpTo
  <2> QED
    BY <2>2, <2>5 DEF T
<1> QED
  BY <1>4, <1>5 DEF R

\* The chosen row is printed without the light, and with it.
LEMMA Unlights ==
  ASSUME NEW d, Ranged(d), NEW e, e = Unlit(d)
  PROVE  /\ Kin(e, d) /\ Ranged(e) /\ e.scroll = d.scroll /\ e.choice = d.choice
         /\ Bright(d) => DarkBut(e, {})
<1>1. d.choice \in 0..(RowCount(d) - 1)
  BY DEF Ranged
<1>2. PICK lit \in BOOLEAN : lit = FALSE
  OBVIOUS
<1>3. e = PrintItem(d, d.choice, lit)
  BY <1>2, Zenon DEF Unlit
<1>4. RowIs(e, d, d.choice, lit)
  BY <1>1, <1>3, Prints1
<1>5. RowCount(e) = RowCount(d)
  BY <1>4, SameCounts DEF RowIs
<1>6. ASSUME Bright(d), NEW i \in 0..(RowCount(e) - 1) PROVE e.rows[i] = [item |-> e.scroll + i, lit |-> FALSE]
  <2>1. CASE i = d.choice
    BY <1>2, <1>4, <1>5, <2>1 DEF RowIs
  <2>2. CASE i # d.choice
    <3>1. e.rows[i] = d.rows[i] /\ e.scroll = d.scroll
      BY <1>4, <1>5, <2>2 DEF RowIs
    <3>2. d.rows[i] = [item |-> d.scroll + i, lit |-> i = d.choice]
      BY <1>5, <1>6 DEF Bright
    <3>3. (i = d.choice) = FALSE
      BY <2>2
    <3> QED
      BY <3>1, <3>2, <3>3, Zenon
  <2> QED
    BY <2>1, <2>2
<1> QED
  BY <1>4, <1>6 DEF RowIs, DarkBut

\* The chosen row is lit, and it is the only one.
LEMMA Lights ==
  ASSUME NEW d, Ranged(d), NEW e, e = Lit(d)
  PROVE  /\ Kin(e, d) /\ Ranged(e) /\ e.scroll = d.scroll /\ e.choice = d.choice
         /\ DarkBut(d, {d.choice}) => Bright(e)
<1>1. d.choice \in 0..(RowCount(d) - 1)
  BY DEF Ranged
<1>2. PICK lit \in BOOLEAN : lit = TRUE
  OBVIOUS
<1>3. e = PrintItem(d, d.choice, lit)
  BY <1>2, Zenon DEF Lit
<1>4. RowIs(e, d, d.choice, lit)
  BY <1>1, <1>3, Prints1
<1>5. RowCount(e) = RowCount(d)
  BY <1>4, SameCounts DEF RowIs
<1>6. ASSUME DarkBut(d, {d.choice}), NEW i \in 0..(RowCount(e) - 1)
      PROVE  e.rows[i] = [item |-> e.scroll + i, lit |-> i = e.choice]
  <2>0. e.scroll = d.scroll /\ e.choice = d.choice
    BY <1>4 DEF RowIs
  <2>1. CASE i = d.choice
    <3>1. e.rows[i] = [item |-> d.scroll + i, lit |-> lit]
      BY <1>4, <1>5, <2>1 DEF RowIs
    <3>2. (i = e.choice) = lit
      BY <1>2, <2>0, <2>1
    <3> QED
      BY <2>0, <3>1, <3>2, Zenon
  <2>2. CASE i # d.choice
    <3>1. e.rows[i] = d.rows[i]
      BY <1>4, <1>5, <2>2 DEF RowIs
    <3>2. d.rows[i] = [item |-> d.scroll + i, lit |-> FALSE]
      BY <1>5, <1>6, <2>2 DEF DarkBut
    <3>3. (i = e.choice) = FALSE
      BY <2>0, <2>2
    <3> QED
      BY <2>0, <3>1, <3>2, <3>3, Zenon
  <2> QED
    BY <2>1, <2>2
<1> QED
  BY <1>4, <1>6 DEF RowIs, Bright

\* A menu or list that shows what the keys asked for, which is j.
Chosen(d, j) ==
  /\ Ranged(d) /\ ButtonOk(d) /\ ChosenItem(d) = j
  /\ d.kind = "menu" => d.selected \in -1..(ItemCount(d) - 1)
  /\ ~(d.kind = "menu" /\ d.stale) => Bright(d)
WinOk(d) == Chosen(d, d.due)
\* What is due is set to what is chosen.
LEMMA Aims ==
  ASSUME NEW d, NEW j, Chosen(d, j), NEW e, e = [d EXCEPT !.due = j]
  PROVE  WinOk(e) /\ e.kind = d.kind
<1>1. d \in WinRec /\ j \in Int
  BY Counts DEF Chosen, Ranged, ChosenItem
<1>2. Kin(e, d) /\ Pane(e) = Pane(d) /\ e.due = j
  BY <1>1, SetAim
<1>3. e.scroll = d.scroll /\ e.choice = d.choice /\ e.rows = d.rows
  BY <1>2 DEF Pane
<1>4. ItemCount(e) = ItemCount(d) /\ RowCount(e) = RowCount(d) /\ e.height = d.height
  BY <1>2, SameCounts
<1>5. Ranged(e) /\ ChosenItem(e) = e.due /\ (Bright(d) => Bright(e))
  BY <1>2, <1>3, <1>4 DEF Chosen, Ranged, Kin, ChosenItem, Bright
<1>6. ButtonOk(e) /\ e.kind = d.kind
  BY <1>2 DEF Kin, Common, Chosen, ButtonOk
<1>7. e.kind = "menu" => e.selected = d.selected /\ e.stale = d.stale
  BY <1>2 DEF Kin, Extra
<1> QED
  BY <1>4, <1>5, <1>6, <1>7 DEF WinOk, Chosen

\* The light goes from one row to another.
LEMMA Relights ==
  ASSUME NEW d, WinOk(d), NEW s, NEW j, Stepped(s, Unlit(d), j), NEW e, e = Lit(s)
  PROVE  Chosen(e, j) /\ e.kind = d.kind
<1> DEFINE u == Unlit(d)
<1>1. Kin(u, d) /\ Ranged(u) /\ (Bright(d) => DarkBut(u, {}))
  BY Unlights DEF WinOk, Chosen
<1> HIDE DEF u
<1>2. Kin(s, u) /\ Ranged(s) /\ ChosenItem(s) = j /\ (DarkBut(u, {}) => DarkBut(s, {}))
  BY DEF Stepped, u
<1>3. /\ Kin(e, s) /\ Ranged(e) /\ e.scroll = s.scroll /\ e.choice = s.choice
      /\ DarkBut(s, {s.choice}) => Bright(e)
  BY <1>2, Lights
<1>4. DarkBut(s, {}) => DarkBut(s, {s.choice})
  BY DEF DarkBut
<1>5. Kin(e, d)
  BY <1>1, <1>2, <1>3 DEF Kin
<1>6. ChosenItem(e) = j
  BY <1>2, <1>3 DEF ChosenItem
<1>7. ItemCount(e) = ItemCount(d)
  BY <1>5, SameCounts
<1>8. ButtonOk(e) /\ e.kind = d.kind
  BY <1>5 DEF Kin, Common, WinOk, Chosen, ButtonOk
<1>9. e.kind = "menu" => e.selected = d.selected /\ e.stale = d.stale
  BY <1>5 DEF Kin, Extra
<1> QED
  BY <1>1, <1>2, <1>3, <1>4, <1>6, <1>7, <1>8, <1>9 DEF WinOk, Chosen

\* The rows that have the letter, and the one of them that is gone to.
LEMMA LettersAre ==
  ASSUME NEW d, Ranged(d), RowsWith(d) # {}
  PROVE  LetterRow(d) \in 0..(RowCount(d) - 1) /\ Min(RowsWith(d)) \in 0..(RowCount(d) - 1)
<1> DEFINE S == RowsWith(d)
           below == {i \in S : i > d.choice}
<1>1. S \in SUBSET (0..(RowCount(d) - 1)) /\ RowCount(d) \in Nat /\ below \in SUBSET S
  BY Counts DEF RowsWith
<1>2. LetterRow(d) = Min(IF below # {} THEN below ELSE S)
  BY DEF LetterRow
<1> HIDE DEF S, below
<1>3. S \in SUBSET Nat /\ below \in SUBSET Nat /\ S # {}
  BY <1>1 DEF S
<1>4. Min(S) \in S /\ (below # {} => Min(below) \in below)
  BY <1>3, LowestIs
<1>5. LetterRow(d) \in S
  BY <1>1, <1>2, <1>4
<1> QED
  BY <1>1, <1>4, <1>5 DEF S

\* A letter finds the same rows while the items on the screen are the same.
LEMMA SameLetters ==
  ASSUME NEW d, NEW e, Kin(e, d), e.scroll = d.scroll, e.choice = d.choice
  PROVE  RowsWith(e) = RowsWith(d) /\ LetterRow(e) = LetterRow(d)
<1>1. e.items = d.items /\ RowCount(e) = RowCount(d)
  BY SameCounts
<1>2. RowsWith(e) = RowsWith(d)
  BY <1>1 DEF RowsWith
<1> QED
  BY <1>2 DEF LetterRow

\* How far the keys go.
LEMMA MovedIs ==
  ASSUME NEW d, WinOk(d), NEW n \in Nat
  PROVE  Moved(d, -n) = Before(d, n) /\ Moved(d, n) = After(d, n) /\ Moved(d, 0) = ChosenItem(d)
<1>1. /\ ItemCount(d) \in Nat \ {0} /\ RowCount(d) \in Nat /\ RowCount(d) <= ItemCount(d)
      /\ d.scroll \in 0..(ItemCount(d) - RowCount(d)) /\ d.choice \in 0..(RowCount(d) - 1)
  BY Counts DEF WinOk, Chosen, Ranged
<1>2. ChosenItem(d) \in 0..(ItemCount(d) - 1) /\ d.due = ChosenItem(d)
  BY <1>1 DEF WinOk, Chosen, ChosenItem
<1> QED
  BY <1>1, <1>2 DEF Moved, Before, After, Smaller, Larger

\* The keys of a menu.
LEMMA MenuMoves ==
  ASSUME WinOk(dlg), MenuMove
  PROVE  WinOk(dlg') /\ dlg'.kind = "menu"
<1> DEFINE d == Unlit(dlg)
           n == RowCount(dlg)
<1>1. /\ Kin(d, dlg) /\ Ranged(d) /\ d.scroll = dlg.scroll /\ d.choice = dlg.choice
  BY Unlights DEF WinOk, Chosen
<1>2. ItemCount(d) = ItemCount(dlg) /\ RowCount(d) = n
  BY <1>1, SameCounts
<1>3. n \in Nat
  BY Counts DEF WinOk, Chosen
<1>4. PICK one \in Nat : one = 1
  OBVIOUS
<1>5. Moved(dlg, -1) = Before(dlg, 1) /\ Moved(dlg, 1) = After(dlg, 1)
  <2>1. Moved(dlg, -one) = Before(dlg, one) /\ Moved(dlg, one) = After(dlg, one)
    BY MovedIs
  <2> QED
    BY <1>4, <2>1
<1>6. Moved(dlg, -n) = Before(dlg, n) /\ Moved(dlg, n) = After(dlg, n)
  BY <1>3, MovedIs
<1>7. \A k : Before(d, k) = Before(dlg, k) /\ After(d, k) = After(dlg, k)
  BY <1>1, <1>2 DEF Before, After, ChosenItem
<1>8. dlg.kind = "menu"
  BY DEF MenuMove, Menu
<1>9. ASSUME NEW s, NEW j, Stepped(s, d, j), dlg' = [Lit(s) EXCEPT !.due = j]
      PROVE  WinOk(dlg') /\ dlg'.kind = "menu"
  <2> DEFINE e == Lit(s)
  <2>1. Chosen(e, j) /\ e.kind = dlg.kind
    BY <1>9, Relights
  <2> HIDE DEF e
  <2>2. dlg' = [e EXCEPT !.due = j]
    BY <1>9 DEF e
  <2> QED
    BY <1>8, <2>1, <2>2, Aims
<1>10. /\ Stepped(LineUp(d), d, Moved(dlg, -1)) /\ Stepped(LineDown(d), d, Moved(dlg, 1))
       /\ Stepped(PageUp(d), d, Moved(dlg, -n)) /\ Stepped(PageDown(d), d, Moved(dlg, n))
  BY <1>1, <1>2, <1>5, <1>6, <1>7, Steps, Pages
<1>11. RowsWith(d) # {} => Stepped(ToLetter(d), d, dlg.scroll + LetterRow(dlg))
  <2> SUFFICES ASSUME RowsWith(d) # {} PROVE Stepped(ToLetter(d), d, dlg.scroll + LetterRow(dlg))
    OBVIOUS
  <2> DEFINE c == LetterRow(d)
  <2>1. c \in 0..(RowCount(d) - 1) /\ c = LetterRow(dlg)
    BY <1>1, LettersAre, SameLetters
  <2> HIDE DEF c
  <2>2. ToLetter(d) = [d EXCEPT !.choice = c]
    BY DEF ToLetter, c
  <2>3. Stepped(ToLetter(d), d, d.scroll + c)
    BY <1>1, <2>1, <2>2, StepChooses
  <2> QED
    BY <1>1, <2>1, <2>3
<1>12. \/ dlg' = [Lit(LineUp(d)) EXCEPT !.due = Moved(dlg, -1)]
       \/ dlg' = [Lit(LineDown(d)) EXCEPT !.due = Moved(dlg, 1)]
       \/ dlg' = [Lit(PageUp(d)) EXCEPT !.due = Moved(dlg, -n)]
       \/ dlg' = [Lit(PageDown(d)) EXCEPT !.due = Moved(dlg, n)]
       \/ /\ RowsWith(d) # {}
          /\ dlg' = [Lit(ToLetter(d)) EXCEPT !.due = dlg.scroll + LetterRow(dlg)]
  BY DEF MenuMove
<1> HIDE DEF d, n
<1> QED
  BY <1>9, <1>10, <1>11, <1>12

\* Another row of a list, in the window.
LEMMA ListGoes ==
  ASSUME NEW d, WinOk(d), NEW row \in 0..(RowCount(d) - 1), NEW e, e = ListGo(d, row)
  PROVE  Chosen(e, d.scroll + row) /\ e.kind = d.kind
<1> DEFINE u == Unlit(d)
           s == [u EXCEPT !.choice = row]
<1>1. Kin(u, d) /\ Ranged(u) /\ u.scroll = d.scroll
  BY Unlights DEF WinOk, Chosen
<1>2. row \in 0..(RowCount(u) - 1)
  BY <1>1, SameCounts
<1>3. e = Lit(s)
  BY DEF ListGo
<1> HIDE DEF u
<1>4. Stepped(s, u, d.scroll + row)
  BY <1>1, <1>2, StepChooses
<1> HIDE DEF s
<1> QED
  BY <1>3, <1>4, Relights DEF u

\* The scroll is set and the rows stay: the window of one row.
LEMMA SetScrollOnly ==
  ASSUME NEW d \in ListRec, NEW s \in Int, NEW e, e = [d EXCEPT !.scroll = s]
  PROVE  Kin(e, d) /\ Pane(e) = <<s, d.choice, d.rows>>
<1>1. e \in ListRec /\ d.kind = "list"
  BY DEF ListRec
<1>2. e.kind = d.kind /\ Common(e) = Common(d) /\ Pane(e) = <<s, d.choice, d.rows>>
  BY DEF ListRec, Common, Pane
<1> QED
  BY <1>1, <1>2 DEF Kin, WinRec

\* The row at an end of the window, where the list is scrolled.
LEMMA ListScrolls ==
  ASSUME NEW d, WinOk(d), d.kind = "list", NEW n \in {-1, 1},
         d.scroll + n \in 0..(ItemCount(d) - RowCount(d)),
         d.choice = IF n = 1 THEN RowCount(d) - 1 ELSE 0,
         NEW e, e = ListScroll(d, d.choice, n)
  PROVE  Chosen(e, ChosenItem(d) + n) /\ e.kind = d.kind
<1> DEFINE u == Unlit(d)
           off == IF d.height > 1 THEN DoScroll(u, n) ELSE [d EXCEPT !.scroll = @ + n]
<1>1. /\ Kin(u, d) /\ Ranged(u) /\ u.scroll = d.scroll /\ u.choice = d.choice /\ (Bright(d) => DarkBut(u, {}))
  BY Unlights DEF WinOk, Chosen
<1>2. ItemCount(u) = ItemCount(d) /\ RowCount(u) = RowCount(d)
  BY <1>1, SameCounts
<1>3. e = PrintItem(off, d.choice, TRUE)
  BY DEF ListScroll, Unlit
<1>4. /\ d \in ListRec /\ Ranged(d) /\ Bright(d)
  BY DEF WinOk, Chosen, Ranged, WinRec, MenuRec
<1>5. /\ ItemCount(d) \in Nat \ {0} /\ RowCount(d) \in Nat \ {0}
      /\ RowCount(d) = Smaller(d.height, ItemCount(d)) /\ d.height \in Nat \ {0}
      /\ d.scroll \in Nat /\ d.choice \in Nat
  BY <1>4, Counts
<1> HIDE DEF u
<1>6. Kin(off, d) /\ Ranged(off) /\ off.scroll = d.scroll + n /\ off.choice = d.choice
      /\ DarkBut(off, {off.choice})
  <2>1. CASE d.height > 1
    <3>1. off = DoScroll(u, n)
      BY <2>1
    <3> HIDE DEF off
    <3>2. /\ Kin(off, u) /\ Ranged(off) /\ off.scroll = u.scroll + n /\ off.choice = u.choice
          /\ DarkBut(u, {}) => DarkBut(off, {IF n = 1 THEN RowCount(u) - 1 ELSE 0})
      BY <1>1, <1>2, <3>1, ScrollsBy
    <3>3. Kin(off, d)
      BY <1>1, <3>2 DEF Kin
    <3> QED
      BY <1>1, <1>2, <1>4, <3>2, <3>3
  <2>2. CASE ~(d.height > 1)
    <3> DEFINE s == d.scroll + n
    <3>1. s \in Int /\ RowCount(d) = 1 /\ d.choice = 0
      BY <1>5, <2>2 DEF Smaller
    <3>2. off = [d EXCEPT !.scroll = s]
      BY <2>2
    <3> HIDE DEF off, s
    <3>3. Kin(off, d) /\ Pane(off) = <<s, d.choice, d.rows>>
      BY <1>4, <3>1, <3>2, SetScrollOnly
    <3>4. off.scroll = s /\ off.choice = d.choice /\ off.rows = d.rows
      BY <3>3 DEF Pane
    <3>5. ItemCount(off) = ItemCount(d) /\ RowCount(off) = RowCount(d) /\ off.height = d.height
      BY <3>3, SameCounts
    <3>6. Ranged(off)
      BY <1>4, <3>3, <3>4, <3>5 DEF Ranged, Kin, s
    <3>7. DarkBut(off, {off.choice})
      BY <3>1, <3>4, <3>5 DEF DarkBut
    <3> QED
      BY <3>3, <3>4, <3>6, <3>7 DEF s
  <2> QED
    BY <2>1, <2>2
<1> HIDE DEF off
<1>7. e = Lit(off)
  BY <1>3, <1>6 DEF Lit
<1>8. /\ Kin(e, off) /\ Ranged(e) /\ e.scroll = off.scroll /\ e.choice = off.choice /\ Bright(e)
  BY <1>6, <1>7, Lights
<1>9. Kin(e, d)
  BY <1>6, <1>8 DEF Kin
<1>10. e.scroll = d.scroll + n /\ e.choice = d.choice
  BY <1>6, <1>8
<1>11. ChosenItem(e) = ChosenItem(d) + n
  <2>1. n \in Int
    OBVIOUS
  <2>2. (d.scroll + n) + d.choice = (d.scroll + d.choice) + n
    BY <1>5, <2>1
  <2> QED
    BY <1>10, <2>2 DEF ChosenItem
<1>12. ButtonOk(e) /\ e.kind = d.kind
  BY <1>9 DEF Kin, Common, WinOk, Chosen, ButtonOk
<1> QED
  BY <1>8, <1>11, <1>12 DEF Chosen

\* The keys of a list.
LEMMA ListMoves ==
  ASSUME WinOk(dlg), ListMove
  PROVE  WinOk(dlg') /\ dlg'.kind = "list"
<1> DEFINE R == RowCount(dlg)
           n == ItemCount(dlg)
           up == ListUp(dlg)
           down == ListDown(dlg)
           top == Min(RowsWith(dlg))
<1>1. /\ Ranged(dlg) /\ dlg.kind = "list" /\ Chosen(dlg, ChosenItem(dlg))
  BY DEF ListMove, List, WinOk, Chosen
<1>2. /\ n \in Nat \ {0} /\ R \in Nat \ {0} /\ R <= n /\ dlg.scroll \in 0..(n - R) /\ dlg.choice \in 0..(R - 1)
  BY <1>1, Counts DEF Ranged
<1>3. ChosenItem(dlg) = dlg.scroll + dlg.choice
  BY DEF ChosenItem
<1>4. PICK one \in Nat : one = 1
  OBVIOUS
<1>5. Moved(dlg, -1) = Before(dlg, 1) /\ Moved(dlg, 1) = After(dlg, 1)
  <2>1. Moved(dlg, -one) = Before(dlg, one) /\ Moved(dlg, one) = After(dlg, one)
    BY MovedIs
  <2> QED
    BY <1>4, <2>1
<1>6. Chosen(up, Before(dlg, 1)) /\ up.kind = "list"
  <2>1. CASE dlg.choice > 0
    <3>1. up = ListGo(dlg, dlg.choice - 1)
      BY <1>2, <2>1 DEF ListUp
    <3>2. dlg.choice - 1 \in 0..(R - 1) /\ dlg.scroll + (dlg.choice - 1) = Before(dlg, 1)
      BY <1>2, <1>3, <2>1 DEF Before, Larger
    <3> HIDE DEF up
    <3> QED
      BY <1>1, <3>1, <3>2, ListGoes
  <2>2. CASE dlg.choice = 0 /\ dlg.scroll > 0
    <3>1. PICK m \in {-1, 1} : m = -1
      OBVIOUS
    <3>2. ~(dlg.choice > 0)
      BY <2>2
    <3>3. up = ListScroll(dlg, dlg.choice, m)
      BY <2>2, <3>1, <3>2 DEF ListUp
    <3>4. /\ dlg.scroll + m \in 0..(n - R) /\ ChosenItem(dlg) + m = Before(dlg, 1)
          /\ dlg.choice = IF m = 1 THEN R - 1 ELSE 0
      BY <1>2, <1>3, <2>2, <3>1 DEF Before, Larger
    <3> HIDE DEF up
    <3> QED
      BY <1>1, <3>3, <3>4, ListScrolls
  <2>3. CASE dlg.choice = 0 /\ dlg.scroll = 0
    <3>1. up = dlg
      BY <2>3 DEF ListUp
    <3>2. ChosenItem(dlg) = Before(dlg, 1)
      BY <1>2, <1>3, <2>3 DEF Before, Larger
    <3> QED
      BY <1>1, <3>1, <3>2
  <2> QED
    BY <1>2, <2>1, <2>2, <2>3
<1>7. Chosen(down, After(dlg, 1)) /\ down.kind = "list"
  <2>1. CASE dlg.choice < R - 1
    <3>1. down = ListGo(dlg, dlg.choice + 1)
      BY <1>2, <2>1 DEF ListDown
    <3>2. dlg.choice + 1 \in 0..(R - 1) /\ dlg.scroll + (dlg.choice + 1) = After(dlg, 1)
      BY <1>2, <1>3, <2>1 DEF After, Smaller
    <3> HIDE DEF down
    <3> QED
      BY <1>1, <3>1, <3>2, ListGoes
  <2>2. CASE dlg.choice = R - 1 /\ ChosenItem(dlg) < n - 1
    <3>1. PICK m \in {-1, 1} : m = 1
      OBVIOUS
    <3>2. ~(dlg.choice < R - 1)
      BY <1>2, <2>2
    <3>3. down = ListScroll(dlg, dlg.choice, m)
      BY <2>2, <3>1, <3>2 DEF ListDown
    <3>4. /\ dlg.scroll + m \in 0..(n - R) /\ ChosenItem(dlg) + m = After(dlg, 1)
          /\ dlg.choice = IF m = 1 THEN R - 1 ELSE 0
      BY <1>2, <1>3, <2>2, <3>1 DEF After, Smaller
    <3> HIDE DEF down
    <3> QED
      BY <1>1, <3>3, <3>4, ListScrolls
  <2>3. CASE dlg.choice = R - 1 /\ ~(ChosenItem(dlg) < n - 1)
    <3>1. ~(dlg.choice < R - 1)
      BY <1>2, <2>3
    <3>2. down = dlg
      BY <2>3, <3>1 DEF ListDown
    <3>3. ChosenItem(dlg) = After(dlg, 1)
      BY <1>2, <1>3, <2>3 DEF After, Smaller
    <3> QED
      BY <1>1, <3>2, <3>3
  <2> QED
    BY <1>2, <2>1, <2>2, <2>3
<1>8. RowsWith(dlg) # {} => Chosen(ListGo(dlg, top), dlg.scroll + top) /\ ListGo(dlg, top).kind = "list"
  <2> SUFFICES ASSUME RowsWith(dlg) # {}
               PROVE  Chosen(ListGo(dlg, top), dlg.scroll + top) /\ ListGo(dlg, top).kind = "list"
    OBVIOUS
  <2>1. top \in 0..(R - 1)
    BY <1>1, LettersAre
  <2> HIDE DEF top
  <2> QED
    BY <1>1, <2>1, ListGoes
<1>9. \/ dlg' = [up EXCEPT !.due = Moved(dlg, -1)]
      \/ dlg' = [down EXCEPT !.due = Moved(dlg, 1)]
      \/ /\ RowsWith(dlg) # {}
         /\ dlg' = [ListGo(dlg, top) EXCEPT !.due = dlg.scroll + top]
  BY DEF ListMove
<1> HIDE DEF up, down, top
<1>10. ASSUME NEW s, NEW j, Chosen(s, j), s.kind = "list", dlg' = [s EXCEPT !.due = j]
       PROVE  WinOk(dlg') /\ dlg'.kind = "list"
  BY <1>10, Aims
<1>11. CASE dlg' = [up EXCEPT !.due = Moved(dlg, -1)]
  BY <1>5, <1>6, <1>10, <1>11
<1>12. CASE dlg' = [down EXCEPT !.due = Moved(dlg, 1)]
  BY <1>5, <1>7, <1>10, <1>12
<1>13. CASE RowsWith(dlg) # {} /\ dlg' = [ListGo(dlg, top) EXCEPT !.due = dlg.scroll + top]
  BY <1>8, <1>10, <1>13
<1> QED
  BY <1>9, <1>11, <1>12, <1>13

\* Another button, or another size of the window.
Buttoned(d, b, lit, r) == [d EXCEPT !.button = b, !.bright = lit, !.resized = r]

\* What a change of the button leaves of a menu or list.
LEMMA SetButtons ==
  ASSUME NEW d \in WinRec, NEW b \in Int, NEW lit \in Int, NEW r \in BOOLEAN, NEW e,
         e = Buttoned(d, b, lit, r)
  PROVE  /\ e \in WinRec /\ e.kind = d.kind /\ Pane(e) = Pane(d) /\ e.items = d.items
         /\ e.height = d.height /\ e.due = d.due /\ (d.kind = "menu" => Extra(e) = Extra(d))
         /\ e.button = b /\ e.bright = lit /\ (e.resized <=> r)
<1>1. CASE d \in MenuRec
  <2>1. e \in MenuRec
    BY <1>1 DEF MenuRec, Buttoned
  <2>2. /\ e.kind = d.kind /\ Pane(e) = Pane(d) /\ e.items = d.items
        /\ e.height = d.height /\ e.due = d.due /\ Extra(e) = Extra(d)
        /\ e.button = b /\ e.bright = lit
    BY <1>1 DEF MenuRec, Extra, Pane, Buttoned
  <2>3. e.resized <=> r
    BY <1>1 DEF MenuRec, Buttoned
  <2> QED
    BY <2>1, <2>2, <2>3 DEF WinRec
<1>2. CASE d \in ListRec
  <2>1. e \in ListRec /\ d.kind = "list"
    BY <1>2 DEF ListRec, Buttoned
  <2>2. /\ e.kind = d.kind /\ Pane(e) = Pane(d) /\ e.items = d.items
        /\ e.height = d.height /\ e.due = d.due
        /\ e.button = b /\ e.bright = lit
    BY <1>2 DEF ListRec, Pane, Buttoned
  <2>3. e.resized <=> r
    BY <1>2 DEF ListRec, Buttoned
  <2> QED
    BY <2>1, <2>2, <2>3 DEF WinRec
<1> QED
  BY <1>1, <1>2 DEF WinRec

\* A button is taken; the rows stay.
LEMMA WinButtons ==
  ASSUME NEW d, WinOk(d), NEW b \in Int, NEW e, e = TakeButton(d, b)
  PROVE  WinOk(e) /\ e.kind = d.kind
<1>1. d \in WinRec
  BY DEF WinOk, Chosen, Ranged
<1>2. PICK r \in BOOLEAN : r = FALSE
  OBVIOUS
<1>3. ButtonLit(b) \in Int
  BY DEF ButtonLit
<1>4. e = Buttoned(d, b, ButtonLit(b), r)
  BY <1>2, Zenon DEF TakeButton, Buttoned
<1>5. /\ e \in WinRec /\ e.kind = d.kind /\ Pane(e) = Pane(d) /\ e.items = d.items
      /\ e.height = d.height /\ e.due = d.due /\ (d.kind = "menu" => Extra(e) = Extra(d))
      /\ e.button = b /\ e.bright = ButtonLit(b)
  BY <1>1, <1>3, <1>4, SetButtons
<1>6. e.scroll = d.scroll /\ e.choice = d.choice /\ e.rows = d.rows
  BY <1>5 DEF Pane
<1>7. ItemCount(e) = ItemCount(d) /\ RowCount(e) = RowCount(d)
  BY <1>5 DEF ItemCount, RowCount
<1>8. Ranged(e) /\ ChosenItem(e) = e.due /\ (Bright(d) => Bright(e))
  BY <1>5, <1>6, <1>7 DEF WinOk, Chosen, Ranged, ChosenItem, Bright
<1>9. e.kind = "menu" => e.selected = d.selected /\ e.stale = d.stale
  BY <1>5 DEF Extra
<1>10. ButtonOk(e)
  BY <1>5 DEF ButtonOk
<1> QED
  BY <1>5, <1>7, <1>8, <1>9, <1>10 DEF WinOk, Chosen

\* The window is drawn.
LEMMA Draws ==
  ASSUME NEW d \in WinRec, d.height > 0, ItemCount(d) > 0, d.choice \in 0..(RowCount(d) - 1),
         d.scroll \in 0..(ItemCount(d) - RowCount(d)), NEW first \in Int, NEW e, e = Drawn(d, first)
  PROVE  /\ Kin(e, d) /\ Ranged(e) /\ e.scroll = d.scroll /\ e.choice = d.choice
         /\ first = d.scroll => Bright(e)
<1> DEFINE R == RowCount(d)
           r == [i \in 0..(R - 1) |-> [item |-> first + i, lit |-> i = d.choice]]
<1>1. d.items \in Seq(BOOLEAN) /\ d.height \in Nat
  BY DEF WinRec, MenuRec, ListRec
<1>2. Len(d.items) \in Nat
  BY <1>1, LenProperties
<1>3. R \in Nat \ {0}
  BY <1>1, <1>2 DEF ItemCount, RowCount
<1>4. e = [d EXCEPT !.rows = r]
  BY DEF Drawn
<1> HIDE DEF R
<1>5. \A i \in 0..(R - 1) : [item |-> first + i, lit |-> i = d.choice] \in RowRec
  BY <1>3 DEF RowRec
<1>6. r \in [0..(R - 1) -> RowRec]
  BY <1>5
<1>7. \A i \in 0..(R - 1) : r[i] = [item |-> first + i, lit |-> i = d.choice]
  OBVIOUS
<1> HIDE DEF r
<1>8. r \in Panes
  BY <1>3, <1>6, RowsAre
<1>9. Kin(e, d) /\ Pane(e) = <<d.scroll, d.choice, r>>
  BY <1>4, <1>8, SetRows
<1>10. e.scroll = d.scroll /\ e.choice = d.choice /\ e.rows = r
  BY <1>9 DEF Pane
<1>11. ItemCount(e) = ItemCount(d) /\ RowCount(e) = R /\ e.height = d.height
  BY <1>9, SameCounts DEF R
<1>12. Ranged(e)
  BY <1>6, <1>9, <1>10, <1>11 DEF Ranged, Kin, R
<1>13. first = d.scroll => Bright(e)
  BY <1>7, <1>10, <1>11 DEF Bright
<1> QED
  BY <1>9, <1>10, <1>12, <1>13

-----------------------------------------------------------------------------
(* A menu is drawn.                                                        *)

\* The height, and the place, of a menu that is to be drawn.
LEMMA SetMenuHeight ==
  ASSUME NEW d \in MenuRec, NEW h \in Nat, NEW e, e = [d EXCEPT !.height = h]
  PROVE  /\ e \in MenuRec /\ e.items = d.items /\ e.selected = d.selected /\ e.saved = d.saved
         /\ e.height = h /\ e.scroll = d.scroll /\ e.first = d.first /\ e.choice = d.choice
         /\ e.button = d.button /\ e.bright = d.bright /\ (e.resized <=> d.resized)
<1>1. e \in MenuRec
  BY DEF MenuRec
<1>2. /\ e.items = d.items /\ e.selected = d.selected /\ e.saved = d.saved
      /\ e.height = h /\ e.scroll = d.scroll /\ e.first = d.first /\ e.choice = d.choice
      /\ e.button = d.button /\ e.bright = d.bright
  BY DEF MenuRec
<1>3. e.resized <=> d.resized
  BY DEF MenuRec
<1> QED
  BY <1>1, <1>2, <1>3
Placed(d, s, c) == [d EXCEPT !.scroll = s, !.first = s, !.choice = c]

\* What a new place leaves of a menu.
LEMMA SetMenuPlace ==
  ASSUME NEW d \in MenuRec, NEW s \in Int, NEW c \in Int, NEW e,
         e = Placed(d, s, c)
  PROVE  /\ e \in MenuRec /\ e.items = d.items /\ e.selected = d.selected /\ e.saved = d.saved
         /\ e.height = d.height /\ e.scroll = s /\ e.first = s /\ e.choice = c
         /\ e.button = d.button /\ e.bright = d.bright /\ (e.resized <=> d.resized)
<1>1. e \in MenuRec
  BY DEF MenuRec, Placed
<1>2. /\ e.items = d.items /\ e.selected = d.selected /\ e.saved = d.saved
      /\ e.height = d.height /\ e.scroll = s /\ e.first = s /\ e.choice = c
      /\ e.button = d.button /\ e.bright = d.bright
  BY DEF MenuRec, Placed
<1>3. e.resized <=> d.resized
  BY DEF MenuRec, Placed
<1> QED
  BY <1>1, <1>2, <1>3
Topped(d, s, c) == [d EXCEPT !.scroll = s, !.choice = c]

\* The same when what is kept for the first row stays.
LEMMA SetMenuTop ==
  ASSUME NEW d \in MenuRec, NEW s \in Int, NEW c \in Int, NEW e, e = Topped(d, s, c)
  PROVE  /\ e \in MenuRec /\ e.items = d.items /\ e.selected = d.selected /\ e.saved = d.saved
         /\ e.height = d.height /\ e.scroll = s /\ e.first = d.first /\ e.choice = c
         /\ e.button = d.button /\ e.bright = d.bright /\ (e.resized <=> d.resized)
<1>1. e \in MenuRec
  BY DEF MenuRec, Topped
<1>2. /\ e.items = d.items /\ e.selected = d.selected /\ e.saved = d.saved
      /\ e.height = d.height /\ e.scroll = s /\ e.first = d.first /\ e.choice = c
      /\ e.button = d.button /\ e.bright = d.bright
  BY DEF MenuRec, Topped
<1>3. e.resized <=> d.resized
  BY DEF MenuRec, Topped
<1> QED
  BY <1>1, <1>2, <1>3

\* The end of it.
Aimed(d, b, x) == [d EXCEPT !.stale = b, !.due = x]

\* What a new aim leaves of a menu.
LEMMA SetStale ==
  ASSUME NEW d \in MenuRec, NEW b \in BOOLEAN, NEW x \in Int, NEW e, e = Aimed(d, b, x)
  PROVE  /\ e \in MenuRec /\ e.items = d.items /\ e.selected = d.selected
         /\ e.height = d.height /\ e.button = d.button /\ e.bright = d.bright /\ (e.resized <=> d.resized)
         /\ Pane(e) = Pane(d) /\ e.due = x /\ (e.stale <=> b)
<1>1. e \in MenuRec
  BY DEF MenuRec, Aimed
<1>2. /\ e.items = d.items /\ e.selected = d.selected /\ e.height = d.height
      /\ e.button = d.button /\ e.bright = d.bright /\ Pane(e) = Pane(d) /\ e.due = x
  BY DEF MenuRec, Aimed, Pane
<1>3. (e.resized <=> d.resized) /\ (e.stale <=> b)
  BY DEF MenuRec, Aimed
<1> QED
  BY <1>1, <1>2, <1>3

\* What is to be drawn: a menu with items, in a window with rows, and the item
\* to begin with.
Drawable(m) ==
  /\ m \in MenuRec /\ m.height > 0 /\ ItemCount(m) > 0
  /\ m.selected \in -1..(ItemCount(m) - 1) /\ m.choice \in 0..(ItemCount(m) - 1)
MenuSame(e, d) ==
  /\ e \in MenuRec /\ e.items = d.items /\ e.selected = d.selected /\ e.height = d.height
  /\ e.button = d.button /\ e.bright = d.bright /\ (e.resized <=> d.resized)
\* Where it begins: from the place it had, from the top or around the item.
LEMMA Keeps ==
  ASSUME NEW m, Drawable(m), NEW e, e = Kept(m)
  PROVE  /\ MenuSame(e, m) /\ e.scroll + e.choice = DefaultItem(m) /\ e.choice \in 0..(ItemCount(m) - 1)
         /\ e.choice < RowCount(m) => e.scroll \in 0..(ItemCount(m) - RowCount(m))
         /\ e.choice >= RowCount(m) => e.scroll = 0
         /\ e.first = e.scroll \/ e.first = m.first
         /\ m.first = 0 => e.first = e.scroll
<1> DEFINE n == ItemCount(m)
           R == RowCount(m)
           i == DefaultItem(m)
           c == i - m.saved
<1>1. /\ m \in MenuRec /\ m.height \in Nat /\ m.saved \in Nat /\ m.items \in Seq(BOOLEAN)
      /\ m.first \in Int /\ m.scroll \in Int
  BY DEF Drawable, MenuRec
<1>2. Len(m.items) \in Nat
  BY <1>1, LenProperties
<1>3. n \in Nat \ {0} /\ R \in Nat \ {0} /\ R <= n
  BY <1>1, <1>2 DEF Drawable, ItemCount, RowCount
<1>4. i \in 0..(n - 1)
  BY <1>3 DEF DefaultItem, Drawable, NoItem
<1>5. KeepsScroll(m) <=> m.saved <= i /\ i < m.saved + R /\ m.saved + R <= n
  BY DEF KeepsScroll
<1>6. Kept(m) = IF KeepsScroll(m) THEN [m EXCEPT !.scroll = m.saved, !.first = m.saved, !.choice = c]
                ELSE [m EXCEPT !.scroll = 0, !.choice = i]
  BY DEF Kept
<1> HIDE DEF n, R, i
<1>7. CASE KeepsScroll(m)
  <2>1. c \in Int /\ m.saved \in Int /\ m.height \in Nat
    BY <1>1, <1>3, <1>4
  <2>2. e = Placed(m, m.saved, c)
    BY <1>6, <1>7 DEF Placed
  <2>3. c \in 0..(n - 1) /\ c < R /\ m.saved \in 0..(n - R) /\ m.saved + c = i
    BY <1>1, <1>3, <1>4, <1>5, <1>7, SMTT(40)
  <2> HIDE DEF c
  <2>4. MenuSame(e, m) /\ e.scroll = m.saved /\ e.first = m.saved /\ e.choice = c
    BY <1>1, <2>1, <2>2, SetMenuPlace DEF MenuSame
  <2> QED
    BY <1>3, <2>3, <2>4 DEF n, R, i
<1>8. CASE ~KeepsScroll(m)
  <2>1. PICK z \in Int : z = 0
    OBVIOUS
  <2>2. i \in Int /\ m.first \in Int /\ m.height \in Nat
    BY <1>1, <1>3, <1>4
  <2>3. e = [m EXCEPT !.scroll = 0, !.choice = i]
    BY <1>6, <1>8
  <2>4. e = Topped(m, z, i)
    BY <2>1, <2>3, Zenon DEF Topped
  <2>5. MenuSame(e, m) /\ e.scroll = z /\ e.first = m.first /\ e.choice = i
    BY <1>1, <2>2, <2>4, SetMenuTop DEF MenuSame
  <2> QED
    BY <1>3, <1>4, <2>1, <2>5 DEF n, R, i
<1> QED
  BY <1>7, <1>8

\* A menu that is opened shows its item, in the middle when it was off the screen.
LEMMA Centres ==
  ASSUME NEW d, d \in MenuRec, d.height > 0, ItemCount(d) > 0, d.choice \in 0..(ItemCount(d) - 1),
         d.choice < RowCount(d) => d.scroll \in 0..(ItemCount(d) - RowCount(d)),
         d.choice >= RowCount(d) => d.scroll = 0,
         NEW e, e = Centred(d)
  PROVE  /\ MenuSame(e, d) /\ e.scroll + e.choice = d.scroll + d.choice
         /\ e.choice \in 0..(RowCount(d) - 1) /\ e.scroll \in 0..(ItemCount(d) - RowCount(d))
         /\ d.first = d.scroll => e.first = e.scroll
<1> DEFINE n == ItemCount(d)
           R == RowCount(d)
           half == R \div 2
           s == IF d.choice >= n - half THEN n - R ELSE d.choice - half
           c == d.choice - s
<1>1. /\ d.height \in Nat /\ d.items \in Seq(BOOLEAN) /\ d.scroll \in Int
  BY DEF MenuRec
<1>2. Len(d.items) \in Nat
  BY <1>1, LenProperties
<1>3. n \in Nat \ {0} /\ R \in Nat \ {0} /\ R <= n /\ d.choice \in 0..(n - 1)
  BY <1>1, <1>2 DEF ItemCount, RowCount
<1>4. Centred(d) = IF d.choice < R THEN d ELSE [d EXCEPT !.scroll = s, !.first = s, !.choice = c]
  BY DEF Centred
<1> HIDE DEF n, R
<1>5. CASE d.choice < R
  BY <1>3, <1>4, <1>5 DEF MenuSame, n, R
<1>6. CASE d.choice >= R
  <2>1. e = Placed(d, s, c)
    BY <1>3, <1>4, <1>6 DEF Placed
  <2>2. half \in Nat /\ R - 1 <= half + half /\ half + half <= R
    BY <1>3
  <2> HIDE DEF half
  <2>3. s \in 0..(n - R) /\ c \in 0..(R - 1) /\ s + c = d.choice
    BY <1>3, <1>6, <2>2, SMTT(40)
  <2> HIDE DEF s, c
  <2>4. s \in Int /\ c \in Int
    BY <2>3
  <2>5. MenuSame(e, d) /\ e.scroll = s /\ e.first = s /\ e.choice = c
    BY <1>1, <2>1, <2>4, SetMenuPlace DEF MenuSame
  <2> QED
    BY <1>3, <1>6, <2>3, <2>5 DEF n, R
<1> QED
  BY <1>3, <1>5, <1>6

\* A menu that is drawn is right, or ends the program; a menu that is new does
\* not.
LEMMA MenuDraws ==
  ASSUME NEW m, Drawable(m), ButtonOk(m), NEW h \in Nat \ {0}, NEW e, e = DrawMenu(m, h)
  PROVE  \/ WinOk(e) /\ e.kind = "menu"
         \/ e.kind = "crashed" /\ (e.resized <=> m.resized) /\ m.first # 0
<1> DEFINE m1 == [m EXCEPT !.height = h]
           k == Kept(m1)
           d == Centred(k)
           f == Drawn(d, d.first)
           i == DefaultItem(m)
           b == d.first # d.scroll
<1>1. /\ m \in MenuRec /\ m.scroll \in Int /\ m.first \in Int /\ m.choice \in Int /\ h \in Nat
  BY DEF Drawable, MenuRec
<1>2. /\ m1 \in MenuRec /\ m1.items = m.items /\ m1.selected = m.selected /\ m1.height = h
      /\ m1.first = m.first /\ m1.choice = m.choice
      /\ m1.button = m.button /\ m1.bright = m.bright /\ (m1.resized <=> m.resized)
  BY <1>1, SetMenuHeight
<1>3. e = IF d.first + RowCount(d) > ItemCount(d) THEN Crashed(d)
          ELSE [f EXCEPT !.stale = b, !.due = i]
  BY DEF DrawMenu
<1> HIDE DEF m1
<1>4. Drawable(m1) /\ DefaultItem(m1) = i /\ ItemCount(m1) = ItemCount(m)
  BY <1>2 DEF Drawable, ItemCount, DefaultItem
<1>5. /\ MenuSame(k, m1) /\ k.scroll + k.choice = i /\ k.choice \in 0..(ItemCount(m1) - 1)
      /\ k.choice < RowCount(m1) => k.scroll \in 0..(ItemCount(m1) - RowCount(m1))
      /\ k.choice >= RowCount(m1) => k.scroll = 0
      /\ m.first = 0 => k.first = k.scroll
  BY <1>2, <1>4, Keeps
<1> HIDE DEF k
<1>6. ItemCount(k) = ItemCount(m1) /\ RowCount(k) = RowCount(m1) /\ k \in MenuRec /\ k.height > 0 /\ ItemCount(k) > 0
  BY <1>4, <1>5 DEF MenuSame, ItemCount, RowCount, Drawable
<1>7. /\ MenuSame(d, k) /\ d.scroll + d.choice = i
      /\ d.choice \in 0..(RowCount(k) - 1) /\ d.scroll \in 0..(ItemCount(k) - RowCount(k))
      /\ m.first = 0 => d.first = d.scroll
  BY <1>5, <1>6, Centres
<1> HIDE DEF d
<1>8. /\ ItemCount(d) = ItemCount(k) /\ RowCount(d) = RowCount(k) /\ d \in MenuRec /\ d.height > 0 /\ ItemCount(d) > 0
      /\ d.selected = m.selected /\ ItemCount(d) = ItemCount(m) /\ d.kind = "menu"
      /\ d.button = m.button /\ d.bright = m.bright /\ (d.resized <=> m.resized)
  BY <1>2, <1>4, <1>5, <1>6, <1>7 DEF MenuSame, ItemCount, RowCount, MenuRec
<1>9. d \in WinRec /\ d.first \in Int /\ d.choice \in Int /\ d.scroll \in Int
  BY <1>8 DEF WinRec, MenuRec
<1>a. /\ Kin(f, d) /\ Ranged(f) /\ f.scroll = d.scroll /\ f.choice = d.choice
      /\ d.first = d.scroll => Bright(f)
  BY <1>7, <1>8, <1>9, Draws
<1> HIDE DEF f
<1>b. b \in BOOLEAN /\ (b <=> d.first # d.scroll) /\ i \in Int
  BY <1>7, <1>9
<1> HIDE DEF b, i
<1>10. CASE d.first + RowCount(d) > ItemCount(d)
  <2>1. e = Crashed(d)
    BY <1>3, <1>10
  <2>2. e.kind = "crashed" /\ e.resized = d.resized
    BY <2>1 DEF Crashed
  <2>3. RowCount(d) \in Int /\ ItemCount(d) \in Int
    <3>1. d.height \in Nat /\ d.items \in Seq(BOOLEAN)
      BY <1>8 DEF MenuRec
    <3> QED
      BY <3>1, LenProperties DEF RowCount, ItemCount
  <2>4. m.first # 0
    BY <1>7, <1>8, <1>9, <1>10, <2>3
  <2> QED
    BY <1>8, <2>2, <2>4
<1>11. CASE ~(d.first + RowCount(d) > ItemCount(d))
  <2>1. e = Aimed(f, b, i)
    BY <1>3, <1>11 DEF Aimed
  <2>5. f \in MenuRec
    BY <1>8, <1>a DEF Kin, WinRec, ListRec
  <2> HIDE DEF i
  <2>6. /\ e \in MenuRec /\ e.items = f.items /\ e.selected = f.selected
        /\ e.height = f.height /\ e.button = f.button /\ e.bright = f.bright /\ (e.resized <=> f.resized)
        /\ Pane(e) = Pane(f) /\ e.due = i /\ (e.stale <=> b)
    BY <2>1, <1>b, <2>5, SetStale
  <2>7. e.scroll = f.scroll /\ e.choice = f.choice /\ e.rows = f.rows
    BY <2>6 DEF Pane
  <2>8. ItemCount(e) = ItemCount(f) /\ RowCount(e) = RowCount(f)
    BY <2>6 DEF ItemCount, RowCount
  <2>9. Ranged(e) /\ (Bright(f) => Bright(e))
    BY <1>a, <2>6, <2>7, <2>8 DEF Ranged, Bright, WinRec
  <2>10. ChosenItem(e) = e.due
    BY <1>7, <1>a, <2>6, <2>7 DEF ChosenItem
  <2>11. /\ f.selected = d.selected /\ f.button = d.button /\ f.bright = d.bright /\ f.resized = d.resized
         /\ ItemCount(f) = ItemCount(d)
    BY <1>8, <1>a DEF Kin, Common, Extra, ItemCount
  <2>12. ButtonOk(e)
    BY <1>8, <2>6, <2>11 DEF ButtonOk
  <2>13. e.kind = "menu" /\ e.selected \in -1..(ItemCount(e) - 1)
    BY <1>8, <2>6, <2>8, <2>11 DEF MenuRec, Drawable
  <2> QED
    BY <1>a, <1>b, <2>6, <2>9, <2>10, <2>12, <2>13 DEF WinOk, Chosen
<1> QED
  BY <1>10, <1>11

\* A window without rows, before it is drawn.
LEMMA NoRows == <<>> \in Panes
<1>1. ASSUME NEW S, NEW r PROVE r \in S \union {r}
  OBVIOUS
<1>2. <<>> \in (UNION {[S -> RowRec] : S \in SUBSET Int}) \union {<<>>}
  BY <1>1
<1> QED
  BY <1>2 DEF Panes

\* A menu that is opened.
LEMMA MenuOpens ==
  ASSUME NEW items \in Seq(BOOLEAN), Len(items) > 0, NEW selected \in -1..(Len(items) - 1),
         NEW saved \in Nat, NEW h \in Nat \ {0}, NEW e, e = DialogMenu(items, selected, saved, h)
  PROVE  WinOk(e) /\ e.kind = "menu"
<1> DEFINE m == [kind |-> "menu", items |-> items, selected |-> selected, saved |-> saved,
                 height |-> h, first |-> 0, scroll |-> 0, choice |-> 0, rows |-> <<>>,
                 stale |-> FALSE, due |-> 0, button |-> 0, bright |-> 0, resized |-> FALSE]
<1>0. <<>> \in Panes
  BY NoRows
<1>1. <<>> \in Panes /\ Len(items) \in Nat /\ selected \in Int
  BY <1>0, LenProperties
<1>2. m \in MenuRec
  BY <1>1 DEF MenuRec
<1>3. Drawable(m)
  BY <1>1, <1>2 DEF Drawable, ItemCount
<1>4. ButtonOk(m) /\ m.first = 0
  BY DEF ButtonOk, ButtonLit, Editing
<1>5. e = DrawMenu(m, h)
  BY DEF DialogMenu
<1> HIDE DEF m
<1> QED
  BY <1>3, <1>4, <1>5, MenuDraws

\* A window of another size: no button but the first is lit.
LEMMA SetSize ==
  ASSUME NEW d \in WinRec, NEW e, e = Resized(d)
  PROVE  /\ e \in WinRec /\ e.kind = d.kind /\ Pane(e) = Pane(d) /\ e.items = d.items
         /\ e.height = d.height /\ e.due = d.due /\ (d.kind = "menu" => Extra(e) = Extra(d))
         /\ e.resized = TRUE
<1>1. PICK b \in BOOLEAN : b = TRUE
  OBVIOUS
<1>2. PICK z \in Int : z = 0
  OBVIOUS
<1>3. e = [d EXCEPT !.bright = z, !.resized = b]
  BY <1>1, <1>2, Zenon DEF Resized
<1>4. CASE d \in MenuRec
  <2>1. e \in MenuRec
    BY <1>3, <1>4 DEF MenuRec
  <2>2. /\ e.kind = d.kind /\ Pane(e) = Pane(d) /\ e.items = d.items
        /\ e.height = d.height /\ e.due = d.due /\ Extra(e) = Extra(d)
    BY <1>3, <1>4 DEF MenuRec, Extra, Pane
  <2>3. e.resized <=> b
    BY <1>3, <1>4 DEF MenuRec
  <2>4. e.resized \in BOOLEAN
    BY <2>1 DEF MenuRec
  <2> QED
    BY <1>1, <2>1, <2>2, <2>3, <2>4 DEF WinRec
<1>5. CASE d \in ListRec
  <2>1. e \in ListRec /\ d.kind = "list"
    BY <1>3, <1>5 DEF ListRec
  <2>2. /\ e.kind = d.kind /\ Pane(e) = Pane(d) /\ e.items = d.items
        /\ e.height = d.height /\ e.due = d.due
    BY <1>3, <1>5 DEF ListRec, Pane
  <2>3. e.resized <=> b
    BY <1>3, <1>5 DEF ListRec
  <2>4. e.resized \in BOOLEAN
    BY <2>1 DEF ListRec
  <2> QED
    BY <1>1, <2>1, <2>2, <2>3, <2>4 DEF WinRec
<1> QED
  BY <1>4, <1>5 DEF WinRec

\* A menu in a window of another size.
LEMMA MenuSizes ==
  ASSUME WinOk(dlg), MenuResized
  PROVE  \/ WinOk(dlg') /\ dlg'.kind = "menu"
         \/ dlg'.kind = "crashed" /\ dlg'.resized
<1> DEFINE m == Resized(dlg)
<1>1. PICK h \in Heights : dlg' = DrawMenu(m, h)
  BY DEF MenuResized
<1>2. h \in Nat \ {0}
  BY DialogAssumption
<1>3. Ranged(dlg) /\ dlg \in WinRec /\ dlg.kind = "menu" /\ dlg.selected \in -1..(ItemCount(dlg) - 1)
  BY DEF MenuResized, Menu, WinOk, Chosen, Ranged
<1>4. /\ m \in WinRec /\ m.kind = dlg.kind /\ Pane(m) = Pane(dlg) /\ m.items = dlg.items
      /\ m.height = dlg.height /\ Extra(m) = Extra(dlg) /\ m.resized = TRUE
  BY <1>3, SetSize
<1> HIDE DEF m
<1>5. m.choice = dlg.choice /\ m.selected = dlg.selected /\ ItemCount(m) = ItemCount(dlg)
  BY <1>4 DEF Pane, Extra, ItemCount
<1>6. m.choice \in 0..(ItemCount(m) - 1) /\ m.height > 0 /\ ItemCount(m) > 0
  BY <1>3, <1>4, <1>5, Counts DEF Ranged
<1>7. m \in MenuRec
  BY <1>3, <1>4 DEF WinRec, ListRec
<1>8. Drawable(m) /\ ButtonOk(m)
  BY <1>3, <1>4, <1>5, <1>6, <1>7 DEF Drawable, ButtonOk
<1> QED
  BY <1>1, <1>2, <1>4, <1>8, MenuDraws

\* What is due stays when the rows are drawn.
LEMMA DrawnDue ==
  ASSUME NEW d \in WinRec, NEW first PROVE Drawn(d, first).due = d.due
BY DEF WinRec, MenuRec, ListRec, Drawn

\* A list that is drawn.
LEMMA ListDraws ==
  ASSUME NEW d \in ListRec, d.height > 0, ItemCount(d) > 0, d.choice \in 0..(RowCount(d) - 1),
         d.scroll \in 0..(ItemCount(d) - RowCount(d)), ChosenItem(d) = d.due, ButtonOk(d),
         NEW first, first = d.scroll, NEW e, e = Drawn(d, first)
  PROVE  WinOk(e) /\ e.kind = "list"
<1>1. d \in WinRec /\ first \in Int /\ d.kind = "list"
  BY DEF WinRec, ListRec
<1>2. /\ Kin(e, d) /\ Ranged(e) /\ e.scroll = d.scroll /\ e.choice = d.choice /\ Bright(e)
  BY <1>1, Draws
<1>3. e.due = d.due /\ ChosenItem(e) = e.due
  BY <1>1, <1>2, DrawnDue DEF ChosenItem
<1>4. ButtonOk(e) /\ e.kind = "list"
  BY <1>1, <1>2 DEF Kin, Common, ButtonOk
<1> QED
  BY <1>2, <1>3, <1>4 DEF WinOk, Chosen

\* A list of another size is right again.
LEMMA ListSizes ==
  ASSUME WinOk(dlg), ListResized
  PROVE  WinOk(dlg') /\ dlg'.kind = "list"
<1> DEFINE d == Resized(dlg)
<1>1. dlg' = Drawn(d, dlg.scroll) /\ dlg.kind = "list"
  BY DEF ListResized, List
<1>2. Ranged(dlg) /\ dlg \in WinRec /\ ChosenItem(dlg) = dlg.due
  BY DEF WinOk, Chosen, Ranged
<1>3. /\ d \in WinRec /\ d.kind = dlg.kind /\ Pane(d) = Pane(dlg) /\ d.items = dlg.items
      /\ d.height = dlg.height /\ d.due = dlg.due /\ d.resized = TRUE
  BY <1>2, SetSize
<1> HIDE DEF d
<1>4. d \in ListRec
  BY <1>1, <1>3 DEF WinRec, MenuRec
<1>5. /\ d.choice = dlg.choice /\ d.scroll = dlg.scroll /\ ItemCount(d) = ItemCount(dlg) /\ RowCount(d) = RowCount(dlg)
  BY <1>3 DEF Pane, ItemCount, RowCount
<1>6. ChosenItem(d) = d.due /\ ButtonOk(d)
  BY <1>2, <1>3, <1>5 DEF ChosenItem, ButtonOk
<1> QED
  BY <1>1, <1>2, <1>3, <1>4, <1>5, <1>6, ListDraws DEF Ranged

\* A list that is opened.
LEMMA ListOpens ==
  ASSUME NEW items \in Seq(BOOLEAN), NEW item \in 0..(Len(items) - 1), NEW h \in Nat \ {0},
         NEW e, e = DialogChecklist(items, item, h)
  PROVE  WinOk(e) /\ e.kind = "list"
<1> DEFINE scroll == IF item >= h THEN item - h + 1 ELSE 0
           d == [kind |-> "list", items |-> items, height |-> h, scroll |-> scroll,
                 choice |-> item - scroll, rows |-> <<>>, due |-> item, button |-> 0, bright |-> 0,
                 resized |-> FALSE]
           R == IF h < Len(items) THEN h ELSE Len(items)
<1>0. <<>> \in Panes
  BY NoRows
<1>1. <<>> \in Panes /\ Len(items) \in Nat
  BY <1>0, LenProperties
<1>2. /\ scroll \in 0..(Len(items) - R) /\ item - scroll \in 0..(R - 1) /\ scroll + (item - scroll) = item
      /\ Len(items) > 0
  BY <1>1
<1>3. scroll \in Int /\ item - scroll \in Int
  BY <1>1
<1>4. e = Drawn(d, scroll)
  BY DEF DialogChecklist
<1> HIDE DEF scroll
<1>5. d \in ListRec
  BY <1>1, <1>3 DEF ListRec
<1>6. /\ d.height > 0 /\ ItemCount(d) = Len(items) /\ RowCount(d) = R /\ d.choice = item - scroll
      /\ d.scroll = scroll /\ ChosenItem(d) = d.due
  BY <1>2 DEF ItemCount, RowCount, ChosenItem
<1>7. ButtonOk(d)
  BY DEF ButtonOk, ButtonLit, Editing
<1> HIDE DEF d, R
<1> QED
  BY <1>2, <1>4, <1>5, <1>6, <1>7, ListDraws

\* Menus and lists that were left.
LeftMenu(t) ==
  t.items \in Seq(BOOLEAN) /\ Len(t.items) > 0 /\ t.item \in 0..(Len(t.items) - 1) /\ t.saved \in Nat
LeftList(t) ==
  t.items \in Seq(BOOLEAN) /\ t.item \in 0..(Len(t.items) - 1) /\ t.height \in Nat \ {0}

\* What is left of a menu or list is enough to open it again.
LEMMA WinLeft ==
  ASSUME WinOk(dlg)
  PROVE  /\ MenuAnswers => dlg'.kind = "answer" /\ dlg'.of = "menu" /\ LeftMenu(dlg'.rest)
         /\ ListAnswers => dlg'.kind = "answer" /\ dlg'.of = "list" /\ LeftList(dlg'.rest)
<1> DEFINE d == dlg
<1>1. /\ d.items \in Seq(BOOLEAN) /\ Len(d.items) > 0 /\ ChosenItem(d) \in 0..(Len(d.items) - 1)
      /\ d.scroll \in Nat /\ d.height \in Nat \ {0}
  <2>1. Ranged(d) /\ d \in WinRec
    BY DEF WinOk, Chosen, Ranged
  <2>2. d.items \in Seq(BOOLEAN)
    BY <2>1 DEF WinRec, MenuRec, ListRec
  <2>3. /\ ItemCount(d) \in Nat \ {0} /\ RowCount(d) \in Nat \ {0} /\ RowCount(d) <= ItemCount(d)
        /\ d.scroll \in 0..(ItemCount(d) - RowCount(d)) /\ d.choice \in 0..(RowCount(d) - 1) /\ d.height \in Nat \ {0}
    BY <2>1, Counts DEF Ranged
  <2>4. ChosenItem(d) \in 0..(ItemCount(d) - 1) /\ d.scroll \in Nat
    BY <2>3 DEF ChosenItem
  <2> QED
    BY <2>2, <2>3, <2>4 DEF ItemCount
<1>2. ASSUME MenuAnswers PROVE dlg'.kind = "answer" /\ dlg'.of = "menu" /\ LeftMenu(dlg'.rest)
  <2> DEFINE t == [items |-> d.items, item |-> ChosenItem(d), saved |-> d.scroll]
  <2>1. PICK code : dlg' = Answer("menu", code, t)
    BY <1>2 DEF MenuAnswers
  <2>2. dlg'.kind = "answer" /\ dlg'.of = "menu" /\ dlg'.rest = t
    BY <2>1 DEF Answer
  <2>3. LeftMenu(t)
    BY <1>1 DEF LeftMenu
  <2> QED
    BY <2>2, <2>3
<1>3. ASSUME ListAnswers PROVE dlg'.kind = "answer" /\ dlg'.of = "list" /\ LeftList(dlg'.rest)
  <2> DEFINE t == [items |-> d.items, item |-> ChosenItem(d), height |-> d.height]
  <2>1. PICK code : dlg' = Answer("list", code, t)
    BY <1>3 DEF ListAnswers
  <2>2. dlg'.kind = "answer" /\ dlg'.of = "list" /\ dlg'.rest = t
    BY <2>1 DEF Answer
  <2>3. LeftList(t)
    BY <1>1 DEF LeftList
  <2> QED
    BY <2>2, <2>3
<1> QED
  BY <1>2, <1>3

\* They are shown again, a menu with an item less too.
LEMMA MenuComesBack ==
  ASSUME LeftMenu(dlg.rest), MenuAgain
  PROVE  WinOk(dlg') /\ dlg'.kind = "menu"
<1> DEFINE t == dlg.rest
           fewer == Front(t.items)
           item == IF t.item < Len(fewer) THEN t.item ELSE NoItem
<1>1. PICK h \in Heights : \/ dlg' = DialogMenu(t.items, t.item, t.saved, h)
                           \/ fewer # <<>> /\ dlg' = DialogMenu(fewer, item, t.saved, h)
  BY DEF MenuAgain
<1>2. /\ t.items \in Seq(BOOLEAN) /\ Len(t.items) > 0 /\ t.item \in 0..(Len(t.items) - 1) /\ t.saved \in Nat
      /\ h \in Nat \ {0} /\ Len(t.items) \in Nat /\ t.item \in Nat
  BY DialogAssumption, LenProperties DEF LeftMenu
<1> HIDE DEF t
<1>3. CASE dlg' = DialogMenu(t.items, t.item, t.saved, h)
  <2> DEFINE s == t.items
             i == t.item
             v == t.saved
  <2>1. s \in Seq(BOOLEAN) /\ Len(s) > 0 /\ i \in -1..(Len(s) - 1) /\ v \in Nat /\ h \in Nat \ {0}
    BY <1>2
  <2>2. dlg' = DialogMenu(s, i, v, h)
    BY <1>3
  <2> HIDE DEF s, i, v
  <2> QED
    BY <2>1, <2>2, MenuOpens
<1>4. CASE fewer # <<>> /\ dlg' = DialogMenu(fewer, item, t.saved, h)
  <2>1. fewer \in Seq(BOOLEAN)
    <3> DEFINE s == t.items
               n == Len(s) - 1
    <3>1. \A i \in 1..Len(s) : s[i] \in BOOLEAN
      BY <1>2, ElementOfSeq
    <3>2. 1 \in Int /\ n \in Int /\ \A i \in 1..n : s[i] \in BOOLEAN
      BY <1>2, <3>1
    <3>3. fewer = SubSeq(s, 1, n)
      BY DEF Front
    <3> HIDE DEF fewer, s, n
    <3> QED
      BY <3>2, <3>3, SubSeqProperties
  <2> HIDE DEF fewer
  <2>2. Len(fewer) \in Nat /\ Len(fewer) > 0
    BY <1>4, <2>1, LenProperties, EmptySeq
  <2>3. item \in -1..(Len(fewer) - 1)
    BY <1>2, <2>2 DEF NoItem
  <2> HIDE DEF item
  <2> QED
    BY <1>2, <1>4, <2>1, <2>2, <2>3, MenuOpens
<1> QED
  BY <1>1, <1>3, <1>4

\* A list that was left and is shown again is right.
LEMMA ListComesBack ==
  ASSUME LeftList(dlg.rest), ListAgain
  PROVE  WinOk(dlg') /\ dlg'.kind = "list"
<1> DEFINE t == dlg.rest
<1>1. dlg' = DialogChecklist(t.items, t.item, t.height)
  BY DEF ListAgain
<1> HIDE DEF t
<1>2. t.items \in Seq(BOOLEAN) /\ t.item \in 0..(Len(t.items) - 1) /\ t.height \in Nat \ {0}
  BY DEF LeftList, t
<1> QED
  BY <1>1, <1>2, ListOpens

-----------------------------------------------------------------------------
(* All dialogs.                                                            *)

\* A question.
YesNoOk(d) ==
  /\ d \in [kind : {"yesno"}, button : Int, bright : Int, resized : BOOLEAN]
  /\ ButtonOk(d)
\* An answer has what the dialog needs to be shown again.
AnswerOk(d) ==
  /\ d.kind = "answer"
  /\ d.of = "menu" => LeftMenu(d.rest)
  /\ d.of = "list" => LeftList(d.rest)
  /\ d.of = "text" => LeftText(d.rest)
\* The dialog that is open is right, and is one of those.
DialogOk(d) ==
  \/ d = Closed \/ YesNoOk(d) \/ InputOk(d) \/ TextOk(d) \/ WinOk(d) \/ AnswerOk(d)
  \/ d.kind = "crashed" /\ d.resized

\* Every kind has a condition of its own.
LEMMA Kinds ==
  ASSUME NEW d, DialogOk(d)
  PROVE  /\ d.kind = "yesno" => YesNoOk(d)
         /\ d.kind = "input" => InputOk(d)
         /\ d.kind = "text" => TextOk(d)
         /\ d.kind \in {"menu", "list"} => WinOk(d)
         /\ d.kind = "answer" => AnswerOk(d)
         /\ d.kind = "crashed" => d.resized
<1>1. d = Closed => d.kind = "none"
  BY DEF Closed
<1>2. YesNoOk(d) => d.kind = "yesno"
  BY DEF YesNoOk
<1>3. InputOk(d) => d.kind = "input"
  BY DEF InputOk, InputRec
<1>4. TextOk(d) => d.kind = "text"
  BY DEF TextOk, Open, TextRec
<1>5. WinOk(d) => d.kind \in {"menu", "list"}
  BY DEF WinOk, Chosen, Ranged, WinRec, MenuRec, ListRec
<1>6. AnswerOk(d) => d.kind = "answer"
  BY DEF AnswerOk
<1> QED
  BY <1>1, <1>2, <1>3, <1>4, <1>5, <1>6 DEF DialogOk

\* What is opened on the screen.
LEMMA Opens ==
  ASSUME OpenMenu \/ OpenList \/ OpenInput \/ OpenText \/ OpenYesNo
  PROVE  DialogOk(dlg')
<1>1. CASE OpenMenu
  <2>1. PICK n \in 1..MaxItems :
          \E items \in [1..n -> BOOLEAN], selected \in -1..(n - 1), saved \in 0..(MaxItems - 1), h \in Heights :
            dlg' = DialogMenu(items, selected, saved, h)
    BY <1>1 DEF OpenMenu
  <2>2. PICK items \in [1..n -> BOOLEAN], selected \in -1..(n - 1), saved \in 0..(MaxItems - 1), h \in Heights :
          dlg' = DialogMenu(items, selected, saved, h)
    BY <2>1
  <2>3. n \in Nat /\ n > 0 /\ saved \in Nat /\ h \in Nat \ {0}
    BY DialogAssumption
  <2>4. items \in Seq(BOOLEAN) /\ Len(items) = n
    BY <2>3
  <2>5. WinOk(dlg')
    BY <2>2, <2>3, <2>4, MenuOpens
  <2> QED
    BY <2>5 DEF DialogOk
<1>2. CASE OpenList
  <2>1. PICK n \in 1..MaxItems :
          \E items \in [1..n -> BOOLEAN], item \in 0..(n - 1), h \in Heights : dlg' = DialogChecklist(items, item, h)
    BY <1>2 DEF OpenList
  <2>2. PICK items \in [1..n -> BOOLEAN], item \in 0..(n - 1), h \in Heights : dlg' = DialogChecklist(items, item, h)
    BY <2>1
  <2>3. n \in Nat /\ h \in Nat \ {0}
    BY DialogAssumption
  <2>4. items \in Seq(BOOLEAN) /\ Len(items) = n
    BY <2>3
  <2>5. WinOk(dlg')
    BY <2>2, <2>3, <2>4, ListOpens
  <2> QED
    BY <2>5 DEF DialogOk
<1>3. CASE OpenInput
  <2>1. PICK n \in 0..MaxLen : dlg' = DialogInputbox([i \in 1..n |-> 1])
    BY <1>3 DEF OpenInput
  <2>2. n \in Nat
    BY DialogAssumption
  <2>3. InputOk(dlg')
    BY <2>1, <2>2, InputOpens
  <2> QED
    BY <2>3 DEF DialogOk
<1>4. CASE OpenText
  <2>1. PICK n \in 1..MaxLines, h \in Heights :
          \/ dlg' = DialogTextbox(n, FALSE, h, FALSE, 0, 0)
          \/ \E marks \in BOOLEAN : dlg' = DialogTextbox(n, TRUE, h, marks, 0, 0)
    BY <1>4 DEF OpenText
  <2>2. n \in Nat \ {0} /\ h \in Nat \ {0}
    BY DialogAssumption
  <2>3. PICK whole \in BOOLEAN, marks \in BOOLEAN :
          (marks => whole) /\ dlg' = DialogTextbox(n, whole, h, marks, 0, 0)
    BY <2>1
  <2>4. TextOk(dlg')
    BY <2>2, <2>3, TextBegins
  <2> QED
    BY <2>4 DEF DialogOk
<1>5. CASE OpenYesNo
  <2>1. dlg' = [kind |-> "yesno", button |-> 0, bright |-> 0, resized |-> FALSE]
    BY <1>5 DEF OpenYesNo, DialogYesno
  <2>2. YesNoOk(dlg')
    BY <2>1 DEF YesNoOk, ButtonOk, ButtonLit, Editing
  <2> QED
    BY <2>2 DEF DialogOk
<1> QED
  BY <1>1, <1>2, <1>3, <1>4, <1>5

\* The keys of a question.
LEMMA Questions ==
  ASSUME YesNoOk(dlg)
  PROVE  /\ YesNoButton => YesNoOk(dlg')
         /\ YesNoAnswers => AnswerOk(dlg')
         /\ YesNoResized => YesNoOk(dlg')
<1> DEFINE d == dlg
<1>0. d \in [kind : {"yesno"}, button : Int, bright : Int, resized : BOOLEAN]
  BY DEF YesNoOk
<1>1. ASSUME YesNoButton PROVE YesNoOk(dlg')
  <2> DEFINE b == 1 - d.button
  <2>1. PICK r \in BOOLEAN : r = FALSE
    OBVIOUS
  <2>2. b \in Int /\ b + 0 \in Int
    BY <1>0
  <2>3. dlg' = TakeButton(d, b)
    BY <1>1 DEF YesNoButton
  <2> HIDE DEF b
  <2>4. ButtonLit(b) \in Int
    BY <2>2 DEF ButtonLit
  <2>5. dlg' = [d EXCEPT !.button = b, !.bright = ButtonLit(b), !.resized = r]
    BY <2>1, <2>3, Zenon DEF TakeButton
  <2>6. dlg' \in [kind : {"yesno"}, button : Int, bright : Int, resized : BOOLEAN]
    BY <1>0, <2>2, <2>4, <2>5
  <2>7. dlg'.button = b /\ dlg'.bright = ButtonLit(b)
    BY <1>0, <2>5
  <2> QED
    BY <2>6, <2>7 DEF YesNoOk, ButtonOk
<1>2. ASSUME YesNoAnswers PROVE AnswerOk(dlg')
  <2>1. PICK code : dlg' = Answer("yesno", code, <<>>)
    BY <1>2 DEF YesNoAnswers
  <2>2. dlg'.kind = "answer" /\ dlg'.of = "yesno"
    BY <2>1 DEF Answer
  <2> QED
    BY <2>2 DEF AnswerOk
<1>3. ASSUME YesNoResized PROVE YesNoOk(dlg')
  <2>1. PICK r \in BOOLEAN : r = TRUE
    OBVIOUS
  <2>2. PICK z \in Int : z = 0
    OBVIOUS
  <2>3. dlg' = Resized(d)
    BY <1>3 DEF YesNoResized
  <2>4. dlg' = [d EXCEPT !.bright = z, !.resized = r]
    BY <2>1, <2>2, <2>3, Zenon DEF Resized
  <2>5. dlg' \in [kind : {"yesno"}, button : Int, bright : Int, resized : BOOLEAN]
    BY <1>0, <2>4
  <2>6. dlg'.resized <=> r
    BY <1>0, <2>4
  <2> QED
    BY <2>1, <2>5, <2>6 DEF YesNoOk, ButtonOk
<1> QED
  BY <1>1, <1>2, <1>3

\* Every key, and every size of the window, leaves a dialog that is right.
LEMMA DialogStep ==
  ASSUME DialogOk(dlg), DialogNext
  PROVE  DialogOk(dlg')
<1>1. CASE dlg = Closed /\ (OpenMenu \/ OpenList \/ OpenInput \/ OpenText \/ OpenYesNo)
  BY <1>1, Opens
<1>2. CASE dlg.kind = "menu" /\ (MenuMove \/ MenuButton \/ MenuAnswers \/ MenuResized)
  <2>1. WinOk(dlg)
    BY <1>2, Kinds
  <2>2. CASE MenuMove
    BY <2>1, <2>2, MenuMoves DEF DialogOk
  <2>3. CASE MenuButton
    <3>1. dlg.button \in Int
      BY <2>1 DEF WinOk, Chosen, Ranged, WinRec, MenuRec, ListRec
    <3>2. PICK step \in {1, 4} : dlg' = TakeButton(dlg, (dlg.button + step) % 5)
      BY <2>3 DEF MenuButton
    <3> DEFINE b == (dlg.button + step) % 5
    <3>3. b \in Int
      BY <3>1
    <3> HIDE DEF b
    <3>4. WinOk(dlg')
      BY <2>1, <3>2, <3>3, WinButtons DEF b
    <3> QED
      BY <3>4 DEF DialogOk
  <2>4. CASE MenuAnswers
    <3>1. dlg'.kind = "answer" /\ dlg'.of = "menu" /\ LeftMenu(dlg'.rest)
      BY <2>1, <2>4, WinLeft
    <3> QED
      BY <3>1 DEF DialogOk, AnswerOk
  <2>5. CASE MenuResized
    BY <2>1, <2>5, MenuSizes DEF DialogOk
  <2> QED
    BY <1>2, <2>2, <2>3, <2>4, <2>5
<1>3. CASE dlg.kind = "list" /\ (ListMove \/ ListButton \/ ListAnswers \/ ListResized)
  <2>1. WinOk(dlg)
    BY <1>3, Kinds
  <2>2. CASE ListMove
    BY <2>1, <2>2, ListMoves DEF DialogOk
  <2>3. CASE ListButton
    <3> DEFINE b == 1 - dlg.button
    <3>1. dlg.button \in Int
      BY <2>1 DEF WinOk, Chosen, Ranged, WinRec, MenuRec, ListRec
    <3>2. dlg' = TakeButton(dlg, b)
      BY <2>3 DEF ListButton
    <3>3. b \in Int
      BY <3>1
    <3> HIDE DEF b
    <3>4. WinOk(dlg')
      BY <2>1, <3>2, <3>3, WinButtons
    <3> QED
      BY <3>4 DEF DialogOk
  <2>4. CASE ListAnswers
    <3>1. dlg'.kind = "answer" /\ dlg'.of = "list" /\ LeftList(dlg'.rest)
      BY <2>1, <2>4, WinLeft
    <3> QED
      BY <3>1 DEF DialogOk, AnswerOk
  <2>5. CASE ListResized
    BY <2>1, <2>5, ListSizes DEF DialogOk
  <2> QED
    BY <1>3, <2>2, <2>3, <2>4, <2>5
<1>4. CASE dlg.kind = "input" /\ (InputEdit \/ InputButton \/ InputAnswers \/ InputResized)
  <2>1. InputOk(dlg)
    BY <1>4, Kinds
  <2>2. CASE InputEdit \/ InputButton \/ InputResized
    BY <2>1, <2>2, InputEdits, InputButtons, InputSizes DEF DialogOk
  <2>3. CASE InputAnswers
    <3>1. PICK code : dlg' = Answer("input", code, [text |-> dlg.text])
      BY <2>3 DEF InputAnswers
    <3>2. dlg'.kind = "answer" /\ dlg'.of = "input"
      BY <3>1 DEF Answer
    <3> QED
      BY <3>2 DEF DialogOk, AnswerOk
  <2> QED
    BY <1>4, <2>2, <2>3
<1>5. CASE dlg.kind = "text" /\ (TextMove \/ TextShift \/ TextResized \/ TextLeft)
  <2>1. TextOk(dlg)
    BY <1>5, Kinds
  <2>2. CASE TextMove \/ TextShift \/ TextResized
    BY <2>1, <2>2, TextMoves, TextShifts, TextSizes DEF DialogOk
  <2>3. CASE TextLeft
    <3>1. dlg'.kind = "answer" /\ dlg'.of = "text" /\ LeftText(dlg'.rest)
      BY <2>1, <2>3, TextLeaves
    <3> QED
      BY <3>1 DEF DialogOk, AnswerOk
  <2> QED
    BY <1>5, <2>2, <2>3
<1>6. CASE dlg.kind = "answer" /\ (MenuAgain \/ ListAgain \/ TextAgain)
  <2>1. AnswerOk(dlg)
    BY <1>6, Kinds
  <2>2. CASE MenuAgain
    <3>1. LeftMenu(dlg.rest)
      BY <2>1, <2>2 DEF MenuAgain, Answered, AnswerOk
    <3> QED
      BY <2>2, <3>1, MenuComesBack DEF DialogOk
  <2>3. CASE ListAgain
    <3>1. LeftList(dlg.rest)
      BY <2>1, <2>3 DEF ListAgain, Answered, AnswerOk
    <3> QED
      BY <2>3, <3>1, ListComesBack DEF DialogOk
  <2>4. CASE TextAgain
    <3>1. LeftText(dlg.rest)
      BY <2>1, <2>4 DEF TextAgain, Answered, AnswerOk
    <3> QED
      BY <2>4, <3>1, TextComesBack DEF DialogOk
  <2> QED
    BY <1>6, <2>2, <2>3, <2>4
<1>7. CASE dlg.kind = "yesno" /\ (YesNoButton \/ YesNoAnswers \/ YesNoResized)
  <2>1. YesNoOk(dlg)
    BY <1>7, Kinds
  <2> QED
    BY <1>7, <2>1, Questions DEF DialogOk
<1>8. CASE Escape
  BY <1>8 DEF Escape, DialogOk
<1>9. (MenuMove \/ MenuButton \/ MenuAnswers \/ MenuResized) => dlg.kind = "menu"
  BY DEF MenuMove, MenuButton, MenuAnswers, MenuResized, Menu
<1>10. (ListMove \/ ListButton \/ ListAnswers \/ ListResized) => dlg.kind = "list"
  BY DEF ListMove, ListButton, ListAnswers, ListResized, List
<1>11. (InputEdit \/ InputButton \/ InputAnswers \/ InputResized) => dlg.kind = "input"
  BY DEF InputEdit, InputButton, InputAnswers, InputResized, Input
<1>12. (TextMove \/ TextShift \/ TextResized \/ TextLeft) => dlg.kind = "text"
  BY DEF TextMove, TextShift, TextResized, TextLeft, Text
<1>13. (MenuAgain \/ ListAgain \/ TextAgain) => dlg.kind = "answer"
  BY DEF MenuAgain, ListAgain, TextAgain, Answered
<1>14. (YesNoButton \/ YesNoAnswers \/ YesNoResized) => dlg.kind = "yesno"
  BY DEF YesNoButton, YesNoAnswers, YesNoResized, YesNo
<1> QED
  BY <1>1, <1>2, <1>3, <1>4, <1>5, <1>6, <1>7, <1>8, <1>9, <1>10, <1>11, <1>12, <1>13, <1>14
     DEF DialogNext

\* What it is for a dialog to be right, in words of the properties.
LEMMA OkIsRight ==
  ASSUME DialogOk(dlg)
  PROVE  DialogsRight
<1>1. LitIsChosen
  <2>1. ASSUME dlg.kind \in {"menu", "list"}, ~(Menu /\ dlg.stale)
        PROVE  /\ ChosenItem(dlg) = dlg.due
               /\ \A i \in DOMAIN dlg.rows : dlg.rows[i] = [item |-> dlg.scroll + i, lit |-> i = dlg.choice]
    <3>1. WinOk(dlg)
      BY <2>1, Kinds
    <3>2. ChosenItem(dlg) = dlg.due /\ Bright(dlg) /\ DOMAIN dlg.rows = 0..(RowCount(dlg) - 1)
      BY <2>1, <3>1 DEF WinOk, Chosen, Ranged, Menu
    <3> QED
      BY <3>2 DEF Bright
  <2>2. dlg.kind = "crashed" => dlg.resized
    BY Kinds
  <2> QED
    BY <2>1, <2>2 DEF LitIsChosen
<1>2. ButtonIsLit
  <2>1. ASSUME dlg.kind \in {"menu", "list", "input", "yesno"} PROVE ButtonOk(dlg)
    BY <2>1, Kinds DEF WinOk, Chosen, InputOk, YesNoOk
  <2> QED
    BY <2>1 DEF ButtonIsLit, ButtonOk
<1>3. EditsAsTyped
  <2>1. ASSUME Input PROVE InputOk(dlg)
    BY <2>1, Kinds DEF Input
  <2> QED
    BY <2>1 DEF EditsAsTyped, InputOk, Shows, Columns
<1>4. ScrollsAsAsked
  <2>1. ASSUME Text, dlg.whole PROVE dlg.top = dlg.due
    <3>1. TextOk(dlg)
      BY <2>1, Kinds DEF Text
    <3> QED
      BY <2>1, <3>1 DEF TextOk
  <2> QED
    BY <2>1 DEF ScrollsAsAsked
<1> QED
  BY <1>1, <1>2, <1>3, <1>4 DEF DialogsRight

\* In every state of every dialog of menuconfig: the lit row is the item that
\* will be taken and that the keys asked for, the lit button is the one Enter
\* takes, the line is what was typed and the text is where the keys asked for,
\* with the exceptions the properties name.  For menus and texts of any length,
\* windows of any height, and any sequence of keys, sizes and dialogs.
THEOREM DialogsAreRight == DialogSpec => []DialogsRight
<1> DEFINE Ok == DialogOk(dlg)
<1>1. DialogInit => Ok
  BY DEF DialogInit, DialogOk
<1>2. Ok /\ [DialogNext]_dlg => Ok'
  BY DialogStep
<1>3. Ok => DialogsRight
  BY OkIsRight
<1> QED
  BY <1>1, <1>2, <1>3, PTL DEF DialogSpec

-----------------------------------------------------------------------------
(* The search in a page.                                                   *)

\* The remainder, where the numbers of rows are.
LEMMA Mods ==
  ASSUME NEW n \in Nat \ {0}, NEW x \in Int
  PROVE  /\ x \in 0..(n - 1) => x % n = x
         /\ x \in (-n)..(-1) => x % n = x + n
         /\ x \in n..(n + n - 1) => x % n = x - n
         /\ x \in (n + n)..(n + n + n - 1) => x % n = x - n - n
         /\ x = n + n + n => x % n = 0
  OBVIOUS

\* One remainder for all of them.
LEMMA ModIs ==
  ASSUME NEW n \in Nat \ {0}, NEW x \in (-n)..(n + n + n), NEW r, r = x % n
  PROVE  r = IF x < 0 THEN x + n ELSE IF x < n THEN x ELSE IF x < n + n THEN x - n
             ELSE IF x < n + n + n THEN x - n - n ELSE 0
<1>1. x \in Int
  OBVIOUS
<1>2. /\ x \in 0..(n - 1) => r = x
      /\ x \in (-n)..(-1) => r = x + n
      /\ x \in n..(n + n - 1) => r = x - n
      /\ x \in (n + n)..(n + n + n - 1) => r = x - n - n
      /\ x = n + n + n => r = 0
  BY <1>1, Mods
<1>3. PICK q : q = x % n
  OBVIOUS
<1>4. r = q
  BY <1>3
<1> QED
  BY <1>2

Dirs == {"down", "up", "next_down", "next_up"}
Start(from, dir) == from + (CASE dir = "next_down" -> 1 [] dir = "next_up" -> -1 [] OTHER -> 0)
RowAt(n, from, dir, k) == (Start(from, dir) + n + (IF dir \in Upwards THEN -k ELSE k)) % n
Gap(n, from, dir, i) ==
  LET d == IF dir \in Upwards THEN (from - i) % n ELSE (i - from) % n
  IN IF dir \in FindNext /\ d = 0 THEN n ELSE d
\* The first row that is looked at is the current one, or the one after it.
Skipped(dir) == IF dir \in FindNext THEN 1 ELSE 0
AtEdge(n, from, dir) == (dir = "next_down" /\ from = n - 1) \/ (dir = "next_up" /\ from = 0)

\* The search goes through all rows in the order of their distance and is back
\* at the start after the last one, if the start is a row.
Circles(n, from, dir) ==
  /\ \A k \in 0..n : RowAt(n, from, dir, k) \in 0..(n - 1)
  /\ \A k \in 0..(n - 1) : Gap(n, from, dir, RowAt(n, from, dir, k)) = k + Skipped(dir)
  /\ \A i \in 0..(n - 1) : /\ Gap(n, from, dir, i) \in Int
                           /\ Gap(n, from, dir, i) - Skipped(dir) \in 0..(n - 1)
                           /\ RowAt(n, from, dir, Gap(n, from, dir, i) - Skipped(dir)) = i
  /\ \A k \in 1..n : RowAt(n, from, dir, k) = Start(from, dir) => k = n
  /\ RowAt(n, from, dir, n) = RowAt(n, from, dir, 0)
  /\ RowAt(n, from, dir, n) = Start(from, dir) \/ AtEdge(n, from, dir)

\* The rows the loop goes through are all rows, each once, the nearest first.
LEMMA Circle ==
  ASSUME NEW n \in Nat \ {0}, NEW from \in 0..(n - 1), NEW dir \in Dirs
  PROVE  Circles(n, from, dir)
<1> DEFINE s == Start(from, dir)
           Row(k) == RowAt(n, from, dir, k)
           Down(k) == IF s + k < 0 THEN s + k + n ELSE IF s + k < n THEN s + k
                      ELSE IF s + k < n + n THEN s + k - n ELSE 0
           Up(k) == IF s - k < -n THEN n - 1 ELSE IF s - k < 0 THEN s - k + n
                    ELSE IF s - k < n THEN s - k ELSE 0
           Less(a, b) == IF a >= b THEN a - b ELSE a - b + n
<1>1. s \in -1..n /\ s = IF dir = "next_down" THEN from + 1 ELSE IF dir = "next_up" THEN from - 1 ELSE from
  BY DEF Start, Dirs
<1>2. dir \in Upwards <=> dir = "up" \/ dir = "next_up"
  BY DEF Upwards
<1>3. dir \in FindNext <=> dir = "next_down" \/ dir = "next_up"
  BY DEF FindNext
<1>4. ASSUME NEW k \in 0..n PROVE Row(k) = IF dir \in Upwards THEN Up(k) ELSE Down(k)
  <2>1. CASE dir \in Upwards
    <3> DEFINE x == s + n + (-k)
    <3>1. Row(k) = x % n
      BY <2>1 DEF RowAt
    <3>2. x \in (-n)..(n + n + n) /\ x <= n + n /\ x = s - k + n
      BY <1>1
    <3> HIDE DEF s, x
    <3>3. x % n = IF x < 0 THEN x + n ELSE IF x < n THEN x ELSE IF x < n + n THEN x - n
                  ELSE IF x < n + n + n THEN x - n - n ELSE 0
      BY <3>2, ModIs
    <3> QED
      BY <1>1, <2>1, <3>1, <3>2, <3>3
  <2>2. CASE dir \notin Upwards
    <3> DEFINE x == s + n + k
    <3>1. Row(k) = x % n
      BY <2>2 DEF RowAt
    <3>2. x \in (-n)..(n + n + n) /\ x >= 0 /\ x = s + k + n
      BY <1>1
    <3> HIDE DEF s, x
    <3>3. x % n = IF x < 0 THEN x + n ELSE IF x < n THEN x ELSE IF x < n + n THEN x - n
                  ELSE IF x < n + n + n THEN x - n - n ELSE 0
      BY <3>2, ModIs
    <3> QED
      BY <1>1, <2>2, <3>1, <3>2, <3>3
  <2> QED
    BY <2>1, <2>2
<1>5. ASSUME NEW a \in 0..(n - 1), NEW b \in 0..(n - 1) PROVE (a - b) % n = Less(a, b)
  <2> DEFINE x == a - b
  <2>1. x \in (-n)..(n + n + n) /\ x < n /\ (x < 0 <=> ~(a >= b))
    OBVIOUS
  <2> HIDE DEF x
  <2>2. x % n = IF x < 0 THEN x + n ELSE x
    BY <2>1, ModIs
  <2> QED
    BY <2>1, <2>2 DEF x
<1>6. ASSUME NEW i \in 0..(n - 1)
      PROVE  Gap(n, from, dir, i) = LET d == IF dir \in Upwards THEN Less(from, i) ELSE Less(i, from)
                                    IN IF dir \in FindNext /\ d = 0 THEN n ELSE d
  <2>1. (from - i) % n = Less(from, i) /\ (i - from) % n = Less(i, from)
    BY <1>5
  <2> HIDE DEF Less
  <2> QED
    BY <2>1 DEF Gap
<1> HIDE DEF s, Row
<1>7. ASSUME NEW k \in 0..n PROVE Row(k) \in 0..(n - 1)
  BY <1>1, <1>2, <1>4
<1>8. ASSUME NEW k \in 0..(n - 1) PROVE Gap(n, from, dir, Row(k)) = k + Skipped(dir)
  <2>1. Row(k) \in 0..(n - 1) /\ Row(k) = IF dir \in Upwards THEN Up(k) ELSE Down(k)
    BY <1>4, <1>7
  <2> DEFINE i == Row(k)
  <2>2. Gap(n, from, dir, i) = LET d == IF dir \in Upwards THEN Less(from, i) ELSE Less(i, from)
                               IN IF dir \in FindNext /\ d = 0 THEN n ELSE d
    BY <1>6, <2>1
  <2> QED
    BY <1>1, <1>2, <1>3, <2>1, <2>2 DEF Skipped, Dirs
<1>9. ASSUME NEW i \in 0..(n - 1)
      PROVE  /\ Gap(n, from, dir, i) \in Int
             /\ Gap(n, from, dir, i) - Skipped(dir) \in 0..(n - 1)
             /\ Row(Gap(n, from, dir, i) - Skipped(dir)) = i
  <2> DEFINE k == Gap(n, from, dir, i) - Skipped(dir)
  <2>1. Gap(n, from, dir, i) = LET d == IF dir \in Upwards THEN Less(from, i) ELSE Less(i, from)
                               IN IF dir \in FindNext /\ d = 0 THEN n ELSE d
    BY <1>6
  <2>2. k \in 0..(n - 1)
    BY <1>1, <1>2, <1>3, <2>1 DEF Skipped, Dirs
  <2>3. Row(k) = IF dir \in Upwards THEN Up(k) ELSE Down(k)
    BY <1>4, <2>2
  <2>4. Row(k) = i
    BY <1>1, <1>2, <1>3, <2>1, <2>2, <2>3 DEF Skipped, Dirs
  <2>5. Gap(n, from, dir, i) \in Int
    BY <2>1
  <2> QED
    BY <2>2, <2>4, <2>5
<1>10. ASSUME NEW k \in 1..n, Row(k) = s PROVE k = n
  <2>1. Row(k) = IF dir \in Upwards THEN Up(k) ELSE Down(k)
    BY <1>4
  <2> QED
    BY <1>1, <1>2, <1>10, <2>1 DEF Dirs
<1>11. Row(n) = Row(0) /\ (Row(n) = s \/ AtEdge(n, from, dir))
  <2>1. /\ Row(n) = IF dir \in Upwards THEN Up(n) ELSE Down(n)
        /\ Row(0) = IF dir \in Upwards THEN Up(0) ELSE Down(0)
    BY <1>4
  <2>2. Row(n) = Row(0)
    BY <1>1, <1>2, <2>1 DEF Dirs
  <2>3. Row(n) = s \/ s = n \/ s = -1
    BY <1>1, <1>2, <2>1 DEF Dirs
  <2>4. s = n \/ s = -1 => AtEdge(n, from, dir)
    BY <1>1 DEF AtEdge, Dirs
  <2> QED
    BY <2>2, <2>3, <2>4
<1> QED
  BY <1>7, <1>8, <1>9, <1>10, <1>11 DEF Circles, Row, s

\* The answer of a search.
LEMMA NextMatch ==
  ASSUME NEW p, Items(p) \in Nat \ {0}, p.cur \in 0..(Items(p) - 1), NEW dir \in Dirs, NEW pattern,
         NEW ans, ans = GetMextMatch(p, pattern, dir)
  PROVE  LET n == Items(p)
             hits == {i \in 0..(n - 1) : Matching(p, pattern, i)}
         IN /\ ans \in -2..(n - 1)
            /\ ans >= 0 => ans \in hits /\ \A i \in hits : Gap(n, p.cur, dir, ans) <= Gap(n, p.cur, dir, i)
            /\ ans < 0 => hits = {}
            /\ ans = Never => AtEdge(n, p.cur, dir)
<1> DEFINE n == Items(p)
           from == p.cur
           hits == {i \in 0..(n - 1) : Matching(p, pattern, i)}
           Row(k) == RowAt(n, from, dir, k)
           s == Start(from, dir)
           G(i) == Gap(n, from, dir, i)
           e == Skipped(dir)
           Hit(k) == Matching(p, pattern, Row(k))
           Back(k) == k > 0 /\ Row(k) = s
           ends == {k \in 0..n : Hit(k) \/ Back(k)}
           m == Min(ends)
<1>0. Circles(n, from, dir)
  BY Circle
<1>1. /\ \A k \in 0..n : Row(k) \in 0..(n - 1)
      /\ \A k \in 0..(n - 1) : G(Row(k)) = k + e
      /\ \A i \in 0..(n - 1) : G(i) \in Int /\ G(i) - e \in 0..(n - 1) /\ Row(G(i) - e) = i
      /\ \A k \in 1..n : Row(k) = s => k = n
      /\ Row(n) = Row(0) /\ (Row(n) = s \/ AtEdge(n, from, dir))
  BY <1>0 DEF Circles
<1>2. ans = CASE ends = {} -> Never
              [] ends # {} /\ Back(m) -> NoRow
              [] OTHER -> Row(m)
  BY DEF GetMextMatch, Compared, MatchStart, RowAt, Start
<1>3. ends \in SUBSET Nat /\ ends \subseteq 0..n
  OBVIOUS
<1>4. \A i : i \in hits <=> i \in 0..(n - 1) /\ Matching(p, pattern, i)
  OBVIOUS
<1>5. \A k : k \in ends <=> k \in 0..n /\ (Hit(k) \/ Back(k))
  OBVIOUS
<1>6. n \in Nat \ {0} /\ e \in {0, 1}
  BY DEF Skipped
<1>7. \A i \in hits : G(i) - e \in ends
  BY <1>1, <1>4, <1>5, <1>6
<1> HIDE DEF hits, ends, n, from, Row, G, e, s
<1>8. CASE ends = {}
  <2>1. ans = Never /\ hits = {}
    BY <1>2, <1>7, <1>8
  <2>2. ~(Row(n) = s)
    <3>1. n \in 0..n /\ n > 0
      BY <1>6
    <3> QED
      BY <1>5, <1>8, <3>1
  <2> QED
    BY <1>1, <1>6, <2>1, <2>2 DEF Never, n, hits, from, G
<1>9. CASE ends # {}
  <2>1. m \in ends /\ \A k \in ends : m <= k
    BY <1>3, <1>9, LowestIs
  <2> HIDE DEF m
  <2>2. CASE Back(m)
    <3>1. ans = NoRow
      BY <1>2, <1>9, <2>2
    <3>2. m = n
      BY <1>1, <1>3, <2>1, <2>2
    <3>3. ASSUME NEW i \in hits PROVE FALSE
      <4>1. i \in 0..(n - 1) /\ G(i) - e \in 0..(n - 1)
        BY <1>1, <1>4
      <4> QED
        BY <1>6, <1>7, <2>1, <3>2, <4>1
    <3>4. hits = {}
      BY <3>3
    <3> QED
      BY <1>6, <3>1, <3>4 DEF NoRow, Never, n, hits, from, G
  <2>3. CASE ~Back(m)
    <3>1. ans = Row(m)
      BY <1>2, <1>9, <2>3
    <3>2. m \in 0..n /\ Hit(m)
      BY <1>5, <2>1, <2>3
    <3>3. m \in 0..(n - 1)
      <4>1. CASE m = n
        <5>1. Hit(0) /\ 0 \in 0..n
          BY <1>1, <1>6, <3>2, <4>1
        <5>2. 0 \in ends
          BY <1>5, <5>1
        <5> QED
          BY <1>6, <2>1, <4>1, <5>2
      <4> QED
        BY <1>6, <3>2, <4>1
    <3>4. ans \in 0..(n - 1) /\ ans \in hits /\ G(ans) = m + e
      BY <1>1, <1>4, <3>1, <3>2, <3>3
    <3>5. ASSUME NEW i \in hits PROVE G(ans) <= G(i)
      <4>1. i \in 0..(n - 1) /\ G(i) - e \in 0..(n - 1) /\ m <= G(i) - e
        BY <1>1, <1>4, <1>7, <2>1
      <4>2. G(i) \in Int
        BY <1>1, <1>4
      <4> QED
        BY <1>6, <3>3, <3>4, <4>1, <4>2
    <3> QED
      BY <1>6, <3>4, <3>5 DEF Never, n, hits, from, G
  <2> QED
    BY <2>2, <2>3
<1> QED
  BY <1>8, <1>9

Patterns == [right : Int, wrong : Int]
Lasts == [from : Int, dir : Dirs, pattern : Patterns, ans : Int]
PageRec == [rows : Seq(Nat), cur : Int, in : BOOLEAN, dir : Dirs, pattern : Patterns, last : Lasts]
\* What the last search answered is the nearest row: GoesToNearest, for any page.
Nearest(p) ==
  LET n == Items(p)
      l == p.last
      hits == {i \in 0..(n - 1) : Matching(p, l.pattern, i)}
  IN p.rows # <<>> /\ l # Nothing =>
       /\ l.ans >= 0 => l.ans \in hits /\ \A i \in hits : Gap(n, l.from, l.dir, l.ans) <= Gap(n, l.from, l.dir, i)
       /\ l.ans < 0 => hits = {}
       /\ l.ans = Never => AtEdge(n, l.from, l.dir)
PageOk(p) ==
  p \in PageRec /\ (p.rows # <<>> => p.cur \in 0..(Items(p) - 1)) /\ Nearest(p)

\* The rows and what was found stay: the current row and the rest may change.
LEMMA StaysNearest ==
  ASSUME NEW p, PageOk(p), NEW e \in PageRec, e.rows = p.rows, e.last = p.last,
         e.rows # <<>> => e.cur \in 0..(Items(e) - 1)
  PROVE  PageOk(e)
<1>1. Items(e) = Items(p)
  BY DEF Items
<1>2. \A q, i : Matching(e, q, i) <=> Matching(p, q, i)
  BY DEF Matching
<1>3. Nearest(e)
  BY <1>1, <1>2 DEF PageOk, Nearest
<1> QED
  BY <1>3 DEF PageOk

\* A page with rows has a number of them.
LEMMA RowsOf ==
  ASSUME NEW p, p \in PageRec, p.rows # <<>>
  PROVE  Items(p) \in Nat \ {0}
<1>1. p.rows \in Seq(Nat)
  BY DEF PageRec
<1> QED
  BY <1>1, LenProperties, EmptySeq DEF Items

\* A search.
LEMMA Looks ==
  ASSUME NEW p, PageOk(p), p.rows # <<>>, NEW pattern \in Patterns, NEW dir \in Dirs,
         NEW e, e = Look(p, pattern, dir)
  PROVE  PageOk(e)
<1> DEFINE n == Items(p)
           ans == GetMextMatch(p, pattern, dir)
           last == [from |-> p.cur, dir |-> dir, pattern |-> pattern, ans |-> ans]
           f == [p EXCEPT !.pattern = pattern, !.dir = dir, !.last = last]
           hits == {i \in 0..(n - 1) : Matching(p, pattern, i)}
<1>1. p \in PageRec /\ n \in Nat \ {0} /\ p.cur \in 0..(n - 1)
  BY RowsOf DEF PageOk
<1>2. /\ ans \in -2..(n - 1)
      /\ ans >= 0 => ans \in hits /\ \A i \in hits : Gap(n, p.cur, dir, ans) <= Gap(n, p.cur, dir, i)
      /\ ans < 0 => hits = {}
      /\ ans = Never => AtEdge(n, p.cur, dir)
  BY <1>1, NextMatch
<1>3. e = IF ans >= 0 THEN [f EXCEPT !.cur = ans] ELSE f
  BY DEF Look, CenterItem
<1>4. \A i : i \in hits <=> i \in 0..(n - 1) /\ Matching(p, pattern, i)
  OBVIOUS
<1> HIDE DEF ans, hits
<1>5. last \in Lasts
  BY <1>1, <1>2 DEF Lasts
<1>6. last.from = p.cur /\ last.dir = dir /\ last.pattern = pattern /\ last.ans = ans
  OBVIOUS
<1> HIDE DEF last
<1>7. f \in PageRec /\ f.rows = p.rows /\ f.last = last /\ f.cur = p.cur
  BY <1>1, <1>5 DEF PageRec
<1> HIDE DEF f, n
<1>8. /\ e \in PageRec /\ e.rows = p.rows /\ e.last = last /\ e.cur \in 0..(n - 1)
  <2>1. CASE ans >= 0
    <3>1. e = [f EXCEPT !.cur = ans] /\ ans \in Int /\ ans \in 0..(n - 1)
      BY <1>1, <1>2, <1>3, <2>1
    <3>2. e \in PageRec /\ e.rows = f.rows /\ e.last = f.last /\ e.cur = ans
      BY <1>7, <3>1 DEF PageRec
    <3> QED
      BY <1>7, <3>1, <3>2
  <2>2. CASE ~(ans >= 0)
    BY <1>1, <1>3, <1>7, <2>2
  <2> QED
    BY <2>1, <2>2
<1>9. Items(e) = n
  BY <1>8 DEF Items, n
<1>10. \A i : Matching(e, pattern, i) <=> Matching(p, pattern, i)
  BY <1>8 DEF Matching
<1>11. {i \in 0..(Items(e) - 1) : Matching(e, e.last.pattern, i)} = hits
  <2>1. e.last.pattern = pattern
    BY <1>6, <1>8
  <2> QED
    BY <1>4, <1>9, <1>10, <2>1
<1>12. Nearest(e)
  BY <1>2, <1>6, <1>8, <1>9, <1>11 DEF Nearest
<1> QED
  BY <1>8, <1>9, <1>12 DEF PageOk

\* What was typed.
LEMMA Patterned ==
  ASSUME NEW q \in Patterns, NEW right \in BOOLEAN
  PROVE  Typed(q, right) \in Patterns /\ Shorter(q) \in Patterns /\ NoPattern \in Patterns
<1>1. q.right \in Int /\ q.wrong \in Int
  BY DEF Patterns
<1>2. [q EXCEPT !.right = @ + 1] \in Patterns /\ [q EXCEPT !.wrong = @ + 1] \in Patterns
  BY DEF Patterns
<1>3. [q EXCEPT !.right = @ - 1] \in Patterns /\ [q EXCEPT !.wrong = @ - 1] \in Patterns
  BY DEF Patterns
<1>4. NoPattern \in Patterns
  BY DEF Patterns, NoPattern
<1> QED
  BY <1>2, <1>3, <1>4 DEF Typed, Shorter

\* A direction that is adjusted is one.
LEMMA Adjusted ==
  ASSUME NEW dir \in Dirs PROVE AdjMatchDir(dir) \in Dirs
BY DEF Dirs, AdjMatchDir

\* The keys of a page.
LEMMA PageKeys ==
  ASSUME PageOk(page),
         KeySlash \/ KeyEscape \/ KeyLetter \/ KeyArrow \/ KeyBackspace \/ KeyOther \/ KeyMove
  PROVE  PageOk(page')
<1> DEFINE p == page
<1>1. /\ p \in PageRec /\ p.rows # <<>> /\ p.cur \in 0..(Items(p) - 1)
      /\ p.pattern \in Patterns /\ p.dir \in Dirs
  <2>1. p \in PageRec
    BY DEF PageOk
  <2>2. p.rows # <<>>
    BY DEF KeySlash, KeyEscape, KeyLetter, KeyArrow, KeyBackspace, KeyOther, KeyMove, Searching, Listening
  <2> QED
    BY <2>1, <2>2 DEF PageOk, PageRec
<1>2. NoPattern \in Patterns /\ Shorter(p.pattern) \in Patterns /\ AdjMatchDir(p.dir) \in Dirs
  BY <1>1, Patterned, Adjusted
<1>3. ASSUME page' \in PageRec, page'.rows = p.rows, page'.last = p.last, page'.cur \in 0..(Items(p) - 1)
      PROVE  PageOk(page')
  <2>1. Items(page') = Items(p)
    BY <1>3 DEF Items
  <2> QED
    BY <1>3, <2>1, StaysNearest
<1>4. CASE KeySlash \/ KeyEscape
  <2> DEFINE b == ~p.in
  <2>1. page' = [p EXCEPT !.in = b, !.pattern = NoPattern, !.dir = "down"]
    BY <1>4 DEF KeySlash, KeyEscape, Slash
  <2>a. b \in BOOLEAN
    BY Zenon
  <2> HIDE DEF b
  <2>b. "down" \in Dirs
    BY DEF Dirs
  <2>2. "down" \in Dirs /\ b \in BOOLEAN
    BY <2>a, <2>b
  <2>3. page' \in PageRec /\ page'.rows = p.rows /\ page'.last = p.last /\ page'.cur = p.cur
    BY <1>1, <1>2, <2>1, <2>2 DEF PageRec
  <2> QED
    BY <1>1, <1>3, <2>3
<1>5. CASE KeyLetter
  <2>1. PICK right \in BOOLEAN : page' = Look(p, Typed(p.pattern, right), AdjMatchDir(p.dir))
    BY <1>5 DEF KeyLetter
  <2> DEFINE q == Typed(p.pattern, right)
             d == AdjMatchDir(p.dir)
  <2>2. q \in Patterns /\ d \in Dirs
    BY <1>1, Patterned, Adjusted
  <2> HIDE DEF q, d
  <2>3. page' = Look(p, q, d)
    BY <2>1 DEF q, d
  <2> QED
    BY <1>1, <2>2, <2>3, Looks
<1>6. CASE KeyArrow
  <2>1. PICK d \in Dirs : page' = Look(p, p.pattern, d)
    BY <1>6 DEF KeyArrow, FindNext, Dirs
  <2> DEFINE q == p.pattern
  <2>2. q \in Patterns /\ page' = Look(p, q, d)
    BY <1>1, <2>1
  <2> HIDE DEF q
  <2> QED
    BY <1>1, <2>2, Looks
<1>7. CASE KeyBackspace
  <2> DEFINE q == Shorter(p.pattern)
             d == AdjMatchDir(p.dir)
  <2>1. page' = [p EXCEPT !.pattern = q, !.dir = d]
    BY <1>7 DEF KeyBackspace
  <2>2. q \in Patterns /\ d \in Dirs
    BY <1>2
  <2> HIDE DEF q, d
  <2>3. page' \in PageRec /\ page'.rows = p.rows /\ page'.last = p.last /\ page'.cur = p.cur
    BY <1>1, <2>1, <2>2 DEF PageRec
  <2> QED
    BY <1>1, <1>3, <2>3
<1>8. CASE KeyOther
  <2>1. PICK b \in BOOLEAN : b = FALSE
    OBVIOUS
  <2>2. page' = [p EXCEPT !.in = b, !.pattern = NoPattern]
    BY <1>8, <2>1, Zenon DEF KeyOther
  <2>3. page' \in PageRec /\ page'.rows = p.rows /\ page'.last = p.last /\ page'.cur = p.cur
    BY <1>1, <1>2, <2>2 DEF PageRec
  <2> QED
    BY <1>1, <1>3, <2>3
<1>9. CASE KeyMove
  <2>1. PICK i \in 0..(Items(p) - 1) : page' = [p EXCEPT !.cur = i]
    BY <1>9 DEF KeyMove
  <2>2. i \in Int
    OBVIOUS
  <2>3. page' \in PageRec /\ page'.rows = p.rows /\ page'.last = p.last /\ page'.cur = i
    BY <1>1, <2>1, <2>2 DEF PageRec
  <2> QED
    BY <1>3, <2>3
<1> QED
  BY <1>4, <1>5, <1>6, <1>7, <1>8, <1>9

\* A page, as it is at first.
LEMMA NewPages ==
  ASSUME NEW rows \in Seq(Nat), NEW cur \in Int, rows # <<>> => cur \in 0..(Len(rows) - 1),
         NEW p, p = NewPage(rows, cur)
  PROVE  PageOk(p)
<1>1. Nothing \in Lasts /\ NoPattern \in Patterns /\ "down" \in Dirs
  BY DEF Nothing, Lasts, NoPattern, Patterns, Dirs, NoRow
<1>2. p = [rows |-> rows, cur |-> cur, in |-> FALSE, dir |-> "down", pattern |-> NoPattern, last |-> Nothing]
  BY DEF NewPage
<1>3. p \in PageRec
  BY <1>1, <1>2 DEF PageRec
<1>4. p.rows = rows /\ p.cur = cur /\ p.last = Nothing
  BY <1>2
<1> QED
  BY <1>3, <1>4 DEF PageOk, Nearest, Items

\* The first page is right.
LEMMA PageBegins ==
  ASSUME SearchInit
  PROVE  PageOk(page)
<1>1. CASE page = NewPage(<<>>, 0)
  <2>1. PICK z \in Int : z = 0
    OBVIOUS
  <2>2. PICK s \in Seq(Nat) : s = <<>>
    BY EmptySeq
  <2> QED
    BY <1>1, <2>1, <2>2, NewPages
<1>2. ASSUME NEW n \in 1..MaxRows, NEW rows \in [1..n -> 0..MaxTyped], NEW cur \in 0..(n - 1),
             page = NewPage(rows, cur)
      PROVE  PageOk(page)
  <2>1. n \in Nat /\ MaxTyped \in Nat
    BY SearchAssumption
  <2>2. rows \in Seq(Nat) /\ Len(rows) = n /\ cur \in Int
    BY <2>1
  <2> QED
    BY <1>2, <2>2, NewPages
<1> QED
  BY <1>1, <1>2 DEF SearchInit

\* For the page there is.
LEMMA OkGoesToNearest ==
  ASSUME PageOk(page)
  PROVE  GoesToNearest
<1>1. \A i : Ahead(page.last, i) = Gap(Items(page), page.last.from, page.last.dir, i)
  BY DEF Ahead, Gap
<1> QED
  BY <1>1 DEF PageOk, Nearest, GoesToNearest, AtEdge

-----------------------------------------------------------------------------
(* The search in all symbols.                                              *)

\* What the search finds: symbols with names of their own.
Match == [name : Int, exact : BOOLEAN]
Listable(M) == M \in SUBSET Match /\ IsFiniteSet(M) /\ \A a, b \in M : a.name = b.name => a = b
\* One before the other, in the list as it should be.
Comes(a, b) == (a.exact /\ ~b.exact) \/ ((a.exact <=> b.exact) /\ a.name < b.name)

\* The order of the matches is a strict total one, and it is what the comparison says.
LEMMA Orders ==
  ASSUME NEW M, Listable(M)
  PROVE  /\ \A a, b \in M : a = b \/ Comes(a, b) \/ Comes(b, a)
         /\ \A a \in M : ~Comes(a, a)
         /\ \A a, b, c \in M : Comes(a, b) /\ Comes(b, c) => Comes(a, c)
         /\ \A a, b \in M : Comes(a, b) => SymRelComp(b, a) >= 0
         /\ \A a, b \in M : SymRelComp(b, a) >= 0 /\ a # b => Comes(a, b)
<1>1. \A a \in M : a.name \in Int /\ a.exact \in BOOLEAN
  BY DEF Listable, Match
<1>2. \A a, b \in M : a.name = b.name => a = b
  BY DEF Listable
<1>3. \A a, b \in M : a = b \/ Comes(a, b) \/ Comes(b, a)
  BY <1>1, <1>2 DEF Comes
<1>4. \A a \in M : ~Comes(a, a)
  BY <1>1 DEF Comes
<1>5. \A a, b, c \in M : Comes(a, b) /\ Comes(b, c) => Comes(a, c)
  BY <1>1 DEF Comes
<1>6. ASSUME NEW a \in M, NEW b \in M PROVE SymRelComp(b, a) >= 0 <=> a = b \/ Comes(a, b)
  <2>1. a.name \in Int /\ b.name \in Int /\ a.exact \in BOOLEAN /\ b.exact \in BOOLEAN
    BY <1>1
  <2>2. a.name = b.name <=> a = b
    BY <1>2
  <2>3. CASE b.exact /\ ~a.exact
    <3>1. SymRelComp(b, a) = -1
      BY <2>3 DEF SymRelComp
    <3> QED
      BY <2>3, <3>1 DEF Comes
  <2>4. CASE ~b.exact /\ a.exact
    <3>1. SymRelComp(b, a) = 1
      BY <2>4 DEF SymRelComp
    <3> QED
      BY <2>4, <3>1 DEF Comes
  <2>5. CASE b.exact <=> a.exact
    <3>1. SymRelComp(b, a) = b.name - a.name
      BY <2>5 DEF SymRelComp
    <3> QED
      BY <2>1, <2>2, <2>5, <3>1 DEF Comes
  <2> QED
    BY <2>1, <2>3, <2>4, <2>5
<1> QED
  BY <1>3, <1>4, <1>5, <1>6

\* A part of what is found can be counted.
LEMMA Counted ==
  ASSUME NEW M, Listable(M), NEW S \in SUBSET M
  PROVE  /\ IsFiniteSet(S) /\ Cardinality(S) \in 0..Cardinality(M) /\ Cardinality(M) \in Nat
         /\ Cardinality(S) = 0 => S = {}
         /\ \A x \in S : Cardinality(S \ {x}) = Cardinality(S) - 1
<1>1. IsFiniteSet(M) /\ Cardinality(M) \in Nat
  BY FS_CardinalityType DEF Listable
<1>2. IsFiniteSet(S) /\ Cardinality(S) <= Cardinality(M) /\ Cardinality(S) \in Nat
  BY <1>1, FS_Subset, FS_CardinalityType
<1>3. Cardinality(S) = 0 => S = {}
  BY <1>2, FS_EmptySet
<1>4. \A x \in S : Cardinality(S \ {x}) = Cardinality(S) - 1
  BY <1>2, FS_RemoveElement
<1> QED
  BY <1>1, <1>2, <1>3, <1>4

\* One of them is the last one.
LastOf(S, m) == m \in S /\ \A a \in S : a = m \/ Comes(a, m)

\* Some match comes last.
LEMMA HasLast ==
  ASSUME NEW M, Listable(M), NEW S \in SUBSET M, S # {}
  PROVE  \E m : LastOf(S, m)
<1> DEFINE N == Cardinality(M)
           T == {k \in 0..N : \A R \in SUBSET M : Cardinality(R) = k /\ R # {} => \E m : LastOf(R, m)}
<1>0. N \in Nat
  BY Counted
<1>1. 0 \in T
  BY <1>0, Counted
<1>2. ASSUME NEW k \in 0..(N - 1), k \in T PROVE k + 1 \in T
  <2>1. ASSUME NEW R \in SUBSET M, Cardinality(R) = k + 1, R # {} PROVE \E m : LastOf(R, m)
    <3>1. PICK x \in R : TRUE
      BY <2>1
    <3> DEFINE Q == R \ {x}
    <3>2. Q \in SUBSET M /\ Cardinality(Q) = k
      BY <1>0, <2>1, Counted
    <3>3. CASE Q = {}
      BY <3>3 DEF LastOf
    <3>4. CASE Q # {}
      <4>1. PICK m : LastOf(Q, m)
        BY <1>2, <3>2, <3>4
      <4>2. m \in M /\ x \in M /\ (m = x \/ Comes(m, x) \/ Comes(x, m))
        BY <4>1, Orders DEF LastOf
      <4>3. CASE Comes(m, x)
        <5>1. \A a \in R : a = x \/ Comes(a, x)
          BY <4>1, <4>2, <4>3, Orders DEF LastOf
        <5> QED
          BY <5>1 DEF LastOf
      <4>4. CASE ~Comes(m, x)
        BY <4>1, <4>2, <4>4 DEF LastOf
      <4> QED
        BY <4>3, <4>4
    <3> QED
      BY <3>3, <3>4
  <2> QED
    BY <1>0, <2>1
<1>3. Cardinality(S) \in T
  <2> HIDE DEF T
  <2>1. 0..N \subseteq T
    BY <1>0, <1>1, <1>2, Ups!UpTo
  <2> QED
    BY <2>1, Counted
<1> QED
  BY <1>3

\* They can be listed in order.
Listed(s, k, S) == s \in [1..k -> S] /\ \A i, j \in 1..k : i < j => Comes(s[i], s[j])

\* So there is a list of them in that order.
LEMMA HasList ==
  ASSUME NEW M, Listable(M)
  PROVE  \E s : Listed(s, Cardinality(M), M)
<1> DEFINE N == Cardinality(M)
           T == {k \in 0..N : \A R \in SUBSET M : Cardinality(R) = k => \E s : Listed(s, k, R)}
<1>0. N \in Nat
  BY Counted
<1>1. 0 \in T
  <2>1. ASSUME NEW R \in SUBSET M PROVE \E s : Listed(s, 0, R)
    <3>1. PICK s : s \in [1..0 -> R]
      <4>1. [i \in 1..0 |-> i] \in [1..0 -> R]
        OBVIOUS
      <4> QED
        BY <4>1
    <3>2. \A i \in 1..0 : FALSE
      OBVIOUS
    <3> QED
      BY <3>1, <3>2 DEF Listed
  <2> QED
    BY <1>0, <2>1
<1>2. ASSUME NEW k \in 0..(N - 1), k \in T PROVE k + 1 \in T
  <2>1. ASSUME NEW R \in SUBSET M, Cardinality(R) = k + 1 PROVE \E s : Listed(s, k + 1, R)
    <3>1. R # {}
      BY <2>1, FS_EmptySet
    <3>2. PICK m : LastOf(R, m)
      BY <3>1, HasLast
    <3> DEFINE Q == R \ {m}
    <3>3. Q \in SUBSET M /\ Cardinality(Q) = k /\ m \in R
      BY <1>0, <2>1, <3>2, Counted DEF LastOf
    <3>4. PICK s : Listed(s, k, Q)
      BY <1>2, <3>3
    <3> DEFINE t == [i \in 1..(k + 1) |-> IF i = k + 1 THEN m ELSE s[i]]
    <3>5. t \in [1..(k + 1) -> R]
      BY <3>3, <3>4 DEF Listed
    <3>6. ASSUME NEW i \in 1..(k + 1), NEW j \in 1..(k + 1), i < j PROVE Comes(t[i], t[j])
      <4>1. i \in 1..k /\ t[i] = s[i] /\ s[i] \in Q
        BY <3>4, <3>6 DEF Listed
      <4>2. CASE j = k + 1
        <5>1. t[j] = m
          BY <4>2
        <5> HIDE DEF t
        <5> QED
          BY <3>2, <4>1, <5>1 DEF LastOf
      <4>3. CASE j # k + 1
        <5>1. j \in 1..k /\ t[j] = s[j]
          BY <4>3
        <5> HIDE DEF t
        <5> QED
          BY <3>4, <3>6, <4>1, <5>1 DEF Listed
      <4> QED
        BY <4>2, <4>3
    <3> HIDE DEF t
    <3> QED
      BY <3>5, <3>6 DEF Listed
  <2> QED
    BY <1>0, <2>1
<1>3. N \in T
  <2> HIDE DEF T
  <2>1. 0..N \subseteq T
    BY <1>0, <1>1, <1>2, Ups!UpTo
  <2> QED
    BY <1>0, <2>1
<1> QED
  BY <1>3

\* So qsort has an order to put them in, and the list it makes has every one
\* before those after it.
LEMMA SearchLists ==
  ASSUME NEW M, Listable(M), NEW s \in SymReSearch(M)
  PROVE  DOMAIN s = 1..Cardinality(M) /\ \A i, j \in DOMAIN s : s[i] \in M /\ (i < j => Comes(s[i], s[j]))
<1> DEFINE N == Cardinality(M)
           all == {r \in [1..N -> M] : \A i, j \in DOMAIN r : i # j => r[i] # r[j]}
           sorted == {r \in all : \A i \in 1..(Len(r) - 1) : SymRelComp(r[i + 1], r[i]) >= 0}
<1>0. N \in Nat
  BY Counted
<1>1. s \in IF sorted = {} THEN all ELSE sorted
  BY DEF SymReSearch
<1>2. \A r \in [1..N -> M] : Len(r) = N /\ DOMAIN r = 1..N
  BY <1>0
<1> HIDE DEF N
<1>3. sorted # {}
  <2>1. PICK r : Listed(r, N, M)
    BY HasList DEF N
  <2>2. r \in [1..N -> M] /\ Len(r) = N /\ DOMAIN r = 1..N
    BY <1>2, <2>1 DEF Listed
  <2>3. ASSUME NEW i \in 1..N, NEW j \in 1..N, i # j PROVE r[i] # r[j]
    <3>1. i < j \/ j < i
      BY <1>0, <2>3
    <3>2. Comes(r[i], r[j]) \/ Comes(r[j], r[i])
      BY <2>1, <3>1 DEF Listed
    <3>3. r[i] \in M
      BY <2>2
    <3> QED
      BY <3>2, <3>3, Orders
  <2>4. ASSUME NEW i \in 1..(N - 1) PROVE SymRelComp(r[i + 1], r[i]) >= 0
    <3>1. i \in 1..N /\ i + 1 \in 1..N /\ i < i + 1
      BY <1>0
    <3>2. Comes(r[i], r[i + 1]) /\ r[i] \in M /\ r[i + 1] \in M
      BY <2>1, <2>2, <3>1 DEF Listed
    <3> QED
      BY <3>2, Orders
  <2>5. r \in all
    BY <2>2, <2>3
  <2> HIDE DEF all
  <2>6. r \in sorted
    BY <2>2, <2>4, <2>5
  <2> QED
    BY <2>6
<1>4. s \in sorted
  BY <1>1, <1>3
<1>5. /\ s \in [1..N -> M] /\ \A i, j \in 1..N : i # j => s[i] # s[j]
      /\ \A i \in 1..(N - 1) : SymRelComp(s[i + 1], s[i]) >= 0
  BY <1>2, <1>4
<1> HIDE DEF all, sorted
<1>6. ASSUME NEW i \in 1..(N - 1) PROVE Comes(s[i], s[i + 1])
  <2>1. i \in 1..N /\ i + 1 \in 1..N /\ i # i + 1
    BY <1>0
  <2>2. s[i] \in M /\ s[i + 1] \in M /\ s[i] # s[i + 1] /\ SymRelComp(s[i + 1], s[i]) >= 0
    BY <1>5, <2>1
  <2> QED
    BY <2>2, Orders
<1>7. ASSUME NEW i \in 1..N, NEW j \in 1..N, i < j PROVE Comes(s[i], s[j])
  <2> DEFINE T == {k \in 0..N : k > 0 /\ i + k <= N => Comes(s[i], s[i + k])}
  <2>1. 0 \in T
    BY <1>0
  <2>2. ASSUME NEW k \in 0..(N - 1), k \in T PROVE k + 1 \in T
    <3>1. ASSUME i + (k + 1) <= N PROVE Comes(s[i], s[i + (k + 1)])
      <4>1. i + k \in 1..(N - 1) /\ (i + k) + 1 = i + (k + 1)
        BY <1>0, <3>1
      <4>2. Comes(s[i + k], s[i + (k + 1)])
        BY <1>6, <4>1
      <4>3. i + k \in 1..N /\ i + (k + 1) \in 1..N
        BY <1>0, <3>1
      <4>4. s[i] \in M /\ s[i + k] \in M /\ s[i + (k + 1)] \in M
        BY <1>5, <4>3
      <4>5. CASE k = 0
        BY <4>2, <4>5
      <4>6. CASE k > 0
        <5>1. Comes(s[i], s[i + k])
          BY <1>0, <2>2, <4>3, <4>6
        <5> QED
          BY <4>2, <4>4, <5>1, Orders
      <4> QED
        BY <4>5, <4>6
    <3> QED
      BY <1>0, <3>1
  <2>3. j - i \in T
    <3> HIDE DEF T
    <3>1. 0..N \subseteq T
      BY <1>0, <2>1, <2>2, Ups!UpTo
    <3> QED
      BY <1>0, <1>7, <3>1
  <2>4. j - i > 0 /\ i + (j - i) = j
    BY <1>0, <1>7
  <2> QED
    BY <1>0, <2>3, <2>4
<1>8. DOMAIN s = 1..N /\ \A i \in 1..N : s[i] \in M
  BY <1>5
<1> QED
  BY <1>7, <1>8 DEF N

\* The list of symbols.
LEMMA SearchIsOrdered ==
  ASSUME SearchConf
  PROVE  ExactFirst'
<1>1. PICK names \in SUBSET Names : \E exact \in SUBSET names :
        found' \in SymReSearch({[name |-> n, exact |-> n \in exact] : n \in names})
  BY DEF SearchConf
<1>2. PICK exact \in SUBSET names : found' \in SymReSearch({[name |-> n, exact |-> n \in exact] : n \in names})
  BY <1>1
<1> DEFINE At(n) == [name |-> n, exact |-> n \in exact]
           M == {At(n) : n \in names}
           f == [n \in names |-> At(n)]
<1>3. IsFiniteSet(names) /\ names \subseteq Int
  BY SearchAssumption, FS_Subset
<1>4. \A n \in names : At(n) \in Match /\ At(n).name = n
  BY <1>3 DEF Match
<1>5. f \in Surjection(names, M)
  <2>1. f \in [names -> M]
    OBVIOUS
  <2>2. \A t \in M : \E n \in names : f[n] = t
    OBVIOUS
  <2> QED
    BY <2>1, <2>2 DEF Surjection
<1>6. IsFiniteSet(M)
  BY <1>3, <1>5, FS_Surjection
<1>7. Listable(M)
  <2>1. M \in SUBSET Match
    BY <1>4
  <2>2. ASSUME NEW a \in M, NEW b \in M, a.name = b.name PROVE a = b
    <3>1. PICK x \in names : a = At(x)
      OBVIOUS
    <3>2. PICK y \in names : b = At(y)
      OBVIOUS
    <3>3. x = y
      BY <1>4, <2>2, <3>1, <3>2
    <3> QED
      BY <3>1, <3>2, <3>3
  <2> QED
    BY <1>6, <2>1, <2>2 DEF Listable
<1>8. found' \in SymReSearch(M)
  BY <1>2
<1> HIDE DEF M
<1>9. \A i, j \in DOMAIN found' : found'[i] \in M /\ (i < j => Comes(found'[i], found'[j]))
  BY <1>7, <1>8, SearchLists
<1>10. \A a \in M : a.name \in Int /\ a.exact \in BOOLEAN
  BY <1>7 DEF Listable, Match
<1>11. ASSUME NEW i \in DOMAIN found', NEW j \in DOMAIN found', i < j
       PROVE  /\ found'[j].exact => found'[i].exact
              /\ found'[i].exact = found'[j].exact => found'[i].name < found'[j].name
  <2>1. Comes(found'[i], found'[j]) /\ found'[i] \in M /\ found'[j] \in M
    BY <1>9, <1>11
  <2>2. found'[i].exact \in BOOLEAN /\ found'[j].exact \in BOOLEAN
    BY <1>10, <2>1
  <2> QED
    BY <2>1, <2>2 DEF Comes
<1> QED
  BY <1>11 DEF ExactFirst

\* Wherever a search in a page goes, it goes to the nearest row that matches,
\* and the list of all symbols that match begins with the exact ones: for pages
\* and patterns of any length, any set of symbols and any sequence of keys.
THEOREM SearchIsRight == SearchSpec => []SearchFinds
<1> DEFINE Ok == PageOk(page) /\ ExactFirst
<1>1. SearchInit => Ok
  <2> SUFFICES ASSUME SearchInit PROVE Ok
    OBVIOUS
  <2>1. DOMAIN found = {}
    BY DEF SearchInit
  <2>2. ExactFirst
    BY <2>1 DEF ExactFirst
  <2> QED
    BY <2>2, PageBegins
<1>2. Ok /\ [SearchNext]_searchVars => Ok'
  <2> SUFFICES ASSUME Ok, [SearchNext]_searchVars PROVE Ok'
    OBVIOUS
  <2>1. CASE KeySlash \/ KeyEscape \/ KeyLetter \/ KeyArrow \/ KeyBackspace \/ KeyOther \/ KeyMove
    <3>1. PageOk(page')
      BY <2>1, PageKeys
    <3>2. found' = found
      BY <2>1 DEF KeySlash, KeyEscape, KeyLetter, KeyArrow, KeyBackspace, KeyOther, KeyMove
    <3>3. ExactFirst'
      BY <3>2 DEF ExactFirst
    <3> QED
      BY <3>1, <3>3
  <2>2. CASE SearchConf
    <3>1. page' = page
      BY <2>2 DEF SearchConf
    <3> QED
      BY <2>2, <3>1, SearchIsOrdered
  <2>3. CASE UNCHANGED searchVars
    <3>1. page' = page /\ found' = found
      BY <2>3 DEF searchVars
    <3> QED
      BY <3>1 DEF ExactFirst
  <2> QED
    BY <2>1, <2>2, <2>3 DEF SearchNext
<1>3. Ok => SearchFinds
  BY OkGoesToNearest DEF SearchFinds
<1> QED
  BY <1>1, <1>2, <1>3, PTL DEF SearchSpec
=============================================================================
