---------------------------- MODULE KText_proofs ----------------------------
(***************************************************************************)
(* Proofs about a text that is read page by page and a line that is typed  *)
(* (KDialog), for any text, any line, any size of the window and any keys. *)
(***************************************************************************)
EXTENDS KDialog, TLAPS, SequenceTheorems, WellFoundedInduction

\* A loop that takes the number of its turn, which it does not use.
TurnUp(p, d, i) == StepUp(d)
TurnDown(p, d, i) == StepDown(d)
TurnGet(p, d, i) == GetLine(d)
TurnBack(p, d, i) == BackLine(d)
TurnPrint(p, d, i) == PrintLine(d)
Ups == INSTANCE Folding WITH Op <- TurnUp
Downs == INSTANCE Folding WITH Op <- TurnDown
Gets == INSTANCE Folding WITH Op <- TurnGet
Backs == INSTANCE Folding WITH Op <- TurnBack
Prints == INSTANCE Folding WITH Op <- TurnPrint

-----------------------------------------------------------------------------
(* Numbers.                                                                *)

\* A set of numbers that is not empty has a lowest one.
LEMMA LowestIs ==
  ASSUME NEW S \in SUBSET Nat, S # {}
  PROVE  Min(S) \in S /\ \A y \in S : Min(S) <= y
<1> DEFINE R == OpToRel(<, Nat)
<1>1. IsWellFoundedOn(R, Nat)
  BY NatLessThanWellFounded
<1>2. \A x, y \in Nat : y < x => <<y, x>> \in R
  BY DEF OpToRel
<1> HIDE DEF R
<1>3. PICK x \in S : \A y \in S : ~(<<y, x>> \in R)
  BY <1>1, WFMin
<1>4. ASSUME NEW y \in S, ~(x <= y) PROVE FALSE
  <2>1. x \in Nat /\ y \in Nat /\ y < x
    BY <1>4
  <2> QED
    BY <1>2, <1>3, <2>1
<1> QED
  BY <1>4 DEF Min

-----------------------------------------------------------------------------
(* The lines of a text.                                                    *)

TextRec ==
  [kind : {"text"}, lines : Nat, whole : BOOLEAN, height : Nat, marks : BOOLEAN,
   page : Int, begin : BOOLEAN, end : BOOLEAN, past : BOOLEAN, length : Int, top : Int,
   right : Int, due : Int]
\* A text with lines that is read somewhere.
Open(d) == d \in TextRec /\ d.lines > 0 /\ d.page \in 1..TextEnd(d)
\* Where the reading is; the end, once it was read, counts as a line.
Place(d) == IF d.page = TextEnd(d) /\ d.end THEN d.page + 1 ELSE d.page
Fixed(d) == <<d.lines, d.whole, d.height, d.marks, d.right, d.due>>
Shown(d) == <<d.top, d.length, d.past>>
Smaller(a, b) == IF a < b THEN a ELSE b
Larger(a, b) == IF a < b THEN b ELSE a

\* What the operations change of a text.
Becomes(e, p, b, c, d, shown) ==
  /\ e \in TextRec /\ e.page = p /\ e.begin = b /\ e.end = c
  /\ Fixed(e) = Fixed(d) /\ Shown(e) = shown

\* What a change of the end, of the page, of both, of the counts does to a text.
LEMMA SetEnd ==
  ASSUME NEW d \in TextRec, NEW b \in BOOLEAN, NEW e, e = [d EXCEPT !.end = b]
  PROVE  Becomes(e, d.page, d.begin, b, d, Shown(d))
<1>1. e \in TextRec
  BY DEF TextRec
<1>2. e.page = d.page /\ e.begin = d.begin /\ e.end = b
  BY DEF TextRec
<1>3. Fixed(e) = Fixed(d) /\ Shown(e) = Shown(d)
  BY DEF TextRec, Fixed, Shown
<1> QED
  BY <1>1, <1>2, <1>3 DEF Becomes

\* The end and the page.
LEMMA SetPage ==
  ASSUME NEW d \in TextRec, NEW p \in Int, NEW b \in BOOLEAN, NEW e, e = [d EXCEPT !.page = p, !.end = b]
  PROVE  Becomes(e, p, d.begin, b, d, Shown(d))
<1>1. e \in TextRec
  BY DEF TextRec
<1>2. e.page = p /\ e.begin = d.begin /\ e.end = b
  BY DEF TextRec
<1>3. Fixed(e) = Fixed(d) /\ Shown(e) = Shown(d)
  BY DEF TextRec, Fixed, Shown
<1> QED
  BY <1>1, <1>2, <1>3 DEF Becomes

\* The begin.
LEMMA SetBegin ==
  ASSUME NEW d \in TextRec, NEW b \in BOOLEAN, NEW e, e = [d EXCEPT !.begin = b]
  PROVE  Becomes(e, d.page, b, d.end, d, Shown(d))
<1>1. e \in TextRec
  BY DEF TextRec
<1>2. e.page = d.page /\ e.begin = b /\ e.end = d.end
  BY DEF TextRec
<1>3. Fixed(e) = Fixed(d) /\ Shown(e) = Shown(d)
  BY DEF TextRec, Fixed, Shown
<1> QED
  BY <1>1, <1>2, <1>3 DEF Becomes

\* The begin and the page.
LEMMA SetBack ==
  ASSUME NEW d \in TextRec, NEW p \in Int, NEW b \in BOOLEAN, NEW e, e = [d EXCEPT !.page = p, !.begin = b]
  PROVE  Becomes(e, p, b, d.end, d, Shown(d))
<1>1. e \in TextRec
  BY DEF TextRec
<1>2. e.page = p /\ e.begin = b /\ e.end = d.end
  BY DEF TextRec
<1>3. Fixed(e) = Fixed(d) /\ Shown(e) = Shown(d)
  BY DEF TextRec, Fixed, Shown
<1> QED
  BY <1>1, <1>2, <1>3 DEF Becomes

\* What was printed.
LEMMA SetCount ==
  ASSUME NEW d \in TextRec, NEW p \in Int, NEW b \in BOOLEAN, NEW e, e = [d EXCEPT !.length = p, !.past = b]
  PROVE  Becomes(e, d.page, d.begin, d.end, d, <<d.top, p, b>>)
<1>1. e \in TextRec
  BY DEF TextRec
<1>2. e.page = d.page /\ e.begin = d.begin /\ e.end = d.end
  BY DEF TextRec
<1>3. Fixed(e) = Fixed(d) /\ Shown(e) = <<d.top, p, b>>
  BY DEF TextRec, Fixed, Shown
<1> QED
  BY <1>1, <1>2, <1>3 DEF Becomes

\* What was printed, from a line on.
LEMMA SetTop ==
  ASSUME NEW d \in TextRec, NEW p \in Int, NEW q \in Int, NEW b \in BOOLEAN, NEW e, e = [d EXCEPT !.length = p, !.past = b, !.top = q]
  PROVE  Becomes(e, d.page, d.begin, d.end, d, <<q, p, b>>)
<1>1. e \in TextRec
  BY DEF TextRec
<1>2. e.page = d.page /\ e.begin = d.begin /\ e.end = d.end
  BY DEF TextRec
<1>3. Fixed(e) = Fixed(d) /\ Shown(e) = <<q, p, b>>
  BY DEF TextRec, Fixed, Shown
<1> QED
  BY <1>1, <1>2, <1>3 DEF Becomes

\* A line is read.
LEMMA GetOne ==
  ASSUME NEW d, Open(d), NEW e, e = GetLine(d)
  PROVE  /\ Open(e) /\ Fixed(e) = Fixed(d) /\ Shown(e) = Shown(d)
         /\ d.whole => Place(e) = Smaller(Place(d) + 1, d.lines + 2)
         /\ d.whole /\ e.end => Place(e) = d.lines + 2
         /\ d.whole /\ ~e.end => Place(e) < d.lines + 2
<1> DEFINE last == d.page = d.lines /\ ~d.whole
<1>0. d \in TextRec /\ d.page \in 1..(d.lines + 1) /\ d.lines \in Nat \ {0}
  BY DEF Open, TextRec, TextEnd
<1>1. CASE d.page = TextEnd(d)
  <2>1. e = [d EXCEPT !.end = TRUE]
    BY <1>1 DEF GetLine
  <2>2. Becomes(e, d.page, d.begin, TRUE, d, Shown(d))
    <3>1. PICK b \in BOOLEAN : b = TRUE
      OBVIOUS
    <3>2. e = [d EXCEPT !.end = b]
      BY <2>1, <3>1, Zenon
    <3>3. Becomes(e, d.page, d.begin, b, d, Shown(d))
      BY <1>0, <3>2, SetEnd
    <3> QED
      BY <3>1, <3>3
  <2>3. e.lines = d.lines /\ e.page = d.lines + 1 /\ e.end
    BY <1>1, <2>2 DEF Becomes, Fixed, TextEnd
  <2>4. Place(e) = d.lines + 2 /\ Open(e)
    BY <1>0, <2>2, <2>3 DEF Place, TextEnd, Open, Becomes
  <2>5. Place(d) \in {d.lines + 1, d.lines + 2}
    BY <1>0, <1>1 DEF Place, TextEnd
  <2> QED
    BY <1>0, <2>2, <2>3, <2>4, <2>5 DEF Smaller, Becomes
<1>2. CASE d.page # TextEnd(d)
  <2>0. d.page + 1 \in Int /\ last \in BOOLEAN
    BY <1>0
  <2>1. e = [d EXCEPT !.page = d.page + 1, !.end = last]
    BY <1>2 DEF GetLine
  <2> HIDE DEF last
  <2>2. Becomes(e, d.page + 1, d.begin, last, d, Shown(d))
    BY <1>0, <2>0, <2>1, SetPage
  <2>3. e.lines = d.lines /\ e.page = d.page + 1 /\ d.page + 1 \in 1..(d.lines + 1)
    BY <1>0, <1>2, <2>2 DEF Becomes, Fixed, TextEnd
  <2>4. Open(e)
    BY <1>0, <2>2, <2>3 DEF TextEnd, Open, Becomes
  <2>5. Place(d) = d.page
    BY <1>2 DEF Place
  <2>6. ASSUME d.whole PROVE Place(e) = d.page + 1 /\ ~e.end
    <3>1. ~e.end
      BY <2>2, <2>6 DEF last, Becomes
    <3> QED
      BY <2>3, <3>1 DEF Place
  <2> QED
    BY <1>0, <2>2, <2>3, <2>4, <2>5, <2>6 DEF Smaller, Becomes
<1> QED
  BY <1>1, <1>2

\* It is gone back by a line.
Begun(d) == d.begin => Place(d) = 1

\* A line back is one place back, and not before the first.
LEMMA BackOne ==
  ASSUME NEW d, Open(d), Begun(d), NEW e, e = BackLine(d)
  PROVE  /\ Open(e) /\ Begun(e) /\ Fixed(e) = Fixed(d) /\ Shown(e) = Shown(d)
         /\ Place(e) = Larger(Place(d) - 1, 1)
<1>0. d \in TextRec /\ d.page \in 1..(d.lines + 1) /\ d.lines \in Nat \ {0}
  BY DEF Open, TextRec, TextEnd
<1>1. CASE d.begin
  BY <1>1 DEF BackLine, Begun, Larger
<1>2. CASE ~d.begin /\ d.page = TextEnd(d) /\ d.end
  <2>1. e = [d EXCEPT !.end = FALSE]
    BY <1>2 DEF BackLine
  <2>2. Becomes(e, d.page, d.begin, FALSE, d, Shown(d))
    <3>1. PICK b \in BOOLEAN : b = FALSE
      OBVIOUS
    <3>2. e = [d EXCEPT !.end = b]
      BY <2>1, <3>1, Zenon
    <3>3. Becomes(e, d.page, d.begin, b, d, Shown(d))
      BY <1>0, <3>2, SetEnd
    <3> QED
      BY <3>1, <3>3
  <2>3. e.lines = d.lines /\ e.page = d.lines + 1 /\ ~e.end /\ ~e.begin
    BY <1>2, <2>2 DEF Becomes, Fixed, TextEnd
  <2>4. Place(e) = d.lines + 1 /\ Open(e) /\ Place(d) = d.lines + 2
    BY <1>0, <1>2, <2>2, <2>3 DEF Place, TextEnd, Open, Becomes
  <2> QED
    BY <1>0, <2>2, <2>3, <2>4 DEF Larger, Becomes, Begun
<1>3. CASE ~d.begin /\ ~(d.page = TextEnd(d) /\ d.end)
  <2> DEFINE p == IF d.page > 1 THEN d.page - 1 ELSE 1
             b == d.page <= 2
  <2>0. p \in Int /\ b \in BOOLEAN /\ p \in 1..d.lines /\ p = Larger(d.page - 1, 1) /\ (b => p = 1)
    BY <1>0 DEF Larger
  <2>1. e = [d EXCEPT !.page = p, !.begin = b]
    BY <1>3 DEF BackLine
  <2> HIDE DEF p, b
  <2>2. Becomes(e, p, b, d.end, d, Shown(d))
    BY <1>0, <2>0, <2>1, SetBack
  <2>3. e.lines = d.lines /\ e.page = p /\ e.begin = b
    BY <2>2 DEF Becomes, Fixed
  <2>4. Place(e) = p /\ Open(e) /\ Place(d) = d.page
    BY <1>0, <1>3, <2>0, <2>2, <2>3 DEF Place, TextEnd, Open, Becomes
  <2> QED
    BY <1>0, <2>0, <2>2, <2>3, <2>4 DEF Becomes, Begun
<1> QED
  BY <1>1, <1>2, <1>3

\* A line of the page is read, and counted up to the end.  m is what will be
\* counted of a page that is high enough, v where the page begins.
Counting(d, k, v) ==
  LET m == Larger(1, d.lines + 2 - v)
  IN /\ d.length = Smaller(k, m) /\ (d.past <=> k >= m)
     /\ Place(d) = Smaller(v + k, d.lines + 2)

\* A line that is printed is one place on, while there is one.
LEMMA PrintOne ==
  ASSUME NEW d, Open(d), NEW e, e = PrintLine(d), NEW k \in Nat, NEW v \in Nat
  PROVE  /\ Open(e) /\ Fixed(e) = Fixed(d) /\ e.top = d.top
         /\ e.length = IF d.past THEN d.length ELSE d.length + 1
         /\ d.whole /\ Counting(d, k, v) => Counting(e, k + 1, v)
         /\ d.whole /\ Counting(d, k, v) /\ e.end => Place(e) = d.lines + 2
         /\ d.whole /\ Counting(d, k, v) /\ ~e.end => Place(e) < d.lines + 2
<1> DEFINE g == GetLine(d)
           n == IF d.past THEN g.length ELSE g.length + 1
           b == g.past \/ g.end
           m == Larger(1, d.lines + 2 - v)
<1>0. d \in TextRec /\ d.lines \in Nat \ {0} /\ d.length \in Int /\ d.past \in BOOLEAN
  BY DEF Open, TextRec
<1>1. /\ Open(g) /\ Fixed(g) = Fixed(d) /\ Shown(g) = Shown(d)
      /\ d.whole => Place(g) = Smaller(Place(d) + 1, d.lines + 2)
      /\ d.whole /\ g.end => Place(g) = d.lines + 2
      /\ d.whole /\ ~g.end => Place(g) < d.lines + 2
  BY GetOne
<1>2. g \in TextRec /\ g.lines = d.lines /\ g.length = d.length /\ g.past = d.past /\ g.top = d.top
      /\ g.whole = d.whole
  BY <1>1 DEF Open, Fixed, Shown
<1>3. n \in Int /\ b \in BOOLEAN
  BY <1>0, <1>2 DEF TextRec
<1>4. e = [g EXCEPT !.length = n, !.past = b]
  BY DEF PrintLine
<1> HIDE DEF g, n, b
<1>5. Becomes(e, g.page, g.begin, g.end, g, <<g.top, n, b>>)
  BY <1>2, <1>3, <1>4, SetCount
<1>6. /\ Open(e) /\ Fixed(e) = Fixed(d) /\ e.top = d.top /\ Place(e) = Place(g) /\ e.length = n /\ e.past = b
      /\ e.lines = d.lines /\ e.end = g.end
  BY <1>1, <1>2, <1>5 DEF Becomes, Open, Place, TextEnd, Fixed, Shown
<1>7. ASSUME d.whole, Counting(d, k, v) PROVE Counting(e, k + 1, v)
  <2>1. /\ d.length = Smaller(k, m) /\ (d.past <=> k >= m) /\ Place(d) = Smaller(v + k, d.lines + 2)
    BY <1>7 DEF Counting
  <2>2. Place(e) = Smaller(v + (k + 1), d.lines + 2)
    BY <1>0, <1>1, <1>6, <1>7, <2>1 DEF Smaller
  <2>3. m \in Nat
    BY <1>0 DEF Larger
  <2>4. n = Smaller(k + 1, m)
    <3>1. CASE k >= m
      BY <1>2, <2>1, <2>3, <3>1 DEF Smaller, n
    <3>2. CASE ~(k >= m)
      BY <1>2, <2>1, <2>3, <3>2 DEF Smaller, n
    <3> QED
      BY <3>1, <3>2
  <2>5. b <=> k + 1 >= m
    <3>1. CASE k >= m
      <4>1. g.past /\ k + 1 >= m
        BY <1>2, <2>1, <2>3, <3>1
      <4> QED
        BY <4>1 DEF b
    <3>2. CASE ~(k >= m)
      <4>1. ~g.past
        BY <1>2, <2>1, <3>2
      <4>2. g.end => k + 1 >= m
        BY <1>0, <1>1, <1>6, <1>7, <2>2 DEF Smaller, Larger
      <4>3. ~g.end => ~(k + 1 >= m)
        BY <1>0, <1>1, <1>6, <1>7, <2>2 DEF Smaller, Larger
      <4> QED
        BY <4>1, <4>2, <4>3, <2>3 DEF b
    <3> QED
      BY <3>1, <3>2
  <2> QED
    BY <1>6, <2>2, <2>4, <2>5 DEF Counting
<1>8. e.length = IF d.past THEN d.length ELSE d.length + 1
  BY <1>2, <1>6 DEF n
<1> QED
  BY <1>1, <1>6, <1>7, <1>8

\* Lines are read one after the other.
LEMMA GetMany ==
  ASSUME NEW d, Open(d), NEW n \in Nat, NEW e, e = GetLines(d, n)
  PROVE  /\ Open(e) /\ Fixed(e) = Fixed(d)
         /\ d.whole => Place(e) = Smaller(Place(d) + n, d.lines + 2)
<1> DEFINE turns == [i \in 1..n |-> i]
<1>1. PICK g : /\ g[0] = d /\ \A i \in 1..n : g[i] = GetLine(g[i - 1])
               /\ Gets!Folded(0, d, turns) = g[n]
  <2>1. DOMAIN turns = 1..n
    OBVIOUS
  <2> HIDE DEF turns
  <2> QED
    BY <2>1, Gets!FoldSteps DEF TurnGet
<1>2. e = g[n]
  BY <1>1 DEF GetLines, FoldLeft, MapThenFoldSet, Max, Gets!FoldLeft, Gets!MapThenFoldSet, Gets!Max,
              TurnGet, Gets!Folded
<1> DEFINE T == {i \in 0..n : /\ Open(g[i]) /\ Fixed(g[i]) = Fixed(d)
                              /\ d.whole => Place(g[i]) = Smaller(Place(d) + i, d.lines + 2)}
<1>3. d.lines \in Nat /\ Place(d) \in 1..(d.lines + 2)
  BY DEF Open, Place, TextRec, TextEnd
<1>4. 0 \in T
  BY <1>1, <1>3 DEF Smaller
<1>5. ASSUME NEW i \in 0..(n - 1), i \in T PROVE i + 1 \in T
  <2>1. i + 1 \in 1..n /\ (i + 1) - 1 = i
    OBVIOUS
  <2>2. g[i + 1] = GetLine(g[i])
    BY <1>1, <2>1
  <2>3. Open(g[i]) /\ Fixed(g[i]) = Fixed(d) /\ (d.whole => Place(g[i]) = Smaller(Place(d) + i, d.lines + 2))
    BY <1>5
  <2>4. g[i].whole = d.whole /\ g[i].lines = d.lines
    BY <2>3 DEF Fixed
  <2>5. /\ Open(g[i + 1]) /\ Fixed(g[i + 1]) = Fixed(d)
        /\ d.whole => Place(g[i + 1]) = Smaller(Place(g[i]) + 1, d.lines + 2)
    BY <2>2, <2>3, <2>4, GetOne
  <2>6. d.whole => Place(g[i + 1]) = Smaller(Place(d) + (i + 1), d.lines + 2)
    BY <1>3, <2>3, <2>5 DEF Smaller
  <2> QED
    BY <2>1, <2>5, <2>6
<1> HIDE DEF T
<1>6. n \in T
  BY <1>4, <1>5, Gets!UpTo
<1> QED
  BY <1>2, <1>6 DEF T

\* It is gone back by lines, but not before the first.
LEMMA BackMany ==
  ASSUME NEW d, Open(d), NEW n \in Nat, NEW e, e = BackLines(d, n)
  PROVE  /\ Open(e) /\ Fixed(e) = Fixed(d) /\ Shown(e) = Shown(d)
         /\ Place(e) = Larger(Place(d) - n, 1)
<1> DEFINE turns == [i \in 1..n |-> i]
           d0 == [d EXCEPT !.begin = FALSE]
<1>0. d \in TextRec /\ d.lines \in Nat /\ Place(d) \in 1..(d.lines + 2)
  BY DEF Open, Place, TextRec, TextEnd
<1>1. /\ Open(d0) /\ Begun(d0) /\ Fixed(d0) = Fixed(d) /\ Shown(d0) = Shown(d) /\ Place(d0) = Place(d)
  <2>1. PICK b \in BOOLEAN : b = FALSE
    OBVIOUS
  <2>2. d0 = [d EXCEPT !.begin = b]
    BY <2>1, Zenon
  <2>3. Becomes(d0, d.page, b, d.end, d, Shown(d))
    <3> HIDE DEF d0
    <3> QED
      BY <1>0, <2>2, SetBegin
  <2> HIDE DEF d0
  <2> QED
    BY <2>1, <2>3 DEF Becomes, Open, Begun, Place, TextEnd, Fixed
<1> HIDE DEF d0
<1>2. PICK g : /\ g[0] = d0 /\ \A i \in 1..n : g[i] = BackLine(g[i - 1])
               /\ Backs!Folded(0, d0, turns) = g[n]
  <2>1. DOMAIN turns = 1..n
    OBVIOUS
  <2>2. PICK z : z = 0
    OBVIOUS
  <2> HIDE DEF turns
  <2>3. \E g : /\ DOMAIN g = 0..n /\ g[0] = d0 /\ \A i \in 1..n : g[i] = BackLine(g[i - 1])
               /\ Backs!Folded(z, d0, turns) = g[n]
    BY <2>1, Backs!FoldSteps DEF TurnBack
  <2> QED
    BY <2>2, <2>3
<1>3. e = g[n]
  BY <1>2 DEF BackLines, FoldLeft, MapThenFoldSet, Max, Backs!FoldLeft, Backs!MapThenFoldSet, Backs!Max,
              TurnBack, Backs!Folded, d0
<1> DEFINE T == {i \in 0..n : /\ Open(g[i]) /\ Begun(g[i]) /\ Fixed(g[i]) = Fixed(d) /\ Shown(g[i]) = Shown(d)
                              /\ Place(g[i]) = Larger(Place(d) - i, 1)}
<1>4. 0 \in T
  BY <1>0, <1>1, <1>2 DEF Larger
<1>5. ASSUME NEW i \in 0..(n - 1), i \in T PROVE i + 1 \in T
  <2>1. i + 1 \in 1..n /\ (i + 1) - 1 = i
    OBVIOUS
  <2>2. g[i + 1] = BackLine(g[i])
    BY <1>2, <2>1
  <2>3. /\ Open(g[i]) /\ Begun(g[i]) /\ Fixed(g[i]) = Fixed(d) /\ Shown(g[i]) = Shown(d)
        /\ Place(g[i]) = Larger(Place(d) - i, 1)
    BY <1>5
  <2>4. /\ Open(g[i + 1]) /\ Begun(g[i + 1]) /\ Fixed(g[i + 1]) = Fixed(d) /\ Shown(g[i + 1]) = Shown(d)
        /\ Place(g[i + 1]) = Larger(Place(g[i]) - 1, 1)
    BY <2>2, <2>3, BackOne
  <2>5. Place(g[i + 1]) = Larger(Place(d) - (i + 1), 1)
    BY <1>0, <2>3, <2>4 DEF Larger
  <2> QED
    BY <2>1, <2>4, <2>5
<1> HIDE DEF T
<1>6. n \in T
  BY <1>4, <1>5, Backs!UpTo
<1> QED
  BY <1>3, <1>6 DEF T

\* Where a page comes to begin; where matches are marked, not past the end.
Begins(d, v) == IF d.marks THEN Smaller(v, LastPage(d)) ELSE Smaller(v, d.lines + 1)
\* What the page that is shown is: it begins at its top, and goes on for its
\* length, which is the height unless the end was read.
PageOf(d) ==
  /\ d.top \in 1..(d.lines + 1) /\ d.length \in 1..d.height
  /\ Place(d) = d.top + d.length
  /\ d.end => Place(d) = d.lines + 2
  /\ ~d.end => Place(d) < d.lines + 2 /\ d.length = d.height

\* What is on the page: at most its height, from the line that was read on.
LEMMA PageIs ==
  ASSUME NEW d, Open(d), d.height > 0, NEW e, e = PrintPage(d)
  PROVE  /\ Open(e) /\ Fixed(e) = Fixed(d) /\ e.length \in 1..d.height
         /\ d.whole => PageOf(e) /\ e.top = Begins(d, Place(d))
<1> DEFINE h == d.height
           turns == [i \in 1..h |-> i]
           a == IF d.marks THEN BackLines(GetLines(d, h), h) ELSE d
           d0 == [a EXCEPT !.length = 0, !.past = FALSE, !.top = a.page]
           v == Place(a)
           L == d.lines
<1>0. h \in Nat \ {0} /\ L \in Nat \ {0} /\ Place(d) \in 1..(L + 2)
  BY DEF Open, Place, TextRec, TextEnd
<1>1. Open(a) /\ Fixed(a) = Fixed(d)
  <2>1. CASE d.marks
    <3>1. Open(GetLines(d, h)) /\ Fixed(GetLines(d, h)) = Fixed(d)
      BY <1>0, GetMany
    <3> QED
      BY <1>0, <2>1, <3>1, BackMany
  <2> QED
    BY <2>1
<1>2. d.whole => a.page = Begins(d, Place(d)) /\ v = Smaller(Place(d), IF d.marks THEN LastPage(d) ELSE L + 2)
                 /\ v \in 1..(L + 2)
  <2>1. ASSUME d.whole, d.marks PROVE v = Smaller(Place(d), LastPage(d)) /\ v \in 1..(L + 1)
    <3>1. /\ Open(GetLines(d, h)) /\ Place(GetLines(d, h)) = Smaller(Place(d) + h, L + 2)
      BY <1>0, <2>1, GetMany
    <3>2. v = Larger(Place(GetLines(d, h)) - h, 1)
      BY <1>0, <2>1, <3>1, BackMany
    <3> QED
      BY <1>0, <3>1, <3>2 DEF Smaller, Larger, LastPage
  <2>2. a.lines = L
    BY <1>1 DEF Fixed
  <2>3. a.page \in 1..(L + 1) /\ (v = a.page \/ (a.page = L + 1 /\ v = L + 2))
    BY <1>0, <1>1, <2>2 DEF Open, Place, TextEnd
  <2>4. CASE d.marks
    BY <1>0, <2>1, <2>3, <2>4 DEF Begins
  <2>5. CASE ~d.marks
    BY <1>0, <2>3, <2>5 DEF Begins, Smaller
  <2> QED
    BY <2>4, <2>5
<1>3. a \in TextRec /\ a.page \in Int /\ a.lines = L /\ a.whole = d.whole /\ v \in 1..(L + 2)
      /\ (v = a.page \/ (a.page = L + 1 /\ v = L + 2)) /\ a.page \in 1..(L + 1)
  BY <1>0, <1>1 DEF Open, Fixed, TextRec, Place, TextEnd
<1> HIDE DEF a, v
<1>4. /\ Open(d0) /\ Fixed(d0) = Fixed(d) /\ Place(d0) = v /\ d0.top = a.page
      /\ d0.length = 0 /\ ~d0.past /\ d0.lines = L /\ d0.whole = d.whole
  <2>1. PICK b \in BOOLEAN : b = FALSE
    OBVIOUS
  <2>2. d0 = [a EXCEPT !.length = 0, !.past = b, !.top = a.page]
    BY <2>1, Zenon
  <2>3. Becomes(d0, a.page, a.begin, a.end, a, <<a.page, 0, b>>)
    <3> HIDE DEF d0
    <3>1. 0 \in Int
      OBVIOUS
    <3> QED
      BY <1>3, <2>2, <3>1, SetTop
  <2> HIDE DEF d0
  <2> QED
    BY <1>1, <1>3, <2>1, <2>3 DEF Becomes, Open, Place, TextEnd, Fixed, Shown, v
<1>5. PICK g : /\ g[0] = d0 /\ \A i \in 1..h : g[i] = PrintLine(g[i - 1])
               /\ Prints!Folded(0, d0, turns) = g[h]
  <2>1. DOMAIN turns = 1..h /\ h \in Nat
    BY <1>0
  <2> HIDE DEF d0, turns, h
  <2> QED
    BY <2>1, Prints!FoldSteps DEF TurnPrint
<1>6. e = g[h]
  BY <1>5 DEF PrintPage, FoldLeft, MapThenFoldSet, Max, Prints!FoldLeft, Prints!MapThenFoldSet, Prints!Max,
              TurnPrint, Prints!Folded, a
<1> HIDE DEF d0
<1> DEFINE T == {i \in 0..h :
             /\ Open(g[i]) /\ Fixed(g[i]) = Fixed(d) /\ g[i].top = a.page
             /\ g[i].length \in 0..i /\ (i > 0 => g[i].length > 0) /\ (i = 0 => ~g[i].past)
             /\ d.whole => Counting(g[i], i, v)
             /\ d.whole /\ i > 0 /\ g[i].end => Place(g[i]) = L + 2
             /\ d.whole /\ i > 0 /\ ~g[i].end => Place(g[i]) < L + 2}
<1>7. 0 \in T
  <2>1. 0 \in 0..h /\ g[0] = d0
    BY <1>0, <1>5
  <2>2. d0.length = Smaller(0, Larger(1, L + 2 - v)) /\ ~(0 >= Larger(1, L + 2 - v))
        /\ v = Smaller(v + 0, L + 2)
    BY <1>0, <1>3, <1>4 DEF Smaller, Larger
  <2>3. Counting(d0, 0, v)
    BY <1>4, <2>2 DEF Counting
  <2> QED
    BY <1>4, <2>1, <2>3
<1>8. ASSUME NEW i \in 0..(h - 1), i \in T PROVE i + 1 \in T
  <2>1. i + 1 \in 1..h /\ (i + 1) - 1 = i /\ i \in Nat /\ v \in Nat
    BY <1>0, <1>3
  <2>2. g[i + 1] = PrintLine(g[i])
    BY <1>5, <2>1
  <2>3. /\ Open(g[i]) /\ Fixed(g[i]) = Fixed(d) /\ g[i].top = a.page /\ (d.whole => Counting(g[i], i, v))
        /\ g[i].length \in 0..i /\ (i > 0 => g[i].length > 0) /\ (i = 0 => ~g[i].past)
    BY <1>8
  <2>4. g[i].whole = d.whole /\ g[i].lines = L
    BY <2>3 DEF Fixed
  <2>5. /\ Open(g[i + 1]) /\ Fixed(g[i + 1]) = Fixed(d) /\ g[i + 1].top = a.page
        /\ d.whole => Counting(g[i + 1], i + 1, v)
        /\ d.whole /\ g[i + 1].end => Place(g[i + 1]) = L + 2
        /\ d.whole /\ ~g[i + 1].end => Place(g[i + 1]) < L + 2
    BY <2>1, <2>2, <2>3, <2>4, PrintOne
  <2>6. g[i + 1].length = IF g[i].past THEN g[i].length ELSE g[i].length + 1
    BY <2>1, <2>2, <2>3, PrintOne
  <2>7. g[i + 1].length \in 0..(i + 1) /\ g[i + 1].length > 0
    BY <2>1, <2>3, <2>6
  <2> QED
    BY <2>1, <2>5, <2>7
<1> HIDE DEF T
<1>9. h \in T
  BY <1>0, <1>7, <1>8, Prints!UpTo
<1>10. Open(e) /\ Fixed(e) = Fixed(d) /\ e.top = a.page /\ e.lines = L /\ e.height = h /\ e.length \in 1..h
  BY <1>0, <1>6, <1>9 DEF T, Fixed
<1>11. ASSUME d.whole PROVE PageOf(e) /\ e.top = Begins(d, Place(d))
  <2>1. /\ Counting(e, h, v) /\ (e.end => Place(e) = L + 2) /\ (~e.end => Place(e) < L + 2)
    BY <1>0, <1>6, <1>9, <1>11 DEF T
  <2>2. e.length = Smaller(h, Larger(1, L + 2 - v)) /\ Place(e) = Smaller(v + h, L + 2)
    BY <1>10, <2>1 DEF Counting
  <2>3. e.top = Begins(d, Place(d)) /\ e.top \in 1..(L + 1)
    <3>1. e.top = Begins(d, Place(d))
      BY <1>2, <1>10, <1>11
    <3>2. a.page \in 1..(L + 1)
      BY <1>0, <1>3
    <3> QED
      BY <1>10, <3>1, <3>2
  <2> QED
    BY <1>0, <1>3, <1>10, <2>1, <2>2, <2>3 DEF PageOf, Smaller, Larger
<1> QED
  BY <1>10, <1>11

\* What stays of a text when it gets another height, column or due line.
View(d) == <<d.page, d.begin, d.end, d.past, d.length, d.top, d.lines, d.whole, d.marks>>
DueAt(d, x) == [d EXCEPT !.due = x]
DueIs(e, d, x) ==
  e \in TextRec /\ View(e) = View(d) /\ e.height = d.height /\ e.right = d.right /\ e.due = x

\* The line that is due is set.
LEMMA SetDue ==
  ASSUME NEW d \in TextRec, NEW x \in Int
  PROVE  DueIs(DueAt(d, x), d, x)
<1> DEFINE e == DueAt(d, x)
<1>1. e \in TextRec /\ e.height = d.height /\ e.right = d.right /\ e.due = x
  BY DEF TextRec, DueAt
<1>2. View(e) = View(d)
  BY DEF TextRec, View, DueAt
<1> QED
  BY <1>1, <1>2 DEF DueIs

\* The column is set.
LEMMA SetRight ==
  ASSUME NEW d \in TextRec, NEW x \in Int, NEW e, e = [d EXCEPT !.right = x]
  PROVE  e \in TextRec /\ View(e) = View(d) /\ e.height = d.height
<1>1. e \in TextRec /\ e.height = d.height
  BY DEF TextRec
<1>2. View(e) = View(d)
  BY DEF TextRec, View
<1> QED
  BY <1>1, <1>2

\* The height is set.
LEMMA SetHeight ==
  ASSUME NEW d \in TextRec, NEW x \in Nat, NEW e, e = [d EXCEPT !.height = x]
  PROVE  e \in TextRec /\ View(e) = View(d) /\ e.height = x
<1>1. e \in TextRec /\ e.height = x
  BY DEF TextRec
<1>2. View(e) = View(d)
  BY DEF TextRec, View
<1> QED
  BY <1>1, <1>2

\* What depends on the view alone.
LEMMA SameView ==
  ASSUME NEW d, NEW e, View(e) = View(d), Open(d), e \in TextRec
  PROVE  /\ Open(e) /\ Place(e) = Place(d) /\ e.lines = d.lines /\ e.whole = d.whole /\ e.marks = d.marks
         /\ e.top = d.top /\ e.length = d.length
         /\ e.height = d.height => LastPage(e) = LastPage(d) /\ (PageOf(d) => PageOf(e))
BY DEF View, Open, Place, TextEnd, LastPage, PageOf

\* What holds of a text that is shown.
TextOk(d) ==
  /\ Open(d) /\ d.height > 0 /\ d.length \in 1..d.height /\ (d.marks => d.whole)
  /\ d.whole => PageOf(d) /\ d.top = d.due
  /\ d.marks => d.top <= LastPage(d)

\* A page is shown, from where the reading is.
LEMMA ShownPage ==
  ASSUME NEW d, Open(d), d.height > 0, d.marks => d.whole, NEW x \in Int,
         d.whole => x = Begins(d, Place(d)), NEW e, e = [PrintPage(d) EXCEPT !.due = x]
  PROVE  TextOk(e)
<1> DEFINE f == PrintPage(d)
<1>1. /\ Open(f) /\ Fixed(f) = Fixed(d) /\ f.length \in 1..d.height /\ (d.whole => PageOf(f) /\ f.top = Begins(d, Place(d)))
  BY PageIs
<1>2. /\ f \in TextRec /\ f.height = d.height /\ f.whole = d.whole /\ f.marks = d.marks
      /\ LastPage(f) = LastPage(d)
  BY <1>1 DEF Open, Fixed, LastPage
<1>0. e = DueAt(f, x)
  BY DEF DueAt
<1> HIDE DEF f
<1>a. f \in TextRec
  BY <1>2
<1>b. DueIs(DueAt(f, x), f, x)
  BY <1>a, SetDue
<1>3. e \in TextRec /\ View(e) = View(f) /\ e.height = f.height /\ e.due = x
  BY <1>0, <1>b DEF DueIs
<1>4. /\ Open(e) /\ e.whole = d.whole /\ e.marks = d.marks /\ e.top = f.top /\ LastPage(e) = LastPage(d)
      /\ (PageOf(f) => PageOf(e)) /\ e.length = f.length
  BY <1>1, <1>2, <1>3, SameView
<1>5. ASSUME d.marks PROVE e.top <= LastPage(e)
  <2>1. e.top = Begins(d, Place(d)) /\ Place(d) \in Int /\ LastPage(d) \in Int
    BY <1>1, <1>4, <1>5 DEF Open, Place, TextRec, LastPage
  <2> QED
    BY <1>4, <1>5, <2>1 DEF Begins, Smaller
<1> QED
  BY <1>1, <1>2, <1>3, <1>4, <1>5 DEF TextOk

\* Where the last page and the page before or after one begin.
LEMMA Dues ==
  ASSUME NEW d, TextOk(d), d.whole
  PROVE  /\ d.top = d.due /\ d.top \in 1..(d.lines + 1) /\ d.length \in 1..d.height
         /\ Place(d) = d.top + d.length /\ d.lines \in Nat \ {0} /\ d.height \in Nat \ {0}
         /\ LastPage(d) \in 1..(d.lines + 1)
         /\ ~d.end => Place(d) < d.lines + 2 /\ d.length = d.height
         /\ d.marks => d.top <= LastPage(d)
  BY DEF TextOk, PageOf, Open, TextRec, LastPage

\* The text goes to the line that the key asks for: a line or a page up or
\* down, or home and to the end.
LEMMA TextMoves ==
  ASSUME TextOk(dlg), TextMove PROVE TextOk(dlg')
<1> DEFINE d == dlg
           L == d.lines
<1>0. /\ d \in TextRec /\ Open(d) /\ d.height \in Nat \ {0} /\ (d.marks => d.whole)
      /\ L \in Nat \ {0} /\ d.due \in Int /\ d.length \in 1..d.height
  BY DEF TextOk, Open, TextRec
<1>1. ASSUME NEW n \in Nat, NEW m \in Int, ShowLine(BackLines(d, n), m),
             d.whole => Larger(Place(d) - n, 1) = Larger(d.due + m, 1) /\ Larger(d.due + m, 1) <= L + 1
      PROVE  TextOk(dlg')
  <2> DEFINE b == BackLines(d, n)
  <2>1. Open(b) /\ Fixed(b) = Fixed(d) /\ Place(b) = Larger(Place(d) - n, 1)
    BY <1>0, BackMany
  <2>2. /\ b.height = d.height /\ b.marks = d.marks /\ b.whole = d.whole /\ b.lines = L
        /\ LastPage(b) = LastPage(d) /\ b.lines = L
    BY <2>1 DEF Fixed, LastPage
  <2>3. dlg' = [PrintPage(b) EXCEPT !.due = DueLine(d, m)]
    BY <1>1 DEF ShowLine
  <2> HIDE DEF b
  <2>4. DueLine(d, m) \in Int
    BY <1>0 DEF DueLine, LastPage
  <2>5. b.whole => DueLine(d, m) = Begins(b, Place(b))
    BY <1>0, <1>1, <2>1, <2>2 DEF DueLine, Begins, Larger, Smaller, LastPage
  <2> QED
    BY <1>0, <2>1, <2>2, <2>3, <2>4, <2>5, ShownPage
<1>2. CASE dlg' = [PrintPage([d EXCEPT !.begin = TRUE, !.page = 1]) EXCEPT !.due = 1]
  <2> DEFINE b == [d EXCEPT !.begin = TRUE, !.page = 1]
  <2>1. Becomes(b, 1, TRUE, d.end, d, Shown(d))
    <3>1. PICK t \in BOOLEAN : t = TRUE
      OBVIOUS
    <3>2. PICK p \in Int : p = 1
      OBVIOUS
    <3>3. b = [d EXCEPT !.page = p, !.begin = t]
      BY <1>0, <3>1, <3>2 DEF TextRec
    <3> HIDE DEF b
    <3>4. Becomes(b, p, t, d.end, d, Shown(d))
      BY <1>0, <3>3, SetBack
    <3> QED
      BY <3>1, <3>2, <3>4
  <2>2. dlg' = [PrintPage(b) EXCEPT !.due = 1]
    BY <1>2
  <2> HIDE DEF b
  <2>3. /\ b.height = d.height /\ b.marks = d.marks /\ b.whole = d.whole /\ b.lines = L /\ b.page = 1
        /\ b \in TextRec
    BY <2>1 DEF Becomes, Fixed
  <2>4. Open(b) /\ Place(b) = 1
    BY <1>0, <2>3 DEF Open, Place, TextEnd
  <2>5. Begins(b, Place(b)) = 1
    BY <1>0, <2>3, <2>4 DEF Begins, Smaller, LastPage
  <2> QED
    BY <1>0, <2>2, <2>3, <2>4, <2>5, ShownPage
<1>3. CASE dlg' = [PrintPage(BackLines([d EXCEPT !.end = TRUE, !.page = TextEnd(d)], d.height))
                   EXCEPT !.due = LastPage(d)]
  <2> DEFINE a == [d EXCEPT !.end = TRUE, !.page = TextEnd(d)]
             b == BackLines(a, d.height)
  <2>1. Becomes(a, L + 1, d.begin, TRUE, d, Shown(d))
    <3>1. PICK t \in BOOLEAN : t = TRUE
      OBVIOUS
    <3>2. PICK p \in Int : p = L + 1 /\ p = TextEnd(d)
      BY <1>0 DEF TextEnd
    <3>3. a = [d EXCEPT !.page = p, !.end = t]
      BY <1>0, <3>1, <3>2 DEF TextRec
    <3> HIDE DEF a, L
    <3>4. Becomes(a, p, d.begin, t, d, Shown(d))
      BY <1>0, <3>3, SetPage
    <3> QED
      BY <3>1, <3>2, <3>4
  <2>2. dlg' = [PrintPage(b) EXCEPT !.due = LastPage(d)]
    BY <1>3
  <2> HIDE DEF a
  <2>3. Open(a) /\ Place(a) = L + 2 /\ Fixed(a) = Fixed(d)
    BY <1>0, <2>1 DEF Becomes, Fixed, Open, Place, TextEnd
  <2>0. d.height \in Nat
    BY <1>0
  <2>4. Open(b) /\ Fixed(b) = Fixed(a) /\ Place(b) = Larger(Place(a) - d.height, 1)
    BY <2>0, <2>3, BackMany
  <2> HIDE DEF b
  <2>5. b.height = d.height /\ b.marks = d.marks /\ b.whole = d.whole /\ b.lines = L
    BY <2>3, <2>4 DEF Fixed
  <2>6. LastPage(d) \in Int /\ Begins(b, Place(b)) = LastPage(d)
    BY <1>0, <2>3, <2>4, <2>5 DEF Begins, Smaller, Larger, LastPage
  <2> QED
    BY <1>0, <2>2, <2>4, <2>5, <2>6, ShownPage
<1>4. CASE ~d.begin /\ ShowLine(BackLines(d, d.length + 1), -1)
  <2>1. d.whole => Larger(Place(d) - (d.length + 1), 1) = Larger(d.due + (-1), 1)
                   /\ Larger(d.due + (-1), 1) <= L + 1
    BY Dues DEF Larger
  <2> QED
    BY <1>0, <1>1, <1>4, <2>1
<1>5. CASE ~d.begin /\ ShowLine(BackLines(d, d.length + d.height), -d.height)
  <2>1. d.whole => Larger(Place(d) - (d.length + d.height), 1) = Larger(d.due + (-d.height), 1)
                   /\ Larger(d.due + (-d.height), 1) <= L + 1
    BY Dues DEF Larger
  <2>2. d.length + d.height \in Nat /\ -d.height \in Int
    BY <1>0
  <2> QED
    BY <1>1, <1>5, <2>1, <2>2
<1>6. CASE ~d.end /\ ShowLine(BackLines(d, d.length - 1), 1)
  <2>1. d.whole => Larger(Place(d) - (d.length - 1), 1) = Larger(d.due + 1, 1)
                   /\ Larger(d.due + 1, 1) <= L + 1
    BY <1>6, Dues DEF Larger
  <2>2. d.length - 1 \in Nat
    BY <1>0
  <2> QED
    BY <1>1, <1>6, <2>1, <2>2
<1>7. CASE ~d.end /\ ShowLine([d EXCEPT !.begin = FALSE], d.height)
  <2> DEFINE b == [d EXCEPT !.begin = FALSE]
  <2>1. Becomes(b, d.page, FALSE, d.end, d, Shown(d))
    <3>1. PICK t \in BOOLEAN : t = FALSE
      OBVIOUS
    <3>2. b = [d EXCEPT !.begin = t]
      BY <3>1, Zenon
    <3> HIDE DEF b
    <3>3. Becomes(b, d.page, t, d.end, d, Shown(d))
      BY <1>0, <3>2, SetBegin
    <3> QED
      BY <3>1, <3>3
  <2>2. dlg' = [PrintPage(b) EXCEPT !.due = DueLine(d, d.height)]
    BY <1>7 DEF ShowLine
  <2> HIDE DEF b
  <2>3. /\ b.height = d.height /\ b.marks = d.marks /\ b.whole = d.whole /\ b.lines = L
        /\ b.page = d.page /\ b.end = d.end /\ b \in TextRec
    BY <2>1 DEF Becomes, Fixed
  <2>4. Open(b) /\ Place(b) = Place(d) /\ LastPage(b) = LastPage(d)
    BY <1>0, <2>3 DEF Open, Place, TextEnd, LastPage
  <2>5. DueLine(d, d.height) \in Int
    BY <1>0 DEF DueLine, LastPage
  <2>6. b.whole => DueLine(d, d.height) = Begins(b, Place(b))
    <3>1. ASSUME d.whole PROVE DueLine(d, d.height) = Begins(b, Place(b))
      <4>1. Place(d) = d.due + d.height /\ Place(d) < L + 2 /\ d.due \in 1..(L + 1) /\ LastPage(d) \in Int
        BY <1>7, <3>1, Dues
      <4>2. DueLine(d, d.height) = IF d.marks /\ Place(d) > LastPage(d) THEN LastPage(d) ELSE Place(d)
        BY <1>0, <4>1 DEF DueLine
      <4>3. Begins(b, Place(b)) = IF d.marks THEN Smaller(Place(d), LastPage(d)) ELSE Smaller(Place(d), L + 1)
        BY <2>3, <2>4 DEF Begins
      <4> QED
        BY <1>0, <4>1, <4>2, <4>3 DEF Smaller
    <3> QED
      BY <2>3, <3>1
  <2> QED
    BY <1>0, <2>2, <2>3, <2>4, <2>5, <2>6, ShownPage
<1> QED
  BY <1>2, <1>3, <1>4, <1>5, <1>6, <1>7 DEF TextMove

\* Shifted to another column it begins at the line where it did.
LEMMA TextShifts ==
  ASSUME TextOk(dlg), TextShift PROVE TextOk(dlg')
<1> DEFINE d == dlg
           b == BackLines(d, d.length)
<1>1. PICK x \in Int : ShowLine([b EXCEPT !.right = x], 0)
  BY DEF TextShift
<1> DEFINE c == [b EXCEPT !.right = x]
<1>2. /\ Open(d) /\ d.height \in Nat \ {0} /\ (d.marks => d.whole)
      /\ d.lines \in Nat \ {0} /\ d.due \in Int /\ d.length \in Nat
  BY DEF TextOk, Open, TextRec
<1>3. Open(b) /\ Fixed(b) = Fixed(d) /\ Place(b) = Larger(Place(d) - d.length, 1)
  BY <1>2, BackMany
<1>4. dlg' = [PrintPage(c) EXCEPT !.due = DueLine(d, 0)]
  BY <1>1 DEF ShowLine
<1>5. c = [b EXCEPT !.right = x]
  OBVIOUS
<1> HIDE DEF b, c
<1>6. c \in TextRec /\ View(c) = View(b) /\ c.height = b.height
  BY <1>3, <1>5, SetRight DEF Open
<1>7. Open(c) /\ Place(c) = Place(b) /\ LastPage(c) = LastPage(b) /\ c.whole = b.whole /\ c.marks = b.marks
      /\ c.lines = b.lines
  BY <1>3, <1>6, SameView
<1>8. b.height = d.height /\ b.marks = d.marks /\ b.whole = d.whole /\ b.lines = d.lines
      /\ LastPage(b) = LastPage(d)
  BY <1>3 DEF Fixed, LastPage
<1>9. DueLine(d, 0) \in Int
  BY <1>2 DEF DueLine, LastPage
<1>10. c.whole => DueLine(d, 0) = Begins(c, Place(c))
  BY <1>2, <1>3, <1>7, <1>8, Dues DEF DueLine, Begins, Smaller, Larger
<1> QED
  BY <1>2, <1>4, <1>6, <1>7, <1>8, <1>9, <1>10, ShownPage

\* A window of another size shows the text from some line, which is the one
\* that is due from then on.
LEMMA TextSizes ==
  ASSUME TextOk(dlg), TextResized PROVE TextOk(dlg')
<1> DEFINE d == dlg
           n == d.height + Frame
           b == BackLines(d, n)
<1>1. PICK h \in Heights : LET f == PrintPage([b EXCEPT !.height = h]) IN dlg' = [f EXCEPT !.due = f.top]
  BY DEF TextResized
<1> DEFINE c == [b EXCEPT !.height = h]
           x == PrintPage(c).top
<1>2. h \in Nat \ {0} /\ Open(d) /\ n \in Nat /\ (d.marks => d.whole)
  BY DialogAssumption DEF TextOk, Open, TextRec, Frame
<1>3. Open(b) /\ Fixed(b) = Fixed(d)
  BY <1>2, BackMany
<1>4. dlg' = [PrintPage(c) EXCEPT !.due = x]
  BY <1>1
<1>5. c = [b EXCEPT !.height = h]
  OBVIOUS
<1> HIDE DEF b, c
<1>6. c \in TextRec /\ View(c) = View(b) /\ c.height = h
  BY <1>2, <1>3, <1>5, SetHeight DEF Open
<1>7. Open(c) /\ c.whole = d.whole /\ c.marks = d.marks
  BY <1>3, <1>6, SameView DEF Fixed
<1>8. /\ Open(PrintPage(c)) /\ (c.whole => x = Begins(c, Place(c)))
  BY <1>2, <1>6, <1>7, PageIs
<1>9. x \in Int
  BY <1>8 DEF Open, TextRec
<1> HIDE DEF x
<1> QED
  BY <1>2, <1>4, <1>6, <1>7, <1>8, <1>9, ShownPage

\* The line that is due on the first page of a text that is opened at a line.
OpenDue(lines, height, marks, vscroll) ==
  Smaller(vscroll + 1, IF marks THEN (IF lines + 2 > height THEN lines + 2 - height ELSE 1)
                       ELSE lines + 1)

Openable(lines, whole, height, marks, vscroll, hscroll, x) ==
  /\ lines \in Nat \ {0} /\ whole \in BOOLEAN /\ height \in Nat \ {0} /\ marks \in BOOLEAN
  /\ vscroll \in Nat /\ hscroll \in Int /\ x \in Int
  /\ marks => whole
  /\ whole => x = OpenDue(lines, height, marks, vscroll)
OpensRight(lines, whole, height, marks, vscroll, hscroll, x) ==
  LET d == DialogTextbox(lines, whole, height, marks, vscroll, hscroll)
  IN TextOk(DueAt(d, x)) /\ d \in TextRec /\ d.due = vscroll + 1

\* A text is opened where it is asked for.
LEMMA TextOpens ==
  ASSUME NEW lines, NEW whole, NEW height, NEW marks, NEW vscroll, NEW hscroll, NEW x,
         Openable(lines, whole, height, marks, vscroll, hscroll, x)
  PROVE  OpensRight(lines, whole, height, marks, vscroll, hscroll, x)
<1>0. /\ lines \in Nat \ {0} /\ whole \in BOOLEAN /\ height \in Nat \ {0} /\ marks \in BOOLEAN
      /\ vscroll \in Nat /\ hscroll \in Int /\ x \in Int /\ (marks => whole)
      /\ (whole => x = OpenDue(lines, height, marks, vscroll))
  BY DEF Openable
<1> DEFINE first == vscroll = 0
           d == [kind |-> "text", lines |-> lines, whole |-> whole, height |-> height,
                 marks |-> marks, page |-> 1, begin |-> first, end |-> FALSE, past |-> FALSE,
                 length |-> 0, top |-> 1, right |-> hscroll, due |-> vscroll + 1]
           b == GetLines(d, vscroll)
<1>1. first \in BOOLEAN
  OBVIOUS
<1> DEFINE e == DueAt(DialogTextbox(lines, whole, height, marks, vscroll, hscroll), x)
<1>2. e = [PrintPage(b) EXCEPT !.due = x]
  BY DEF DialogTextbox, DueAt
<1>a. DialogTextbox(lines, whole, height, marks, vscroll, hscroll) = PrintPage(b)
  BY DEF DialogTextbox
<1> HIDE DEF first, e
<1>3. d \in TextRec
  BY <1>0, <1>1 DEF TextRec
<1>4. d.lines = lines /\ d.whole = whole /\ d.height = height /\ d.marks = marks /\ d.page = 1
      /\ d.due = vscroll + 1
  OBVIOUS
<1> HIDE DEF d
<1>5. Open(d) /\ Place(d) = 1
  BY <1>0, <1>3, <1>4 DEF Open, Place, TextEnd
<1>6. Open(b) /\ Fixed(b) = Fixed(d) /\ (d.whole => Place(b) = Smaller(1 + vscroll, lines + 2))
  BY <1>0, <1>4, <1>5, GetMany
<1> HIDE DEF b
<1>7. b.lines = lines /\ b.whole = whole /\ b.height = height /\ b.marks = marks
  BY <1>4, <1>6 DEF Fixed
<1>8. b.whole => x = Begins(b, Place(b))
  BY <1>0, <1>4, <1>6, <1>7 DEF Begins, Smaller, LastPage, OpenDue
<1>9. b.height > 0 /\ (b.marks => b.whole)
  BY <1>0, <1>7
<1>10. PrintPage(b) \in TextRec /\ PrintPage(b).due = vscroll + 1
  <2>1. Open(PrintPage(b)) /\ Fixed(PrintPage(b)) = Fixed(b)
    BY <1>6, <1>9, PageIs
  <2> QED
    BY <1>4, <1>6, <2>1 DEF Open, Fixed
<1>11. TextOk(e)
  BY <1>0, <1>2, <1>6, <1>8, <1>9, ShownPage
<1> QED
  BY <1>a, <1>10, <1>11 DEF e, OpensRight

\* A text that is opened.
LEMMA TextBegins ==
  ASSUME NEW lines \in Nat \ {0}, NEW whole \in BOOLEAN, NEW height \in Nat \ {0}, NEW marks \in BOOLEAN,
         marks => whole, NEW e, e = DialogTextbox(lines, whole, height, marks, 0, 0)
  PROVE  TextOk(e)
<1>1. PICK z \in Nat : z = 0
  OBVIOUS
<1>2. PICK x \in Int : x = z + 1
  BY <1>1
<1>3. e = DialogTextbox(lines, whole, height, marks, z, z)
  BY <1>1
<1> DEFINE f == DueAt(e, x)
<1>4. x = OpenDue(lines, height, marks, z)
  BY <1>1, <1>2 DEF Smaller, OpenDue
<1>5. z \in Int
  OBVIOUS
<1>6. f = [e EXCEPT !.due = x]
  BY DEF DueAt
<1>a. Openable(lines, whole, height, marks, z, z, x)
  BY <1>4, <1>5 DEF Openable
<1>b. OpensRight(lines, whole, height, marks, z, z, x)
  BY <1>a, TextOpens
<1>7. TextOk(f) /\ e \in TextRec /\ e.due = x
  BY <1>2, <1>3, <1>b, Zenon DEF OpensRight
<1> HIDE DEF f
<1>8. f = e
  BY <1>6, <1>7 DEF TextRec
<1> QED
  BY <1>7, <1>8

\* What is left of a text: where it was, for the next time.
LeftText(t) ==
  /\ t.lines \in Nat \ {0} /\ t.height \in Nat \ {0} /\ t.marks \in BOOLEAN
  /\ t.vscroll \in Nat /\ t.right \in Int /\ t.due \in Int
  /\ t.marks => t.vscroll + 1 = t.due /\ t.due <= LastPage(t)

\* A text that is left keeps where it was.
LEMMA TextLeaves ==
  ASSUME TextOk(dlg), TextLeft PROVE dlg'.kind = "answer" /\ dlg'.of = "text" /\ LeftText(dlg'.rest)
<1> DEFINE d == dlg
           b == BackLines(d, d.length)
           v == VScroll(d)
<1>1. /\ Open(d) /\ d.height \in Nat \ {0} /\ (d.marks => d.whole) /\ d.marks \in BOOLEAN /\ d.right \in Int
      /\ d.lines \in Nat \ {0} /\ d.due \in Int /\ d.length \in Nat
  BY DEF TextOk, Open, TextRec
<1>2. Open(b) /\ Fixed(b) = Fixed(d) /\ Place(b) = Larger(Place(d) - d.length, 1)
  BY <1>1, BackMany
<1>3. v = b.page - 1
  BY DEF VScroll
<1>4. dlg' = [kind |-> "answer", of |-> "text", code |-> 0, rest |->
              [lines |-> d.lines, height |-> d.height, marks |-> d.marks, vscroll |-> v, right |-> d.right,
               due |-> d.due]]
  BY DEF TextLeft, Answer
<1> HIDE DEF b, v
<1>5. b.page \in 1..(d.lines + 1) /\ (Place(b) = b.page \/ Place(b) = d.lines + 2)
  BY <1>1, <1>2 DEF Open, Place, Fixed, TextEnd, TextRec
<1>6. v \in Nat
  BY <1>1, <1>3, <1>5
<1>7. ASSUME d.marks PROVE v + 1 = d.due
  <2>1. Place(d) - d.length = d.due /\ d.due \in 1..(d.lines + 1)
    BY <1>1, <1>7, Dues
  <2> QED
    BY <1>1, <1>2, <1>3, <1>5, <2>1 DEF Larger
<1>8. d.marks => d.due <= LastPage(d)
  BY <1>1, Dues
<1>9. dlg'.rest.lines = d.lines /\ dlg'.rest.height = d.height
  BY <1>4
<1>10. LastPage(dlg'.rest) = LastPage(d)
  BY <1>9 DEF LastPage
<1> QED
  BY <1>1, <1>4, <1>6, <1>7, <1>8, <1>10 DEF LeftText

\* Shown again it begins where it was left.
LEMMA TextComesBack ==
  ASSUME LeftText(dlg.rest), TextAgain PROVE TextOk(dlg')
<1> DEFINE t == dlg.rest
<1>1. dlg' = [DialogTextbox(t.lines, TRUE, t.height, TRUE, t.vscroll, t.right) EXCEPT !.due = t.due] /\ t.marks
  BY DEF TextAgain
<1>2. /\ t.lines \in Nat \ {0} /\ t.height \in Nat \ {0} /\ t.vscroll \in Nat /\ t.right \in Int /\ t.due \in Int
      /\ t.vscroll + 1 = t.due /\ t.due <= LastPage(t)
  BY <1>1 DEF LeftText
<1> HIDE DEF t
<1>3. PICK y \in BOOLEAN : y = TRUE
  OBVIOUS
<1>4. t.due = OpenDue(t.lines, t.height, y, t.vscroll)
  BY <1>2, <1>3 DEF OpenDue, Smaller, LastPage
<1>5. Openable(t.lines, y, t.height, y, t.vscroll, t.right, t.due)
  BY <1>2, <1>3, <1>4 DEF Openable
<1>6. OpensRight(t.lines, y, t.height, y, t.vscroll, t.right, t.due)
  BY <1>5, TextOpens
<1>7. dlg' = DueAt(DialogTextbox(t.lines, y, t.height, y, t.vscroll, t.right), t.due)
  BY <1>1, <1>3, Zenon DEF DueAt
<1> QED
  BY <1>6, <1>7 DEF OpensRight

-----------------------------------------------------------------------------
(* The line one edits.                                                     *)

\* Two texts, one behind the other.
LEMMA Joined ==
  \A r, q \in Seq(Nat) : /\ r \o q \in Seq(Nat)
                         /\ Len(r \o q) = Len(r) + Len(q)
                         /\ \A i \in 1..(Len(r) + Len(q)) :
                              (r \o q)[i] = IF i <= Len(r) THEN r[i] ELSE q[i - Len(r)]
  BY ConcatProperties
LEMMA JoinedTwice ==
  \A r, q, p \in Seq(Nat) : (r \o q) \o p = r \o (q \o p)
  BY ConcatAssociative, SMTT(40)

\* A letter before the cursor is taken out, or is after it from then on.
LEMMA OneLess ==
  ASSUME NEW b \in Seq(Nat), NEW a \in Seq(Nat), Len(b) > 0
  PROVE  /\ Front(b) \in Seq(Nat) /\ Len(Front(b)) = Len(b) - 1 /\ Last(b) \in Nat
         /\ RemoveAt(b \o a, Len(b)) = Front(b) \o a
         /\ Front(b) \o (<<Last(b)>> \o a) = b \o a
<1> DEFINE f == Front(b)
           n == Len(b)
           t == b \o a
<1>1. n \in Nat \ {0} /\ Len(a) \in Nat
  BY LenProperties
<1>2. /\ t \in Seq(Nat) /\ Len(t) = n + Len(a)
      /\ \A i \in 1..(n + Len(a)) : t[i] = IF i <= n THEN b[i] ELSE a[i - n]
  BY ConcatProperties
<1>3. \A i \in 1..n : b[i] \in Nat
  BY <1>1, ElementOfSeq
<1>4. f \in Seq(Nat) /\ Len(f) = n - 1 /\ \A i \in 1..(n - 1) : f[i] = b[i]
  <2>1. f = SubSeq(b, 1, n - 1) /\ 1 \in Int /\ n - 1 \in Int /\ \A i \in 1..(n - 1) : b[i] \in Nat
    BY <1>1, <1>3 DEF Front
  <2> HIDE DEF f, n
  <2>2. f \in Seq(Nat) /\ Len(f) = (IF 1 <= n - 1 THEN n - 1 - 1 + 1 ELSE 0)
        /\ \A i \in 1..(n - 1 - 1 + 1) : f[i] = b[1 + i - 1]
    BY <2>1, SubSeqProperties
  <2> QED
    BY <1>1, <2>2
<1>5. Last(b) \in Nat
  BY <1>1, <1>3 DEF Last
<1>6. RemoveAt(t, n) = f \o a
  <2> DEFINE l == SubSeq(t, 1, n - 1)
             r == SubSeq(t, n + 1, Len(t))
  <2>1. \A i \in 1..Len(t) : t[i] \in Nat
    BY <1>2, ElementOfSeq
  <2>2. l \in Seq(Nat) /\ Len(l) = n - 1 /\ \A i \in 1..(n - 1) : l[i] = t[i]
    <3>1. 1 \in Int /\ n - 1 \in Int /\ \A i \in 1..(n - 1) : t[i] \in Nat
      BY <1>1, <1>2, <2>1
    <3> HIDE DEF n, t
    <3>2. l \in Seq(Nat) /\ Len(l) = (IF 1 <= n - 1 THEN n - 1 - 1 + 1 ELSE 0)
          /\ \A i \in 1..(n - 1 - 1 + 1) : l[i] = t[1 + i - 1]
      BY <3>1, SubSeqProperties
    <3> HIDE DEF l
    <3> QED
      BY <1>1, <3>2
  <2>3. r \in Seq(Nat) /\ Len(r) = Len(a) /\ \A i \in 1..Len(a) : r[i] = t[n + i]
    <3>1. n + 1 \in Int /\ Len(t) \in Int /\ \A i \in (n + 1)..Len(t) : t[i] \in Nat
      BY <1>1, <1>2, <2>1
    <3> HIDE DEF n, t
    <3>2. r \in Seq(Nat) /\ Len(r) = (IF n + 1 <= Len(t) THEN Len(t) - (n + 1) + 1 ELSE 0)
          /\ \A i \in 1..(Len(t) - (n + 1) + 1) : r[i] = t[(n + 1) + i - 1]
      BY <3>1, SubSeqProperties, SMTT(40)
    <3> HIDE DEF r
    <3>3. n \in Int /\ Len(a) \in Nat /\ Len(t) = n + Len(a)
      BY <1>1, <1>2
    <3>4. Len(r) = Len(a)
      BY <3>2, <3>3
    <3>5. ASSUME NEW i \in 1..Len(a) PROVE r[i] = t[n + i]
      <4>1. i \in 1..(Len(t) - (n + 1) + 1) /\ (n + 1) + i - 1 = n + i
        BY <3>3
      <4> QED
        BY <3>2, <4>1
    <3> QED
      BY <3>2, <3>4, <3>5
  <2>4. l = f
    <3> HIDE DEF l, f, t, n
    <3>1. ASSUME NEW i \in 1..Len(l) PROVE l[i] = f[i]
      <4>1. i \in 1..(n - 1) /\ i \in 1..(n + Len(a)) /\ i <= n
        BY <1>1, <2>2
      <4> QED
        BY <1>2, <1>4, <2>2, <4>1
    <3> QED
      BY <1>4, <2>2, <3>1, SeqEqual
  <2>5. r = a
    <3> HIDE DEF r, t, n
    <3>1. ASSUME NEW i \in 1..Len(r) PROVE r[i] = a[i]
      <4>1. i \in 1..Len(a) /\ n + i \in 1..(n + Len(a)) /\ ~(n + i <= n) /\ n + i - n = i
        BY <1>1, <2>3
      <4>2. PICK j \in 1..(n + Len(a)) : j = n + i
        BY <4>1
      <4>3. ~(j <= n) /\ j - n = i
        BY <1>1, <4>1, <4>2
      <4>4. t[j] = IF j <= n THEN b[j] ELSE a[j - n]
        BY <1>2
      <4> QED
        BY <2>3, <4>1, <4>2, <4>3, <4>4
    <3> QED
      BY <2>3, <3>1, SeqEqual
  <2> QED
    BY <2>4, <2>5 DEF RemoveAt
<1>7. f \o (<<Last(b)>> \o a) = t
  <2>1. f \o <<Last(b)>> = b
    <3> DEFINE l == <<Last(b)>>
               m == n - 1
    <3>1. l \in Seq(Nat) /\ Len(l) = 1 /\ l[1] = b[n]
      BY <1>5 DEF Last
    <3>a. m \in Int /\ m + 1 = n /\ Len(f) = m
      BY <1>1, <1>4
    <3> HIDE DEF f, l, m
    <3>b. f \in Seq(Nat) /\ l \in Seq(Nat) /\ Len(l) = 1
      BY <1>4, <3>1
    <3>c. /\ f \o l \in Seq(Nat) /\ Len(f \o l) = Len(f) + Len(l)
          /\ \A i \in 1..(Len(f) + Len(l)) :
               (f \o l)[i] = IF i <= Len(f) THEN f[i] ELSE l[i - Len(f)]
      BY <3>b, Joined
    <3>2. /\ f \o l \in Seq(Nat) /\ Len(f \o l) = m + 1
          /\ \A i \in 1..(m + 1) : (f \o l)[i] = IF i <= m THEN f[i] ELSE l[i - m]
      BY <3>a, <3>b, <3>c
    <3>3. ASSUME NEW i \in 1..n PROVE (f \o l)[i] = b[i]
      <4>1. CASE i = n
        <5>1. ~(i <= m) /\ i - m = 1 /\ i \in 1..(m + 1)
          BY <1>1, <3>a, <4>1
        <5> QED
          BY <3>1, <3>2, <4>1, <5>1
      <4>2. CASE i # n
        <5>1. i <= m /\ i \in 1..m /\ i \in 1..(m + 1)
          BY <1>1, <3>a, <4>2
        <5>2. f[i] = b[i]
          BY <1>4, <5>1 DEF m
        <5> QED
          BY <3>2, <5>1, <5>2
      <4> QED
        BY <4>1, <4>2
    <3>4. Len(f \o l) = n
      BY <3>2, <3>a
    <3>5. f \o l = b
      BY <3>2, <3>3, <3>4, SeqEqual
    <3> QED
      BY <3>5 DEF l
  <2> DEFINE l == <<Last(b)>>
  <2>2. f \in Seq(Nat) /\ l \in Seq(Nat)
    BY <1>4, <1>5
  <2> HIDE DEF f, l
  <2>3. (f \o l) \o a = f \o (l \o a)
    BY <2>2, JoinedTwice
  <2> QED
    BY <2>1, <2>3 DEF l
<1> QED
  BY <1>4, <1>5, <1>6, <1>7

\* A letter is put in at the cursor, or one after it is before it from then on.
LEMMA OneMore ==
  ASSUME NEW b \in Seq(Nat), NEW a \in Seq(Nat), NEW l \in Nat
  PROVE  /\ Append(b, l) \in Seq(Nat) /\ Len(Append(b, l)) = Len(b) + 1
         /\ InsertAt(b \o a, Len(b) + 1, l) = Append(b, l) \o a
         /\ Len(a) > 0 => /\ Head(a) \in Nat /\ Tail(a) \in Seq(Nat)
                          /\ Append(b, Head(a)) \o Tail(a) = b \o a
<1> DEFINE n == Len(b)
           t == b \o a
<1>1. n \in Nat /\ Len(a) \in Nat
  BY LenProperties
<1>2. /\ t \in Seq(Nat) /\ Len(t) = n + Len(a)
      /\ \A i \in 1..(n + Len(a)) : t[i] = IF i <= n THEN b[i] ELSE a[i - n]
  BY ConcatProperties
<1>3. \A m \in Nat : Append(b, m) = b \o <<m>> /\ <<m>> \in Seq(Nat) /\ Append(b, m) \in Seq(Nat)
                     /\ Len(Append(b, m)) = n + 1
  BY AppendIsConcat, AppendProperties
<1>4. InsertAt(t, n + 1, l) = Append(b, l) \o a
  <2>1. SubSeq(t, 1, (n + 1) - 1) = b
    <3>1. \A i \in 1..Len(t) : t[i] \in Nat
      BY <1>2, ElementOfSeq
    <3>2. 1 \in Int /\ (n + 1) - 1 \in Int /\ \A i \in 1..((n + 1) - 1) : t[i] \in Nat
      BY <1>1, <1>2, <3>1
    <3> DEFINE s == SubSeq(t, 1, (n + 1) - 1)
    <3> HIDE DEF t, n
    <3>3. s \in Seq(Nat) /\ Len(s) = (IF 1 <= (n + 1) - 1 THEN (n + 1) - 1 - 1 + 1 ELSE 0)
          /\ \A i \in 1..((n + 1) - 1 - 1 + 1) : s[i] = t[1 + i - 1]
      BY <3>2, SubSeqProperties
    <3> HIDE DEF s
    <3>4. Len(s) = n /\ \A i \in 1..n : s[i] = t[i]
      BY <1>1, <3>3
    <3>5. Len(s) = Len(b) /\ \A i \in 1..Len(s) : s[i] = b[i]
      BY <1>1, <1>2, <3>4 DEF n
    <3>6. s = b
      BY <3>3, <3>5, SeqEqual
    <3> QED
      BY <3>6 DEF s
  <2>2. SubSeq(t, n + 1, Len(t)) = a
    <3>1. \A i \in 1..Len(t) : t[i] \in Nat
      BY <1>2, ElementOfSeq
    <3>2. n + 1 \in Int /\ Len(t) \in Int /\ \A i \in (n + 1)..Len(t) : t[i] \in Nat
      BY <1>1, <1>2, <3>1
    <3> DEFINE s == SubSeq(t, n + 1, Len(t))
    <3> HIDE DEF t, n
    <3>3. s \in Seq(Nat) /\ Len(s) = (IF n + 1 <= Len(t) THEN Len(t) - (n + 1) + 1 ELSE 0)
          /\ \A i \in 1..(Len(t) - (n + 1) + 1) : s[i] = t[(n + 1) + i - 1]
      BY <3>2, SubSeqProperties
    <3> HIDE DEF s
    <3>4. Len(s) = Len(a) /\ \A i \in 1..Len(s) : s[i] = t[n + i]
      BY <1>1, <1>2, <3>3
    <3>5. ASSUME NEW i \in 1..Len(s) PROVE s[i] = a[i]
      <4>1. i \in 1..Len(a) /\ n + i \in 1..(n + Len(a)) /\ ~(n + i <= n) /\ n + i - n = i
        BY <1>1, <3>4
      <4>2. PICK j \in 1..(n + Len(a)) : j = n + i
        BY <4>1
      <4>3. ~(j <= n) /\ j - n = i
        BY <1>1, <4>1, <4>2
      <4>4. t[j] = IF j <= n THEN b[j] ELSE a[j - n]
        BY <1>2
      <4> QED
        BY <3>4, <4>1, <4>2, <4>3, <4>4
    <3>6. s = a
      BY <3>3, <3>4, <3>5, SeqEqual
    <3> QED
      BY <3>6 DEF s
  <2> QED
    BY <1>3, <2>1, <2>2 DEF InsertAt
<1>5. ASSUME Len(a) > 0 PROVE Head(a) \in Nat /\ Tail(a) \in Seq(Nat) /\ Append(b, Head(a)) \o Tail(a) = t
  <2>1. a # <<>>
    BY <1>5, EmptySeq
  <2>2. /\ Head(a) \in Nat /\ Tail(a) \in Seq(Nat) /\ Len(Tail(a)) = Len(a) - 1
        /\ \A i \in 1..Len(Tail(a)) : Tail(a)[i] = a[i + 1]
    BY <2>1, HeadTailProperties
  <2>3. <<Head(a)>> \o Tail(a) = a
    <3> DEFINE h == <<Head(a)>>
               u == Tail(a)
    <3>1. h \in Seq(Nat) /\ Len(h) = 1 /\ h[1] = a[1]
      BY <2>1, <2>2
    <3>2. u \in Seq(Nat) /\ Len(u) = Len(a) - 1 /\ \A i \in 1..Len(u) : u[i] = a[i + 1]
      BY <2>2
    <3> HIDE DEF h, u
    <3>a. /\ h \o u \in Seq(Nat) /\ Len(h \o u) = Len(h) + Len(u)
          /\ \A i \in 1..(Len(h) + Len(u)) :
               (h \o u)[i] = IF i <= Len(h) THEN h[i] ELSE u[i - Len(h)]
      BY <3>1, <3>2, Joined
    <3>3. /\ h \o u \in Seq(Nat) /\ Len(h \o u) = 1 + Len(u)
          /\ \A i \in 1..(1 + Len(u)) : (h \o u)[i] = IF i <= 1 THEN h[i] ELSE u[i - 1]
      BY <3>1, <3>a
    <3>4. Len(h \o u) = Len(a)
      BY <1>1, <3>2, <3>3
    <3>5. ASSUME NEW i \in 1..Len(a) PROVE (h \o u)[i] = a[i]
      <4>1. i \in 1..(1 + Len(u))
        BY <1>1, <3>2
      <4>2. CASE i <= 1
        <5>1. i = 1
          BY <4>2
        <5> QED
          BY <3>1, <3>3, <4>1, <5>1
      <4>3. CASE ~(i <= 1)
        <5>1. i - 1 \in 1..Len(u) /\ i - 1 + 1 = i
          BY <1>1, <3>2, <4>3
        <5>2. u[i - 1] = a[i]
          BY <3>2, <5>1
        <5> QED
          BY <3>3, <4>1, <4>3, <5>2
      <4> QED
        BY <4>2, <4>3
    <3>6. h \o u = a
      BY <3>3, <3>4, <3>5, SeqEqual
    <3> QED
      BY <3>6 DEF h, u
  <2>4. (b \o <<Head(a)>>) \o Tail(a) = b \o (<<Head(a)>> \o Tail(a))
    <3> DEFINE h == <<Head(a)>>
               u == Tail(a)
    <3>1. h \in Seq(Nat) /\ u \in Seq(Nat)
      BY <2>2
    <3> HIDE DEF h, u
    <3>2. (b \o h) \o u = b \o (h \o u)
      BY <3>1, JoinedTwice
    <3> QED
      BY <3>2 DEF h, u
  <2> QED
    BY <1>3, <2>2, <2>3, <2>4
<1> QED
  BY <1>3, <1>4, <1>5

Columns == 0..(BoxWidth - 1)
InputRec ==
  [kind : {"input"}, text : Seq(Nat), pos : Int, show : Int, x : Int, cells : [Columns -> Nat],
   before : Seq(Nat), after : Seq(Nat), button : {Editing, 0, 1}, bright : Int, resized : BOOLEAN]
\* The cells show the text from show on.
Shows(d) == \A c \in Columns : LET i == d.show + c + 1
                               IN d.cells[c] = IF i \in DOMAIN d.text THEN d.text[i] ELSE Blank
\* The cells after the end, which are not printed, are blank.
Swept(d) == \A c \in Columns : d.show + c > Len(d.text) => d.cells[c] = Blank
Cursor(d) == <<d.text, d.pos, d.show, d.x>>
Asked(d) == <<d.before, d.after>>
Taken(d) == <<d.button, d.bright, d.resized>>
ButtonOk(d) == d.bright = ButtonLit(d.button) \/ d.resized
\* What holds of a line that is edited.
InputOk(d) ==
  /\ d \in InputRec /\ ButtonOk(d) /\ d.text = d.before \o d.after
  /\ d.pos = Len(d.before) /\ d.pos = d.show + d.x /\ d.x \in Columns /\ d.show \in Nat
  /\ Shows(d)

\* What is printed shows the text.
LEMMA PrintedIs ==
  ASSUME NEW d \in InputRec, d.show \in Nat, Swept(d), NEW e, e = Printed(d)
  PROVE  /\ e \in InputRec /\ Cursor(e) = Cursor(d) /\ Asked(e) = Asked(d) /\ Taken(e) = Taken(d) /\ Shows(e)
<1> DEFINE Cell(c) == LET i == d.show + c
                      IN CASE i < Len(d.text) -> d.text[i + 1] [] i = Len(d.text) -> Blank
                           [] OTHER -> d.cells[c]
           cells == [c \in Columns |-> Cell(c)]
<1>1. /\ d.text \in Seq(Nat) /\ d.cells \in [Columns -> Nat] /\ DOMAIN d.text = 1..Len(d.text)
      /\ Len(d.text) \in Nat
  BY LenProperties DEF InputRec
<1>2. ASSUME NEW c \in Columns
      PROVE  /\ Cell(c) \in Nat
             /\ Cell(c) = IF d.show + c + 1 \in DOMAIN d.text THEN d.text[d.show + c + 1] ELSE Blank
  <2>1. c \in Nat /\ d.show + c \in Nat
    BY DialogAssumption DEF Columns
  <2>2. CASE d.show + c < Len(d.text)
    <3>1. d.show + c + 1 \in DOMAIN d.text
      BY <1>1, <2>1, <2>2
    <3>2. d.text[d.show + c + 1] \in Nat
      BY <1>1, <3>1, ElementOfSeq
    <3> QED
      BY <2>2, <3>1, <3>2
  <2>3. CASE d.show + c = Len(d.text)
    BY <1>1, <2>1, <2>3 DEF Blank
  <2>4. CASE d.show + c > Len(d.text)
    <3>1. d.cells[c] = Blank /\ ~(d.show + c < Len(d.text)) /\ d.show + c # Len(d.text)
      BY <1>1, <2>1, <2>4 DEF Swept
    <3>2. Cell(c) = Blank
      BY <3>1
    <3>3. d.show + c + 1 \notin DOMAIN d.text
      BY <1>1, <2>1, <2>4
    <3> QED
      BY <3>2, <3>3 DEF Blank
  <2> QED
    BY <1>1, <2>1, <2>2, <2>3, <2>4
<1>3. e = [d EXCEPT !.cells = cells]
  BY <1>1 DEF Printed
<1>4. cells \in [Columns -> Nat] /\ \A c \in Columns : cells[c] = Cell(c)
  BY <1>2
<1> HIDE DEF cells, Cell
<1>5. e \in InputRec /\ e.cells = cells
  BY <1>3, <1>4 DEF InputRec
<1>6. Cursor(e) = Cursor(d) /\ Asked(e) = Asked(d) /\ Taken(e) = Taken(d)
  BY <1>3, <1>4 DEF InputRec, Cursor, Asked, Taken
<1>7. e.show = d.show /\ e.text = d.text
  BY <1>6 DEF Cursor
<1>8. Shows(e)
  BY <1>2, <1>4, <1>5, <1>7 DEF Shows
<1> QED
  BY <1>5, <1>6, <1>8

\* The cells after the end are blank where the text is shown.
LEMMA ShownIsSwept ==
  ASSUME NEW d \in InputRec, d.show \in Nat, Shows(d), NEW c \in Columns, d.show + c >= Len(d.text)
  PROVE  d.cells[c] = Blank
<1>1. DOMAIN d.text = 1..Len(d.text) /\ Len(d.text) \in Nat /\ c \in Nat
  BY LenProperties DEF InputRec, Columns
<1>2. d.show + c + 1 \notin DOMAIN d.text
  BY <1>1
<1> QED
  BY <1>2 DEF Shows

\* A line is as it has to be when the cursor, the cells and the keys agree.
LEMMA LineIsOk ==
  ASSUME NEW d, NEW g \in InputRec, ButtonOk(d), Taken(g) = Taken(d), Shows(g),
         NEW b \in Seq(Nat), NEW a \in Seq(Nat), g.text = b \o a, g.pos = Len(b), g.pos = g.show + g.x,
         g.x \in Columns, g.show \in Nat, NEW e,
         e = [g EXCEPT !.before = b, !.after = a] \/ (e = [g EXCEPT !.before = b] /\ a = g.after)
  PROVE  InputOk(e)
<1>0. Cursor(e) = Cursor(g) /\ Taken(e) = Taken(g) /\ e.cells = g.cells
  BY DEF InputRec, Cursor, Taken
<1>1. e \in InputRec /\ e.before = b /\ e.after = a
  BY DEF InputRec
<1>2. e.text = g.text /\ e.pos = g.pos /\ e.show = g.show /\ e.x = g.x
  BY <1>0 DEF Cursor
<1>3. Shows(e)
  BY <1>0, <1>2 DEF Shows
<1>4. ButtonOk(e)
  BY <1>0 DEF ButtonOk, Taken
<1> QED
  BY <1>1, <1>2, <1>3, <1>4 DEF InputOk

\* What stays of a line when the cursor or the text is set.
Same(e, d) == e \in InputRec /\ Asked(e) = Asked(d) /\ Taken(e) = Taken(d) /\ e.cells = d.cells
\* The cursor is set, or the text with it.
LEMMA CursorSet ==
  ASSUME NEW d \in InputRec, NEW v \in Int, NEW p \in Int, NEW t \in Seq(Nat)
  PROVE  /\ LET e == [d EXCEPT !.show = v] IN Same(e, d) /\ Cursor(e) = <<d.text, d.pos, v, d.x>>
         /\ LET e == [d EXCEPT !.x = v] IN Same(e, d) /\ Cursor(e) = <<d.text, d.pos, d.show, v>>
         /\ LET e == [d EXCEPT !.pos = p, !.show = v] IN Same(e, d) /\ Cursor(e) = <<d.text, p, v, d.x>>
         /\ LET e == [d EXCEPT !.pos = p, !.x = v] IN Same(e, d) /\ Cursor(e) = <<d.text, p, d.show, v>>
         /\ LET e == [d EXCEPT !.text = t, !.pos = p] IN Same(e, d) /\ Cursor(e) = <<t, p, d.show, d.x>>
<1>1. LET e == [d EXCEPT !.show = v] IN Same(e, d) /\ Cursor(e) = <<d.text, d.pos, v, d.x>>
  BY DEF InputRec, Same, Cursor, Asked, Taken
<1>2. LET e == [d EXCEPT !.x = v] IN Same(e, d) /\ Cursor(e) = <<d.text, d.pos, d.show, v>>
  BY DEF InputRec, Same, Cursor, Asked, Taken
<1>3. LET e == [d EXCEPT !.pos = p, !.show = v] IN Same(e, d) /\ Cursor(e) = <<d.text, p, v, d.x>>
  BY DEF InputRec, Same, Cursor, Asked, Taken
<1>4. LET e == [d EXCEPT !.pos = p, !.x = v] IN Same(e, d) /\ Cursor(e) = <<d.text, p, d.show, v>>
  BY DEF InputRec, Same, Cursor, Asked, Taken
<1>5. LET e == [d EXCEPT !.text = t, !.pos = p] IN Same(e, d) /\ Cursor(e) = <<t, p, d.show, d.x>>
  BY DEF InputRec, Same, Cursor, Asked, Taken
<1> QED
  BY <1>1, <1>2, <1>3, <1>4, <1>5

\* A key that moves the cursor or changes the text does it there, and the
\* window goes along.
LEMMA InputEdits ==
  ASSUME InputOk(dlg), InputEdit PROVE InputOk(dlg')
<1> DEFINE d == dlg
           W == BoxWidth
           n == Len(d.text)
<1>a. /\ d \in InputRec /\ ButtonOk(d) /\ Shows(d)
  BY DEF InputOk
<1>b. /\ d.before \in Seq(Nat) /\ d.after \in Seq(Nat) /\ d.text \in Seq(Nat)
      /\ d.text = d.before \o d.after /\ d.pos = Len(d.before)
  BY DEF InputOk, InputRec
<1>0. /\ d.pos = d.show + d.x /\ d.x \in 0..(W - 1) /\ d.show \in Nat /\ W \in Nat \ {0}
      /\ d.pos \in Nat /\ n \in Nat
  BY <1>b, DialogAssumption, LenProperties DEF InputOk, Columns
<1> HIDE DEF d
<1>1. n = d.pos + Len(d.after) /\ Len(d.after) \in Nat
  <2>1. Len(d.before \o d.after) = Len(d.before) + Len(d.after)
    BY <1>b, ConcatProperties
  <2> QED
    BY <1>b, <2>1, LenProperties
<1>2. ASSUME d.pos > 0
      PROVE  /\ Front(d.before) \in Seq(Nat) /\ Len(Front(d.before)) = d.pos - 1 /\ Last(d.before) \in Nat
             /\ RemoveAt(d.text, d.pos) = Front(d.before) \o d.after
             /\ Front(d.before) \o (<<Last(d.before)>> \o d.after) = d.text
             /\ <<Last(d.before)>> \o d.after \in Seq(Nat)
  <2>1. /\ Front(d.before) \in Seq(Nat) /\ Len(Front(d.before)) = d.pos - 1 /\ Last(d.before) \in Nat
        /\ RemoveAt(d.text, d.pos) = Front(d.before) \o d.after
        /\ Front(d.before) \o (<<Last(d.before)>> \o d.after) = d.text
    <3> DEFINE b == d.before
               a == d.after
    <3>1. b \in Seq(Nat) /\ a \in Seq(Nat) /\ Len(b) > 0
      BY <1>b, <1>2
    <3> HIDE DEF a, b
    <3>2. /\ Front(b) \in Seq(Nat) /\ Len(Front(b)) = Len(b) - 1 /\ Last(b) \in Nat
          /\ RemoveAt(b \o a, Len(b)) = Front(b) \o a
          /\ Front(b) \o (<<Last(b)>> \o a) = b \o a
      BY <3>1, OneLess
    <3> QED
      BY <1>b, <3>2 DEF a, b
  <2>2. <<Last(d.before)>> \in Seq(Nat)
    BY <2>1
  <2> QED
    BY <1>b, <2>1, <2>2, ConcatProperties
<1>3. \A l \in Nat : /\ Append(d.before, l) \in Seq(Nat) /\ Len(Append(d.before, l)) = d.pos + 1
                      /\ InsertAt(d.text, d.pos + 1, l) = Append(d.before, l) \o d.after
  <2> DEFINE b == d.before
             a == d.after
  <2>1. b \in Seq(Nat) /\ a \in Seq(Nat)
    BY <1>b
  <2> HIDE DEF a, b
  <2>2. \A l \in Nat : /\ Append(b, l) \in Seq(Nat) /\ Len(Append(b, l)) = Len(b) + 1
                        /\ InsertAt(b \o a, Len(b) + 1, l) = Append(b, l) \o a
    BY <2>1, OneMore
  <2> QED
    BY <1>b, <2>2 DEF a, b
<1>4. ASSUME d.pos < n
      PROVE  /\ Head(d.after) \in Nat /\ Tail(d.after) \in Seq(Nat)
             /\ Append(d.before, Head(d.after)) \o Tail(d.after) = d.text
  <2>1. 0 \in Nat /\ Len(d.after) > 0
    BY <1>0, <1>1, <1>4
  <2> QED
    BY <1>b, <2>1, OneMore
<1>c. \A r, q \in Seq(Nat) : r \o q \in Seq(Nat) /\ Len(r \o q) = Len(r) + Len(q)
  BY ConcatProperties

\* A line that was printed anew.
<1>5. ASSUME NEW t \in Seq(Nat), NEW p \in Int, NEW s \in Nat, NEW x \in Int, NEW f,
             Same(f, d), Cursor(f) = <<t, p, s, x>>, Len(t) \in Int, s - Len(t) <= d.show - n + 1
      PROVE  LET g == Printed(f)
             IN /\ g \in InputRec /\ Cursor(g) = <<t, p, s, x>> /\ Asked(g) = Asked(d) /\ Taken(g) = Taken(d)
                /\ Shows(g)
  <2>1. f.show = s /\ f.text = t /\ f \in InputRec /\ f.cells = d.cells
    BY <1>5 DEF Cursor, Same
  <2>2. ASSUME NEW c \in Columns, f.show + c > Len(f.text) PROVE f.cells[c] = Blank
    <3>1. c \in Int /\ s + c > Len(t)
      BY <2>1, <2>2 DEF Columns
    <3> HIDE DEF n
    <3>2. d.show + c >= n
      <4>1. Len(t) \in Int /\ d.show \in Int /\ s \in Int /\ n \in Int /\ s - Len(t) <= d.show - n + 1
        BY <1>0, <1>5
      <4> QED
        BY <3>1, <4>1
    <3> QED
      BY <1>0, <1>a, <2>1, <3>2, ShownIsSwept DEF n
  <2>3. Swept(f)
    BY <2>2 DEF Swept
  <2> QED
    BY <1>5, <2>1, <2>3, PrintedIs DEF Same

\* What the keys asked for is written down.
<1>6. ASSUME NEW g \in InputRec, NEW b \in Seq(Nat), NEW a \in Seq(Nat), NEW p \in Int, NEW s \in Nat,
             NEW x \in 0..(W - 1), p = s + x, p = Len(b), Cursor(g) = <<b \o a, p, s, x>>, Asked(g) = Asked(d),
             Taken(g) = Taken(d), Shows(g),
             \/ dlg' = [g EXCEPT !.before = b, !.after = a]
             \/ dlg' = [g EXCEPT !.before = b] /\ a = d.after
      PROVE  InputOk(dlg')
  <2>1. g.text = b \o a /\ g.pos = Len(b) /\ g.pos = g.show + g.x /\ g.x \in Columns /\ g.show \in Nat
    BY <1>6 DEF Cursor, Columns
  <2>2. g.after = d.after
    BY <1>6 DEF Asked
  <2> QED
    BY <1>a, <1>6, <2>1, <2>2, LineIsOk
<1> HIDE DEF n, W
<1>7. ASSUME d.pos > 0, dlg' = [RubOut(d) EXCEPT !.before = Front(@)]
      PROVE  InputOk(dlg')
  <2> DEFINE b == Front(d.before)
             t == b \o d.after
             p == d.pos - 1
             From(e) == Printed([e EXCEPT !.text = RemoveAt(@, d.pos), !.pos = @ - 1])
  <2>1. b \in Seq(Nat) /\ Len(b) = p /\ RemoveAt(d.text, d.pos) = t
    BY <1>2, <1>7
  <2> HIDE DEF b
  <2>2. t \in Seq(Nat) /\ Len(t) = n - 1 /\ p \in Int
    BY <1>0, <1>1, <1>b, <1>c, <2>1
  <2> DEFINE Goes(e, s, x) == /\ Same(e, d) /\ Cursor(e) = <<d.text, d.pos, s, x>> /\ p = s + x /\ s <= d.show
                              /\ RubOut(d) = From(e)
  <2> HIDE DEF p, From, Goes
  <2>3. PICK shown \in InputRec, s \in Nat, x \in 0..(W - 1) : Goes(shown, s, x)
    <3>1. CASE d.x = 0
      <4>1. d.show - 1 \in Nat /\ p = d.show - 1 + d.x /\ d.show - 1 <= d.show /\ d.show - 1 \in Int
        BY <1>0, <1>7, <3>1 DEF p
      <4>2. LET e == [d EXCEPT !.show = d.show - 1]
            IN Same(e, d) /\ Cursor(e) = <<d.text, d.pos, d.show - 1, d.x>>
        BY <1>a, <1>b, <2>2, <4>1, CursorSet
      <4> DEFINE e == [d EXCEPT !.show = d.show - 1]
      <4>3. RubOut(d) = From(e)
        BY <3>1 DEF RubOut, From
      <4> HIDE DEF e
      <4>4. Same(e, d) /\ Cursor(e) = <<d.text, d.pos, d.show - 1, d.x>>
        BY <4>2 DEF e
      <4>5. d.x \in 0..(W - 1) /\ d.show \in Nat /\ d.show <= d.show + 1 /\ d.show <= d.show
        BY <1>0
      <4>6. Goes(e, d.show - 1, d.x)
        BY <4>1, <4>3, <4>4, <4>5 DEF Goes
      <4> QED
        BY <4>1, <4>4, <4>5, <4>6 DEF Same
    <3>2. CASE d.x # 0
      <4>1. d.x - 1 \in 0..(W - 1) /\ p = d.show + (d.x - 1) /\ d.x - 1 \in Int
        BY <1>0, <1>7, <3>2 DEF p
      <4>2. LET e == [d EXCEPT !.x = d.x - 1]
            IN Same(e, d) /\ Cursor(e) = <<d.text, d.pos, d.show, d.x - 1>>
        BY <1>a, <1>b, <2>2, <4>1, CursorSet
      <4> DEFINE e == [d EXCEPT !.x = d.x - 1]
      <4>3. RubOut(d) = From(e)
        BY <3>2 DEF RubOut, From
      <4> HIDE DEF e
      <4>4. Same(e, d) /\ Cursor(e) = <<d.text, d.pos, d.show, d.x - 1>>
        BY <4>2 DEF e
      <4>5. d.x \in 0..(W - 1) /\ d.show \in Nat /\ d.show <= d.show + 1 /\ d.show <= d.show
        BY <1>0
      <4>6. Goes(e, d.show, d.x - 1)
        BY <4>1, <4>3, <4>4, <4>5 DEF Goes
      <4> QED
        BY <4>1, <4>4, <4>5, <4>6 DEF Same
    <3> QED
      BY <3>1, <3>2
  <2> DEFINE f == [shown EXCEPT !.text = t, !.pos = p]
             g == Printed(f)
  <2>4. shown.text = d.text /\ shown.pos = d.pos /\ shown.show = s /\ shown.x = x /\ shown \in InputRec
    BY <2>3 DEF Cursor, Same, Goes
  <2>5. RubOut(d) = g
    BY <2>1, <2>3, <2>4 DEF From, p, Goes
  <2> HIDE DEF t
  <2>6. Same(f, shown) /\ Cursor(f) = <<t, p, s, x>>
    BY <2>2, <2>4, CursorSet
  <2> HIDE DEF f
  <2>7. Same(f, d)
    BY <2>3, <2>6 DEF Same, Goes
  <2>8. Len(t) \in Int /\ s - Len(t) <= d.show - n + 1 /\ x \in Int
    BY <1>0, <2>2, <2>3 DEF Goes
  <2>9. /\ g \in InputRec /\ Cursor(g) = <<t, p, s, x>> /\ Asked(g) = Asked(d) /\ Taken(g) = Taken(d)
        /\ Shows(g)
    BY <1>5, <2>2, <2>6, <2>7, <2>8
  <2>10. dlg' = [g EXCEPT !.before = Front(@)]
    BY <1>7, <2>5
  <2> HIDE DEF g
  <2>11. dlg' = [g EXCEPT !.before = b]
    BY <2>9, <2>10 DEF Asked, b
  <2> QED
    BY <1>b, <1>6, <2>1, <2>2, <2>3, <2>9, <2>11 DEF t, Goes
<1>8. ASSUME NEW l \in Typeable, dlg' = [Insert(d, l) EXCEPT !.before = Append(@, l)]
      PROVE  InputOk(dlg')
  <2> DEFINE b == Append(d.before, l)
             t == b \o d.after
             p == d.pos + 1
             From(e) == Printed([e EXCEPT !.text = InsertAt(@, d.pos + 1, l), !.pos = @ + 1])
  <2>0. l \in Nat
    BY DEF Typeable
  <2>1. b \in Seq(Nat) /\ Len(b) = p /\ InsertAt(d.text, p, l) = t
    BY <1>3, <2>0
  <2> HIDE DEF b
  <2>2. t \in Seq(Nat) /\ Len(t) = n + 1 /\ p \in Int
    <3>1. t \in Seq(Nat) /\ Len(t) = (d.pos + 1) + Len(d.after)
      BY <1>b, <1>c, <2>1
    <3>2. (d.pos + 1) + Len(d.after) = n + 1 /\ p \in Int
      BY <1>0, <1>1
    <3> QED
      BY <3>1, <3>2
  <2> DEFINE Goes(e, s, x) == /\ Same(e, d) /\ Cursor(e) = <<d.text, d.pos, s, x>> /\ p = s + x /\ s <= d.show + 1
                              /\ Insert(d, l) = From(e)
  <2> HIDE DEF p, From, Goes
  <2>3. PICK shown \in InputRec, s \in Nat, x \in 0..(W - 1) : Goes(shown, s, x)
    <3>1. CASE d.x = W - 1
      <4>1. d.show + 1 \in Nat /\ p = d.show + 1 + d.x /\ d.show + 1 \in Int
        BY <1>0, <3>1 DEF p
      <4>2. LET e == [d EXCEPT !.show = d.show + 1]
            IN Same(e, d) /\ Cursor(e) = <<d.text, d.pos, d.show + 1, d.x>>
        BY <1>a, <1>b, <2>2, <4>1, CursorSet
      <4> DEFINE e == [d EXCEPT !.show = d.show + 1]
      <4>3. Insert(d, l) = From(e)
        BY <3>1 DEF From, Insert, W
      <4> HIDE DEF e
      <4>4. Same(e, d) /\ Cursor(e) = <<d.text, d.pos, d.show + 1, d.x>>
        BY <4>2 DEF e
      <4>5. d.x \in 0..(W - 1) /\ d.show \in Nat /\ d.show <= d.show + 1 /\ d.show <= d.show
        BY <1>0
      <4>6. Goes(e, d.show + 1, d.x)
        BY <4>1, <4>3, <4>4, <4>5 DEF Goes
      <4> QED
        BY <4>1, <4>4, <4>5, <4>6 DEF Same
    <3>2. CASE d.x # W - 1
      <4>1. d.x + 1 \in 0..(W - 1) /\ p = d.show + (d.x + 1) /\ d.x + 1 \in Int
        BY <1>0, <3>2 DEF p
      <4>2. LET e == [d EXCEPT !.x = d.x + 1]
            IN Same(e, d) /\ Cursor(e) = <<d.text, d.pos, d.show, d.x + 1>>
        BY <1>a, <1>b, <2>2, <4>1, CursorSet
      <4> DEFINE e == [d EXCEPT !.x = d.x + 1]
      <4>3. Insert(d, l) = From(e)
        BY <3>2 DEF From, Insert, W
      <4> HIDE DEF e
      <4>4. Same(e, d) /\ Cursor(e) = <<d.text, d.pos, d.show, d.x + 1>>
        BY <4>2 DEF e
      <4>5. d.x \in 0..(W - 1) /\ d.show \in Nat /\ d.show <= d.show + 1 /\ d.show <= d.show
        BY <1>0
      <4>6. Goes(e, d.show, d.x + 1)
        BY <4>1, <4>3, <4>4, <4>5 DEF Goes
      <4> QED
        BY <4>1, <4>4, <4>5, <4>6 DEF Same
    <3> QED
      BY <3>1, <3>2
  <2> DEFINE f == [shown EXCEPT !.text = t, !.pos = p]
             g == Printed(f)
  <2>4. shown.text = d.text /\ shown.pos = d.pos /\ shown.show = s /\ shown.x = x /\ shown \in InputRec
    BY <2>3 DEF Cursor, Same, Goes
  <2>5. Insert(d, l) = g
    BY <2>1, <2>3, <2>4 DEF From, p, Goes
  <2> HIDE DEF t
  <2>6. Same(f, shown) /\ Cursor(f) = <<t, p, s, x>>
    BY <2>2, <2>4, CursorSet
  <2> HIDE DEF f
  <2>7. Same(f, d)
    BY <2>3, <2>6 DEF Same, Goes
  <2>8. Len(t) \in Int /\ s - Len(t) <= d.show - n + 1 /\ x \in Int
    <3>1. Len(t) = n + 1 /\ s <= d.show + 1 /\ n \in Nat /\ d.show \in Nat /\ W \in Nat
      BY <1>0, <2>2, <2>3 DEF Goes
    <3> QED
      BY <3>1
  <2>9. /\ g \in InputRec /\ Cursor(g) = <<t, p, s, x>> /\ Asked(g) = Asked(d) /\ Taken(g) = Taken(d)
        /\ Shows(g)
    BY <1>5, <2>2, <2>6, <2>7, <2>8
  <2>10. dlg' = [g EXCEPT !.before = Append(@, l)]
    BY <1>8, <2>5
  <2> HIDE DEF g
  <2>11. dlg' = [g EXCEPT !.before = b]
    BY <2>9, <2>10 DEF Asked, b
  <2> QED
    BY <1>b, <1>6, <2>1, <2>2, <2>3, <2>9, <2>11 DEF t, Goes

\* The cursor is moved: in the window, or with it.
<1>9. ASSUME NEW p \in Int, NEW s \in Nat, NEW x \in 0..(W - 1), NEW g,
             \/ g = [d EXCEPT !.pos = p, !.x = x] /\ s = d.show
             \/ g = Printed([d EXCEPT !.pos = p, !.show = s]) /\ x = d.x /\ s <= d.show + 1
      PROVE  /\ g \in InputRec /\ Cursor(g) = <<d.text, p, s, x>> /\ Asked(g) = Asked(d) /\ Taken(g) = Taken(d)
             /\ Shows(g)
  <2>1. CASE g = [d EXCEPT !.pos = p, !.x = x] /\ s = d.show
    <3>1. x \in Int
      OBVIOUS
    <3>2. Same(g, d) /\ Cursor(g) = <<d.text, p, s, x>>
      BY <1>a, <1>b, <2>1, <3>1, CursorSet
    <3>3. g.show = d.show /\ g.text = d.text /\ g.cells = d.cells
      BY <2>1, <3>2 DEF Same, Cursor
    <3> QED
      BY <1>a, <3>2, <3>3 DEF Shows, Same
  <2>2. CASE g = Printed([d EXCEPT !.pos = p, !.show = s]) /\ x = d.x /\ s <= d.show + 1
    <3> DEFINE f == [d EXCEPT !.pos = p, !.show = s]
    <3>1. s \in Int /\ x \in Int
      OBVIOUS
    <3>2. Same(f, d) /\ Cursor(f) = <<d.text, p, s, x>>
      BY <1>a, <1>b, <2>2, <3>1, CursorSet
    <3> HIDE DEF f
    <3>3. g = Printed(f)
      BY <2>2 DEF f
    <3>4. Len(d.text) \in Int /\ s - Len(d.text) <= d.show - n + 1
      BY <1>0, <2>2 DEF n
    <3>5. d.text \in Seq(Nat)
      BY <1>b
    <3> QED
      BY <1>5, <3>1, <3>2, <3>3, <3>4, <3>5
  <2> QED
    BY <1>9, <2>1, <2>2
<1>10. ASSUME d.pos > 0,
              dlg' = [CursorLeft(d) EXCEPT !.before = Front(@), !.after = <<Last(d.before)>> \o @]
       PROVE  InputOk(dlg')
  <2> DEFINE g == CursorLeft(d)
             p == d.pos - 1
             a == <<Last(d.before)>> \o d.after
             b == Front(d.before)
  <2>1. PICK s \in Nat, x \in 0..(W - 1) :
          /\ p = s + x
          /\ \/ g = [d EXCEPT !.pos = p, !.x = x] /\ s = d.show
             \/ g = Printed([d EXCEPT !.pos = p, !.show = s]) /\ x = d.x /\ s <= d.show + 1
    <3>1. CASE d.x > 0
      <4>1. d.x - 1 \in 0..(W - 1) /\ p = d.show + (d.x - 1)
        BY <1>0, <3>1
      <4> QED
        BY <1>0, <3>1, <4>1 DEF CursorLeft
    <3>2. CASE ~(d.x > 0)
      <4>1. d.show - 1 \in Nat /\ p = (d.show - 1) + d.x /\ d.show - 1 <= d.show + 1
        BY <1>0, <1>10, <3>2
      <4> QED
        BY <1>0, <3>2, <4>1 DEF CursorLeft
    <3> QED
      BY <3>1, <3>2
  <2>2. dlg' = [g EXCEPT !.before = Front(@), !.after = <<Last(d.before)>> \o @]
    BY <1>10
  <2>3. a \in Seq(Nat) /\ b \in Seq(Nat) /\ Len(b) = p /\ d.text = b \o a /\ p \in Int
    <3>1. p \in Int
      BY <1>0
    <3>2. a \in Seq(Nat) /\ b \in Seq(Nat) /\ Len(b) = p /\ d.text = b \o a
      BY <1>2, <1>10
    <3> QED
      BY <3>1, <3>2
  <2> HIDE DEF g, p, b
  <2>4. /\ g \in InputRec /\ Cursor(g) = <<d.text, p, s, x>> /\ Asked(g) = Asked(d) /\ Taken(g) = Taken(d)
        /\ Shows(g)
    BY <1>9, <2>1, <2>3
  <2>5. dlg' = [g EXCEPT !.before = b, !.after = a]
    BY <2>2, <2>4 DEF Asked, b
  <2> HIDE DEF a
  <2> QED
    BY <1>6, <2>1, <2>3, <2>4, <2>5
<1>11. ASSUME d.pos < Len(d.text),
              dlg' = [CursorRight(d) EXCEPT !.before = Append(@, Head(d.after)), !.after = Tail(@)]
       PROVE  InputOk(dlg')
  <2> DEFINE g == CursorRight(d)
             p == d.pos + 1
             a == Tail(d.after)
             b == Append(d.before, Head(d.after))
  <2>1. PICK s \in Nat, x \in 0..(W - 1) :
          /\ p = s + x
          /\ \/ g = [d EXCEPT !.pos = p, !.x = x] /\ s = d.show
             \/ g = Printed([d EXCEPT !.pos = p, !.show = s]) /\ x = d.x /\ s <= d.show + 1
    <3>1. CASE d.x < W - 1
      <4>1. d.x + 1 \in 0..(W - 1) /\ p = d.show + (d.x + 1)
        BY <1>0, <3>1
      <4> QED
        BY <1>0, <3>1, <4>1 DEF CursorRight, W
    <3>2. CASE ~(d.x < W - 1)
      <4>1. d.show + 1 \in Nat /\ p = (d.show + 1) + d.x /\ d.show + 1 <= d.show + 1
        BY <1>0, <3>2
      <4> QED
        BY <1>0, <3>2, <4>1 DEF CursorRight, W
    <3> QED
      BY <3>1, <3>2
  <2>2. dlg' = [g EXCEPT !.before = Append(@, Head(d.after)), !.after = Tail(@)]
    BY <1>11
  <2>3. a \in Seq(Nat) /\ b \in Seq(Nat) /\ Len(b) = p /\ d.text = b \o a /\ p \in Int
    <3>1. p \in Int
      BY <1>0
    <3>2. Head(d.after) \in Nat /\ a \in Seq(Nat) /\ b \o a = d.text
      BY <1>4, <1>11 DEF n
    <3>3. b \in Seq(Nat) /\ Len(b) = p
      BY <1>3, <3>2
    <3> QED
      BY <3>1, <3>2, <3>3
  <2> HIDE DEF g, p
  <2>4. /\ g \in InputRec /\ Cursor(g) = <<d.text, p, s, x>> /\ Asked(g) = Asked(d) /\ Taken(g) = Taken(d)
        /\ Shows(g)
    BY <1>9, <2>1, <2>3
  <2>5. dlg' = [g EXCEPT !.before = b, !.after = a]
    BY <2>2, <2>4 DEF Asked
  <2> HIDE DEF a, b
  <2> QED
    BY <1>6, <2>1, <2>3, <2>4, <2>5
<1> QED
  BY <1>7, <1>8, <1>10, <1>11 DEF InputEdit, d

\* A line is drawn with the cursor at its end.
InputBase ==
  [kind : {"input"}, text : Seq(Nat), pos : Int, show : Int, x : Int,
   cells : [Columns -> Nat] \union {<<>>}, before : Seq(Nat), after : Seq(Nat),
   button : {Editing, 0, 1}, bright : Int, resized : BOOLEAN]

\* The line is drawn with its cursor in the box.
LEMMA DrawIs ==
  ASSUME NEW d \in InputBase, ButtonOk(d) PROVE InputOk(DrawInput(d))
<1> DEFINE n == Len(d.text)
           s == IF n >= BoxWidth THEN n - BoxWidth + 1 ELSE 0
           x == n - s
           none == [c \in Columns |-> Blank]
           f == [d EXCEPT !.pos = n, !.show = s, !.x = x, !.cells = none, !.before = d.text, !.after = <<>>]
           e == DrawInput(d)
<1>1. d.text \in Seq(Nat) /\ n \in Nat /\ BoxWidth \in Nat \ {0}
  BY LenProperties, DialogAssumption DEF InputBase
<1>2. s \in Nat /\ x \in 0..(BoxWidth - 1) /\ n = s + x /\ x \in Int
  BY <1>1
<1>3. none \in [Columns -> Nat] /\ <<>> \in Seq(Nat)
  BY DEF Blank
<1>4. e = Printed(f)
  BY DEF DrawInput, Columns
<1>5. \A c \in Columns : none[c] = Blank
  OBVIOUS
<1> HIDE DEF n, s, x, none
<1>e. PICK q \in Seq(Nat) : q = <<>>
  BY <1>3
<1>6. f \in InputRec
  <2>1. f = [d EXCEPT !.pos = n, !.show = s, !.x = x, !.cells = none, !.before = d.text, !.after = q]
    BY <1>e, Zenon
  <2>2. n \in Int /\ s \in Int
    BY <1>1, <1>2
  <2> HIDE DEF f
  <2> QED
    BY <1>1, <1>2, <1>3, <2>1, <2>2 DEF InputBase, InputRec
<1>7. Cursor(f) = <<d.text, n, s, x>> /\ Asked(f) = <<d.text, <<>> >> /\ Taken(f) = Taken(d) /\ f.cells = none
  BY DEF InputBase, Cursor, Asked, Taken
<1> HIDE DEF f, e
<1>8. Swept(f) /\ f.show \in Nat
  BY <1>2, <1>5, <1>7 DEF Swept, Cursor
<1>9. e \in InputRec /\ Cursor(e) = <<d.text, n, s, x>> /\ Asked(e) = <<d.text, <<>> >> /\ Taken(e) = Taken(d) /\ Shows(e)
  BY <1>4, <1>6, <1>7, <1>8, PrintedIs
<1>10. e.text = d.text /\ e.pos = n /\ e.show = s /\ e.x = x /\ e.before = d.text /\ e.after = <<>>
  BY <1>9 DEF Cursor, Asked
<1>11. ButtonOk(e)
  BY <1>9 DEF ButtonOk, Taken
<1>12. d.text \o <<>> = d.text
  BY <1>1, ConcatEmptySeq
<1>13. InputOk(e)
  BY <1>2, <1>9, <1>10, <1>11, <1>12 DEF InputOk, Columns, n
<1> QED
  BY <1>13 DEF e

\* A line that is opened, gets another button or another size.
LEMMA InputOpens ==
  ASSUME NEW n \in Nat PROVE InputOk(DialogInputbox([i \in 1..n |-> 1]))
<1> DEFINE t == [i \in 1..n |-> 1]
           d == [kind |-> "input", text |-> t, pos |-> 0, show |-> 0, x |-> 0, cells |-> <<>>,
                 before |-> <<>>, after |-> <<>>, button |-> Editing, bright |-> ButtonLit(Editing),
                 resized |-> FALSE]
<1>1. t \in Seq(Nat) /\ <<>> \in Seq(Nat)
  OBVIOUS
<1>2. ButtonLit(Editing) = 0
  BY DEF ButtonLit
<1> HIDE DEF t
<1>3. d \in InputBase
  BY <1>1, <1>2 DEF InputBase
<1>4. ButtonOk(d)
  BY DEF ButtonOk
<1>5. DialogInputbox(t) = DrawInput(d)
  BY DEF DialogInputbox
<1> HIDE DEF d
<1>6. InputOk(DialogInputbox(t))
  BY <1>3, <1>4, <1>5, DrawIs
<1> QED
  BY <1>6 DEF t

\* The keys for the buttons keep the line right.
LEMMA InputButtons ==
  ASSUME InputOk(dlg), InputButton PROVE InputOk(dlg')
<1> DEFINE d == dlg
<1>1. PICK step \in {1, 2} : dlg' = TakeButton(d, ((d.button + 1 + step) % 3) - 1)
  BY DEF InputButton
<1> DEFINE b == ((d.button + 1 + step) % 3) - 1
           l == ButtonLit(b)
<1>2. d \in InputRec /\ d.button \in {-1, 0, 1}
  BY DEF InputOk, InputRec, Editing
<1>3. b \in {Editing, 0, 1}
  BY <1>2 DEF Editing
<1>4. l \in Int
  BY <1>3 DEF ButtonLit, Editing
<1>5. PICK r \in BOOLEAN : r = FALSE
  OBVIOUS
<1>6. dlg' = [d EXCEPT !.button = b, !.bright = l, !.resized = r]
  BY <1>1, <1>5, Zenon DEF TakeButton
<1>7. l = ButtonLit(b)
  OBVIOUS
<1> HIDE DEF b, l
<1>8. dlg' \in InputRec /\ dlg'.button = b /\ dlg'.bright = l
  BY <1>2, <1>3, <1>4, <1>6 DEF InputRec
<1>9. Cursor(dlg') = Cursor(d) /\ Asked(dlg') = Asked(d) /\ dlg'.cells = d.cells
  BY <1>2, <1>3, <1>4, <1>6 DEF InputRec, Cursor, Asked
<1>10. ButtonOk(dlg')
  BY <1>7, <1>8 DEF ButtonOk
<1>11. /\ d.text = d.before \o d.after /\ d.pos = Len(d.before) /\ d.pos = d.show + d.x /\ d.x \in Columns
       /\ d.show \in Nat /\ Shows(d)
  BY DEF InputOk
<1>12. /\ dlg'.text = d.text /\ dlg'.pos = d.pos /\ dlg'.show = d.show /\ dlg'.x = d.x
       /\ dlg'.before = d.before /\ dlg'.after = d.after
  BY <1>9 DEF Cursor, Asked
<1>13. ASSUME NEW e, e.cells = d.cells, e.show = d.show, e.text = d.text PROVE Shows(e)
  <2>1. Shows(d)
    BY <1>11
  <2> HIDE DEF d
  <2>2. ASSUME NEW c \in Columns
        PROVE  e.cells[c] = IF e.show + c + 1 \in DOMAIN e.text THEN e.text[e.show + c + 1] ELSE Blank
    BY <1>13, <2>1 DEF Shows
  <2> QED
    BY <2>2 DEF Shows
<1> QED
  BY <1>8, <1>9, <1>10, <1>11, <1>12, <1>13 DEF InputOk

\* So does a change of the size.
LEMMA InputSizes ==
  ASSUME InputOk(dlg), InputResized PROVE InputOk(dlg')
<1> DEFINE d == dlg
           f == Resized(d)
<1>1. d \in InputRec
  BY DEF InputOk
<1>2. PICK r \in BOOLEAN : r = TRUE
  OBVIOUS
<1>z. PICK z \in Int : z = 0
  OBVIOUS
<1>3. f = [d EXCEPT !.bright = z, !.resized = r]
  BY <1>2, <1>z, Zenon DEF Resized
<1> HIDE DEF f
<1>4. f \in InputRec /\ f.resized = r
  BY <1>1, <1>3 DEF InputRec
<1>5. f \in InputBase
  BY <1>4 DEF InputRec, InputBase
<1>6. ButtonOk(f)
  BY <1>2, <1>4 DEF ButtonOk
<1>7. dlg' = DrawInput(f)
  BY DEF InputResized, f
<1> QED
  BY <1>5, <1>6, <1>7, DrawIs
=============================================================================
