------------------------------ MODULE KSearch -------------------------------
(***************************************************************************)
(* Finding an option: the search in the page of nconfig that goes on while *)
(* one types (nconf.c), and the search in all symbols (symbol.c) that the  *)
(* front ends have a dialog for.                                           *)
(*                                                                         *)
(* What one types is right as long as it goes on with one given word and   *)
(* wrong from then on.  A row is a number: how many letters of that word   *)
(* its text has in a row.  Page Up and Page Down are letters too (a key is *)
(* cut to a char), and are wrong ones.                                     *)
(***************************************************************************)
EXTENDS Integers, Sequences, FiniteSets, FiniteSetsExt

CONSTANTS MaxRows,  \* bound on the rows of a page
          MaxTyped, \* bound on the letters that are typed: the given word
          Names     \* the names of symbols, as numbers in their alphabetical order

ASSUME SearchAssumption == MaxRows \in Nat /\ MaxTyped \in Nat /\ Names \subseteq Int /\ IsFiniteSet(Names)

VARIABLES page,  \* the page of nconfig and the state of its search
          found  \* what a search in the symbols found: [name, exact]
searchVars == <<page, found>>

-----------------------------------------------------------------------------
(* The page: its rows from 0 on, the current one, whether a search goes on,*)
(* where it looks, what was typed, and what the last key had it look for   *)
(* and answer.                                                             *)

NoRow == -1  \* there is no such row
Never == -2  \* the search does not return

NoPattern == [right |-> 0, wrong |-> 0]
Nothing == [from |-> 0, dir |-> "down", pattern |-> NoPattern, ans |-> NoRow]
NewPage(rows, cur) ==
  [rows |-> rows, cur |-> cur, in |-> FALSE, dir |-> "down", pattern |-> NoPattern,
   last |-> Nothing]

Items(p) == Len(p.rows)
Matching(p, pattern, i) == pattern.wrong = 0 /\ pattern.right <= p.rows[i + 1]

\* match_f: to look from the current row on, or from the one next to it.
FindNext == {"next_down", "next_up"}
Upwards == {"up", "next_up"}
MatchStart(p, dir) ==
  p.cur + (CASE dir = "next_down" -> 1 [] dir = "next_up" -> -1 [] OTHER -> 0)

ComparedNoWrap(p, dir, k) ==
  LET i == MatchStart(p, dir) + (IF dir \in Upwards THEN -k ELSE k)
  IN CASE i < 0 -> 0 [] i >= Items(p) -> Items(p) - 1 [] OTHER -> i
\* The row that is compared after k others.  The loop ends without a match
\* when it is back at the start, which need not be the number of a row.
Compared(p, dir, k) ==
  (MatchStart(p, dir) + Items(p) + (IF dir \in Upwards THEN -k ELSE k)) % Items(p)
GetMextMatch(p, pattern, dir) ==
  LET Hit(k) == Matching(p, pattern, Compared(p, dir, k))
      Back(k) == k > 0 /\ Compared(p, dir, k) = MatchStart(p, dir)
      ends == {k \in 0..Items(p) : Hit(k) \/ Back(k)}
  IN CASE ends = {} -> Never
       [] ends # {} /\ Back(Min(ends)) -> NoRow
       [] OTHER -> Compared(p, dir, Min(ends))

AdjMatchDir(dir) ==
  CASE dir = "next_down" -> "down" [] dir = "next_up" -> "up" [] OTHER -> dir

\* The row that was found becomes the current one.
CenterItem(p, i) == IF i >= 0 THEN [p EXCEPT !.cur = i] ELSE p
Look(p, pattern, dir) ==
  LET ans == GetMextMatch(p, pattern, dir)
  IN CenterItem([p EXCEPT !.pattern = pattern, !.dir = dir,
                   !.last = [from |-> p.cur, dir |-> dir, pattern |-> pattern, ans |-> ans]], ans)

\* do_match.
Slash(p) == [p EXCEPT !.in = ~@, !.pattern = NoPattern, !.dir = "down"]
Typed(pattern, right) ==
  IF right /\ pattern.wrong = 0 THEN [pattern EXCEPT !.right = @ + 1]
  ELSE [pattern EXCEPT !.wrong = @ + 1]
Letters(pattern) == pattern.right + pattern.wrong
\* (Without a letter what is cut off is a byte before the letters, which is 0
\* already where the lowest byte of an integer is the first.)
Shorter(pattern) ==
  CASE pattern.wrong > 0 -> [pattern EXCEPT !.wrong = @ - 1]
    [] pattern.wrong = 0 /\ pattern.right > 0 -> [pattern EXCEPT !.right = @ - 1]
    [] OTHER -> pattern

Hangs(p) == p.last.ans = Never
Listening == page.rows # <<>> /\ ~Hangs(page)
Searching == Listening /\ page.in

KeySlash == Listening /\ page' = Slash(page) /\ UNCHANGED found
KeyEscape == Searching /\ page' = Slash(page) /\ UNCHANGED found
KeyLetter ==
  /\ Searching /\ Letters(page.pattern) < MaxTyped
  /\ \E right \in BOOLEAN :
       page' = Look(page, Typed(page.pattern, right), AdjMatchDir(page.dir))
  /\ UNCHANGED found
KeyArrow ==
  /\ Searching /\ \E dir \in FindNext : page' = Look(page, page.pattern, dir)
  /\ UNCHANGED found
KeyBackspace ==
  /\ Searching
  /\ page' = [page EXCEPT !.pattern = Shorter(@), !.dir = AdjMatchDir(@)]
  /\ UNCHANGED found
\* Any other key ends the search and is used as one of the page.
KeyOther ==
  /\ Searching
  /\ page' = [page EXCEPT !.in = FALSE, !.pattern = NoPattern] /\ UNCHANGED found
\* Keys that move, outside of a search; the curses library does not wrap.
KeyMove ==
  /\ Listening /\ ~page.in
  /\ \E i \in 0..(Items(page) - 1) :
       i \in {0, page.cur - 1, page.cur + 1, Items(page) - 1} /\ page' = [page EXCEPT !.cur = i]
  /\ UNCHANGED found

-----------------------------------------------------------------------------
(* The search in all symbols.                                              *)

\* What matches with all of its name comes first, then the alphabet decides.
SymRelCompHalf(s1, s2) == IF s1.exact THEN -1 ELSE s1.name - s2.name
SymRelComp(s1, s2) ==
  CASE s1.exact /\ ~s2.exact -> -1
    [] ~s1.exact /\ s2.exact -> 1
    [] OTHER -> s1.name - s2.name

\* The symbols that match, in the order of qsort: no one is less than the one
\* before it.  If the comparison allows no such order, it may be any.
SymReSearch(matches) ==
  LET all == {s \in [1..Cardinality(matches) -> matches] :
                \A i, j \in DOMAIN s : i # j => s[i] # s[j]}
      sorted == {s \in all : \A i \in 1..(Len(s) - 1) : SymRelComp(s[i + 1], s[i]) >= 0}
  IN IF sorted = {} THEN all ELSE sorted

SearchConf ==
  /\ page.rows = <<>> /\ found = <<>>
  /\ \E names \in SUBSET Names :
       \E exact \in SUBSET names :
         found' \in SymReSearch({[name |-> n, exact |-> n \in exact] : n \in names})
  /\ UNCHANGED page

-----------------------------------------------------------------------------
SearchInit ==
  /\ found = <<>>
  /\ \/ page = NewPage(<<>>, 0)
     \/ \E n \in 1..MaxRows :
          \E rows \in [1..n -> 0..MaxTyped], cur \in 0..(n - 1) : page = NewPage(rows, cur)

SearchNext ==
  \/ KeySlash \/ KeyEscape \/ KeyLetter \/ KeyArrow \/ KeyBackspace \/ KeyOther \/ KeyMove
  \/ SearchConf
SearchSpec == SearchInit /\ [][SearchNext]_searchVars

-----------------------------------------------------------------------------
(* Properties.                                                             *)

\* How far a row is from where the search starts, in the direction of the
\* search and round the end of the page; the row that was current is the last
\* one when the search is for the next.
Ahead(l, i) ==
  LET n == Items(page)
      d == IF l.dir \in Upwards THEN (l.from - i) % n ELSE (i - l.from) % n
  IN IF l.dir \in FindNext /\ d = 0 THEN n ELSE d

\* The search goes to the nearest row that matches, round the end of the page
\* too, and to no other; it finds none only if there is none.  It never
\* returns only if there is none either, one looks for the next one and the
\* current row is the last one in that direction.
GoesToNearest ==
  LET l == page.last
      hits == {i \in 0..(Items(page) - 1) : Matching(page, l.pattern, i)}
  IN page.rows # <<>> /\ l # Nothing =>
       /\ l.ans >= 0 => l.ans \in hits /\ \A i \in hits : Ahead(l, l.ans) <= Ahead(l, i)
       /\ l.ans < 0 => hits = {}
       /\ l.ans = Never => \/ l.dir = "next_down" /\ l.from = Items(page) - 1
                           \/ l.dir = "next_up" /\ l.from = 0

\* The list of all symbols that match has those that match with all of their
\* name before the others, and is alphabetical in either part.
ExactFirst ==
  \A i, j \in DOMAIN found :
    i < j => /\ found[j].exact => found[i].exact
             /\ found[i].exact = found[j].exact => found[i].name < found[j].name

\* A search finds what fits best.
SearchFinds == GoesToNearest /\ ExactFirst
=============================================================================
