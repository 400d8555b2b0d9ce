------------------------------- MODULE KFile --------------------------------
(***************************************************************************)
(* Configuration files (confdata.c): what reading one makes of the symbols *)
(* and what is written from them.                                          *)
(*                                                                         *)
(* A file is the sequence of its lines that name a symbol.  A line is      *)
(* [name, set, text]: NAME=text, or, if it is not set, the comment that    *)
(* the name is not set.  The text of a string stands in quotes.            *)
(***************************************************************************)
EXTENDS KSymbol

CONSTANTS AllNoY \* symbols with "option allnoconfig_y"

Line(name, text) == [name |-> name, set |-> TRUE, text |-> text, quoted |-> FALSE]
NotSet(name) == [name |-> name, set |-> FALSE, text |-> "n", quoted |-> FALSE]

\* Stands for a file that is not there.
Absent == <<Line("no file", "")>>

HasValue(G, s) == G.sym[s].user
Warn(acc) == [acc EXCEPT !.warned = TRUE]

-----------------------------------------------------------------------------
(* Reading.                                                                *)

\* A text is the value of the user for s: whether it is accepted, and the
\* state.  A string without quotes is ignored.
SetSymVal(G, s, line) ==
  LET type == Type(s)
      tri == type \in Boolish
      ok == CASE tri -> line.text \in {"y", "n"} \/ (type = "tristate" /\ line.text = "m")
              [] type = "string" -> TRUE
              [] OTHER -> StringValid(s, line.text)
  IN CASE ~ok -> <<G, FALSE>>
       [] ok /\ tri -> <<[G EXCEPT !.sym[s].user = TRUE, !.sym[s].utri = TriOf(line.text)], TRUE>>
       [] ok /\ type = "string" /\ ~line.quoted -> <<G, TRUE>>
       [] OTHER -> <<[G EXCEPT !.sym[s].user = TRUE, !.sym[s].uval = line.text], TRUE>>

\* A value of a choice makes the choice at least that, and y chooses it: the
\* last one of the file does.
SetChoice(acc, s) ==
  LET c == ChoiceOf(s)
      old == acc.G.sym[c].utri
      new == acc.G.sym[s].utri
      conflict == (new = 1 /\ old = 2) \/ (new = 2 /\ old # 0)
  IN [acc EXCEPT !.warned = @ \/ conflict,
        !.G.sym[c].user = @ /\ ~(new = 1 /\ old = 2),
        !.G.sym[c].uval = IF new = 2 THEN s ELSE @,
        !.G.sym[c].utri = Max2(@, new)]

\* What became of the line for s.
TakeLine(acc, s, r) ==
  LET read == [acc EXCEPT !.G = r[1]]
  IN CASE ~r[2] -> Warn(acc)
       [] r[2] /\ ChoiceOf(s) # NoSym -> SetChoice(read, s)
       [] OTHER -> read

\* One line; a name that no symbol has makes the configuration a changed one.
ReadLine(acc, line) ==
  LET s == line.name
      again == [acc EXCEPT !.warned = @ \/ acc.G.sym[s].user]
      unset == IF Type(s) \in Boolish
               THEN <<[acc.G EXCEPT !.sym[s].user = TRUE, !.sym[s].utri = 0], TRUE>>
               ELSE <<acc.G, TRUE>>
  IN IF s \notin DOMAIN acc.G.sym THEN [acc EXCEPT !.G.changed = TRUE]
     ELSE TakeLine(again, s, IF line.set THEN SetSymVal(acc.G, s, line) ELSE unset)

\* conf_read_simple, for the values of the user.
ReadSimple(G, file) ==
  LET Reset(s) == [G.sym[s] EXCEPT !.valid = FALSE, !.user = s \in ChoiceSyms,
                                   !.uval = NoSym, !.utri = 0]
      reset == [G EXCEPT !.sym = Listed([s \in DOMAIN @ |-> Reset(s)])]
  IN FoldLeft(ReadLine, [G |-> reset, warned |-> FALSE], file)

\* The value of s differs from what the file says of it, or only one of them
\* is there.
Unsaved(G, s) ==
  LET x == G.sym[s]
      same == IF Type(s) \in Boolish THEN x.tri = x.utri ELSE x.val = x.uval
  IN s \notin ChoiceSyms \union Autos
     /\ IF x.user /\ x.write THEN ~same ELSE x.user \/ x.write

\* Values of the user that have no effect are dropped: where the symbol is not
\* visible, if the file agreed so far, and out of range.
DropOutside(acc, s, r) ==
  IF r[2] THEN [acc EXCEPT !.G = r[1]]
  ELSE [acc EXCEPT !.G = [r[1] EXCEPT !.sym[s].user = FALSE, !.sym[s].valid = FALSE],
                   !.unsaved = @ + 1]
DropValue(acc, s) ==
  LET G == acc.G
      hide == G.sym[s].vis = 0 /\ acc.unsaved = 0
      H == IF hide THEN [G EXCEPT !.sym[s].user = FALSE] ELSE G
  IN CASE ~HasValue(G, s) \/ ChoiceOf(s) # NoSym -> acc
       [] HasValue(G, s) /\ Type(s) \in Boolish -> [acc EXCEPT !.G = H]
       [] OTHER -> DropOutside(acc, s, StringWithinRange(H, s, H.sym[s].uval))

\* conf_read: every symbol is calculated, and the configuration has changed
\* if that gave other values than the file has.
CountUnsaved(acc, G, s) ==
  [acc EXCEPT !.G = G, !.unsaved = @ + IF Unsaved(G, s) THEN 1 ELSE 0]
Compared(acc) ==
  FoldLeft(LAMBDA a, s : CountUnsaved(a, Calc(a.G, s), s), acc, tree.order)
Dropped(acc) == FoldLeft(DropValue, acc, tree.order)
ReadDone(acc, warned) ==
  [acc.G EXCEPT !.changed = @ \/ warned \/ acc.unsaved > 0]
ReadFrom(read) ==
  ReadDone(Dropped(Compared([G |-> Calc(read.G, Modules), unsaved |-> 0])), read.warned)
ConfRead(G, file) ==
  IF file = Absent THEN Calc([G EXCEPT !.changed = TRUE], Modules)
  ELSE ReadFrom(ReadSimple([G EXCEPT !.changed = FALSE], file))

-----------------------------------------------------------------------------
(* The tree in the order in which it is written.                           *)

RECURSIVE Preorder(_), MenuVisible(_, _)
Preorder(k) == <<k>> \o FoldLeft(LAMBDA s, j : s \o Preorder(j), <<>>, tree.node[k].kids)
Written == Tail(Preorder(1))

PromptsAt(k) == {i \in DOMAIN tree.props : tree.props[i].node = k
                                           /\ tree.props[i].type \in Prompts}
NodeHasPrompt(k) == PromptsAt(k) # {}
NodePrompt(k) == Max(PromptsAt(k))

\* menu_is_visible.  A symbol that is shown for what is below it only counts
\* as set by the user from then on.
ShownBelow(r, s) == IF r[2] THEN <<[r[1] EXCEPT !.sym[s].user = TRUE], TRUE>> ELSE r
VisibleAs(G, k) ==
  LET s == tree.node[k].sym
      Kid(acc, j) == IF acc[2] THEN acc ELSE MenuVisible(acc[1], j)
  IN CASE G.shown[NodePrompt(k)] # 0 -> <<G, TRUE>>
       [] G.shown[NodePrompt(k)] = 0
          /\ (s = NoSym \/ (s \in DOMAIN G.sym /\ G.sym[s].tri = 0)) -> <<G, FALSE>>
       [] OTHER -> ShownBelow(FoldLeft(Kid, <<G, FALSE>>, tree.node[k].kids), s)
ShowNode(r, i) == [r[1] EXCEPT !.shown[i] = r[2]]
CalcNode(G, k) ==
  LET i == NodePrompt(k)
  IN IF tree.node[k].sym # NoSym THEN Calc(G, tree.node[k].sym)
     ELSE ShowNode(Eval(G, VisibleExpr(i)), i)
VisibleAround(r, k) ==
  IF r[2] = 0 THEN <<r[1], FALSE>> ELSE VisibleAs(CalcNode(r[1], k), k)
MenuVisible(G, k) ==
  IF ~NodeHasPrompt(k) THEN <<G, FALSE>>
  ELSE VisibleAround(Eval(G, tree.node[k].visibility), k)

SymbolLine(G, s) ==
  IF Type(s) \in Boolish /\ G.sym[s].tri = 0 THEN NotSet(s)
  ELSE [Line(s, StringValue(G, s)) EXCEPT !.quoted = Type(s) = "string"]

\* An entry that is to be written, once its symbol s was calculated.
PutLine(acc, G, s) ==
  [G |-> [G EXCEPT !.sym[s].write = FALSE], lines |-> Append(acc.lines, SymbolLine(G, s))]

\* Mutant: what is n is not written.
WriteSymbolSet(acc, G, s) ==
  IF ~G.sym[s].write \/ (Type(s) \in Boolish /\ G.sym[s].tri = 0)
  THEN [acc EXCEPT !.G = G] ELSE PutLine(acc, G, s)

\* A symbol is written where it is met first.
WriteSymbol(acc, G, s) ==
  IF ~G.sym[s].write THEN [acc EXCEPT !.G = G] ELSE PutLine(acc, G, s)

\* An entry of .config.
WriteEntry(acc, k) ==
  LET s == tree.node[k].sym
  IN CASE s = NoSym -> [acc EXCEPT !.G = MenuVisible(@, k)[1]]
       [] s \in ChoiceSyms -> acc
       [] OTHER -> WriteSymbol(acc, Calc(acc.G, s), s)

\* conf_write up to the closing of the file: the state and the lines.
WriteConf(G) ==
  FoldLeft(WriteEntry, [G |-> IF G.changed THEN G ELSE ClearAllValid(G), lines |-> <<>>],
           Written)

\* Mutant: the values of choices are not looked at.
MinimalLineNoChoice(acc, d, s) ==
  IF d[2] = StringValue(d[1], s) \/ ChoiceOf(s) # NoSym
  THEN [acc EXCEPT !.G = d[1]]
  ELSE [G |-> d[1], lines |-> Append(acc.lines, SymbolLine(d[1], s))]

\* The value of a choice that would be chosen anyway.
IsChoiceDefault(G, s) ==
  LET c == ChoiceOf(s)
  IN /\ c # NoSym /\ c \notin Optional
     /\ Type(s) = "bool" /\ G.sym[s].tri = 2
     /\ ChoiceDefault(G, c)[2] = s

\* What is not the default d.
MinimalLine(acc, d, s) ==
  IF d[2] = StringValue(d[1], s) \/ IsChoiceDefault(d[1], s)
  THEN [acc EXCEPT !.G = d[1]]
  ELSE [G |-> d[1], lines |-> Append(acc.lines, SymbolLine(d[1], s))]
MinimalSymbol(acc, G, s) ==
  LET cleared == [G EXCEPT !.sym[s].write = FALSE]
  IN CASE ~G.sym[s].write -> [acc EXCEPT !.G = G]
       [] G.sym[s].write /\ ~IsChangable(G, s) -> [acc EXCEPT !.G = cleared]
       [] OTHER -> MinimalLine(acc, StringDefault(cleared, s), s)

\* An entry of a defconfig: what can be changed and is not the default.
MinimalEntry(acc, k) ==
  LET s == tree.node[k].sym
  IN CASE s = NoSym -> [acc EXCEPT !.G = MenuVisible(@, k)[1]]
       [] s \in ChoiceSyms -> acc
       [] OTHER -> MinimalSymbol(acc, Calc(acc.G, s), s)

WriteDefconfig(G) ==
  FoldLeft(MinimalEntry, [G |-> ClearAllValid(G), lines |-> <<>>], Written)

-----------------------------------------------------------------------------
(* What the build reads: auto.conf, with the symbols that are not n.       *)

IsSet(G, s) == ~(Type(s) \in Boolish /\ G.sym[s].tri = 0)
AutoConf(G) ==
  LET written == {s \in Range(tree.order) \ ChoiceSyms : G.sym[s].write /\ IsSet(G, s)}
  IN Listed([s \in written |-> StringValue(G, s)])

TristateConf(G) ==
  LET conf == AutoConf(G)
  IN Listed([s \in {x \in DOMAIN conf : Type(x) = "tristate"} |-> conf[s]])

\* Mutant: symbols that are not there any more are left out.
SplitWritten(G, old) ==
  LET all == Range(tree.order) \ (ChoiceSyms \union Autos)
      Differs(s) == IF s \in DOMAIN old THEN old[s] # StringValue(G, s) ELSE IsSet(G, s)
  IN {s \in all : G.sym[s].write /\ Differs(s)}

\* The symbols whose files under include/config are touched, given the last
\* auto.conf: all that were set or are, with another value.  Names that are
\* no longer symbols count as set before.
Split(G, old) ==
  LET all == Range(tree.order) \ (ChoiceSyms \union Autos)
      Differs(s) == IF s \in DOMAIN old THEN old[s] # StringValue(G, s) ELSE IsSet(G, s)
  IN {s \in all : IF G.sym[s].write THEN Differs(s) ELSE s \in DOMAIN old}
     \union (DOMAIN old \ Range(tree.order))

-----------------------------------------------------------------------------
(* New symbols all at once (conf_set_all_new_symbols); rnd is what rand()  *)
(* gives.                                                                  *)

\* One of the values of a choice that is y, and no other.
RandomizeChoice(G, c, chosen) ==
  LET One(H, m) == [H EXCEPT !.sym[m].utri = IF m = chosen THEN 2 ELSE 0,
                             !.sym[m].user = TRUE, !.sym[m].valid = FALSE]
  IN IF G.sym[c].tri # 2 THEN [G |-> G, again |-> FALSE]
     ELSE [G |-> [FoldLeft(One, G, Members(c)) EXCEPT
                    !.sym[c].uval = chosen, !.sym[c].user = TRUE, !.sym[c].valid = FALSE],
           again |-> TRUE]

\* Symbols without a value get one.
IsNew(G, s) == ~HasValue(G, s) /\ ~G.sym[s].valid /\ Type(s) \in Boolish
NewValue(s, mode, rnd) == CASE mode = "yes" -> 2 [] mode = "mod" -> 1
                            [] mode = "no" -> IF s \in AllNoY THEN 2 ELSE 0
                            [] mode = "random" -> rnd[s]
SetNewValues(G, mode, rnd) ==
  [G EXCEPT !.sym = IF mode = "default" THEN @
     ELSE Listed([s \in DOMAIN @ |-> IF ~IsNew(G, s) THEN @[s]
            ELSE [@[s] EXCEPT !.utri = NewValue(s, mode, rnd),
                    !.user = ~(s \in ChoiceSyms /\ mode = "random")]])]

\* Choices without one, and the values of choices, are to be looked at.
MarkNeeded(G, mode) ==
  LET needed(s) == (s \in ChoiceSyms /\ ~HasValue(G, s)) \/ ChoiceOf(s) # NoSym
  IN [G EXCEPT !.sym = IF mode = "random" THEN @
        ELSE Listed([s \in DOMAIN @ |-> [@[s] EXCEPT !.need = @ \/ needed(s)]])]

SetNewChoice(G, c, mode, rnd) ==
  LET drawn == SelectSeq(Members(c), LAMBDA m : rnd[m] = 2)
  IN IF mode # "random" THEN [G |-> SetAllChoiceValues(G, c), again |-> TRUE]
     ELSE RandomizeChoice(G, c, Head(drawn \o Members(c)))
SetNewChoices(acc, mode, rnd) ==
  LET Each(a, c) == IF HasValue(a.G, c) \/ c \notin ChoiceSyms THEN a
                    ELSE SetNewChoice(Calc(a.G, c), c, mode, rnd)
  IN FoldLeft(Each, acc, tree.order)
SetAllNew(G, mode, rnd) ==
  SetNewChoices([G |-> MarkNeeded(ClearAllValid(SetNewValues(G, mode, rnd)), mode),
                 again |-> \E s \in DOMAIN G.sym : IsNew(G, s)], mode, rnd)
=============================================================================
