------------------------------ MODULE KSymbol -------------------------------
(***************************************************************************)
(* Values of symbols (symbol.c): they are calculated when they are asked   *)
(* for, each from the expressions of its properties, and kept until        *)
(* sym_clear_all_valid.                                                    *)
(*                                                                         *)
(* A calculation changes the state G of the process that it is handed and  *)
(* returns it; with a result, it returns <<G, result>>.  Warnings and the  *)
(* flag that an entry changed since it was drawn are left out.             *)
(***************************************************************************)
EXTENDS KTree, TLC

CONSTANTS
  Autos,    \* symbols that are never written: values of the environment
  Decimals, \* texts of an int, with their number
  Hexes,    \* texts of a hex
  Prefixed  \* those of them that begin with 0x

VARIABLE tree \* what conf_parse made of the Config.in files (Parsed)

\* f itself; TLC computes its values once, not at every application.
Listed(f) == f @@ <<>>

-----------------------------------------------------------------------------
(* The property lists of a finalized tree by symbol, prompts under one     *)
(* name; the choice that a symbol is a value of; the order of all symbols. *)

Index(T) ==
  LET Defined(seen, x) ==
        IF x.sym = NoSym \/ Contains(seen, x.sym) THEN seen ELSE Append(seen, x.sym)
      order == FoldLeft(Defined, <<>>, T.node)
      OfSym(s, types) ==
        SetToSortSeq({i \in DOMAIN T.props : T.props[i].sym = s
                                            /\ T.props[i].type \in types}, <)
      choices == [s \in Range(order) |-> {c \in ChoiceSyms : Contains(T.members[c], s)}]
  IN [node |-> Listed(T.node), props |-> Listed(T.props), rev |-> Listed(T.rev),
      implied |-> Listed(T.implied), dir |-> Listed(T.dir),
      members |-> Listed(T.members), order |-> order,
      prompts |-> Listed([s \in Range(order) |-> OfSym(s, Prompts)]),
      defaults |-> Listed([s \in Range(order) |-> OfSym(s, {"default"})]),
      ranges |-> Listed([s \in Range(order) |-> OfSym(s, {"range"})]),
      checked |-> Listed([s \in Range(order) |-> OfSym(s, Prompts \union {"default", "range", "imply"})]),
      choice |-> Listed([s \in Range(order) |->
        IF choices[s] = {} THEN NoSym ELSE CHOOSE c \in choices[s] : TRUE])]

ChoiceOf(s) == tree.choice[s]
Members(c) == tree.members[c]
VisibleExpr(i) == tree.props[i].visible

Boolish == {"bool", "tristate"}
NoText == ""

\* After conf_parse: nothing is calculated, and the configuration counts as
\* changed.  val and tri are curr, uval and utri the value of the user.
Fresh ==
  [modval |-> 0, changed |-> TRUE,
   shown |-> Listed([i \in DOMAIN tree.props |-> 0]),
   sym |-> Listed([s \in Range(tree.order) |->
     [valid |-> FALSE, write |-> FALSE, user |-> FALSE, need |-> FALSE,
      vis |-> 0, dir |-> 0, rev |-> 0, imp |-> 0,
      val |-> NoText, tri |-> 0, uval |-> NoSym, utri |-> 0]])]

GetType(G, s) ==
  IF /\ Type(s) = "tristate"
     /\ (ChoiceOf(s) # NoSym /\ G.sym[s].vis = 2) \/ G.modval = 0
  THEN "bool" ELSE Type(s)

\* The string value.  (Where there are no modules, no value is m.)
StringValue(G, s) ==
  IF Type(s) \in Boolish THEN TriName(G.sym[s].tri) ELSE G.sym[s].val
Strings(G) == [s \in DOMAIN G.sym |-> StringValue(G, s)]

-----------------------------------------------------------------------------
(* Calculation.                                                            *)

RECURSIVE Calc(_, _), SymbolsIn(_), FirstVisible(_, _)

SymbolsIn(e) ==
  CASE e = None -> <<>>
    [] IsSym(e) -> <<e[2]>>
    [] e[1] = "not" -> SymbolsIn(e[2])
    [] IsJoin(e) -> SymbolsIn(e[2]) \o SymbolsIn(e[3])
    [] OTHER -> <<e[2], e[3]>>

\* expr_calc_value: the symbols are calculated on the way.
Result(G, e) == <<G, Value(e, Strings(G))>>
Eval(G, e) == Result(FoldLeft(Calc, G, SymbolsIn(e)), e)

\* The first of the properties is whose condition is not n, with its value.
IfVisible(r, is) ==
  IF r[2] # 0 THEN <<r[1], is[1], r[2]>> ELSE FirstVisible(r[1], Tail(is))
FirstVisible(G, is) ==
  IF is = <<>> THEN <<G, 0, 0>> ELSE IfVisible(Eval(G, VisibleExpr(is[1])), is)

DefaultProp(G, s) == FirstVisible(G, tree.defaults[s])

\* A tristate value of a choice that is y is not visible when it may only be
\* m.
ShowPrompt(r, s, i) ==
  LET c == ChoiceOf(s)
      hidden == /\ c # NoSym /\ Type(s) = "tristate" /\ r[2] = 1
                /\ r[1].sym[c].tri = 2
  IN [r[1] EXCEPT !.shown[i] = IF hidden THEN 0 ELSE r[2]]
CalcPrompts(G, s) ==
  FoldLeft(LAMBDA H, i : ShowPrompt(Eval(H, VisibleExpr(i)), s, i), G, tree.prompts[s])
SetVisible(G, s, tri) ==
  LET full == tri = 1 /\ (Type(s) # "tristate" \/ G.modval = 0)
  IN [G EXCEPT !.sym[s].vis = IF full THEN 2 ELSE tri]
ShownPrompts(G, s) ==
  SetVisible(G, s, FoldLeft(LAMBDA tri, i : Max2(tri, G.shown[i]), 0, tree.prompts[s]))

\* Then what it depends on, what selects it, and what implies it.
DepExpr(G, s, field) ==
  CASE field = "dir" -> tree.dir[s]
    [] field = "rev" -> tree.rev[s]
    [] field = "imp" -> IF G.sym[s].dir # 0 THEN tree.implied[s] ELSE None
NoDep(field) == IF field = "dir" THEN 2 ELSE 0
SetDep(r, s, field) ==
  [r[1] EXCEPT !.sym[s][field] =
     IF r[2] = 1 /\ GetType(r[1], s) = "bool" THEN 2 ELSE r[2]]
CalcDep(G, s, field) ==
  SetDep(IF DepExpr(G, s, field) = None THEN <<G, NoDep(field)>>
         ELSE Eval(G, DepExpr(G, s, field)), s, field)

CalcVisibility(G, s) ==
  FoldLeft(LAMBDA H, field : CalcDep(H, s, field), ShownPrompts(CalcPrompts(G, s), s),
           IF ChoiceOf(s) # NoSym THEN <<>> ELSE <<"dir", "rev", "imp">>)

\* The default of a choice, else its first visible value, else none.
DefaultMember(r, m) ==
  <<r[1], IF r[2] # 0 /\ r[1].sym[m].vis # 0 THEN m ELSE NoSym>>
DefaultMembers(G, c) ==
  FoldLeft(LAMBDA acc, i : IF acc[2] # NoSym THEN acc
             ELSE DefaultMember(Eval(acc[1], VisibleExpr(i)), tree.props[i].expr[2]),
           <<G, NoSym>>, tree.defaults[c])
OrFirst(d, visible) == IF d[2] # NoSym \/ visible = <<>> THEN d ELSE <<d[1], visible[1]>>
OrFirstVisible(d, c) ==
  OrFirst(d, SelectSeq(Members(c), LAMBDA m : d[1].sym[m].vis # 0))
ChoiceDefault(G, c) == OrFirstVisible(DefaultMembers(G, c), c)

\* Which value a choice that is y takes.  It is new as long as one of the
\* visible ones is.
SetChosen(d, c) ==
  IF d[2] = NoSym THEN [d[1] EXCEPT !.sym[c].val = NoText, !.sym[c].tri = 0]
  ELSE [d[1] EXCEPT !.sym[c].val = d[2]]
ChooseVisible(G, c) ==
  LET visible == {m \in Range(Members(c)) : G.sym[m].vis # 0}
      H == [G EXCEPT !.sym[c].user = @ /\ \A m \in visible : G.sym[m].user]
  IN IF H.sym[c].uval \in visible THEN [H EXCEPT !.sym[c].val = H.sym[c].uval]
     ELSE SetChosen(ChoiceDefault(H, c), c)
CalcChoice(G, c) == ChooseVisible(FoldLeft(CalcVisibility, G, Members(c)), c)

\* The value of the default that was found, up to that of its condition.
Capped(v, cond) == <<v[1], Min2(v[2], cond)>>
EvalDefault(d) ==
  IF d[2] = 0 THEN <<d[1], 0>> ELSE Capped(Eval(d[1], tree.props[d[2]].expr), d[3])

\* The tristate of a symbol that is neither chosen nor set by the user.
SetDefault(v, s) ==
  LET x == v[1].sym[s]
      implied == IF s \in ChoiceSyms THEN 0 ELSE x.imp
  IN [v[1] EXCEPT !.sym[s].tri = Max2(Max2(v[2], implied), x.rev),
        !.sym[s].write = @ \/ x.rev # 0 \/ v[2] # 0 \/ implied # 0]
CalcDefault(G, s) ==
  SetDefault(EvalDefault(IF s \in ChoiceSyms THEN <<G, 0, 0>> ELSE DefaultProp(G, s)), s)

\* Mutant: what the user says counts more than what selects the symbol.
UserTristateOnly(x) == Min2(x.utri, x.vis)

UserTristate(x) == Max2(Min2(x.utri, x.vis), x.rev)

ValueTristate(G, s) ==
  LET x == G.sym[s]
      c == ChoiceOf(s)
      member == c # NoSym /\ x.vis = 2
  IN CASE member -> [G EXCEPT !.sym[s].tri = IF G.sym[c].val = s THEN 2 ELSE 0]
       [] ~member /\ x.vis # 0 /\ x.user -> [G EXCEPT !.sym[s].tri = UserTristate(x)]
       [] OTHER -> CalcDefault(G, s)
Promote(G, s) ==
  LET up == G.sym[s].tri = 1 /\ (GetType(G, s) = "bool" \/ G.sym[s].imp = 2)
  IN [G EXCEPT !.sym[s].tri = IF up THEN 2 ELSE @]
CalcTristate(G, s) == Promote(ValueTristate(G, s), s)

\* A symbol t or a constant as the value of s.
TextIn(G, t) == IF t \in DOMAIN G.sym THEN StringValue(G, t) ELSE t
CopyText(G, s, t) == [G EXCEPT !.sym[s].val = TextIn(G, t)]
DefaultText(d, s) ==
  LET t == tree.props[d[2]].expr[2]
  IN IF d[2] = 0 THEN d[1] ELSE CopyText(Calc([d[1] EXCEPT !.sym[s].write = TRUE], t), s, t)
CalcString(G, s) ==
  IF G.sym[s].vis # 0 /\ G.sym[s].user THEN [G EXCEPT !.sym[s].val = G.sym[s].uval]
  ELSE DefaultText(DefaultProp(G, s), s)

\* Numbers and ranges.
NumberOf(type, text) ==
  LET texts == IF type = "int" THEN Decimals ELSE Hexes
  IN IF text \in DOMAIN texts THEN texts[text] ELSE 0
TextOf(type, n) ==
  IF type = "int" THEN CHOOSE x \in DOMAIN Decimals : Decimals[x] = n
  ELSE CHOOSE x \in Prefixed : Hexes[x] = n

\* The number at one end of the range property i.
NumberIn(G, s, t) ==
  <<G, NumberOf(Type(s), IF t \in DOMAIN G.sym THEN G.sym[t].val ELSE t)>>
RangeEnd(G, s, t) == NumberIn(Calc(G, t), s, t)
RangeValue(G, s, i, end) == RangeEnd(G, s, tree.props[i].expr[end])

\* The number in the range p of s that is next to n.
AtMost(hi, n) == <<hi[1], Min2(hi[2], n)>>
AtLeast(lo, s, i, n) ==
  IF n < lo[2] THEN lo ELSE AtMost(RangeValue(lo[1], s, i, 3), n)
InRange(p, s, n) ==
  IF p[2] = 0 THEN <<p[1], n>> ELSE AtLeast(RangeValue(p[1], s, p[2], 2), s, p[2], n)
Nearest(G, s, n) == InRange(FirstVisible(G, tree.ranges[s]), s, n)

Put(r, s, n) ==
  IF r[2] = n THEN r[1] ELSE [r[1] EXCEPT !.sym[s].val = TextOf(Type(s), r[2])]
ValidateRange(G, s) ==
  LET n == NumberOf(Type(s), G.sym[s].val)
  IN IF Type(s) \in {"int", "hex"} THEN Put(Nearest(G, s, n), s, n) ELSE G

\* Choice values that were not assigned are n (set_all_choice_values).
SetAllChoiceValues(G, c) ==
  LET Unset(H, m) == IF H.sym[m].user THEN H ELSE [H EXCEPT !.sym[m].utri = 0]
  IN [FoldLeft(Unset, G, Members(c)) EXCEPT !.sym[c].user = TRUE,
        !.sym[c].valid = FALSE, !.sym[c].need = FALSE]

\* The values of a choice that is written are, where they are visible.
WriteMembers(G, c) ==
  FoldLeft(LAMBDA H, m : [H EXCEPT !.sym[m].write =
                            @ \/ (H.sym[c].write /\ H.sym[m].vis # 0)], G, Members(c))

\* sym_calc_value.  The choice of a value that was just set comes first; the
\* symbol has no value for those who ask for it in between.
CalcBefore(G, s) ==
  IF ChoiceOf(s) # NoSym /\ G.sym[s].need
  THEN Calc([G EXCEPT !.sym[s].need = FALSE], ChoiceOf(s)) ELSE G
Begun(G, s) == [G EXCEPT !.sym[s].valid = TRUE, !.sym[s].write = FALSE]
NoValue(G, s) == [G EXCEPT !.sym[s].write = @ \/ G.sym[s].vis # 0,
                           !.sym[s].val = NoText, !.sym[s].tri = 0]
CalcType(G, s) == IF Type(s) \in Boolish THEN CalcTristate(G, s) ELSE CalcString(G, s)
CalcChosen(G, s) ==
  IF s \in ChoiceSyms /\ G.sym[s].tri = 2 THEN CalcChoice(G, s) ELSE G
Switch(G, s) == IF s = Modules THEN [G EXCEPT !.modval = G.sym[s].tri] ELSE G
MarkMembers(G, s) == IF s \in ChoiceSyms THEN WriteMembers(G, s) ELSE G
NeverWritten(G, s) == [G EXCEPT !.sym[s].write = @ /\ s \notin Autos]
Needed(G, s) == IF G.sym[s].need THEN SetAllChoiceValues(G, s) ELSE G
Finish(G, s) == Needed(NeverWritten(MarkMembers(G, s), s), s)

MakeVisible(G, s) == NoValue(CalcVisibility(Begun(CalcBefore(G, s), s), s), s)
MakeValue(G, s) == Switch(ValidateRange(CalcChosen(CalcType(G, s), s), s), s)
CalcSym(G, s) == Finish(MakeValue(MakeVisible(G, s), s), s)
Calc(G, s) ==
  IF s \notin DOMAIN G.sym THEN G ELSE IF G.sym[s].valid THEN G ELSE CalcSym(G, s)

CalcAll(G) == FoldLeft(Calc, G, tree.order)

Invalidated(G) ==
  [G EXCEPT !.sym = Listed([s \in DOMAIN @ |-> [@[s] EXCEPT !.valid = FALSE]])]
ClearAllValid(G) == Calc([Invalidated(G) EXCEPT !.changed = TRUE], Modules)

-----------------------------------------------------------------------------
(* Setting values.                                                         *)

IsChangable(G, s) == G.sym[s].vis > G.sym[s].rev

\* Mutant: more than is visible is accepted.
TristateAbove(G, s, val) ==
  LET x == G.sym[s]
      type == GetType(G, s)
  IN /\ x.vis # 0 /\ type \in Boolish
     /\ ~(type = "bool" /\ val = 1)
     /\ x.vis > x.rev
     /\ ~(x.imp = 2 /\ val = 1)
     /\ IF ChoiceOf(s) # NoSym /\ x.vis = 2 THEN val = 2
        ELSE val >= x.rev

TristateWithinRange(G, s, val) ==
  LET x == G.sym[s]
      type == GetType(G, s)
  IN /\ x.vis # 0 /\ type \in Boolish
     /\ ~(type = "bool" /\ val = 1)
     /\ x.vis > x.rev
     /\ ~(x.imp = 2 /\ val = 1)
     /\ IF ChoiceOf(s) # NoSym /\ x.vis = 2 THEN val = 2
        ELSE val >= x.rev /\ val <= x.vis

\* Choosing one value sets all that are visible.
Assign(G, s, val) ==
  LET c == ChoiceOf(s)
      set == [G EXCEPT !.sym[s].user = TRUE, !.sym[s].utri = val]
      Mark(H, m) == [H EXCEPT !.sym[m].user = @ \/ H.sym[m].vis # 0]
  IN IF c = NoSym \/ val # 2 THEN set
     ELSE FoldLeft(Mark, [set EXCEPT !.sym[c].uval = s, !.sym[c].user = TRUE],
                   Members(c))

\* Mutant: what depends on the symbol keeps the values it had.
SetTristateKeeps(G, s, val) ==
  LET old == G.sym[s].tri
  IN CASE old = val -> <<Assign(G, s, val), TRUE>>
       [] old # val /\ TristateWithinRange(G, s, val) ->
            <<[Assign(G, s, val) EXCEPT !.sym[s].valid = FALSE, !.changed = TRUE], TRUE>>
       [] OTHER -> <<G, FALSE>>

\* Mutant: the configuration does not count as changed.
SetTristateQuiet(G, s, val) ==
  LET old == G.sym[s].tri
  IN CASE old = val -> <<Assign(G, s, val), TRUE>>
       [] old # val /\ TristateWithinRange(G, s, val) ->
            <<[ClearAllValid(Assign(G, s, val)) EXCEPT !.changed = G.changed], TRUE>>
       [] OTHER -> <<G, FALSE>>

SetTristate(G, s, val) ==
  LET old == G.sym[s].tri
  IN CASE old = val -> <<Assign(G, s, val), TRUE>>
       [] old # val /\ TristateWithinRange(G, s, val) ->
            <<ClearAllValid(Assign(G, s, val)), TRUE>>
       [] OTHER -> <<G, FALSE>>

\* n, m, y and n again, up to the first that is accepted.
ToggleTristate(G, s) ==
  LET Step(acc, val) == IF acc[2] THEN acc ELSE SetTristate(acc[1], s, val)
      old == G.sym[s].tri
  IN FoldLeft(Step, <<G, FALSE>>, <<(old + 1) % 3, (old + 2) % 3, old>>)[1]

StringValid(s, text) ==
  CASE Type(s) = "int" -> text \in DOMAIN Decimals
    [] Type(s) = "hex" -> text \in DOMAIN Hexes
    [] OTHER -> TRUE

Accepted(r, n) == <<r[1], r[2] = n>>
StringWithinRange(G, s, text) ==
  LET n == NumberOf(Type(s), text)
  IN CASE ~StringValid(s, text) -> <<G, FALSE>>
       [] StringValid(s, text) /\ Type(s) = "string" -> <<G, TRUE>>
       [] OTHER -> Accepted(Nearest(G, s, n), n)

\* The text of a hex gets its 0x.
SetAccepted(r, s, text) ==
  LET bare == Type(s) = "hex" /\ text \notin Prefixed
      new == IF bare THEN TextOf("hex", Hexes[text]) ELSE text
      same == ~bare /\ r[1].sym[s].uval = new
      set == [r[1] EXCEPT !.sym[s].user = TRUE, !.sym[s].uval = new]
  IN IF ~r[2] THEN r ELSE <<IF same THEN set ELSE ClearAllValid(set), TRUE>>
SetString(G, s, text) == SetAccepted(StringWithinRange(G, s, text), s, text)

\* The value a symbol has without the user.
TristateDefault(v, s) ==
  LET x == v[1].sym[s]
      selected == Max2(v[2], x.rev)
      modules == IF Modules \in DOMAIN v[1].sym THEN v[1].sym[Modules].tri ELSE 0
      full == Type(s) = "bool" \/ (ChoiceOf(s) = NoSym /\ modules = 0)
  IN <<v[1], TriName(Max2(IF selected = 1 /\ full THEN 2 ELSE selected, x.imp))>>
WithText(G, t) == <<G, TextIn(G, t)>>
DefaultOf(d, s) ==
  LET t == tree.props[d[2]].expr[2]
  IN CASE Type(s) \in Boolish -> TristateDefault(EvalDefault(d), s)
       [] Type(s) \notin Boolish /\ d[2] = 0 -> <<d[1], NoText>>
       [] OTHER -> WithText(Calc(d[1], t), t)
StringDefault(G, s) == DefaultOf(DefaultProp(Calc(CalcVisibility(G, s), Modules), s), s)

-----------------------------------------------------------------------------
(* Recursive dependencies.  Being checked and having been checked are the  *)
(* flags of the symbols; found is the first that is met again.             *)

RECURSIVE CheckDeps(_, _, _)

NoneFound == [check |-> {}, checked |-> {}, found |-> NoSym, reported |-> FALSE]

CheckExpr(T, K, e) ==
  FoldLeft(LAMBDA L, s : CheckDeps(T, L, s), K, SymbolsIn(e))

\* The reverse dependencies, the conditions of the properties but selects,
\* and the defaults but of a choice.
CheckSym(T, K, s) ==
  LET Prop(L, i) ==
        LET p == T.props[i]
            C == CheckExpr(T, L, p.visible)
        IN IF p.type = "default" /\ s \notin ChoiceSyms
           THEN CheckExpr(T, C, p.expr) ELSE C
  IN FoldLeft(Prop, CheckExpr(T, K, T.rev[s]), T.checked[s])

CheckChoice(T, K, c) ==
  LET ms == Range(T.members[c])
      begun == [K EXCEPT !.check = @ \union ms \union {c},
                         !.checked = @ \union ms \union {c}]
      own == [CheckSym(T, begun, c) EXCEPT !.check = @ \ {c}]
      all == FoldLeft(LAMBDA L, m : CheckSym(T, L, m), own, T.members[c])
  IN [all EXCEPT !.check = @ \ ms, !.found = IF @ \in ms THEN c ELSE @]

\* Once a loop is found, nothing more is checked on the way back to the
\* symbol that closes it; there it is forgotten, and only its report remains.
CheckDeps(T, K, s) ==
  LET Back(L) == [L EXCEPT !.found = IF @ = s THEN NoSym ELSE @]
      begun == [K EXCEPT !.check = @ \union {s}, !.checked = @ \union {s}]
  IN CASE K.found # NoSym \/ s \notin DOMAIN T.choice -> K
       [] K.found = NoSym /\ s \in K.check ->
            [K EXCEPT !.found = s, !.reported = TRUE]
       [] K.found = NoSym /\ s \in K.checked \ K.check -> K
       [] OTHER ->
            Back(CASE T.choice[s] # NoSym -> CheckDeps(T, K, T.choice[s])
                   [] s \in ChoiceSyms -> CheckChoice(T, K, s)
                   [] OTHER -> [CheckSym(T, begun, s) EXCEPT !.check = @ \ {s}])

\* conf_parse, over all symbols.
LoopReported(T) ==
  FoldLeft(LAMBDA K, s : CheckDeps(T, K, s), NoneFound, T.order).reported

\* What the programs work on: the finalized tree of the Config.in files name.
Checked(name, I) == I @@ [name |-> name, loop |-> LoopReported(I)]
Parsed(name, T) == Checked(name, Index(T))
=============================================================================
