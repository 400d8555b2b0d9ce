------------------------------ MODULE MCKMenu -------------------------------
(* Files of up to four entries: options that depend on the one before,      *)
(* select another or have no prompt, in menus, ifs and a choice; and files  *)
(* with one entry under any condition with up to three operands, after or   *)
(* inside of another.  Or pages of up to three rows that are searched.  Or   *)
(* dialogs of up to four rows, items, letters or lines.                      *)
EXTENDS KMenu, KSearch, KDialog

MCTypeOf == [A |-> "bool", B |-> "bool", D |-> "bool", C |-> "tristate",
             T |-> "tristate", U |-> "tristate", N |-> "int"]
MCLexOrder == <<"10", "9", "m", "n", "y">>
MCNumeralOf == [x \in {"10", "9"} |-> IF x = "10" THEN 10 ELSE 9]
A == Sym("A")
B == Sym("B")
T == Sym("T")
Shown(type, cond) == [there |-> TRUE, type |-> type, cond |-> cond]
Hidden == [there |-> FALSE]
Opt(s, dep, prompt, props) ==
  [sym |-> s, dep |-> dep, prompt |-> prompt, props |-> props, size |-> 1]
Sel(t, cond) == [type |-> "select", expr |-> Sym(t), cond |-> cond]

\* Conditions of one operand to three.
Atoms == {A, T, Not(A), Not(T), Comp("=", "T", "m"), Comp("!=", "T", "n"),
          Comp("!=", "T", "y"), Comp("!=", "T", "m"), Comp("=", "A", "n")}
FewAtoms == {A, T, Yes, Comp("!=", "T", "n"), Comp("<", "N", "10")}
Joins(S, R) == UNION {{And(a, b), Or(a, b)} : a \in S, b \in R}
Conditions ==
  LET two == Joins(FewAtoms \ {Yes, A}, FewAtoms \ {Yes})
  IN Atoms \union {Not(e) : e \in Atoms \union two}
     \union Joins(Atoms, Atoms \ {A, Not(A)}) \union Joins(FewAtoms, {Yes})
     \union Joins(two, {T, Comp("!=", "T", "n")}) \union Joins({T}, two)

MCEntries ==
  {Opt("A", None, Shown("prompt", None), <<>>),
   Opt("B", A, Shown("prompt", None), <<Sel("D", Comp("=", "A", "y"))>>),
   Opt("D", Or(A, B), Shown("prompt", None), <<>>),
   Opt("D", B, Hidden, <<Sel("A", None)>>),
   Opt("B", None, Shown("prompt", Or(Mod, A)), <<Sel("D", None)>>),
   Opt("D", Comp("=", "B", "n"), Shown("prompt", None), <<>>)}
  \union
  {[Opt("U", e, Shown("prompt", None), <<>>) EXCEPT !.size = 3] : e \in Conditions}
Block(s, dep, visibility, prompt) ==
  [sym |-> s, dep |-> dep, visibility |-> visibility, prompt |-> prompt, props |-> <<>>]
MCBlocks ==
  {Block(NoSym, A, B, Shown("menu", None)),
   Block(NoSym, B, None, Hidden),
   Block("C", A, None, Shown("prompt", None))}

MCVals == {[A |-> a, B |-> b, D |-> "n", C |-> ct[1], T |-> ct[2], U |-> "n", N |-> "9"] :
             a \in {"n", "y"}, b \in {"n", "y"},
             ct \in {<<"n", "y">>, <<"m", "y">>, <<"y", "m">>, <<"y", "n">>}}

\* Either files are read, or something is searched for, or a dialog is shown.
MCInit == Init /\ SearchInit /\ DialogInit
Unread == read = NewTree /\ phase = "reading"
NoSearch == page.rows = <<>> /\ found = <<>>
Reads == NoSearch /\ dlg = Closed /\ Next /\ UNCHANGED <<searchVars, dlg>>
Searches == Unread /\ dlg = Closed /\ SearchNext /\ UNCHANGED <<vars, dlg>>
Shows == Unread /\ NoSearch /\ DialogNext /\ UNCHANGED <<vars, searchVars>>
MCNext == Reads \/ Searches \/ Shows
MCSpec == MCInit /\ [][MCNext]_<<vars, searchVars, dlg>>
=============================================================================
