----------------------------- MODULE MCKTrees -------------------------------
(* Small trees: options, an int with ranges and a string; a choice with a   *)
(* default and what depends on its values; modules, with tristate options   *)
(* that select and imply, and a tristate choice; a tree before and after an *)
(* update; menus; a loop.                                                   *)
(* TLC computes a definition without parameters once, but not one that      *)
(* stands for a constant: those of the .cfg only name another.  It computes *)
(* those of a module after those of the modules it extends: this one is     *)
(* extended before KFront, where the trees are used.                        *)
EXTENDS KSymbol

AllTypeOf ==
  [s \in {"A", "B", "D", "G", "N", "S", "C", "P", "Q", "R", "MOD", "T", "U", "I", "X", "V", "W"} |->
     CASE s = "N" -> "int" [] s = "S" -> "string"
       [] s \in {"T", "U", "I", "X", "V"} -> "tristate" [] OTHER -> "bool"]
AllLexOrder == <<"", "1", "3", "5", "9", "m", "n", "y">>
AllNumeralOf == [x \in {"1", "3", "5", "9"} |->
  CASE x = "1" -> 1 [] x = "3" -> 3 [] x = "5" -> 5 [] OTHER -> 9]

Shown(cond) == [there |-> TRUE, type |-> "prompt", cond |-> cond]
Title == [there |-> TRUE, type |-> "menu", cond |-> None]
Hidden == [there |-> FALSE]
Opt(s, dep, prompt, props) ==
  [sym |-> s, dep |-> dep, prompt |-> prompt, props |-> props, visibility |-> None]
Sel(t, cond) == [type |-> "select", expr |-> Sym(t), cond |-> cond]
Imp(t, cond) == [type |-> "imply", expr |-> Sym(t), cond |-> cond]
Def(e, cond) == [type |-> "default", expr |-> e, cond |-> cond]
Rng(lo, hi, cond) == [type |-> "range", expr |-> <<"range", lo, hi>>, cond |-> cond]
E(x) == [what |-> "entry", x |-> x]
Begin(x) == [what |-> "block", x |-> x]
Fin == [what |-> "end"]
Finished(statements) ==
  LET One(M, st) == CASE st.what = "entry" -> ReadEntry(M, st.x)
                      [] st.what = "block" -> ReadBlock(M, st.x)
                      [] OTHER -> EndMenu(M)
  IN Finalize(FoldLeft(One, NewTree, statements), 1)

Options ==
  <<E(Opt("A", None, Shown(None), <<Sel("D", Sym("B"))>>)),
    E(Opt("B", None, Shown(None), <<Def(Yes, Not(Sym("A")))>>)),
    E(Opt("D", None, Shown(None), <<>>)),
    E(Opt("N", Sym("D"), Shown(None), <<Def(Sym("5"), None), Rng("3", "9", Sym("A")), Rng("1", "5", None)>>)),
    E(Opt("S", None, Shown(None), <<Def(Sym("y"), Sym("D")), Def(Sym("m"), None)>>)),
    E(Opt("G", None, Hidden, <<Def(Yes, And(Sym("A"), Comp("=", "N", "5")))>>))>>
ChoiceTree ==
  <<E(Opt("A", None, Shown(None), <<>>)),
    Begin(Opt("C", None, Shown(None), <<Def(Sym("R"), Sym("A"))>>)),
    E(Opt("P", None, Shown(None), <<>>)),
    E(Opt("Q", None, Shown(None), <<Sel("D", None)>>)),
    E(Opt("R", Sym("A"), Shown(None), <<>>)),
    Fin,
    E(Opt("B", Sym("P"), Shown(None), <<>>)),
    E(Opt("D", None, Shown(None), <<Def(Sym("R"), None)>>))>>
Tristates ==
  <<E(Opt("MOD", None, Shown(None), <<>>)),
    E(Opt("U", None, Shown(None), <<Sel("T", None)>>)),
    E(Opt("T", None, Shown(None), <<>>)),
    E(Opt("I", None, Shown(Sym("T")), <<Imp("B", None)>>)),
    E(Opt("B", None, Shown(None), <<>>)),
    Begin(Opt("X", Sym("T"), Shown(None), <<>>)),
    E(Opt("V", None, Shown(None), <<>>)),
    E(Opt("W", None, Shown(None), <<>>)),
    Fin>>
\* B is gone after an update, and D selects A.
Before == <<E(Opt("A", None, Shown(None), <<>>)),
            E(Opt("B", Sym("A"), Shown(None), <<Def(Yes, None)>>)),
            E(Opt("S", Sym("B"), Shown(None), <<Def(Sym("y"), None)>>))>>
After == <<E(Opt("A", None, Shown(None), <<>>)),
           E(Opt("D", None, Shown(None), <<Sel("A", None)>>)),
           E(Opt("S", Sym("A"), Shown(None), <<Def(Sym("m"), Sym("D"))>>))>>
\* A menu, and an option that is one.
Pages == <<Begin(Opt(NoSym, None, Title, <<>>)), E(Opt("A", None, Shown(None), <<>>)), Fin,
           E(Opt("D", Sym("A"), Title, <<>>)),
           E(Opt("B", Sym("D"), Shown(None), <<Sel("A", None)>>))>>
\* Each is the opposite of the other.
Loop == <<E(Opt("A", None, Shown(Not(Sym("B"))), <<Def(Yes, None)>>)),
          E(Opt("B", Not(Sym("A")), Shown(None), <<Def(Yes, None)>>))>>

Files == [options |-> Options, choices |-> ChoiceTree, tristates |-> Tristates,
          before |-> Before, after |-> After, pages |-> Pages, loop |-> Loop]
AllTrees == {Parsed(name, Finished(Files[name])) : name \in DOMAIN Files}

MCTrees == AllTrees
MCTypeOf == AllTypeOf
MCLexOrder == AllLexOrder
MCNumeralOf == AllNumeralOf
=============================================================================
