------------------------------- MODULE KTree --------------------------------
(***************************************************************************)
(* The menu tree of kconfig (menu.c): the grammar (zconf.y) calls menu_add *)
(* operations as it reads the Config.in files, and menu_finalize hands the *)
(* conditions of menus down to what they contain, collects the reverse     *)
(* dependencies and makes submenus of what depends on the entry before it. *)
(*                                                                         *)
(* A linked list of entries is the sequence kids of the entry above it.    *)
(* Types are those of TypeOf: every choice value of Buildroot has one.     *)
(***************************************************************************)
EXTENDS KExpr

CONSTANTS
  Modules,    \* the symbol with "option modules"; "n" if there is none
  Optional,   \* symbols that may be n when they are visible: all but choices
  ChoiceSyms  \* the symbols of choices

NoSym == "none"
Prompts == {"prompt", "menu", "comment"}

-----------------------------------------------------------------------------
(* Reading.                                                                *)

\* The root has the prompt of the main menu.  rev, implied and dir are the
\* rev_dep, implied and dir_dep of the symbols; members are choice values.
NewTree ==
  [node |-> <<[sym |-> NoSym, up |-> 0, kids |-> <<>>, dep |-> None,
               visibility |-> None]>>,
   props |-> <<[type |-> "menu", node |-> 1, sym |-> NoSym, expr |-> None,
                visible |-> None]>>,
   cur |-> 1,
   rev |-> [s \in DOMAIN TypeOf |-> None],
   implied |-> [s \in DOMAIN TypeOf |-> None],
   dir |-> [s \in DOMAIN TypeOf |-> None],
   members |-> [s \in DOMAIN TypeOf |-> <<>>]]

AddEntry(T, s) ==
  [T EXCEPT !.node = Append([@ EXCEPT ![T.cur].kids = Append(@, Len(T.node) + 1)],
     [sym |-> s, up |-> T.cur, kids |-> <<>>, dep |-> None, visibility |-> None])]

AddMenu(T) == [T EXCEPT !.cur = Len(T.node)]
EndMenu(T) == [T EXCEPT !.cur = T.node[T.cur].up]
AddDep(T, e) == [T EXCEPT !.node[Len(T.node)].dep = AllocAnd(@, e)]
AddVisibility(T, e) == [T EXCEPT !.node[Len(T.node)].visibility = AllocAnd(@, e)]

\* The visibilities of the menus around the entry k go to its prompts.
RECURSIVE WithVisibility(_, _, _)
WithVisibility(T, k, e) ==
  IF k = 0 THEN e
  ELSE WithVisibility(T, T.node[k].up, AllocAnd(e, T.node[k].visibility))

AddProp(T, type, expr, dep) ==
  LET k == Len(T.node)
      visible == IF type = "prompt" THEN WithVisibility(T, T.node[k].up, dep) ELSE dep
  IN [T EXCEPT !.props = Append(@, [type |-> type, node |-> k,
        sym |-> T.node[k].sym, expr |-> expr, visible |-> visible])]

PropsOf(T, k) == {i \in DOMAIN T.props : T.props[i].node = k}
InOrder(T, k) == SelectSeq([i \in DOMAIN T.props |-> i],
                            LAMBDA i : T.props[i].node = k)
PromptsOf(T, k) == {i \in PropsOf(T, k) : T.props[i].type \in Prompts}
HasPrompt(T, k) == PromptsOf(T, k) # {}
Prompt(T, k) == T.props[Max(PromptsOf(T, k))]

\* A config or comment statement with its options.
ReadEntry(T, x) ==
  LET entry == AddDep(AddEntry(T, x.sym), x.dep)
      prompted == IF x.prompt.there
                  THEN AddProp(entry, x.prompt.type, None, x.prompt.cond) ELSE entry
  IN FoldLeft(LAMBDA U, p : AddProp(U, p.type, p.expr, p.cond), prompted, x.props)

\* The head of a menu, an if or a choice.
ReadBlock(T, b) ==
  AddMenu(AddVisibility(ReadEntry(T, b), b.visibility))

-----------------------------------------------------------------------------
(* Finalizing.                                                             *)

IsChoice(s) == s \in ChoiceSyms

RECURSIVE RewriteM(_)
RewriteM(e) ==
  CASE e[1] = "not" -> Not(RewriteM(e[2]))
    [] IsJoin(e) -> <<e[1], RewriteM(e[2]), RewriteM(e[3])>>
    [] e = Mod -> And(e, Sym(Modules))
    [] OTHER -> e

\* Mutant: a choice hands down the condition of its prompt.
ParentPrompt(T, p) ==
  IF HasPrompt(T, p) THEN Prompt(T, p).visible ELSE T.node[p].dep

\* The condition that the entry p hands down.
ParentDep(T, p) ==
  CASE IsChoice(T.node[p].sym) -> Sym(T.node[p].sym)
    [] ~IsChoice(T.node[p].sym) /\ HasPrompt(T, p) -> Prompt(T, p).visible
    [] OTHER -> T.node[p].dep

Below(base, e) == EliminateDups(AllocAnd(base, Transform(RewriteM(e))))

\* Mutant: a later select replaces an earlier one.
ReplaceReverse(old, p, s, cond) ==
  [old EXCEPT ![p.expr[2]] = AllocAnd(Sym(s), cond)]

\* A select or imply becomes a reverse dependency of its symbol.
AddReverse(old, p, s, cond) ==
  LET t == p.expr[2]
  IN [old EXCEPT ![t] = AllocOr(@, AllocAnd(Sym(s), cond))]

\* The condition of the property i of the entry k, which has its own by now.
ForType(s, e) == IF s # NoSym /\ Type(s) # "tristate" THEN TransBool(e) ELSE e
WithCondition(T, i, cond) ==
  LET p == T.props[i]
  IN [T EXCEPT !.props[i].visible = cond,
        !.rev = IF p.type = "select" THEN AddReverse(@, p, p.sym, cond) ELSE @,
        !.implied = IF p.type = "imply" THEN AddReverse(@, p, p.sym, cond) ELSE @]
PropagateProp(T, k, i) ==
  WithCondition(T, i, ForType(T.node[k].sym, Below(T.node[k].dep, T.props[i].visible)))

\* The conditions of the child k of an entry that hands down dep.
PropagateDep(T, dep, k) == [T EXCEPT !.node[k].dep = Below(dep, @)]
Propagate(T, dep, k) ==
  FoldLeft(LAMBDA U, i : PropagateProp(U, k, i), PropagateDep(T, dep, k),
           InOrder(T, k))

\* The place of the entry k among those next to it.
Place(T, k) == CHOOSE i \in DOMAIN T.node[T.node[k].up].kids :
                 T.node[T.node[k].up].kids[i] = k

NotN(e) == EliminateDups(Transform(TransCompare(e, "!=", "n")))

\* Mutant: to mention it is enough.
Mentions(T, p, k) ==
  ContainsSymbol(IF HasPrompt(T, k) THEN Prompt(T, k).visible ELSE T.node[k].dep,
                 T.node[p].sym)

\* Whether the entry k belongs below the symbol entry p: it depends on it, or
\* on it among others under conditions that include those of p.
BelongsBelow(T, p, k) ==
  LET s == T.node[p].sym
      base == IF HasPrompt(T, p) THEN Prompt(T, p).visible ELSE None
      dep == IF HasPrompt(T, k) THEN Prompt(T, k).visible ELSE T.node[k].dep
  IN /\ ContainsSymbol(dep, s)
     /\ \/ DependsSymbol(dep, s)
        \/ EliminateEq(NotN(dep), NotN(base))[2] = Yes

\* Choice values: members of the choice p, in order.  Those without m depend
\* on the choice being y.
AddMember(T, p, k) ==
  LET c == T.node[p].sym
      s == T.node[k].sym
      isY == Comp("=", c, "y")
      Only(U, i) == [U EXCEPT !.props[i].visible = AllocAnd(isY, @)]
      joined == [T EXCEPT !.members[c] = Append(@, s)]
  IN CASE \/ ~IsChoice(c) \/ s = NoSym
          \/ \E d \in ChoiceSyms : Contains(T.members[d], s) -> T
       [] OTHER -> IF Type(c) = "tristate" /\ Type(s) # "tristate"
                   THEN FoldLeft(Only, [joined EXCEPT !.node[k].dep = AllocAnd(isY, @)],
                                 InOrder(T, k))
                   ELSE joined

\* The entries ks are below p now, in this order.
PutBelow(T, p, ks) == FoldLeft(LAMBDA U, j : [U EXCEPT !.node[j].up = p], T, ks)

\* Mutant: they are put before what they were below.
FlattenBefore(T, p, k) ==
  LET kids == T.node[k].kids
      i == Place(T, k)
  IN IF kids = <<>> \/ HasPrompt(T, k) THEN T
     ELSE [PutBelow(T, p, kids) EXCEPT
             !.node[p].kids = SubSeq(@, 1, i - 1) \o kids \o SubSeq(@, i, Len(@)),
             !.node[k].kids = <<>>]

\* The entries below an if or an entry without a prompt take its level.
Flatten(T, p, k) ==
  LET kids == T.node[k].kids
      i == Place(T, k)
  IN IF kids = <<>> \/ HasPrompt(T, k) THEN T
     ELSE [PutBelow(T, p, kids) EXCEPT
             !.node[p].kids = SubSeq(@, 1, i) \o kids \o SubSeq(@, i + 1, Len(@)),
             !.node[k].kids = <<>>]

\* The loop over the children of p from the i-th on, which grow as ifs are
\* flattened.
RECURSIVE Settle(_, _, _)
Settle(T, p, i) ==
  IF i > Len(T.node[p].kids) THEN T
  ELSE LET k == T.node[p].kids[i]
       IN Settle(Flatten(AddMember(T, p, k), p, k), p, i + 1)

\* A choice that is visible and not optional is at least m.
ForceChoice(T, p) ==
  LET s == T.node[p].sym
  IN IF s = NoSym \/ s \in Optional \/ ~HasPrompt(T, p) THEN T
     ELSE [T EXCEPT !.rev[s] = AllocOr(@, AllocAnd(Prompt(T, p).visible, Mod))]

RECURSIVE Finalize(_, _), FinalizeKids(_, _, _), Submenu(_, _, _)

\* menu_finalize of the children of p from the i-th on; those that moved into
\* a submenu are no longer among them.
FinalizeKids(T, p, i) ==
  IF i > Len(T.node[p].kids) THEN T
  ELSE FinalizeKids(Finalize(T, T.node[p].kids[i]), p, i + 1)

\* The n - 1 entries after p move below it.
MoveBelow(T, p, n) ==
  LET q == T.node[p].up
      i == Place(T, p)
      moved == SubSeq(T.node[q].kids, i + 1, i + n - 1)
  IN [PutBelow(T, p, moved) EXCEPT
        !.node[p].kids = moved,
        !.node[q].kids = SubSeq(@, 1, i) \o SubSeq(@, i + n, Len(@))]

\* The entries after p that belong below it, from the n-th after it on, are
\* finalized and move there.
Submenu(T, p, n) ==
  LET kids == T.node[T.node[p].up].kids
      next == Place(T, p) + n
  IN IF next <= Len(kids) /\ BelongsBelow(T, p, kids[next])
     THEN Submenu(Finalize(T, kids[next]), p, n + 1) ELSE MoveBelow(T, p, n)

\* What is below p, and what comes to be below it; an entry without anything
\* below has the condition of its symbol.
PropagateAll(T, p) ==
  FoldLeft(LAMBDA U, k : Propagate(U, ParentDep(T, p), k), T, T.node[p].kids)
AddDirect(T, p) == [T EXCEPT !.dir[T.node[p].sym] = AllocOr(@, T.node[p].dep)]
FinalizeBelow(T, p) ==
  IF T.node[p].kids # <<>> THEN FinalizeKids(PropagateAll(T, p), p, 1)
  ELSE IF T.node[p].sym # NoSym THEN AddDirect(Submenu(T, p, 1), p)
  ELSE T
Finalize(T, p) == ForceChoice(Settle(FinalizeBelow(T, p), p, 1), p)
=============================================================================
