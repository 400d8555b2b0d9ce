------------------------------- MODULE KMenu --------------------------------
(***************************************************************************)
(* Reading Config.in files and finalizing their tree (KTree), for all      *)
(* files that are put together from given entries and blocks.              *)
(***************************************************************************)
EXTENDS KTree

CONSTANTS
  Entries,    \* what a file may hold: [sym, dep, prompt, props, size]
  Blocks,     \* what may enclose it: [sym, dep, visibility, prompt, props]
  Vals,       \* the values of the symbols under which conditions are compared
  MaxSize     \* bound on what is read: a block counts 1

VARIABLES
  read,  \* the tree as it is read
  menu,  \* the finalized tree
  phase, \* "reading", "finalized"
  size   \* of what was read

vars == <<read, menu, phase, size>>

-----------------------------------------------------------------------------
Init == read = NewTree /\ menu = NewTree /\ phase = "reading" /\ size = 0

MayRead(n) == size' = size + n /\ size' <= MaxSize

Config == /\ phase = "reading"
          /\ \E x \in Entries : MayRead(x.size) /\ read' = ReadEntry(read, x)
          /\ UNCHANGED <<menu, phase>>

\* Inside a choice there are config, comment and if statements only.  A choice
\* without a name has a symbol of its own.
InChoice(T) == T.node[T.cur].sym # NoSym
IsNew(T, s) == s = NoSym \/ \A k \in DOMAIN T.node : T.node[k].sym # s
Open == /\ phase = "reading"
        /\ \E b \in Blocks : /\ MayRead(1)
                             /\ InChoice(read) => ~b.prompt.there
                             /\ IsNew(read, b.sym)
                             /\ read' = ReadBlock(read, b)
        /\ UNCHANGED <<menu, phase>>
Close == /\ phase = "reading" /\ read.cur # 1
         /\ read' = EndMenu(read)
         /\ UNCHANGED <<menu, phase, size>>

\* conf_parse, at the end of the files.
End == /\ phase = "reading" /\ read.cur = 1
       /\ phase' = "finalized" /\ menu' = Finalize(read, 1)
       /\ UNCHANGED <<read, size>>

Next == Config \/ Open \/ Close \/ End
Spec == Init /\ [][Next]_vars

-----------------------------------------------------------------------------
\* What the files say of the entry k: it needs its own condition and that of
\* what encloses it; in a choice, the choice.
RECURSIVE Needs(_)
Needs(k) ==
  LET p == read.node[k].up
      c == read.node[p].sym
      around == CASE p = 1 -> Yes
                  [] p # 1 /\ IsChoice(c) -> Sym(c)
                  [] p # 1 /\ ~IsChoice(c) /\ HasPrompt(read, p) ->
                       And(RewriteM(Prompt(read, p).visible), Needs(p))
                  [] OTHER -> Needs(p)
  IN And(RewriteM(read.node[k].dep), around)

\* The entry that makes a bool symbol a member of a tristate choice (it may be
\* in an if of it, and it may be defined elsewhere again): it is there when
\* the choice is y only.
Restriction(k) ==
  LET p == menu.node[k].up
      c == menu.node[p].sym
      s == menu.node[k].sym
  IN IF /\ IsChoice(c) /\ Contains(menu.members[c], s)
        /\ Type(c) = "tristate" /\ Type(s) # "tristate"
        /\ k = Min({j \in Range(menu.node[p].kids) : menu.node[j].sym = s})
     THEN Comp("=", c, "y") ELSE Yes

\* When the property i applies, in a menu as it was read and in the end.
Applies(i) == And(RewriteM(read.props[i].visible), Needs(read.props[i].node))
Stated(i) == And(Restriction(read.props[i].node), Applies(i))

Finalized == phase = "finalized"

\* Every prompt, default, select and range applies exactly when its own
\* condition and those of all that encloses it in the files hold, whatever
\* submenus are made and ifs are dissolved.
ConditionsHandedDown ==
  Finalized =>
    \A i \in 2..Len(read.props) :
      LET s == read.props[i].sym
          stated == Stated(i)
          Same(a, b) == IF s # NoSym /\ Type(s) # "tristate" THEN (a = 0) = (b = 0) ELSE a = b
      IN \A v \in Vals : Same(Value(menu.props[i].visible, v), Value(stated, v))

\* The entries of a tree in the order in which it is displayed.
RECURSIVE Preorder(_, _)
Preorder(T, k) ==
  <<k>> \o FoldLeft(LAMBDA s, j : s \o Preorder(T, j), <<>>, T.node[k].kids)

\* No entry is lost or doubled by the list surgery of submenus and ifs, their
\* order stays that of the files and each knows what it is below.
NothingLost ==
  Finalized =>
    /\ Preorder(menu, 1) = [k \in DOMAIN read.node |-> k]
    /\ \A p \in DOMAIN menu.node : \A k \in Range(menu.node[p].kids) :
         menu.node[k].up = p

\* menu_is_visible, for given values.
RECURSIVE IsVisible(_, _, _)
IsVisible(T, k, v) ==
  /\ HasPrompt(T, k)
  /\ Value(T.node[k].visibility, v) # 0
  /\ \/ Value(Prompt(T, k).visible, v) # 0
     \/ /\ T.node[k].sym # NoSym /\ Value(Sym(T.node[k].sym), v) # 0
        /\ \E j \in Range(T.node[k].kids) : IsVisible(T, j, v)

\* Without modules, a choice is not n only if it is visible.
Possible(v) ==
  /\ \A s \in DOMAIN v : v[s] # "m"
  /\ \A c \in DOMAIN menu.node : IsChoice(menu.node[c].sym) /\ HasPrompt(menu, c)
       => Value(Sym(menu.node[c].sym), v) <= Value(Prompt(menu, c).visible, v)

\* An option that may be set can be reached: the entry it is displayed below
\* is displayed too.
Reachable ==
  Finalized =>
    \A v \in {w \in Vals : Possible(w)}, k \in 2..Len(menu.node) :
      LET p == menu.node[k].up
      IN /\ menu.node[k].sym # NoSym /\ HasPrompt(menu, k)
         /\ Value(Prompt(menu, k).visible, v) # 0
         => p = 1 \/ IsVisible(menu, p, v)

\* No condition of a reverse dependency is that it is y: n is.
ReverseValue(e, v) == IF e = None THEN 0 ELSE Value(e, v)

\* A symbol is selected exactly when an entry that selects it is set and the
\* conditions of the select hold; a choice is kept from n exactly when it has
\* a visible prompt and is not optional.
Selected ==
  Finalized =>
    \A t \in DOMAIN TypeOf, v \in Vals :
      LET Selects(i) == /\ read.props[i].type = "select"
                        /\ read.props[i].expr = Sym(t)
                        /\ Value(Sym(read.props[i].sym), v) # 0
                        /\ Value(Applies(i), v) # 0
          Keeps(k) == /\ read.node[k].sym = t /\ t \notin Optional
                      /\ HasPrompt(read, k) /\ Value(Prompt(menu, k).visible, v) # 0
      IN (ReverseValue(menu.rev[t], v) # 0) <=>
           \/ \E i \in DOMAIN read.props : Selects(i)
           \/ \E k \in DOMAIN read.node : Keeps(k)

\* An expression that is printed (help texts, warnings) and read again is the
\* same: parentheses are printed wherever the grammar needs them.
PrintsAsRead ==
  Finalized => \A k \in DOMAIN menu.node :
    LET e == menu.node[k].dep
        again == Parse(Tokens(e, "none"))
    IN e # None /\ again # e => \A v \in Vals : Value(again, v) = Value(e, v)
=============================================================================
