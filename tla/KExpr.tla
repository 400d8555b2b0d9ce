------------------------------- MODULE KExpr --------------------------------
(***************************************************************************)
(* Dependency expressions of kconfig (support/kconfig/expr.c), which turns *)
(* Buildroot's Config.in files and a defconfig into the configuration of   *)
(* the image that build_riscv.sh makes.                                    *)
(*                                                                         *)
(* An expression is None (NULL: no condition) or a tuple whose first       *)
(* element is its type.  Expressions are values here, so that copying and  *)
(* freeing them is nothing; what the code rewrites in place is returned.   *)
(***************************************************************************)
EXTENDS Integers, Sequences, SequencesExt, FiniteSets

CONSTANTS
  TypeOf,   \* symbol -> "bool", "tristate", "int", "hex", "string", "unknown"
  LexOrder, \* the values of symbols in the order of strcmp
  NumeralOf \* those that read as a number, with the number

Min2(a, b) == IF a < b THEN a ELSE b
Max2(a, b) == IF a > b THEN a ELSE b

None == <<"none">>
Sym(s) == <<"sym", s>>
Not(e) == <<"not", e>>
And(a, b) == <<"and", a, b>>
Or(a, b) == <<"or", a, b>>
Comp(op, s, t) == <<op, s, t>>

\* Constants (y, m, n, numbers, texts) and names nobody defines are symbols
\* without a type, whose value is their name.
Consts == {"n", "m", "y"}
Type(s) == IF s \in DOMAIN TypeOf THEN TypeOf[s] ELSE "unknown"
Yes == Sym("y")
No == Sym("n")
Mod == Sym("m")

Comparisons == {"=", "!=", "<", "<=", ">", ">="}
IsComp(e) == e[1] \in Comparisons
IsSym(e) == e[1] = "sym"
IsJoin(e) == e[1] \in {"and", "or"}

\* NULL is no operand: it stands for y in a condition and for n in a list of
\* reverse dependencies.
AllocAnd(a, b) == IF a = None THEN b ELSE IF b = None THEN a ELSE And(a, b)
AllocOr(a, b) == IF a = None THEN b ELSE IF b = None THEN a ELSE Or(a, b)

-----------------------------------------------------------------------------
(* The value of an expression: 0, 1, 2 for n, m, y.                        *)

TriOf(str) == CASE str = "y" -> 2 [] str = "m" -> 1 [] OTHER -> 0
TriName(t) == CASE t = 2 -> "y" [] t = 1 -> "m" [] OTHER -> "n"

Pos(str) == CHOOSE i \in DOMAIN LexOrder : LexOrder[i] = str
StrCmp(a, b) == Pos(a) - Pos(b)

\* How a value is read for a comparison, by the type of its symbol.
ParseString(str, type) ==
  CASE type \in {"bool", "tristate"} ->
         [kind |-> "number",
          num |-> IF str \in Consts THEN TriOf(str) ELSE -1]
    [] type = "other" -> [kind |-> "invalid", num |-> 0]
    [] OTHER -> IF str \in DOMAIN NumeralOf
                THEN [kind |-> "number", num |-> NumeralOf[str]]
                ELSE [kind |-> "string", num |-> 0]

Relates(op, res) ==
  CASE op = "=" -> res = 0
    [] op = "!=" -> res # 0
    [] op = "<" -> res < 0
    [] op = "<=" -> res <= 0
    [] op = ">" -> res > 0
    [] op = ">=" -> res >= 0

Truth(op, res) == IF Relates(op, res) THEN 2 ELSE 0

\* The comparison of a and b, which read as k1 and k2.
CompareRead(op, texts, k1, a, k2, b) ==
  LET invalid == "invalid" \in {k1.kind, k2.kind}
  IN IF texts \/ "string" \in {k1.kind, k2.kind} THEN Truth(op, StrCmp(a, b))
     ELSE IF ~invalid THEN Truth(op, k1.num - k2.num)
     ELSE IF op \in {"=", "!="} THEN Truth(op, StrCmp(a, b)) ELSE 0

\* The comparison of two symbols of the types t1 and t2 with the values a, b.
Compare(op, t1, a, t2, b) ==
  CompareRead(op, t1 = "string" /\ t2 = "string",
              ParseString(a, t1), a, ParseString(b, t2), b)

\* The value under val, which gives every symbol its string.
StrOf(s, val) == IF s \in DOMAIN val THEN val[s] ELSE s
TriValue(s, val) ==
  IF Type(s) \in {"bool", "tristate"} \/ s \in Consts THEN TriOf(StrOf(s, val)) ELSE 0
RECURSIVE Value(_, _)
Value(e, val) ==
  CASE e = None -> 2
    [] IsSym(e) -> TriValue(e[2], val)
    [] e[1] = "not" -> 2 - Value(e[2], val)
    [] e[1] = "and" -> Min2(Value(e[2], val), Value(e[3], val))
    [] e[1] = "or" -> Max2(Value(e[2], val), Value(e[3], val))
    [] IsComp(e) ->
         Compare(e[1], Type(e[2]), StrOf(e[2], val), Type(e[3]), StrOf(e[3], val))

-----------------------------------------------------------------------------
(* Simplification.                                                         *)

\* The operands of e on its level of || or &&, and e with other operands.
RECURSIVE Leaves(_, _), WithLeaves(_, _, _)
Leaves(type, e) ==
  IF e[1] = type THEN Leaves(type, e[2]) \o Leaves(type, e[3]) ELSE <<e>>
WithLeaves(type, e, s) ==
  IF e[1] # type THEN s[1]
  ELSE LET n == Len(Leaves(type, e[2]))
       IN <<type, WithLeaves(type, e[2], SubSeq(s, 1, n)),
            WithLeaves(type, e[3], SubSeq(s, n + 1, Len(s)))>>

\* The operand that changes nothing.
Unit(type) == IF type = "or" THEN No ELSE Yes

RECURSIVE EliminateYn(_)
EliminateYn(e) ==
  IF ~IsJoin(e) THEN e
  ELSE LET l == EliminateYn(e[2])
           r == EliminateYn(e[3])
           unit == Unit(e[1])
           zero == IF unit = No THEN Yes ELSE No
       IN CASE l = zero \/ r = zero -> zero
            [] l = unit -> r
            [] r = unit -> l
            [] OTHER -> <<e[1], l, r>>

\* All pairs of an index up to m and one up to n.
Pairs(m, n) == [k \in 1..m * n |-> <<1 + ((k - 1) \div n), 1 + ((k - 1) % n)>>]

\* The two rewritten without the operands they share; ExprEq compares what
\* is left.
RECURSIVE EliminateEq(_, _), ExprEq(_, _)
OneSymbolLeft(r) == IsSym(r[1]) /\ r[1] = r[2]
ExprEq(e, f) ==
  CASE e[1] # f[1] -> FALSE
    [] e[1] = "not" -> ExprEq(e[2], f[2])
    [] IsJoin(e) -> OneSymbolLeft(EliminateEq(e, f))
    [] OTHER -> e = f

\* The operands i and j of acc become the unit if they are equal.
EliminatePair(type, acc, i, j) ==
  IF acc[1][i] \notin {Yes, No} /\ ExprEq(acc[1][i], acc[2][j])
  THEN <<[acc[1] EXCEPT ![i] = Unit(type)], [acc[2] EXCEPT ![j] = Unit(type)]>>
  ELSE acc
OperandsEq(type, le, lf) ==
  FoldLeft(LAMBDA acc, ij : EliminatePair(type, acc, ij[1], ij[2]), <<le, lf>>,
           Pairs(Len(le), Len(lf)))

\* One level of both.
BothWith(type, e, f, r) == <<WithLeaves(type, e, r[1]), WithLeaves(type, f, r[2])>>
EliminateEq1(type, e, f) ==
  BothWith(type, e, f, OperandsEq(type, Leaves(type, e), Leaves(type, f)))

\* The level of the first, then that of the second if it is another one.
FirstLevel(p) == IF IsJoin(p[1]) THEN EliminateEq1(p[1][1], p[1], p[2]) ELSE p
SecondLevel(p) == IF IsJoin(p[2]) /\ p[1][1] # p[2][1]
                  THEN EliminateEq1(p[2][1], p[1], p[2]) ELSE p
BothYn(p) == <<EliminateYn(p[1]), EliminateYn(p[2])>>
EliminateEq(e, f) ==
  IF e = None \/ f = None THEN <<e, f>> ELSE BothYn(SecondLevel(FirstLevel(<<e, f>>)))

\* FOO!=n as the condition of something that is n or y.
RECURSIVE TransBool(_)
TransBool(e) ==
  CASE IsJoin(e) -> <<e[1], TransBool(e[2]), TransBool(e[3])>>
    [] e[1] = "not" -> Not(TransBool(e[2]))
    [] e[1] = "!=" /\ Type(e[2]) = "tristate" /\ e[3] = "n" -> Sym(e[2])
    [] OTHER -> e

-----------------------------------------------------------------------------
(* Joining two operands of || or && into one; None if they stay.           *)

\* The symbol a joinable operand is about; None for others.  The second
\* operand may be a negation of a symbol only.
Joinable(e, first) ==
  CASE IsSym(e) \/ e[1] \in {"=", "!="} -> <<e[2]>>
    [] e[1] = "not" /\ (IsSym(e[2]) \/ (first /\ e[2][1] \in {"=", "!="})) ->
         <<e[2][2]>>
    [] OTHER -> None

OneSymbol(e, f) ==
  LET s == Joinable(e, TRUE)
  IN /\ s # None /\ s = Joinable(f, FALSE)
     /\ Type(s[1]) \in {"bool", "tristate"}

\* e and f are comparisons op of their symbol, with the constants c and d.
Both(e, f, op, c, d) == /\ e[1] = op /\ f[1] = op
                        /\ <<e[3], f[3]>> \in {<<c, d>>, <<d, c>>}

JoinOr(e, f) ==
  LET s == Joinable(e, TRUE)[1]
      tri == Type(s) = "tristate"
  IN CASE tri /\ Both(e, f, "=", "y", "m") -> Comp("!=", s, "n")
       [] tri /\ Both(e, f, "=", "y", "n") -> Comp("!=", s, "m")
       [] tri /\ Both(e, f, "=", "m", "n") -> Comp("!=", s, "y")
       [] ~tri /\ Type(s) = "bool" /\ {e, f} = {Sym(s), Not(Sym(s))} -> Yes
       [] OTHER -> None

JoinAnd(e, f) ==
  LET s == Joinable(e, TRUE)[1]
      With(c) == {e, f} = {Sym(s), c}
      \* (a='b') && (a!='c')
      Equal(a, b) == IF a[3] # b[3] THEN Comp("=", s, a[3]) ELSE No
      consts == e[3] \in Consts /\ f[3] \in Consts
      tri == Type(s) = "tristate"
  IN CASE With(Comp("=", s, "y")) -> Comp("=", s, "y")
       [] With(Comp("!=", s, "n")) -> Sym(s)
       [] With(Comp("!=", s, "m")) -> Comp("=", s, "y")
       [] tri /\ e[1] = "=" /\ f[1] = "!=" /\ consts -> Equal(e, f)
       [] tri /\ e[1] = "!=" /\ f[1] = "=" /\ consts -> Equal(f, e)
       [] tri /\ Both(e, f, "!=", "y", "n") -> Comp("=", s, "m")
       [] tri /\ Both(e, f, "!=", "y", "m") -> Comp("=", s, "n")
       [] tri /\ Both(e, f, "!=", "m", "n") -> Comp("=", s, "y")
       [] OTHER -> None

\* Equal operands are one, whatever they are.
JoinTwo(type, e, f) ==
  IF ExprEq(e, f) THEN e
  ELSE IF ~OneSymbol(e, f) THEN None
  ELSE IF type = "or" THEN JoinOr(e, f) ELSE JoinAnd(e, f)

\* One pass over the pairs of operands: the operands and whether any were
\* joined.  An operand that is a level of its own is treated first.
RECURSIVE EliminateDups1(_, _)
Treated(e) == IF IsJoin(e) THEN EliminateDups1(e[1], e) ELSE <<e, FALSE>>
PutJoined(type, acc, ij, own, joined) ==
  IF joined = None THEN <<[acc[1] EXCEPT ![ij[1]] = own[1]], acc[2] \/ own[2]>>
  ELSE <<[acc[1] EXCEPT ![ij[1]] = Unit(type), ![ij[2]] = joined], TRUE>>
JoinTreated(type, acc, ij, own) ==
  PutJoined(type, acc, ij, own, JoinTwo(type, own[1], acc[1][ij[2]]))
JoinPair(type, acc, ij) ==
  IF ij[1] = ij[2] THEN acc ELSE JoinTreated(type, acc, ij, Treated(acc[1][ij[1]]))
DupsJoined(type, s) ==
  FoldLeft(LAMBDA acc, ij : JoinPair(type, acc, ij), <<s, FALSE>>, Pairs(Len(s), Len(s)))
WithDups(type, e, r) == <<WithLeaves(type, e, r[1]), r[2]>>
EliminateDups1(type, e) == WithDups(type, e, DupsJoined(type, Leaves(type, e)))

\* Again until a pass joins nothing.
RECURSIVE EliminateDups(_)
UntilNone(pass) == IF pass[2] THEN EliminateDups(EliminateYn(pass[1])) ELSE pass[1]
EliminateDups(e) == IF IsJoin(e) THEN UntilNone(EliminateDups1(e[1], e)) ELSE e

-----------------------------------------------------------------------------
(* Rewriting to a normal form.                                             *)

Negated == [op \in Comparisons |->
  CASE op = "=" -> "!=" [] op = "!=" -> "=" [] op = "<=" -> ">"
    [] op = ">=" -> "<" [] op = "<" -> ">=" [] op = ">" -> "<="]

\* A bool symbol compared with a constant.
BoolTest(op, s, c) ==
  LET equal == CASE c = "y" -> Sym(s) [] c = "n" -> Not(Sym(s)) [] c = "m" -> No
      other == CASE c = "y" -> Not(Sym(s)) [] c = "n" -> Sym(s) [] c = "m" -> Yes
  IN IF op = "=" THEN equal ELSE other

RECURSIVE Transform(_)
Transform(e) ==
  LET l == Transform(e[2])
      r == Transform(e[3])
  IN CASE IsJoin(e) -> <<e[1], l, r>>
       [] e[1] \in {"=", "!="} /\ Type(e[2]) = "bool" /\ e[3] \in Consts ->
            BoolTest(e[1], e[2], e[3])
       [] e[1] = "not" ->
            (CASE l[1] = "not" -> Transform(l[2])
               [] IsComp(l) -> Comp(Negated[l[1]], l[2], l[3])
               [] l[1] = "or" -> Transform(And(Not(l[2]), Not(l[3])))
               [] l[1] = "and" -> Transform(Or(Not(l[2]), Not(l[3])))
               [] l = Yes -> No
               [] l = Mod -> Mod
               [] l = No -> Yes
               [] OTHER -> Not(l))
       [] OTHER -> e

-----------------------------------------------------------------------------
(* Questions about an expression, and comparisons put into it.             *)

RECURSIVE ContainsSymbol(_, _), DependsSymbol(_, _), TransCompare(_, _, _)
ContainsSymbol(e, s) ==
  CASE IsJoin(e) -> ContainsSymbol(e[2], s) \/ ContainsSymbol(e[3], s)
    [] e[1] = "not" -> ContainsSymbol(e[2], s)
    [] IsSym(e) -> e[2] = s
    [] IsComp(e) -> s \in {e[2], e[3]}
    [] OTHER -> FALSE

DependsSymbol(e, s) ==
  CASE e[1] = "and" -> DependsSymbol(e[2], s) \/ DependsSymbol(e[3], s)
    [] IsSym(e) -> e[2] = s
    [] e[1] = "=" -> e[2] = s /\ e[3] \in {"y", "m"}
    [] e[1] = "!=" -> e[2] = s /\ e[3] = "n"
    [] OTHER -> FALSE

\* e = c or e != c, for a constant c, as an expression of comparisons.
TransCompare(e, op, c) ==
  LET Maybe(f) == IF op = "!=" THEN Not(f) ELSE f
      l == TransCompare(e[2], "=", c)
      r == TransCompare(e[3], "=", c)
      AsAnd == (e[1] = "and") = (c = "y")
  IN CASE e = None -> Maybe(Sym(c))
       [] IsJoin(e) /\ c = "m" -> Maybe(e)
       [] IsJoin(e) -> Maybe(IF AsAnd THEN And(l, r) ELSE Or(l, r))
       [] e[1] = "not" -> TransCompare(e[2], IF op = "=" THEN "!=" ELSE "=", c)
       [] IsComp(e) /\ c = "m" -> IF op = "=" THEN No ELSE Yes
       [] IsComp(e) -> IF (op = "=") = (c = "y") THEN e ELSE Not(e)
       [] OTHER -> Comp(op, e[2], c)

-----------------------------------------------------------------------------
(* The text of an expression, as tokens: parentheses where the expression  *)
(* around it, of type prev, binds more than it does.                       *)

Rank(type) == CASE type \in {"<", "<=", ">", ">="} -> 6
                [] type \in {"=", "!="} -> 5
                [] type = "not" -> 4 [] type = "and" -> 3 [] type = "or" -> 2
                [] type = "none" -> 0 [] OTHER -> 7

Binding(prev, type, weak) ==
  /\ prev # type /\ prev # "sym"
  /\ type \in weak /\ Rank(prev) > Rank(type)

\* Mutant: && is thought to bind as little as ||.
BindsAndOr(prev, type) == Binding(prev, type, {"and", "not", "=", "!="})

\* expr_compare_type(prev, type) > 0.
Binds(prev, type) == Binding(prev, type, {"or", "and", "not", "=", "!="})

RECURSIVE Tokens(_, _)
Tokens(e, prev) ==
  LET inner ==
        CASE e = None -> <<"y">>
          [] IsSym(e) -> <<e[2]>>
          [] e[1] = "not" -> <<"!">> \o Tokens(e[2], "not")
          [] IsComp(e) -> <<e[2], e[1], e[3]>>
          [] e[1] = "or" -> Tokens(e[2], "or") \o <<"||">> \o Tokens(e[3], "or")
          [] e[1] = "and" -> Tokens(e[2], "and") \o <<"&&">> \o Tokens(e[3], "and")
  IN IF e # None /\ Binds(prev, e[1]) THEN <<"(">> \o inner \o <<")">> ELSE inner

\* How the tokens are read again (expr in zconf.y): || binds least, then &&;
\* ! takes what follows it up to either.
Level0(ts, t) == {i \in DOMAIN ts : /\ ts[i] = t
  /\ Cardinality({j \in 1..i : ts[j] = "("}) = Cardinality({j \in 1..i : ts[j] = ")"})}
RECURSIVE Parse(_)
Parse(ts) ==
  LET Before(t) == Parse(SubSeq(ts, 1, Max(Level0(ts, t)) - 1))
      After(t) == Parse(SubSeq(ts, Max(Level0(ts, t)) + 1, Len(ts)))
  IN CASE Level0(ts, "||") # {} -> Or(Before("||"), After("||"))
       [] Level0(ts, "||") = {} /\ Level0(ts, "&&") # {} ->
            And(Before("&&"), After("&&"))
       [] Level0(ts, "||") \union Level0(ts, "&&") = {} ->
            (CASE ts[1] = "!" -> Not(Parse(Tail(ts)))
               [] ts[1] = "(" -> Parse(SubSeq(ts, 2, Len(ts) - 1))
               [] Len(ts) = 3 /\ ts[1] # "(" -> Comp(ts[2], ts[1], ts[3])
               [] Len(ts) = 1 -> Sym(ts[1]))

\* A list of reverse dependencies by the values of its members: the lines
\* that are printed under the title for one value.
RevDepLines(e, t, val) ==
  SelectSeq(Leaves("or", e), LAMBDA f : Value(f, val) = t)
=============================================================================
