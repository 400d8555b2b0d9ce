---------------------------- MODULE Image_proofs ----------------------------
(***************************************************************************)
(* What the image and the commands of the compiler are, for every list of  *)
(* programs and libraries, all tables, and any number of calls, changes    *)
(* and interruptions.                                                      *)
(***************************************************************************)
EXTENDS Image, TLAPS, WellFoundedInduction

-----------------------------------------------------------------------------
(* What is added: how much, and why.                                       *)

\* The length of a list that is put together.
LEMMA ConcatLength ==
  ASSUME NEW S, NEW s \in Seq(S), NEW t \in Seq(S)
  PROVE  s \o t \in Seq(S) /\ Len(s \o t) = Len(s) + Len(t)
OBVIOUS

Extras ==
  {Plain("-mfloat-abi="), Plain("-mfp"), Plain("-march="), Plain("-mcpu="), Plain("-D__TIME__="),
   Plain("-D__DATE__="), Plain("-Wno-builtin-macro-redefined"), Plain("-fPIE"), Plain("-pie"),
   Plain("-Wl,-z,now"), Plain("-Wl,-z,relro")}

\* What is put under a condition is there or not.
LEMMA ThereOrNot ==
  ASSUME NEW args \in Seq(Extras), NEW part, part = args \/ part = <<>>
  PROVE  part \in Seq(Extras) /\ Len(part) <= Len(args)
<1>1. <<>> \in Seq(Extras) /\ Len(<<>>) = 0 /\ Len(args) \in Nat
  OBVIOUS
<1>2. CASE part = args
  BY <1>1, <1>2
<1>3. CASE part = <<>>
  BY <1>1, <1>3
<1> QED
  BY <1>2, <1>3

\* An argument that is passed on a condition.
LEMMA OneOrNone ==
  ASSUME NEW e \in Extras, NEW part, part = <<e>> \/ part = <<>>
  PROVE  part \in Seq(Extras) /\ Len(part) <= 1
<1>1. <<e>> \in Seq(Extras) /\ Len(<<e>>) = 1
  OBVIOUS
<1> QED
  BY <1>1, ThereOrNot

\* Two options, each there or not, and both or none.
LEMMA UpToTwo ==
  ASSUME NEW e1 \in Extras, NEW e2 \in Extras, NEW s, NEW t, NEW part,
         s = <<e1>> \/ s = <<>>, t = <<e2>> \/ t = <<>>, part = s \o t \/ part = <<>>
  PROVE  part \in Seq(Extras) /\ Len(part) <= 2
<1>1. s \in Seq(Extras) /\ Len(s) <= 1 /\ t \in Seq(Extras) /\ Len(t) <= 1
  BY OneOrNone
<1>2. s \o t \in Seq(Extras) /\ Len(s \o t) <= 2
  BY <1>1, ConcatLength
<1> QED
  BY <1>2, ThereOrNot

\* Each part of the extra arguments is short, and two exclude one another.
LEMMA FloatParts ==
  ASSUME NEW b \in Wrappers, NEW argv
  PROVE  /\ FloatAbi(b, argv) \in Seq(Extras) /\ Fp32Mode(b, argv) \in Seq(Extras)
         /\ Len(FloatAbi(b, argv)) + Len(Fp32Mode(b, argv)) <= 1
<1> DEFINE s == FloatAbi(b, argv)
           t == Fp32Mode(b, argv)
<1>1. s = <<Plain("-mfloat-abi=")>> \/ s = <<>>
  BY Zenon DEF FloatAbi, If
<1>2. t = <<Plain("-mfp")>> \/ t = <<>>
  BY Zenon DEF Fp32Mode, If
<1>3. s = <<>> \/ t = <<>>
  <2>1. ~b.floatAbi \/ ~b.fp32
    BY DEF Wrappers
  <2>2. CASE ~b.floatAbi
    BY <2>2, Zenon DEF FloatAbi, If
  <2>3. CASE ~b.fp32
    BY <2>3, Zenon DEF Fp32Mode, If
  <2> QED
    BY <2>1, <2>2, <2>3, Zenon
<1> HIDE DEF s, t
<1>4. s \in Seq(Extras) /\ Len(s) <= 1
  <2>1. Plain("-mfloat-abi=") \in Extras
    BY Zenon DEF Extras
  <2> QED
    BY <1>1, <2>1, OneOrNone
<1>5. t \in Seq(Extras) /\ Len(t) <= 1
  <2>1. Plain("-mfp") \in Extras
    BY Zenon DEF Extras
  <2> QED
    BY <1>2, <2>1, OneOrNone
<1>6. Len(s) + Len(t) <= 1
  BY <1>3, <1>4, <1>5
<1> QED
  BY <1>4, <1>5, <1>6 DEF s, t

\* How many arguments each part adds at most.
LEMMA PartsAreShort ==
  ASSUME NEW b, NEW env, NEW argv
  PROVE  /\ ArchAndCpu(b, argv) \in Seq(Extras) /\ Len(ArchAndCpu(b, argv)) <= 2
         /\ DateArgs(b, env) \in Seq(Extras) /\ Len(DateArgs(b, env)) <= 3
         /\ Pie(b, argv) \in Seq(Extras) /\ Len(Pie(b, argv)) <= 2
         /\ Relro(b, argv) \in Seq(Extras) /\ Len(Relro(b, argv)) <= 2
<1>1. ArchAndCpu(b, argv) \in Seq(Extras) /\ Len(ArchAndCpu(b, argv)) <= 2
  <2> DEFINE e1 == Plain("-march=")
             e2 == Plain("-mcpu=")
             s == If(b.arch, <<e1>>)
             t == If(b.cpu, <<e2>>)
  <2>1. e1 \in Extras /\ e2 \in Extras
    BY Zenon DEF Extras
  <2>2. (s = <<e1>> \/ s = <<>>) /\ (t = <<e2>> \/ t = <<>>)
    BY Zenon DEF If
  <2>3. ArchAndCpu(b, argv) = s \o t \/ ArchAndCpu(b, argv) = <<>>
    BY Zenon DEF ArchAndCpu, If
  <2> HIDE DEF e1, e2, s, t
  <2> QED
    BY <2>1, <2>2, <2>3, UpToTwo
<1>2. DateArgs(b, env) \in Seq(Extras) /\ Len(DateArgs(b, env)) <= 3
  <2> DEFINE e1 == Plain("-D__TIME__=")
             e2 == Plain("-D__DATE__=")
             e3 == Plain("-Wno-builtin-macro-redefined")
  <2>1. e1 \in Extras /\ e2 \in Extras /\ e3 \in Extras
    BY Zenon DEF Extras
  <2>2. DateArgs(b, env) = <<e1, e2, e3>> \/ DateArgs(b, env) = <<>>
    BY Zenon DEF DateArgs, If
  <2> HIDE DEF e1, e2, e3
  <2>3. <<e1, e2, e3>> \in Seq(Extras) /\ Len(<<e1, e2, e3>>) = 3
    BY <2>1
  <2> QED
    BY <2>2, <2>3, ThereOrNot
<1>3. Pie(b, argv) \in Seq(Extras) /\ Len(Pie(b, argv)) <= 2
  <2> DEFINE e1 == Plain("-fPIE")
             e2 == Plain("-pie")
             s == If(~Has(argv, {"-fpie", "-fPIE", "-fpic", "-fPIC"}), <<e1>>)
             t == If(~Has(argv, {"-shared"}), <<e2>>)
  <2>1. e1 \in Extras /\ e2 \in Extras
    BY Zenon DEF Extras
  <2>2. (s = <<e1>> \/ s = <<>>) /\ (t = <<e2>> \/ t = <<>>)
    BY Zenon DEF If
  <2>3. Pie(b, argv) = s \o t \/ Pie(b, argv) = <<>>
    BY Zenon DEF Pie, If
  <2> HIDE DEF e1, e2, s, t
  <2> QED
    BY <2>1, <2>2, <2>3, UpToTwo
<1>4. Relro(b, argv) \in Seq(Extras) /\ Len(Relro(b, argv)) <= 2
  <2> DEFINE e1 == Plain("-Wl,-z,now")
             e2 == Plain("-Wl,-z,relro")
             s == If(b.relro = "full", <<e1>>)
             t == If(b.relro # "no", <<e2>>)
  <2>1. e1 \in Extras /\ e2 \in Extras
    BY Zenon DEF Extras
  <2>2. (s = <<e1>> \/ s = <<>>) /\ (t = <<e2>> \/ t = <<>>)
    BY Zenon DEF If
  <2>3. Relro(b, argv) = s \o t \/ Relro(b, argv) = <<>>
    BY Zenon DEF Relro, If
  <2> HIDE DEF e1, e2, s, t
  <2> QED
    BY <2>1, <2>2, <2>3, UpToTwo
<1> QED
  BY <1>1, <1>2, <1>3, <1>4

\* All parts add no more than the wrapper reserves.
LEMMA ExtraArgsAreFew ==
  ASSUME NEW b \in Wrappers, NEW env, NEW argv
  PROVE  Len(ExtraArgs(b, env, argv)) \in Nat /\ Len(ExtraArgs(b, env, argv)) <= ExclusiveArgs
<1> DEFINE s2 == FloatAbi(b, argv) \o Fp32Mode(b, argv)
           s3 == s2 \o ArchAndCpu(b, argv)
           s4 == s3 \o DateArgs(b, env)
           s5 == s4 \o Pie(b, argv)
           s6 == s5 \o Relro(b, argv)
<1>1. s2 \in Seq(Extras) /\ Len(s2) <= 1
  BY FloatParts, ConcatLength
<1> HIDE DEF s2
<1>2. s3 \in Seq(Extras) /\ Len(s3) <= 3
  BY <1>1, PartsAreShort, ConcatLength
<1> HIDE DEF s3
<1>3. s4 \in Seq(Extras) /\ Len(s4) <= 6
  BY <1>2, PartsAreShort, ConcatLength
<1> HIDE DEF s4
<1>4. s5 \in Seq(Extras) /\ Len(s5) <= 8
  BY <1>3, PartsAreShort, ConcatLength
<1> HIDE DEF s5
<1>5. s6 \in Seq(Extras) /\ Len(s6) <= 10
  BY <1>4, PartsAreShort, ConcatLength
<1>6. ExtraArgs(b, env, argv) = s6
  BY Zenon DEF ExtraArgs, s2, s3, s4, s5
<1> HIDE DEF s6
<1> QED
  BY <1>5, <1>6 DEF ExclusiveArgs

\* The arguments that are always passed are finitely many.
LEMMA PredefArgsCounted ==
  ASSUME NEW b \in Wrappers, NEW call
  PROVE  Len(PredefArgs(b, call)) \in Nat
<1> DEFINE dir == AbsBaseDir(call)
           s1 == IF b.ccache THEN <<Arg("ccache", dir)>> ELSE <<>>
           s2 == <<Arg("compiler", dir), Plain("--sysroot"), File(dir)>>
           T == Arguments \union {Arg("ccache", dir), Arg("compiler", dir), Plain("--sysroot"), File(dir)}
<1>1. PredefArgs(b, call) = s1 \o s2 \o b.flags
  BY Zenon DEF PredefArgs
<1>2. s1 \in Seq(T)
  <2>1. CASE b.ccache
    BY <2>1
  <2>2. CASE ~b.ccache
    BY <2>2
  <2> QED
    BY <2>1, <2>2
<1>3. s2 \in Seq(T)
  OBVIOUS
<1>4. b.flags \in Seq(T)
  BY DEF Wrappers
<1> HIDE DEF s1, s2, T
<1>5. s1 \o s2 \o b.flags \in Seq(T)
  BY <1>2, <1>3, <1>4, ConcatLength
<1>6. \A s \in Seq(T) : Len(s) \in Nat
  OBVIOUS
<1> QED
  BY <1>1, <1>5, <1>6, Zenon

\* An option among several parts is in one of them.
LEMMA HasConcat ==
  ASSUME NEW s \in Seq(Extras), NEW t \in Seq(Extras), NEW S, Has(s \o t, S)
  PROVE  Has(s, S) \/ Has(t, S)
<1>1. PICK i \in DOMAIN (s \o t) : (s \o t)[i].opt \in S
  BY DEF Has
<1>2. CASE i <= Len(s)
  BY <1>1, <1>2 DEF Has
<1>3. CASE i > Len(s)
  <2>1. i - Len(s) \in DOMAIN t /\ (s \o t)[i] = t[i - Len(s)]
    BY <1>1, <1>3
  <2> QED
    BY <1>1, <2>1 DEF Has
<1> QED
  BY <1>1, <1>2, <1>3

\* What a list of one argument has.
LEMMA HasOne ==
  ASSUME NEW opt, NEW part, part = <<Plain(opt)>> \/ part = <<>>, NEW S, Has(part, S)
  PROVE  opt \in S /\ part = <<Plain(opt)>>
<1>1. PICK i \in DOMAIN part : part[i].opt \in S
  BY DEF Has
<1>2. part # <<>>
  BY <1>1
<1>3. part[1] = Plain(opt) /\ i = 1
  BY <1>1, <1>2
<1>4. Plain(opt).opt = opt
  BY DEF Plain, Arg
<1> QED
  BY <1>1, <1>2, <1>3, <1>4

\* What a list of two arguments has.
LEMMA HasTwo ==
  ASSUME NEW opt1, NEW opt2, Plain(opt1) \in Extras, Plain(opt2) \in Extras, NEW s, NEW t,
         s = <<Plain(opt1)>> \/ s = <<>>, t = <<Plain(opt2)>> \/ t = <<>>, NEW S, Has(s \o t, S)
  PROVE  (opt1 \in S /\ s = <<Plain(opt1)>>) \/ (opt2 \in S /\ t = <<Plain(opt2)>>)
<1>1. s \in Seq(Extras) /\ t \in Seq(Extras)
  BY OneOrNone
<1>2. Has(s, S) \/ Has(t, S)
  BY <1>1, HasConcat
<1> QED
  BY <1>2, HasOne

\* The empty list has none.
LEMMA HasNone == ASSUME NEW S PROVE ~Has(<<>>, S)
BY DEF Has

\* A list that has one of some has one of more.
LEMMA HasMore ==
  ASSUME NEW argv, NEW S, NEW T, S \subseteq T, Has(argv, S)
  PROVE  Has(argv, T)
BY Zenon DEF Has

\* Why an option is added.
Hardening == {"-Wl,-z,now", "-Wl,-z,relro"}
Dates == {"-D__TIME__=", "-D__DATE__=", "-Wno-builtin-macro-redefined"}
Why(argv, S) ==
  \/ "-mfloat-abi=" \in S /\ ~Has(argv, {"-mfloat-abi=", "-msoft-float", "-mhard-float"})
  \/ "-mfp" \in S /\ ~SoftFloat(argv)
  \/ /\ "-march=" \in S \/ "-mcpu=" \in S
     /\ ~Has(argv, {"-march=", "-mtune=", "-mcpu="})
  \/ \E d \in Dates : d \in S
  \/ "-fPIE" \in S /\ ~Has(argv, NotPie) /\ ~Has(argv, {"-fpie", "-fPIE", "-fpic", "-fPIC"})
  \/ "-pie" \in S /\ ~Has(argv, NotPie) /\ ~Has(argv, {"-shared"})
  \/ \E h \in Hardening : h \in S /\ ~Has(argv, {"-D__KERNEL__", "-D__UBOOT__"})

\* Every argument that is added has its reason.
LEMMA AddedWhy ==
  ASSUME NEW b \in Wrappers, NEW env, NEW argv, NEW S, Has(ExtraArgs(b, env, argv), S)
  PROVE  Why(argv, S)
<1>1. \/ Has(FloatAbi(b, argv), S) \/ Has(Fp32Mode(b, argv), S) \/ Has(ArchAndCpu(b, argv), S)
      \/ Has(DateArgs(b, env), S) \/ Has(Pie(b, argv), S) \/ Has(Relro(b, argv), S)
  <2> DEFINE p1 == FloatAbi(b, argv)
             p2 == Fp32Mode(b, argv)
             p3 == ArchAndCpu(b, argv)
             p4 == DateArgs(b, env)
             p5 == Pie(b, argv)
             p6 == Relro(b, argv)
  <2>1. /\ p1 \in Seq(Extras) /\ p2 \in Seq(Extras) /\ p3 \in Seq(Extras)
        /\ p4 \in Seq(Extras) /\ p5 \in Seq(Extras) /\ p6 \in Seq(Extras)
    BY FloatParts, PartsAreShort
  <2>2. Has(p1 \o p2 \o p3 \o p4 \o p5 \o p6, S)
    BY Zenon DEF ExtraArgs
  <2> HIDE DEF p1, p2, p3, p4, p5, p6
  <2> DEFINE q2 == p1 \o p2
             q3 == q2 \o p3
             q4 == q3 \o p4
             q5 == q4 \o p5
  <2>3. q2 \in Seq(Extras) /\ q3 \in Seq(Extras) /\ q4 \in Seq(Extras) /\ q5 \in Seq(Extras)
    BY <2>1
  <2>4. Has(q2, S) => Has(p1, S) \/ Has(p2, S)
    BY <2>1, HasConcat
  <2> HIDE DEF q2
  <2>5. Has(q3, S) => Has(q2, S) \/ Has(p3, S)
    BY <2>1, <2>3, HasConcat
  <2> HIDE DEF q3
  <2>6. Has(q4, S) => Has(q3, S) \/ Has(p4, S)
    BY <2>1, <2>3, HasConcat
  <2> HIDE DEF q4
  <2>7. Has(q5, S) => Has(q4, S) \/ Has(p5, S)
    BY <2>1, <2>3, HasConcat
  <2>8. Has(q5 \o p6, S) => Has(q5, S) \/ Has(p6, S)
    <3> HIDE DEF q5
    <3> QED
      BY <2>1, <2>3, HasConcat
  <2>9. Has(p1, S) \/ Has(p2, S) \/ Has(p3, S) \/ Has(p4, S) \/ Has(p5, S) \/ Has(p6, S)
    BY <2>2, <2>4, <2>5, <2>6, <2>7, <2>8 DEF q2, q3, q4, q5
  <2> QED
    BY <2>9 DEF p1, p2, p3, p4, p5, p6
<1>2. CASE Has(FloatAbi(b, argv), S)
  <2> DEFINE c == ~Has(argv, {"-mfloat-abi=", "-msoft-float", "-mhard-float"})
  <2>1. FloatAbi(b, argv) = <<Plain("-mfloat-abi=")>> \/ FloatAbi(b, argv) = <<>>
    BY Zenon DEF FloatAbi, If
  <2>2. "-mfloat-abi=" \in S
    BY <1>2, <2>1, HasOne
  <2>3. ~c => FloatAbi(b, argv) = <<>>
    BY Zenon DEF FloatAbi, If
  <2> QED
    BY <1>2, <2>2, <2>3, HasNone, Zenon DEF Why
<1>3. CASE Has(Fp32Mode(b, argv), S)
  <2>1. Fp32Mode(b, argv) = <<Plain("-mfp")>> \/ Fp32Mode(b, argv) = <<>>
    BY Zenon DEF Fp32Mode, If
  <2>2. "-mfp" \in S
    BY <1>3, <2>1, HasOne
  <2>3. SoftFloat(argv) => Fp32Mode(b, argv) = <<>>
    BY Zenon DEF Fp32Mode, If
  <2> QED
    BY <1>3, <2>2, <2>3, HasNone, Zenon DEF Why
<1>4. CASE Has(ArchAndCpu(b, argv), S)
  <2> DEFINE c == ~Has(argv, {"-march=", "-mtune=", "-mcpu="})
             s == If(b.arch, <<Plain("-march=")>>)
             t == If(b.cpu, <<Plain("-mcpu=")>>)
  <2>1. c
    <3>1. ~c => ArchAndCpu(b, argv) = <<>>
      BY Zenon DEF ArchAndCpu, If
    <3> QED
      BY <1>4, <3>1, HasNone, Zenon
  <2>2. (s = <<Plain("-march=")>> \/ s = <<>>) /\ (t = <<Plain("-mcpu=")>> \/ t = <<>>)
    BY Zenon DEF If
  <2>3. ArchAndCpu(b, argv) = s \o t
    BY <2>1, Zenon DEF ArchAndCpu, If
  <2>4. Plain("-march=") \in Extras /\ Plain("-mcpu=") \in Extras
    BY Zenon DEF Extras
  <2> HIDE DEF s, t
  <2>5. "-march=" \in S \/ "-mcpu=" \in S
    BY <1>4, <2>2, <2>3, <2>4, HasTwo
  <2> QED
    BY <2>1, <2>5, Zenon DEF Why
<1>5. CASE Has(DateArgs(b, env), S)
  <2> DEFINE three == <<Plain("-D__TIME__="), Plain("-D__DATE__="), Plain("-Wno-builtin-macro-redefined")>>
  <2>1. DateArgs(b, env) = three \/ DateArgs(b, env) = <<>>
    BY Zenon DEF DateArgs, If
  <2>2. Has(three, S)
    BY <1>5, <2>1, HasNone, Zenon
  <2>3. \E d \in Dates : d \in S
    <3>1. PICK i \in DOMAIN three : three[i].opt \in S
      BY <2>2, Zenon DEF Has
    <3>2. i \in {1, 2, 3}
      BY <3>1
    <3>3. /\ three[1].opt = "-D__TIME__=" /\ three[2].opt = "-D__DATE__="
          /\ three[3].opt = "-Wno-builtin-macro-redefined"
      BY DEF Plain, Arg
    <3> HIDE DEF three
    <3> QED
      BY <3>1, <3>2, <3>3 DEF Dates
  <2> QED
    BY <2>3, Zenon DEF Why
<1>6. CASE Has(Pie(b, argv), S)
  <2> DEFINE c == ~Has(argv, NotPie)
             c1 == ~Has(argv, {"-fpie", "-fPIE", "-fpic", "-fPIC"})
             c2 == ~Has(argv, {"-shared"})
             s == If(c1, <<Plain("-fPIE")>>)
             t == If(c2, <<Plain("-pie")>>)
  <2>1. c /\ Pie(b, argv) = s \o t
    <3>1. Pie(b, argv) = <<>> \/ (c /\ Pie(b, argv) = s \o t)
      BY Zenon DEF Pie, If
    <3> QED
      BY <1>6, <3>1, HasNone, Zenon
  <2>2. (s = <<Plain("-fPIE")>> \/ s = <<>>) /\ (t = <<Plain("-pie")>> \/ t = <<>>)
    BY Zenon DEF If
  <2>3. (~c1 => s = <<>>) /\ (~c2 => t = <<>>)
    BY Zenon DEF If
  <2>4. Plain("-fPIE") \in Extras /\ Plain("-pie") \in Extras
    BY Zenon DEF Extras
  <2> HIDE DEF s, t
  <2>5. Has(s, S) \/ Has(t, S)
    BY <1>6, <2>1, <2>2, <2>4, OneOrNone, HasConcat
  <2>6. CASE Has(s, S)
    BY <2>1, <2>2, <2>3, <2>6, HasOne, HasNone, Zenon DEF Why
  <2>7. CASE Has(t, S)
    BY <2>1, <2>2, <2>3, <2>7, HasOne, HasNone, Zenon DEF Why
  <2> QED
    BY <2>5, <2>6, <2>7
<1>7. CASE Has(Relro(b, argv), S)
  <2> DEFINE c == ~Has(argv, {"-D__KERNEL__", "-D__UBOOT__"})
             s == If(b.relro = "full", <<Plain("-Wl,-z,now")>>)
             t == If(b.relro # "no", <<Plain("-Wl,-z,relro")>>)
  <2>1. c /\ Relro(b, argv) = s \o t
    <3>1. Relro(b, argv) = <<>> \/ (c /\ Relro(b, argv) = s \o t)
      BY Zenon DEF Relro, If
    <3> QED
      BY <1>7, <3>1, HasNone, Zenon
  <2>2. (s = <<Plain("-Wl,-z,now")>> \/ s = <<>>) /\ (t = <<Plain("-Wl,-z,relro")>> \/ t = <<>>)
    BY Zenon DEF If
  <2>3. Plain("-Wl,-z,now") \in Extras /\ Plain("-Wl,-z,relro") \in Extras
    BY Zenon DEF Extras
  <2> HIDE DEF s, t
  <2>4. "-Wl,-z,now" \in S \/ "-Wl,-z,relro" \in S
    <3>1. Has(s \o t, S)
      BY <1>7, <2>1, Zenon
    <3> QED
      BY <2>2, <2>3, <3>1, HasTwo
  <2> QED
    BY <2>1, <2>4, Zenon DEF Why, Hardening
<1> QED
  BY <1>1, <1>2, <1>3, <1>4, <1>5, <1>6, <1>7

-----------------------------------------------------------------------------
(* The search for directories of the host (NoUnsafePath).                  *)

Scanning == [from |-> 1, path |-> FALSE, unsafe |-> FALSE]
ScanStates == [from : 1..6, path : BOOLEAN, unsafe : BOOLEAN]
ScanOp(p, acc, arg) == CheckArg(acc, arg)
Scan == INSTANCE Folding WITH Op <- ScanOp

\* The scan of the arguments, one after the other.
LEMMA ScanPass ==
  ASSUME NEW seq, NEW n \in Nat, DOMAIN seq = 1..n, NEW u, NEW v, v = Scan!Folded(0, u, seq)
  PROVE  \E h : h[0] = u /\ h[n] = v /\ \A i \in 1..n : h[i] = CheckArg(h[i - 1], seq[i])
  BY Scan!FoldSteps DEF ScanOp

LEMMA ScanSteps ==
  ASSUME NEW argv \in Seq(Arguments)
  PROVE  \E g : /\ g[0] = Scanning
                /\ \A i \in 1..Len(argv) : g[i] = CheckArg(g[i - 1], argv[i])
                /\ Unsafe(argv) = g[Len(argv)].unsafe
<1> DEFINE v == Scan!Folded(0, Scanning, argv)
           n == Len(argv)
<1>1. DOMAIN argv = 1..n /\ n \in Nat
  OBVIOUS
<1>2. Unsafe(argv) = v.unsafe
  BY DEF Unsafe, Scanning, FoldLeft, MapThenFoldSet, Max, Scan!FoldLeft, Scan!MapThenFoldSet, Scan!Max,
         ScanOp, Scan!Folded
<1> HIDE DEF n
<1>3. PICK h : h[0] = Scanning /\ h[n] = v /\ \A i \in 1..n : h[i] = CheckArg(h[i - 1], argv[i])
  BY <1>1, ScanPass
<1> QED
  BY <1>2, <1>3 DEF n

\* The options that are searched for are five.
LEMMA FiveOptions ==
  DOMAIN UnsafeOpts = 1..5 /\ Len(UnsafeOpts) = 5 /\ "" \notin Range(UnsafeOpts)
<1>1. DOMAIN UnsafeOpts = 1..5 /\ Len(UnsafeOpts) = 5
  BY DEF UnsafeOpts
<1>2. \A i \in 1..5 : UnsafeOpts[i] # ""
  <2>1. \A i \in 1..5 : i = 1 \/ i = 2 \/ i = 3 \/ i = 4 \/ i = 5
    OBVIOUS
  <2>2. /\ UnsafeOpts[1] # "" /\ UnsafeOpts[2] # "" /\ UnsafeOpts[3] # ""
        /\ UnsafeOpts[4] # "" /\ UnsafeOpts[5] # ""
    BY DEF UnsafeOpts
  <2> QED
    BY <2>1, <2>2
<1> QED
  BY <1>1, <1>2 DEF Range

\* A state of the scan stays one, and unsafe stays as it is, when it moves on.
LEMMA StatesChanged ==
  ASSUME NEW acc \in ScanStates, NEW from \in 1..6, NEW path \in BOOLEAN
  PROVE  LET new == [acc EXCEPT !.from = from, !.path = path]
         IN new \in ScanStates /\ new.from = from /\ new.path = path /\ new.unsafe = acc.unsafe
BY DEF ScanStates

\* What the check of a directory does to the scan.
LEMMA PathChecked ==
  ASSUME NEW acc \in ScanStates, NEW path
  PROVE  LET new == CheckUnsafePath(acc, path)
         IN /\ new \in ScanStates /\ new.from = acc.from /\ new.path = acc.path
            /\ acc.unsafe => new.unsafe
            /\ path \in UnsafePaths => new.unsafe
BY DEF ScanStates, CheckUnsafePath

\* What one argument does to the scan: it stays found.
LEMMA ScanKeeps ==
  ASSUME NEW acc \in ScanStates, NEW arg
  PROVE  LET checked == IF acc.path /\ arg.opt = "" THEN CheckUnsafePath(acc, arg.rest) ELSE acc
             fits == {j \in acc.from..5 : UnsafeOpts[j] = arg.opt}
             next == CheckArg(acc, arg)
         IN /\ next \in ScanStates
            /\ checked.unsafe => next.unsafe
            /\ acc.unsafe => next.unsafe
            /\ fits = {} \/ arg.rest # "" => ~next.path /\ next.from = 1
            /\ fits # {} /\ arg.rest = "" =>
                 next.path /\ \E a \in 1..5 : UnsafeOpts[a] = arg.opt /\ next.from = a + 1
            /\ fits # {} /\ arg.rest # "" /\ arg.rest \in UnsafePaths => next.unsafe
<1> DEFINE checked == IF acc.path /\ arg.opt = "" THEN CheckUnsafePath(acc, arg.rest) ELSE acc
           fits == {j \in acc.from..5 : UnsafeOpts[j] = arg.opt}
           next == [checked EXCEPT !.from = 1, !.path = FALSE]
<1>1. checked \in ScanStates /\ checked.from = acc.from /\ (acc.unsafe => checked.unsafe)
  BY PathChecked
<1>2. next \in ScanStates /\ next.from = 1 /\ next.path = FALSE /\ next.unsafe = checked.unsafe
  <2> HIDE DEF checked
  <2>1. 1 \in 1..6 /\ FALSE \in BOOLEAN
    OBVIOUS
  <2> QED
    BY <1>1, <2>1, StatesChanged, Zenon
<1>3. CheckArg(acc, arg) =
        CASE fits = {} -> next
          [] fits # {} /\ arg.rest # "" -> CheckUnsafePath(next, arg.rest)
          [] OTHER -> [checked EXCEPT !.from = (CHOOSE j \in fits : TRUE) + 1, !.path = TRUE]
  <2>1. Len(UnsafeOpts) = 5
    BY FiveOptions
  <2> QED
    BY <2>1 DEF CheckArg
<1>4. fits \subseteq 1..5 /\ \A j \in fits : UnsafeOpts[j] = arg.opt
  BY DEF ScanStates
<1> HIDE DEF checked, fits, next
<1>5. CASE fits = {}
  <2>1. CheckArg(acc, arg) = next
    BY <1>3, <1>5
  <2> QED
    BY <1>1, <1>2, <1>5, <2>1 DEF checked, fits
<1>6. CASE fits # {} /\ arg.rest # ""
  <2>1. CheckArg(acc, arg) = CheckUnsafePath(next, arg.rest)
    BY <1>3, <1>6
  <2>2. /\ CheckUnsafePath(next, arg.rest) \in ScanStates
        /\ CheckUnsafePath(next, arg.rest).from = 1
        /\ CheckUnsafePath(next, arg.rest).path = FALSE
        /\ next.unsafe => CheckUnsafePath(next, arg.rest).unsafe
        /\ arg.rest \in UnsafePaths => CheckUnsafePath(next, arg.rest).unsafe
    BY <1>2, PathChecked
  <2> QED
    BY <1>1, <1>2, <1>6, <2>1, <2>2 DEF checked, fits
<1>7. CASE fits # {} /\ arg.rest = ""
  <2> DEFINE first == CHOOSE j \in fits : TRUE
             c == [checked EXCEPT !.from = first + 1, !.path = TRUE]
  <2>1. CheckArg(acc, arg) = c
    BY <1>3, <1>7
  <2>2. first \in 1..5 /\ UnsafeOpts[first] = arg.opt
    BY <1>4, <1>7
  <2> HIDE DEF first
  <2>3. c \in ScanStates /\ c.path = TRUE /\ c.from = first + 1 /\ c.unsafe = checked.unsafe
    <3>1. first + 1 \in 1..6
      BY <2>2
    <3> QED
      BY <1>1, <3>1, StatesChanged
  <2> QED
    BY <1>1, <1>7, <2>1, <2>2, <2>3 DEF checked, fits
<1> QED
  BY <1>5, <1>6, <1>7

LEMMA ScanGoesOn ==
  ASSUME NEW acc \in ScanStates, NEW arg
  PROVE  CheckArg(acc, arg) \in ScanStates /\ (acc.unsafe => CheckArg(acc, arg).unsafe)
BY ScanKeeps, Zenon

\* The scan takes an argument as the compiler does: as a path only, or as an
\* option to be compared with all in the table.
Ready(acc, arg) ==
  IF acc.path THEN \A j \in acc.from..5 : UnsafeOpts[j] = arg.opt => arg.rest # ""
  ELSE acc.from = 1

StepsOn(acc, arg, next) ==
  /\ next.path <=> ~acc.path /\ arg.opt \in Range(UnsafeOpts) /\ arg.rest = ""
  /\ ~next.path => next.from = 1
  /\ next.path => \E a \in 1..5 : UnsafeOpts[a] = arg.opt /\ next.from = a + 1

LEMMA ScanStep ==
  ASSUME NEW acc \in ScanStates, NEW arg, Ready(acc, arg), NEW next, next = CheckArg(acc, arg)
  PROVE  /\ StepsOn(acc, arg, next)
         /\ /\ IF acc.path THEN arg.opt = "" ELSE arg.opt \in Range(UnsafeOpts) /\ arg.rest # ""
            /\ arg.rest \in UnsafePaths
            => next.unsafe
<1> DEFINE fits == {j \in acc.from..5 : UnsafeOpts[j] = arg.opt}
           checked == IF acc.path /\ arg.opt = "" THEN CheckUnsafePath(acc, arg.rest) ELSE acc
<1>1. /\ checked.unsafe => next.unsafe
      /\ fits = {} \/ arg.rest # "" => ~next.path /\ next.from = 1
      /\ fits # {} /\ arg.rest = "" =>
           next.path /\ \E a \in 1..5 : UnsafeOpts[a] = arg.opt /\ next.from = a + 1
      /\ fits # {} /\ arg.rest # "" /\ arg.rest \in UnsafePaths => next.unsafe
  BY ScanKeeps
<1>2. acc.path => fits = {} \/ arg.rest # ""
  BY DEF Ready
<1>3. ~acc.path => (fits # {} <=> arg.opt \in Range(UnsafeOpts))
  <2>1. DOMAIN UnsafeOpts = 1..5
    BY FiveOptions
  <2> QED
    BY <2>1 DEF Ready, Range
<1>4. acc.path /\ arg.opt = "" /\ arg.rest \in UnsafePaths => checked.unsafe
  BY PathChecked
<1> HIDE DEF fits, checked
<1>5. CASE acc.path
  BY <1>1, <1>2, <1>4, <1>5 DEF StepsOn
<1>6. CASE ~acc.path
  BY <1>1, <1>3, <1>6 DEF StepsOn
<1> QED
  BY <1>5, <1>6

\* An option that stands alone is the last one of a row of them.
LEMMA RowStarts ==
  ASSUME NEW argv \in Seq(Arguments), NEW k \in 1..Len(argv), Bare(argv, k)
  PROVE  \E i \in 1..k : RowOfBare(argv, i, k)
<1> DEFINE n == Len(argv)
           Starts(k0) == k0 > 0 /\ Bare(argv, k0) => \E i \in 1..k0 : RowOfBare(argv, i, k0)
           T == {k0 \in 0..n : Starts(k0)}
<1>1. n \in Nat
  OBVIOUS
<1>2. 0 \in T
  BY <1>1
<1>3. ASSUME NEW j \in 0..(n - 1), j \in T PROVE j + 1 \in T
  <2>1. j + 1 \in 0..n /\ j \in Nat /\ Starts(j)
    BY <1>1, <1>3
  <2>2. CASE j > 0 /\ Bare(argv, j)
    <3>1. PICK i \in 1..j : RowOfBare(argv, i, j)
      BY <2>1, <2>2
    <3>2. \A m \in i..(j + 1) : m \in i..j \/ m = j + 1
      BY <2>1
    <3>3. Bare(argv, j + 1) => RowOfBare(argv, i, j + 1)
      BY <3>1, <3>2 DEF RowOfBare
    <3>4. i \in 1..(j + 1)
      BY <2>1
    <3> QED
      BY <2>1, <3>3, <3>4
  <2>3. CASE ~(j > 0 /\ Bare(argv, j))
    <3>1. \A m \in (j + 1)..(j + 1) : m = j + 1
      BY <2>1
    <3>2. j + 1 = 1 \/ ~Bare(argv, (j + 1) - 1)
      BY <2>1, <2>3
    <3>3. Bare(argv, j + 1) => RowOfBare(argv, j + 1, j + 1)
      BY <3>1, <3>2 DEF RowOfBare
    <3>4. j + 1 \in 1..(j + 1)
      BY <2>1
    <3> QED
      BY <2>1, <3>3, <3>4
  <2> QED
    BY <2>2, <2>3
<1> HIDE DEF T
<1>4. 0..n \subseteq T
  BY <1>1, <1>2, <1>3, Scan!UpTo
<1>5. Starts(k)
  BY <1>1, <1>4 DEF T
<1> QED
  BY <1>5

\* Two rows that end at the same argument are one.
LEMMA OneRow ==
  ASSUME NEW argv, NEW k \in Nat, NEW i \in 1..k, NEW j \in 1..k,
         RowOfBare(argv, i, k), RowOfBare(argv, j, k)
  PROVE  i = j
<1>1. CASE i < j
  <2>1. j - 1 \in i..k /\ j # 1
    BY <1>1
  <2> QED
    BY <2>1 DEF RowOfBare
<1>2. CASE j < i
  <2>1. i - 1 \in j..k /\ i # 1
    BY <1>2
  <2> QED
    BY <2>1 DEF RowOfBare
<1> QED
  BY <1>1, <1>2

\* An argument is taken by the one before it, unless that was taken itself.
LEMMA TakenNext ==
  ASSUME NEW argv \in Seq(Arguments), NEW k \in 1..Len(argv)
  PROVE  Operand(argv, k + 1) <=> Bare(argv, k) /\ ~Operand(argv, k)
<1>0. k \in Nat /\ (k + 1) - 1 = k /\ k - 1 \in Nat /\ k \in 1..k
  OBVIOUS
<1>1. ASSUME Operand(argv, k + 1) PROVE Bare(argv, k) /\ ~Operand(argv, k)
  <2>1. PICK i \in 1..k : RowOfBare(argv, i, k) /\ ((k + 1) - i) % 2 = 1
    BY <1>0, <1>1 DEF Operand
  <2>2. Bare(argv, k)
    <3>1. k \in i..k
      BY <1>0
    <3> QED
      BY <2>1, <3>1 DEF RowOfBare
  <2>3. ASSUME NEW j \in 1..(k - 1), RowOfBare(argv, j, k - 1), (k - j) % 2 = 1 PROVE FALSE
    <3>1. RowOfBare(argv, j, k)
      <4>1. \A m \in j..k : m \in j..(k - 1) \/ m = k
        BY <1>0
      <4> QED
        BY <2>2, <2>3, <4>1 DEF RowOfBare
    <3>2. j \in 1..k
      BY <1>0
    <3>3. i = j
      BY <1>0, <2>1, <3>1, <3>2, OneRow
    <3> QED
      BY <1>0, <2>1, <2>3, <3>3
  <2> QED
    BY <2>2, <2>3 DEF Operand
<1>2. ASSUME Bare(argv, k), ~Operand(argv, k) PROVE Operand(argv, k + 1)
  <2>1. PICK i \in 1..k : RowOfBare(argv, i, k)
    BY <1>2, RowStarts
  <2>2. CASE ((k + 1) - i) % 2 = 1
    BY <1>0, <2>1, <2>2 DEF Operand
  <2>3. CASE ((k + 1) - i) % 2 # 1
    <3>1. (k - i) % 2 = 1 /\ i \in 1..(k - 1)
      BY <1>0, <2>3
    <3>2. RowOfBare(argv, i, k - 1)
      <4>1. \A m \in i..(k - 1) : m \in i..k
        BY <1>0
      <4> QED
        BY <2>1, <4>1 DEF RowOfBare
    <3> QED
      BY <1>2, <3>1, <3>2 DEF Operand
  <2> QED
    BY <2>2, <2>3
<1> QED
  BY <1>1, <1>2

\* No unsafe directory escapes the scan but behind a pair that it misreads.
LEMMA UnsafeFound ==
  ASSUME NEW argv \in Seq(Arguments), NEW k \in DOMAIN argv,
         SearchesAt(argv, k), argv[k].rest \in UnsafePaths,
         \A i \in 1..(k - 2) : ~Misread(argv, i)
  PROVE  Unsafe(argv)
<1> DEFINE n == Len(argv)
<1>1. PICK g : /\ g[0] = Scanning
               /\ \A i \in 1..n : g[i] = CheckArg(g[i - 1], argv[i])
               /\ Unsafe(argv) = g[n].unsafe
  BY ScanSteps
<1> DEFINE InStep(i) ==
             /\ g[i].path <=> Operand(argv, i + 1)
             /\ ~g[i].path => g[i].from = 1
             /\ g[i].path => \E a \in 1..5 : UnsafeOpts[a] = argv[i].opt /\ g[i].from = a + 1
           Right(i) ==
             /\ g[i] \in ScanStates
             /\ i < k => InStep(i)
             /\ k <= i => g[i].unsafe
           T == {i \in 0..n : Right(i)}
<1>2. n \in Nat /\ DOMAIN argv = 1..n /\ k \in 1..n
  OBVIOUS
<1>3. 0 \in T
  <2>1. Scanning \in ScanStates /\ ~Scanning.path /\ Scanning.from = 1
    BY DEF Scanning, ScanStates
  <2>2. ~(k <= 0) /\ ~Operand(argv, 0 + 1)
    BY <1>2 DEF Operand
  <2> QED
    BY <1>1, <1>2, <2>1, <2>2
<1>4. ASSUME NEW i \in 0..(n - 1), i \in T PROVE i + 1 \in T
  <2> DEFINE acc == g[i]
             arg == argv[i + 1]
             next == g[i + 1]
  <2>1. i + 1 \in 1..n /\ i + 1 \in 0..n /\ (i + 1) - 1 = i /\ i \in Nat /\ Right(i)
    BY <1>2, <1>4
  <2>2. next = CheckArg(acc, arg)
    BY <1>1, <2>1
  <2>3. /\ acc \in ScanStates
        /\ k <= i => acc.unsafe
        /\ i < k => /\ acc.path <=> Operand(argv, i + 1)
                    /\ ~acc.path => acc.from = 1
                    /\ acc.path => \E a \in 1..5 : UnsafeOpts[a] = argv[i].opt /\ acc.from = a + 1
    BY <2>1
  <2>4. arg = argv[i + 1]
    OBVIOUS
  <2>5. SUFFICES /\ next \in ScanStates
                 /\ k <= i + 1 => next.unsafe
                 /\ i + 1 < k =>
                      /\ next.path <=> Operand(argv, (i + 1) + 1)
                      /\ ~next.path => next.from = 1
                      /\ next.path => \E a \in 1..5 : UnsafeOpts[a] = arg.opt /\ next.from = a + 1
    BY <2>1
  <2> HIDE DEF acc, arg, next, Right, InStep
  <2>6. next \in ScanStates /\ (acc.unsafe => next.unsafe)
    BY <2>2, <2>3, ScanGoesOn
  <2>7. CASE k <= i
    <3>1. next.unsafe /\ ~(i + 1 < k)
      BY <1>2, <2>1, <2>3, <2>6, <2>7
    <3> QED
      BY <2>6, <3>1
  <2>8. CASE i + 1 = k
    <3>1. i < k /\ ~(i + 1 < k) /\ (acc.path <=> Operand(argv, k)) /\ arg = argv[k]
      BY <2>1, <2>3, <2>4, <2>8
    <3>2. IF acc.path THEN arg.opt = "" ELSE arg.opt \in Range(UnsafeOpts)
      BY <3>1 DEF SearchesAt
    <3>3. arg.rest \in UnsafePaths /\ arg.rest # ""
      BY <3>1, UnsafeAssumption
    <3>4. Ready(acc, arg)
      <4>1. CASE acc.path
        <5>1. \A j \in 1..5 : UnsafeOpts[j] # arg.opt
          BY <3>2, <4>1, FiveOptions DEF Range
        <5>2. acc.from..5 \subseteq 1..5
          BY <2>3 DEF ScanStates
        <5> QED
          BY <4>1, <5>1, <5>2 DEF Ready
      <4>2. CASE ~acc.path
        BY <2>3, <3>1, <4>2 DEF Ready
      <4> QED
        BY <4>1, <4>2
    <3>5. next.unsafe
      BY <2>2, <2>3, <3>2, <3>3, <3>4, ScanStep
    <3> QED
      BY <2>6, <3>1, <3>5
  <2>9. CASE i + 1 < k
    <3>1. /\ acc.path <=> Operand(argv, i + 1)
          /\ ~acc.path => acc.from = 1
          /\ acc.path => \E a \in 1..5 : UnsafeOpts[a] = argv[i].opt /\ acc.from = a + 1
      BY <1>2, <2>1, <2>3, <2>9
    <3>2. ASSUME acc.path, NEW j \in acc.from..5, UnsafeOpts[j] = arg.opt, arg.rest = ""
          PROVE  FALSE
      <4>1. PICK a \in 1..5 : UnsafeOpts[a] = argv[i].opt /\ acc.from = a + 1
        BY <3>1, <3>2
      <4>2. i # 0
        <5>1. ~Operand(argv, 0 + 1)
          BY DEF Operand
        <5> QED
          BY <3>1, <3>2, <5>1
      <4>3. i \in 1..(k - 2) /\ i \in 1..Len(argv)
        BY <1>2, <2>1, <2>9, <4>2
      <4>4. Bare(argv, i) /\ ~Operand(argv, i)
        BY <3>1, <3>2, <4>3, TakenNext
      <4>5. a < j /\ j \in 1..5
        <5>1. j \in (a + 1)..5
          BY <3>2, <4>1, Zenon
        <5> QED
          BY <5>1
      <4>6. DOMAIN UnsafeOpts = 1..5
        BY FiveOptions
      <4>7. Bare(argv, i + 1)
        BY <2>4, <3>2, <4>5, <4>6 DEF Bare, Range
      <4>8. UnsafeOpts[j] = argv[i + 1].opt
        BY <2>4, <3>2
      <4>9. Misread(argv, i)
        BY <4>1, <4>4, <4>5, <4>6, <4>7, <4>8 DEF Misread
      <4> QED
        BY <4>3, <4>9
    <3>3. Ready(acc, arg)
      BY <3>1, <3>2 DEF Ready
    <3>4. /\ next.path <=> ~acc.path /\ arg.opt \in Range(UnsafeOpts) /\ arg.rest = ""
          /\ ~next.path => next.from = 1
          /\ next.path => \E a \in 1..5 : UnsafeOpts[a] = arg.opt /\ next.from = a + 1
      <4>1. acc \in ScanStates
        BY <2>3
      <4>2. StepsOn(acc, arg, next)
        BY <2>2, <3>3, <4>1, ScanStep
      <4> QED
        BY <4>2 DEF StepsOn
    <3>5. Bare(argv, i + 1) <=> arg.opt \in Range(UnsafeOpts) /\ arg.rest = ""
      BY <2>4 DEF Bare
    <3>6. Operand(argv, (i + 1) + 1) <=> Bare(argv, i + 1) /\ ~acc.path
      BY <2>1, <3>1, TakenNext
    <3>7. ~(k <= i + 1)
      BY <1>2, <2>1, <2>9
    <3> QED
      BY <2>6, <3>4, <3>5, <3>6, <3>7
  <2>10. k <= i \/ i + 1 = k \/ i + 1 < k
    BY <1>2, <2>1
  <2> QED
    BY <2>7, <2>8, <2>9, <2>10
<1> HIDE DEF T
<1>5. 0..n \subseteq T
  BY <1>2, <1>3, <1>4, Scan!UpTo
<1>6. Right(n)
  BY <1>2, <1>5 DEF T
<1> QED
  BY <1>1, <1>2, <1>6

-----------------------------------------------------------------------------
(* Groups: what one more does.                                             *)

\* The state of the script, and the two files, are what they look like.
Shape(u) == u = [pw |-> u.pw, gr |-> u.gr, homes |-> u.homes, ok |-> u.ok] /\ u.ok \in BOOLEAN
GroupFile(gr) == gr \in [DOMAIN gr -> [gid : Int, members : SUBSET STRING]]
UserFile(pw) == pw \in [DOMAIN pw -> [uid : Int, gid : Int]]

\* The lowest of the numbers that are free is one of them.
LEMMA LowestIsFree ==
  ASSUME NEW ids \in SUBSET Nat, NEW taken, ~(ids \subseteq taken)
  PROVE  Lowest(ids, taken) \in ids \ taken
<1> DEFINE S == ids \ taken
           R == OpToRel(<, Nat)
<1>1. S # {} /\ S \subseteq Nat
  OBVIOUS
<1>2. IsWellFoundedOn(R, Nat)
  BY NatLessThanWellFounded
<1>3. \A x, y \in Nat : y < x => <<y, x>> \in R
  BY DEF OpToRel
<1> HIDE DEF R
<1>4. \E x \in S : \A y \in S : ~(<<y, x>> \in R)
  BY <1>1, <1>2, WFMin
<1>5. PICK x \in S : \A y \in S : ~(<<y, x>> \in R)
  BY <1>4
<1>6. ASSUME NEW y \in S PROVE x <= y
  <2>1. x \in Nat /\ y \in Nat
    BY <1>1
  <2>2. ~(y < x)
    BY <1>3, <1>5, <2>1
  <2> QED
    BY <2>1, <2>2
<1> HIDE DEF S
<1>7. Min(S) \in S
  BY <1>5, <1>6 DEF Min
<1> QED
  BY <1>7 DEF Lowest, S

\* A group that is added has the number that was given for it, that it had,
\* or one that no other has; it keeps its members, and the others are left.
LEMMA GroupAdded ==
  ASSUME NEW u, Shape(u), GroupFile(u.gr), NEW group, NEW gid \in Int,
         NEW v, v = AddOneGroup(u, group, gid)
  PROVE  /\ Shape(v) /\ v.pw = u.pw
         /\ v.ok =>
              /\ u.ok /\ GroupFile(v.gr) /\ DOMAIN v.gr = DOMAIN u.gr \union {group}
              /\ \A g \in DOMAIN u.gr \ {group} : v.gr[g] = u.gr[g]
              /\ group \in DOMAIN u.gr => u.gr[group].members \subseteq v.gr[group].members
              /\ ~IsAuto(gid) => v.gr[group].gid = gid
              /\ IsAuto(gid) /\ group \in DOMAIN u.gr => v.gr[group].gid = u.gr[group].gid
              /\ IsAuto(gid) /\ group \notin DOMAIN u.gr =>
                   /\ v.gr[group].gid \in Nat
                   /\ \A g \in DOMAIN u.gr : u.gr[g].gid # v.gr[group].gid
<1> DEFINE members == IF group \in DOMAIN u.gr THEN u.gr[group].members ELSE {}
           id == IF IsAuto(gid) THEN GenerateGid(u, group, Ids(gid)) ELSE gid
           new == [gid |-> id, members |-> members]
           gr == With(u.gr, group, new)
<1>1. CASE ~u.ok
  BY <1>1 DEF AddOneGroup
<1>2. CASE u.ok /\ NoGid(u, group, gid)
  <2>1. v = [u EXCEPT !.ok = FALSE]
    BY <1>2 DEF AddOneGroup, Failed
  <2>2. v.ok = FALSE /\ v.pw = u.pw /\ Shape(v)
    BY <2>1 DEF Shape
  <2> QED
    BY <2>2
<1>3. CASE u.ok /\ ~NoGid(u, group, gid)
  <2>1. v = [u EXCEPT !.gr = gr]
    BY <1>3 DEF AddOneGroup
  <2>2. members \in SUBSET STRING
    BY DEF GroupFile
  <2>3. IsAuto(gid) /\ group \notin DOMAIN u.gr =>
          id \in Nat /\ \A g \in DOMAIN u.gr : u.gr[g].gid # id
    <3> SUFFICES ASSUME IsAuto(gid), group \notin DOMAIN u.gr
                 PROVE  id \in Nat /\ \A g \in DOMAIN u.gr : u.gr[g].gid # id
      OBVIOUS
    <3> DEFINE taken == {u.gr[g].gid : g \in DOMAIN u.gr}
    <3>1. id = Lowest(Ids(gid), taken)
      BY DEF GenerateGid
    <3>2. ~(Ids(gid) \subseteq taken)
      BY <1>3 DEF NoGid
    <3>3. Ids(gid) \in SUBSET Nat
      BY IdsAssumption DEF Ids, IdsAssumption
    <3> HIDE DEF id
    <3>4. id \in Ids(gid) \ taken
      BY <3>1, <3>2, <3>3, LowestIsFree
    <3> QED
      BY <3>3, <3>4
  <2>4. IsAuto(gid) /\ group \in DOMAIN u.gr => id = u.gr[group].gid
    BY DEF GenerateGid
  <2>5. ~IsAuto(gid) => id = gid
    OBVIOUS
  <2>6. id \in Int
    BY <2>3, <2>4, <2>5 DEF GroupFile
  <2> HIDE DEF id, members
  <2> HIDE DEF new
  <2>7. /\ DOMAIN gr = DOMAIN u.gr \union {group} /\ gr[group] = new
        /\ \A g \in DOMAIN u.gr \ {group} : gr[g] = u.gr[g]
        /\ gr = [g \in DOMAIN gr |-> gr[g]]
    BY DEF With
  <2> HIDE DEF gr
  <2>8. GroupFile(gr)
    BY <2>2, <2>6, <2>7 DEF GroupFile, new
  <2>9. Shape(v) /\ v.pw = u.pw /\ v.gr = gr /\ v.ok = u.ok
    BY <2>1 DEF Shape
  <2>10. group \in DOMAIN u.gr => members = u.gr[group].members
    BY DEF members
  <2>11. gr[group].gid = id /\ gr[group].members = members
    BY <2>7 DEF new
  <2> QED
    BY <1>3, <2>3, <2>4, <2>5, <2>7, <2>8, <2>9, <2>10, <2>11
<1> QED
  BY <1>1, <1>2, <1>3 DEF Shape

-----------------------------------------------------------------------------
(* Groups: the passes.  Two groups have the same number only if a line     *)
(* gave it to one of them; whether that line makes a user is seen to when  *)
(* its user is added.                                                      *)

Given(e, g, id) == (e.group = g /\ e.gid = id) \/ (g \in Range(e.groups) /\ AutoId(e) = id)

GroupsInv(pw, gr, E, u) ==
  /\ Shape(u)
  /\ u.ok =>
       /\ GroupFile(u.gr) /\ u.pw = pw
       /\ \A g \in DOMAIN gr : g \in DOMAIN u.gr /\ gr[g].members \subseteq u.gr[g].members
       /\ \A g \in DOMAIN u.gr : ~IsAuto(u.gr[g].gid)
       /\ \A g, h \in DOMAIN u.gr :
            g # h /\ u.gr[g].gid = u.gr[h].gid =>
              \E e \in E : Given(e, g, u.gr[g].gid) \/ Given(e, h, u.gr[g].gid)

Further(u, v) == v.ok => u.ok /\ DOMAIN u.gr \subseteq DOMAIN v.gr

\* One more group keeps the invariant, if it is to be chosen or a line gives it.
LEMMA GroupsKept ==
  ASSUME NEW pw, NEW gr, NEW E, NEW u, GroupsInv(pw, gr, E, u), NEW group, NEW gid \in Int,
         IsAuto(gid) \/ \E e \in E : Given(e, group, gid),
         NEW v, v = AddOneGroup(u, group, gid)
  PROVE  GroupsInv(pw, gr, E, v) /\ Further(u, v) /\ (v.ok => group \in DOMAIN v.gr)
<1>0. CASE ~u.ok
  BY <1>0 DEF AddOneGroup, Further
<1>a. Shape(u)
  BY DEF GroupsInv
<1> SUFFICES ASSUME u.ok PROVE GroupsInv(pw, gr, E, v) /\ Further(u, v) /\ (v.ok => group \in DOMAIN v.gr)
  BY <1>0
<1>b. GroupFile(u.gr)
  BY DEF GroupsInv
<1>1. /\ Shape(v) /\ v.pw = u.pw
      /\ v.ok =>
           /\ u.ok /\ GroupFile(v.gr) /\ DOMAIN v.gr = DOMAIN u.gr \union {group}
           /\ \A g \in DOMAIN u.gr \ {group} : v.gr[g] = u.gr[g]
           /\ group \in DOMAIN u.gr => u.gr[group].members \subseteq v.gr[group].members
           /\ ~IsAuto(gid) => v.gr[group].gid = gid
           /\ IsAuto(gid) /\ group \in DOMAIN u.gr => v.gr[group].gid = u.gr[group].gid
           /\ IsAuto(gid) /\ group \notin DOMAIN u.gr =>
                /\ v.gr[group].gid \in Nat
                /\ \A g \in DOMAIN u.gr : u.gr[g].gid # v.gr[group].gid
  BY <1>a, <1>b, GroupAdded
<1>2. CASE ~v.ok
  BY <1>1, <1>2 DEF GroupsInv, Further
<1>3. CASE v.ok
  <2>1. \A g \in DOMAIN gr : g \in DOMAIN v.gr /\ gr[g].members \subseteq v.gr[g].members
    BY <1>1, <1>3 DEF GroupsInv
  <2>2. \A n \in Nat : ~IsAuto(n)
    BY DEF IsAuto, AutoSystemId, AutoUserId
  <2>3. \A g \in DOMAIN v.gr : ~IsAuto(v.gr[g].gid)
    BY <1>1, <1>3, <2>2 DEF GroupsInv
  <2>4. ASSUME NEW g \in DOMAIN v.gr, NEW h \in DOMAIN v.gr, g # h, v.gr[g].gid = v.gr[h].gid
        PROVE  \E e \in E : Given(e, g, v.gr[g].gid) \/ Given(e, h, v.gr[g].gid)
    <3>1. CASE g # group /\ h # group
      BY <1>1, <1>3, <2>4, <3>1 DEF GroupsInv
    <3>2. CASE g = group \/ h = group
      <4>1. CASE ~IsAuto(gid)
        BY <1>1, <1>3, <2>4, <3>2, <4>1
      <4>2. CASE IsAuto(gid) /\ group \in DOMAIN u.gr
        <5>1. \A f \in DOMAIN u.gr : v.gr[f].gid = u.gr[f].gid
          BY <1>1, <1>3, <4>2
        <5>2. DOMAIN v.gr = DOMAIN u.gr
          BY <1>1, <1>3, <4>2
        <5> QED
          BY <2>4, <5>1, <5>2 DEF GroupsInv
      <4>3. CASE IsAuto(gid) /\ group \notin DOMAIN u.gr
        BY <1>1, <1>3, <2>4, <3>2, <4>3
      <4> QED
        BY <4>1, <4>2, <4>3
    <3> QED
      BY <3>1, <3>2
  <2>5. GroupsInv(pw, gr, E, v)
    BY <1>1, <1>3, <2>1, <2>3, <2>4 DEF GroupsInv
  <2> QED
    BY <1>1, <1>3, <2>5 DEF Further
<1> QED
  BY <1>1, <1>2, <1>3 DEF Shape

\* The passes, as folds (Folding proves what they go through).
FixedPass(p, u, e) == FixedGroup(u, e)
ChosenPass(p, u, e) == ChosenGroup(u, e)
OthersPass(p, u, e) == OtherGroups(u, e)
LineGroups(id, u, g) == AddOneGroup(u, g, id)
LineMembers(user, u, g) == AddUserToGroup(u, user, g)
GivenUsersPass(p, u, e) == FixedUser(u, e)
UsersPass(p, u, e) == ChosenUser(u, e)
Fixing == INSTANCE Folding WITH Op <- FixedPass
Choosing == INSTANCE Folding WITH Op <- ChosenPass
Others == INSTANCE Folding WITH Op <- OthersPass
Grouping == INSTANCE Folding WITH Op <- LineGroups
Joining == INSTANCE Folding WITH Op <- LineMembers
Entering == INSTANCE Folding WITH Op <- GivenUsersPass
Numbering == INSTANCE Folding WITH Op <- UsersPass

EveryFixedGroup(u, seq) == FoldLeft(FixedGroup, u, seq)
EveryChosenGroup(u, seq) == FoldLeft(ChosenGroup, u, seq)
EveryOtherGroups(u, seq) == FoldLeft(OtherGroups, u, seq)
EveryFixedUser(u, seq) == FoldLeft(FixedUser, u, seq)
EveryChosenUser(u, seq) == FoldLeft(ChosenUser, u, seq)

\* What each pass goes through, line by line: first that over the groups with a number.
LEMMA FixedGroupPass ==
  ASSUME NEW seq, NEW n \in Nat, DOMAIN seq = 1..n, NEW u, NEW v, v = EveryFixedGroup(u, seq)
  PROVE  \E h : h[0] = u /\ h[n] = v /\ \A i \in 1..n : h[i] = FixedGroup(h[i - 1], seq[i])
<1>1. v = Fixing!Folded(0, u, seq)
  BY DEF EveryFixedGroup, FoldLeft, MapThenFoldSet, Max, Fixing!FoldLeft, Fixing!MapThenFoldSet, Fixing!Max,
         FixedPass, Fixing!Folded
<1> QED
  BY <1>1, Fixing!FoldSteps DEF FixedPass

\* The pass over the groups whose number the script chooses.
LEMMA ChosenGroupPass ==
  ASSUME NEW seq, NEW n \in Nat, DOMAIN seq = 1..n, NEW u, NEW v, v = EveryChosenGroup(u, seq)
  PROVE  \E h : h[0] = u /\ h[n] = v /\ \A i \in 1..n : h[i] = ChosenGroup(h[i - 1], seq[i])
<1>1. v = Choosing!Folded(0, u, seq)
  BY DEF EveryChosenGroup, FoldLeft, MapThenFoldSet, Max, Choosing!FoldLeft, Choosing!MapThenFoldSet, Choosing!Max,
         ChosenPass, Choosing!Folded
<1> QED
  BY <1>1, Choosing!FoldSteps DEF ChosenPass

\* The pass over the other groups of each line.
LEMMA OtherGroupsPass ==
  ASSUME NEW seq, NEW n \in Nat, DOMAIN seq = 1..n, NEW u, NEW v, v = EveryOtherGroups(u, seq)
  PROVE  \E h : h[0] = u /\ h[n] = v /\ \A i \in 1..n : h[i] = OtherGroups(h[i - 1], seq[i])
<1>1. v = Others!Folded(0, u, seq)
  BY DEF EveryOtherGroups, FoldLeft, MapThenFoldSet, Max, Others!FoldLeft, Others!MapThenFoldSet, Others!Max,
         OthersPass, Others!Folded
<1> QED
  BY <1>1, Others!FoldSteps DEF OthersPass

\* The pass over the users with a number.
LEMMA FixedUserPass ==
  ASSUME NEW seq, NEW n \in Nat, DOMAIN seq = 1..n, NEW u, NEW v, v = EveryFixedUser(u, seq)
  PROVE  \E h : h[0] = u /\ h[n] = v /\ \A i \in 1..n : h[i] = FixedUser(h[i - 1], seq[i])
<1>1. v = Entering!Folded(0, u, seq)
  BY DEF EveryFixedUser, FoldLeft, MapThenFoldSet, Max, Entering!FoldLeft, Entering!MapThenFoldSet, Entering!Max,
         GivenUsersPass, Entering!Folded
<1> QED
  BY <1>1, Entering!FoldSteps DEF GivenUsersPass

\* The pass over the users whose number the script chooses.
LEMMA ChosenUserPass ==
  ASSUME NEW seq, NEW n \in Nat, DOMAIN seq = 1..n, NEW u, NEW v, v = EveryChosenUser(u, seq)
  PROVE  \E h : h[0] = u /\ h[n] = v /\ \A i \in 1..n : h[i] = ChosenUser(h[i - 1], seq[i])
<1>1. v = Numbering!Folded(0, u, seq)
  BY DEF EveryChosenUser, FoldLeft, MapThenFoldSet, Max, Numbering!FoldLeft, Numbering!MapThenFoldSet, Numbering!Max,
         UsersPass, Numbering!Folded
<1> QED
  BY <1>1, Numbering!FoldSteps DEF UsersPass

\* What a line of the table is.
LEMMA LineIs ==
  ASSUME NEW e \in TableLines
  PROVE  /\ e.gid \in Int /\ e.uid \in Int /\ AutoId(e) \in Int
         /\ DOMAIN e.groups = 1..Len(e.groups) /\ Len(e.groups) \in Nat
         /\ Range(e.groups) = {e.groups[k] : k \in 1..Len(e.groups)}
<1>1. e.gid \in Int /\ e.uid \in Int /\ e.groups \in Seq(STRING)
  BY DEF TableLines
<1>2. AutoId(e) \in Int
  BY <1>1 DEF AutoId, AutoSystemId, AutoUserId
<1> QED
  BY <1>1, <1>2 DEF Range

\* A pass over the main groups, of the lines that Mine says, adds them.
LEMMA MainGroupKept ==
  ASSUME NEW pw, NEW gr, NEW E \in SUBSET TableLines, NEW u, GroupsInv(pw, gr, E, u), NEW e \in E,
         NEW v, v = MainGroup(u, e)
  PROVE  GroupsInv(pw, gr, E, v) /\ Further(u, v) /\ (v.ok => e.group \in DOMAIN v.gr)
<1>1. e.gid \in Int
  BY LineIs
<1>2. Given(e, e.group, e.gid)
  BY DEF Given
<1>3. v = AddOneGroup(u, e.group, e.gid)
  BY DEF MainGroup
<1> QED
  BY <1>1, <1>2, <1>3, GroupsKept

\* So does a step of the pass over the groups with a number.
LEMMA FixedGroupKept ==
  ASSUME NEW pw, NEW gr, NEW E \in SUBSET TableLines, NEW u, GroupsInv(pw, gr, E, u), NEW e \in E,
         NEW v, v = FixedGroup(u, e)
  PROVE  /\ GroupsInv(pw, gr, E, v) /\ Further(u, v)
         /\ v.ok /\ e.gid >= 0 => e.group \in DOMAIN v.gr
<1>1. CASE e.gid >= 0
  BY <1>1, MainGroupKept DEF FixedGroup
<1>2. CASE ~(e.gid >= 0)
  BY <1>2 DEF FixedGroup, Further
<1> QED
  BY <1>1, <1>2

\* So does a step of the pass over those without.
LEMMA ChosenGroupKept ==
  ASSUME NEW pw, NEW gr, NEW E \in SUBSET TableLines, NEW u, GroupsInv(pw, gr, E, u), NEW e \in E,
         NEW v, v = ChosenGroup(u, e)
  PROVE  /\ GroupsInv(pw, gr, E, v) /\ Further(u, v)
         /\ v.ok /\ e.gid < 0 => e.group \in DOMAIN v.gr
<1>1. CASE e.gid < 0
  BY <1>1, MainGroupKept DEF ChosenGroup
<1>2. CASE ~(e.gid < 0)
  BY <1>2 DEF ChosenGroup, Further
<1> QED
  BY <1>1, <1>2

\* A pass: h[i] is the state after i steps, and step i adds the groups In[i].
LEMMA GroupPass ==
  ASSUME NEW pw, NEW gr, NEW E, NEW n \in Nat, NEW h, NEW In, GroupsInv(pw, gr, E, h[0]),
         \A i \in 1..n : GroupsInv(pw, gr, E, h[i - 1]) =>
           /\ GroupsInv(pw, gr, E, h[i]) /\ Further(h[i - 1], h[i])
           /\ h[i].ok => In[i] \subseteq DOMAIN h[i].gr
  PROVE  /\ GroupsInv(pw, gr, E, h[n]) /\ Further(h[0], h[n])
         /\ h[n].ok => \A i \in 1..n : In[i] \subseteq DOMAIN h[n].gr
<1> DEFINE P(i) == /\ GroupsInv(pw, gr, E, h[i]) /\ Further(h[0], h[i])
                   /\ h[i].ok => \A k \in 1..i : In[k] \subseteq DOMAIN h[i].gr
           T == {i \in 0..n : P(i)}
<1>1. 0 \in T
  BY DEF Further
<1>2. ASSUME NEW i \in 0..(n - 1), i \in T PROVE i + 1 \in T
  <2>1. i + 1 \in 1..n /\ (i + 1) - 1 = i /\ i \in Nat
    OBVIOUS
  <2>2. /\ GroupsInv(pw, gr, E, h[i + 1]) /\ Further(h[i], h[i + 1])
        /\ h[i + 1].ok => In[i + 1] \subseteq DOMAIN h[i + 1].gr
    BY <1>2, <2>1
  <2>3. Further(h[0], h[i + 1])
    BY <1>2, <2>2 DEF Further
  <2>4. ASSUME h[i + 1].ok, NEW k \in 1..(i + 1) PROVE In[k] \subseteq DOMAIN h[i + 1].gr
    <3>1. k = i + 1 \/ k \in 1..i
      BY <2>1
    <3> QED
      BY <1>2, <2>2, <2>4, <3>1 DEF Further
  <2> QED
    BY <2>1, <2>2, <2>3, <2>4
<1>3. n \in T
  <2> HIDE DEF T
  <2>1. 0..n \subseteq T
    BY <1>1, <1>2, Grouping!UpTo
  <2> QED
    BY <2>1
<1> QED
  BY <1>3

\* The pass over the other groups of a line.
LEMMA LineGroupsPass ==
  ASSUME NEW id, NEW seq, NEW n \in Nat, DOMAIN seq = 1..n, NEW u, NEW v, v = Grouping!Folded(id, u, seq)
  PROVE  \E h : h[0] = u /\ h[n] = v /\ \A i \in 1..n : h[i] = AddOneGroup(h[i - 1], seq[i], id)
  BY Grouping!FoldSteps DEF LineGroups

\* So does a step of the pass over the other groups of a line.
LEMMA OtherGroupsKept ==
  ASSUME NEW pw, NEW gr, NEW E \in SUBSET TableLines, NEW u, GroupsInv(pw, gr, E, u), NEW e \in E,
         NEW v, v = OtherGroups(u, e)
  PROVE  /\ GroupsInv(pw, gr, E, v) /\ Further(u, v)
         /\ v.ok => Range(e.groups) \subseteq DOMAIN v.gr
<1> DEFINE n == Len(e.groups)
           In == [k \in 1..n |-> {e.groups[k]}]
<1>1. n \in Nat /\ DOMAIN e.groups = 1..n /\ AutoId(e) \in Int
      /\ Range(e.groups) = {e.groups[k] : k \in 1..n}
  BY LineIs
<1>2. OtherGroups(u, e) = Grouping!Folded(AutoId(e), u, e.groups)
  BY DEF OtherGroups, FoldLeft, MapThenFoldSet, Max, Grouping!FoldLeft, Grouping!MapThenFoldSet,
         Grouping!Max, LineGroups, Grouping!Folded
<1> HIDE DEF n
<1>3. PICK h : /\ h[0] = u /\ h[n] = v
               /\ \A i \in 1..n : h[i] = AddOneGroup(h[i - 1], e.groups[i], AutoId(e))
  <2>1. n \in Nat /\ DOMAIN e.groups = 1..n
    BY <1>1
  <2> QED
    BY <1>2, <2>1, LineGroupsPass
<1> USE DEF n
<1>4. ASSUME NEW i \in 1..n, GroupsInv(pw, gr, E, h[i - 1])
      PROVE  /\ GroupsInv(pw, gr, E, h[i]) /\ Further(h[i - 1], h[i])
             /\ h[i].ok => In[i] \subseteq DOMAIN h[i].gr
  <2>1. Given(e, e.groups[i], AutoId(e))
    BY <1>1 DEF Given
  <2>2. h[i].ok => e.groups[i] \in DOMAIN h[i].gr
    BY <1>1, <1>3, <1>4, <2>1, GroupsKept
  <2> QED
    BY <1>1, <1>3, <1>4, <2>1, <2>2, GroupsKept
<1> HIDE DEF In
<1>5. /\ GroupsInv(pw, gr, E, h[n]) /\ Further(h[0], h[n])
      /\ h[n].ok => \A i \in 1..n : In[i] \subseteq DOMAIN h[n].gr
  BY <1>1, <1>3, <1>4, GroupPass
<1>6. \A i \in 1..n : e.groups[i] \in In[i]
  BY DEF In
<1> QED
  BY <1>1, <1>3, <1>5, <1>6

\* After the three passes all groups of the table are there.
LEMMA GroupsMade ==
  ASSUME NEW entries \in Seq(TableLines), NEW pw, NEW gr, WellNumbered(pw, gr),
         NEW g1, g1 = EveryFixedGroup(Begin(pw, gr), entries),
         NEW g2, g2 = EveryChosenGroup(g1, entries),
         NEW g3, g3 = EveryOtherGroups(g2, entries)
  PROVE  /\ GroupsInv(pw, gr, Range(entries), g3)
         /\ g3.ok => \A i \in DOMAIN entries : /\ entries[i].group \in DOMAIN g3.gr
                                               /\ Range(entries[i].groups) \subseteq DOMAIN g3.gr
<1> DEFINE n == Len(entries)
           E == Range(entries)
           Fixed == [i \in 1..n |-> IF entries[i].gid >= 0 THEN {entries[i].group} ELSE {}]
           Chosen == [i \in 1..n |-> IF entries[i].gid < 0 THEN {entries[i].group} ELSE {}]
           All == [i \in 1..n |-> Range(entries[i].groups)]
<1>1. /\ n \in Nat /\ DOMAIN entries = 1..n /\ E \in SUBSET TableLines
      /\ \A i \in 1..n : entries[i] \in E /\ entries[i].gid \in Int
  BY LineIs DEF Range
<1>2. GroupsInv(pw, gr, E, Begin(pw, gr))
  <2>1. /\ Begin(pw, gr).gr = gr /\ Begin(pw, gr).pw = pw /\ Shape(Begin(pw, gr))
    BY DEF Begin, Shape
  <2>2. GroupFile(gr) /\ \A g, h \in DOMAIN gr : g # h => gr[g].gid # gr[h].gid
    BY DEF WellNumbered, GroupFile
  <2>3. \A g \in DOMAIN gr : gr[g].gid \in Nat
    BY DEF WellNumbered
  <2>4. \A g \in DOMAIN gr : ~IsAuto(gr[g].gid)
    BY <2>3 DEF IsAuto, AutoSystemId, AutoUserId
  <2> QED
    BY <2>1, <2>2, <2>4 DEF GroupsInv
<1> HIDE DEF E, n, Fixed, Chosen, All
<1>3. /\ GroupsInv(pw, gr, E, g1)
      /\ g1.ok => \A i \in 1..n : Fixed[i] \subseteq DOMAIN g1.gr
  <2>2. PICK h : /\ h[0] = Begin(pw, gr) /\ g1 = h[n]
                 /\ \A i \in 1..n : h[i] = FixedGroup(h[i - 1], entries[i])
    BY <1>1, FixedGroupPass
  <2>3. ASSUME NEW i \in 1..n, GroupsInv(pw, gr, E, h[i - 1])
        PROVE  /\ GroupsInv(pw, gr, E, h[i]) /\ Further(h[i - 1], h[i])
               /\ h[i].ok => Fixed[i] \subseteq DOMAIN h[i].gr
    <3>1. Fixed[i] = IF entries[i].gid >= 0 THEN {entries[i].group} ELSE {}
      BY DEF Fixed
    <3>2. entries[i] \in E /\ E \in SUBSET TableLines /\ h[i] = FixedGroup(h[i - 1], entries[i])
      BY <1>1, <2>2
    <3>3. GroupsInv(pw, gr, E, h[i]) /\ Further(h[i - 1], h[i])
          /\ (h[i].ok /\ entries[i].gid >= 0 => entries[i].group \in DOMAIN h[i].gr)
      BY <2>3, <3>2, FixedGroupKept
    <3> QED
      BY <3>1, <3>3
  <2>4. GroupsInv(pw, gr, E, h[0])
    BY <1>2, <2>2
  <2>5. /\ GroupsInv(pw, gr, E, h[n]) /\ Further(h[0], h[n])
        /\ h[n].ok => \A i \in 1..n : Fixed[i] \subseteq DOMAIN h[n].gr
    BY <1>1, <2>3, <2>4, GroupPass
  <2> QED
    BY <2>2, <2>5
<1>4. /\ GroupsInv(pw, gr, E, g2) /\ Further(g1, g2)
      /\ g2.ok => \A i \in 1..n : Chosen[i] \subseteq DOMAIN g2.gr
  <2>2. PICK h : /\ h[0] = g1 /\ g2 = h[n]
                 /\ \A i \in 1..n : h[i] = ChosenGroup(h[i - 1], entries[i])
    BY <1>1, ChosenGroupPass
  <2>3. ASSUME NEW i \in 1..n, GroupsInv(pw, gr, E, h[i - 1])
        PROVE  /\ GroupsInv(pw, gr, E, h[i]) /\ Further(h[i - 1], h[i])
               /\ h[i].ok => Chosen[i] \subseteq DOMAIN h[i].gr
    <3>1. Chosen[i] = IF entries[i].gid < 0 THEN {entries[i].group} ELSE {}
      BY DEF Chosen
    <3>2. entries[i] \in E /\ E \in SUBSET TableLines /\ h[i] = ChosenGroup(h[i - 1], entries[i])
      BY <1>1, <2>2
    <3>3. GroupsInv(pw, gr, E, h[i]) /\ Further(h[i - 1], h[i])
          /\ (h[i].ok /\ entries[i].gid < 0 => entries[i].group \in DOMAIN h[i].gr)
      BY <2>3, <3>2, ChosenGroupKept
    <3> QED
      BY <3>1, <3>3
  <2>4. GroupsInv(pw, gr, E, h[0])
    BY <1>3, <2>2
  <2>5. /\ GroupsInv(pw, gr, E, h[n]) /\ Further(h[0], h[n])
        /\ h[n].ok => \A i \in 1..n : Chosen[i] \subseteq DOMAIN h[n].gr
    BY <1>1, <2>3, <2>4, GroupPass
  <2> QED
    BY <2>2, <2>5
<1>5. /\ GroupsInv(pw, gr, E, g3) /\ Further(g2, g3)
      /\ g3.ok => \A i \in 1..n : All[i] \subseteq DOMAIN g3.gr
  <2>2. PICK h : /\ h[0] = g2 /\ g3 = h[n]
                 /\ \A i \in 1..n : h[i] = OtherGroups(h[i - 1], entries[i])
    BY <1>1, OtherGroupsPass
  <2>3. ASSUME NEW i \in 1..n, GroupsInv(pw, gr, E, h[i - 1])
        PROVE  /\ GroupsInv(pw, gr, E, h[i]) /\ Further(h[i - 1], h[i])
               /\ h[i].ok => All[i] \subseteq DOMAIN h[i].gr
    <3>1. All[i] = Range(entries[i].groups)
      BY DEF All
    <3>2. entries[i] \in E /\ E \in SUBSET TableLines /\ h[i] = OtherGroups(h[i - 1], entries[i])
      BY <1>1, <2>2
    <3>3. GroupsInv(pw, gr, E, h[i]) /\ Further(h[i - 1], h[i])
          /\ (h[i].ok => Range(entries[i].groups) \subseteq DOMAIN h[i].gr)
      BY <2>3, <3>2, OtherGroupsKept
    <3> QED
      BY <3>1, <3>3
  <2>4. GroupsInv(pw, gr, E, h[0])
    BY <1>4, <2>2
  <2>5. /\ GroupsInv(pw, gr, E, h[n]) /\ Further(h[0], h[n])
        /\ h[n].ok => \A i \in 1..n : All[i] \subseteq DOMAIN h[n].gr
    BY <1>1, <2>3, <2>4, GroupPass
  <2> QED
    BY <2>2, <2>5
<1>6. ASSUME g3.ok, NEW i \in 1..n
      PROVE  entries[i].group \in DOMAIN g3.gr /\ Range(entries[i].groups) \subseteq DOMAIN g3.gr
  <2>1. Fixed[i] \subseteq DOMAIN g3.gr /\ Chosen[i] \subseteq DOMAIN g3.gr
        /\ All[i] \subseteq DOMAIN g3.gr
    BY <1>3, <1>4, <1>5, <1>6 DEF Further
  <2>2. entries[i].group \in Fixed[i] \/ entries[i].group \in Chosen[i]
    <3>1. Fixed[i] = (IF entries[i].gid >= 0 THEN {entries[i].group} ELSE {})
          /\ Chosen[i] = (IF entries[i].gid < 0 THEN {entries[i].group} ELSE {})
      BY DEF Fixed, Chosen
    <3> QED
      BY <1>1, <3>1
  <2>3. All[i] = Range(entries[i].groups)
    BY DEF All
  <2> QED
    BY <2>1, <2>2, <2>3
<1> QED
  BY <1>1, <1>5, <1>6 DEF E, n

-----------------------------------------------------------------------------
(* Users: what one more does.                                              *)

\* The groups of v are those of u, with the same numbers and no fewer members.
Grown(u, v) ==
  /\ GroupFile(v.gr) /\ DOMAIN v.gr = DOMAIN u.gr
  /\ \A g \in DOMAIN u.gr : v.gr[g].gid = u.gr[g].gid /\ u.gr[g].members \subseteq v.gr[g].members

EveryMember(user, u, seq) == FoldLeft(LAMBDA v, g : AddUserToGroup(v, user, g), u, seq)

\* What the loop over the groups of a user goes through.
LEMMA MembersPass ==
  ASSUME NEW seq, NEW n \in Nat, DOMAIN seq = 1..n, NEW u, NEW user, NEW v, v = EveryMember(user, u, seq)
  PROVE  \E h : h[0] = u /\ h[n] = v /\ \A i \in 1..n : h[i] = AddUserToGroup(h[i - 1], user, seq[i])
<1>1. v = Joining!Folded(user, u, seq)
  BY DEF EveryMember, FoldLeft, MapThenFoldSet, Max, Joining!FoldLeft, Joining!MapThenFoldSet, Joining!Max,
         LineMembers, Joining!Folded
<1> QED
  BY <1>1, Joining!FoldSteps DEF LineMembers

\* A user who joins a group changes the members of that group alone.
LEMMA MemberAdded ==
  ASSUME NEW u, Shape(u), GroupFile(u.gr), NEW user \in STRING, NEW group,
         NEW v, v = AddUserToGroup(u, user, group)
  PROVE  /\ Shape(v) /\ v.ok = u.ok /\ v.pw = u.pw /\ Grown(u, v)
         /\ group \in DOMAIN u.gr => user \in v.gr[group].members
<1>1. CASE group \notin DOMAIN u.gr
  BY <1>1 DEF AddUserToGroup, Grown
<1>2. CASE group \in DOMAIN u.gr
  <2> DEFINE gr == [u.gr EXCEPT ![group].members = @ \union {user}]
  <2>1. v = [u EXCEPT !.gr = gr]
    BY <1>2 DEF AddUserToGroup
  <2>2. /\ DOMAIN gr = DOMAIN u.gr
        /\ \A g \in DOMAIN u.gr : /\ gr[g].gid = u.gr[g].gid /\ u.gr[g].members \subseteq gr[g].members
                                  /\ gr[g] \in [gid : Int, members : SUBSET STRING]
        /\ user \in gr[group].members
    BY <1>2 DEF GroupFile
  <2>3. gr = [g \in DOMAIN gr |-> gr[g]]
    OBVIOUS
  <2> HIDE DEF gr
  <2>4. GroupFile(gr)
    BY <2>2, <2>3 DEF GroupFile
  <2>5. Shape(v) /\ v.pw = u.pw /\ v.gr = gr /\ v.ok = u.ok
    BY <2>1 DEF Shape
  <2> QED
    BY <2>2, <2>4, <2>5 DEF Grown
<1> QED
  BY <1>1, <1>2

\* A user joins all groups of a line that exist, and that is all.
LEMMA Joined ==
  ASSUME NEW u, Shape(u), GroupFile(u.gr), NEW user \in STRING, NEW seq, NEW n \in Nat, DOMAIN seq = 1..n,
         NEW v, v = EveryMember(user, u, seq)
  PROVE  /\ Shape(v) /\ v.ok = u.ok /\ v.pw = u.pw /\ Grown(u, v)
         /\ \A k \in 1..n : seq[k] \in DOMAIN u.gr => user \in v.gr[seq[k]].members
<1>1. PICK h : h[0] = u /\ h[n] = v /\ \A i \in 1..n : h[i] = AddUserToGroup(h[i - 1], user, seq[i])
  BY MembersPass
<1> DEFINE P(i) == /\ Shape(h[i]) /\ h[i].ok = u.ok /\ h[i].pw = u.pw /\ Grown(u, h[i])
                   /\ \A k \in 1..i : seq[k] \in DOMAIN u.gr => user \in h[i].gr[seq[k]].members
           T == {i \in 0..n : P(i)}
<1>2. 0 \in T
  BY <1>1 DEF Grown
<1>3. ASSUME NEW i \in 0..(n - 1), i \in T PROVE i + 1 \in T
  <2>1. i + 1 \in 1..n /\ (i + 1) - 1 = i /\ i \in Nat
    OBVIOUS
  <2>2. P(i)
    BY <1>3
  <2>3. h[i + 1] = AddUserToGroup(h[i], user, seq[i + 1])
    BY <1>1, <2>1
  <2>4. GroupFile(h[i].gr)
    BY <2>2 DEF Grown
  <2>5. /\ Shape(h[i + 1]) /\ h[i + 1].ok = h[i].ok /\ h[i + 1].pw = h[i].pw /\ Grown(h[i], h[i + 1])
        /\ seq[i + 1] \in DOMAIN h[i].gr => user \in h[i + 1].gr[seq[i + 1]].members
    BY <2>2, <2>3, <2>4, MemberAdded
  <2>6. Grown(u, h[i + 1])
    BY <2>2, <2>5 DEF Grown
  <2>7. ASSUME NEW k \in 1..(i + 1), seq[k] \in DOMAIN u.gr
        PROVE  user \in h[i + 1].gr[seq[k]].members
    <3>1. k = i + 1 \/ k \in 1..i
      BY <2>1
    <3>2. DOMAIN h[i].gr = DOMAIN u.gr
      BY <2>2 DEF Grown
    <3>3. CASE k = i + 1
      BY <2>5, <2>7, <3>2, <3>3
    <3>4. CASE k \in 1..i
      <4>1. user \in h[i].gr[seq[k]].members
        BY <2>2, <2>7, <3>4
      <4> QED
        BY <2>5, <2>7, <3>2, <4>1 DEF Grown
    <3> QED
      BY <3>1, <3>3, <3>4
  <2> QED
    BY <2>1, <2>2, <2>5, <2>6, <2>7
<1>4. n \in T
  <2> HIDE DEF T
  <2>1. 0..n \subseteq T
    BY <1>2, <1>3, Joining!UpTo
  <2> QED
    BY <2>1
<1> QED
  BY <1>1, <1>4

\* A user who is added passed the check, has the number that was given, that
\* it had, or one that no other has, and is in the groups of its line.
LEMMA UserAdded ==
  ASSUME NEW u, Shape(u), u.ok, GroupFile(u.gr), UserFile(u.pw), NEW e \in TableLines,
         e.group \in DOMAIN u.gr, Range(e.groups) \subseteq DOMAIN u.gr,
         NEW v, v = AddOneUser(u, e)
  PROVE  /\ Shape(v)
         /\ v.ok =>
              /\ CheckUserValidity(u, e) /\ Grown(u, v)
              /\ UserFile(v.pw) /\ DOMAIN v.pw = DOMAIN u.pw \union {e.user}
              /\ \A n \in DOMAIN u.pw \ {e.user} : v.pw[n] = u.pw[n]
              /\ v.pw[e.user].gid = u.gr[e.group].gid
              /\ ~IsAuto(e.uid) => v.pw[e.user].uid = e.uid
              /\ IsAuto(e.uid) /\ e.user \in DOMAIN u.pw => v.pw[e.user].uid = u.pw[e.user].uid
              /\ IsAuto(e.uid) /\ e.user \notin DOMAIN u.pw =>
                   \A n \in DOMAIN u.pw : u.pw[n].uid # v.pw[e.user].uid
              /\ \A g \in Range(e.groups) : e.user \in v.gr[g].members
<1> DEFINE uid == IF IsAuto(e.uid) THEN GenerateUid(u, e.user, Ids(e.uid)) ELSE e.uid
           gid == u.gr[e.group].gid
           new == [uid |-> uid, gid |-> gid]
           pw == With(u.pw, e.user, new)
           added == [u EXCEPT !.pw = pw]
           joined == EveryMember(e.user, added, e.groups)
           homes == Append(joined.homes, [path |-> e.home, uid |-> uid, gid |-> gid])
<1>1. CASE ~CheckUserValidity(u, e) \/ NoUid(u, e.user, e.uid)
  <2>1. v = [u EXCEPT !.ok = FALSE]
    BY <1>1 DEF AddOneUser, Failed
  <2>2. v.ok = FALSE /\ Shape(v)
    BY <2>1 DEF Shape
  <2> QED
    BY <2>2
<1>2. CASE CheckUserValidity(u, e) /\ ~NoUid(u, e.user, e.uid)
  <2>1. v = joined \/ v = [joined EXCEPT !.homes = homes]
    BY <1>2 DEF AddOneUser, EveryMember
  <2>2. e.user \in STRING /\ e.uid \in Int
    BY DEF TableLines
  <2>3. IsAuto(e.uid) /\ e.user \notin DOMAIN u.pw =>
          uid \in Nat /\ \A n \in DOMAIN u.pw : u.pw[n].uid # uid
    <3> SUFFICES ASSUME IsAuto(e.uid), e.user \notin DOMAIN u.pw
                 PROVE  uid \in Nat /\ \A n \in DOMAIN u.pw : u.pw[n].uid # uid
      OBVIOUS
    <3> DEFINE taken == {u.pw[n].uid : n \in DOMAIN u.pw}
    <3>1. uid = Lowest(Ids(e.uid), taken)
      BY DEF GenerateUid
    <3>2. ~(Ids(e.uid) \subseteq taken)
      BY <1>2 DEF NoUid
    <3>3. Ids(e.uid) \in SUBSET Nat
      BY IdsAssumption DEF Ids, IdsAssumption
    <3> HIDE DEF uid
    <3>4. uid \in Ids(e.uid) \ taken
      BY <3>1, <3>2, <3>3, LowestIsFree
    <3> QED
      BY <3>3, <3>4
  <2>4. IsAuto(e.uid) /\ e.user \in DOMAIN u.pw => uid = u.pw[e.user].uid
    BY DEF GenerateUid
  <2>5. ~IsAuto(e.uid) => uid = e.uid
    OBVIOUS
  <2>6. uid \in Int /\ gid \in Int
    BY <2>2, <2>3, <2>4, <2>5 DEF UserFile, GroupFile
  <2> HIDE DEF uid, homes
  <2> HIDE DEF gid
  <2> HIDE DEF new
  <2>7. /\ DOMAIN pw = DOMAIN u.pw \union {e.user} /\ pw[e.user] = new
        /\ \A n \in DOMAIN u.pw \ {e.user} : pw[n] = u.pw[n]
        /\ pw = [n \in DOMAIN pw |-> pw[n]]
    BY DEF With
  <2> HIDE DEF pw
  <2>8. new.uid = uid /\ new.gid = gid /\ new \in [uid : Int, gid : Int]
    BY <2>6 DEF new
  <2>9. UserFile(pw)
    BY <2>7, <2>8 DEF UserFile
  <2>10. Shape(added) /\ added.pw = pw /\ added.gr = u.gr /\ added.ok
    <3> HIDE DEF added
    <3>1. added = [u EXCEPT !.pw = pw]
      BY DEF added
    <3> QED
      BY <3>1 DEF Shape
  <2>11. DOMAIN e.groups = 1..Len(e.groups) /\ Len(e.groups) \in Nat
         /\ Range(e.groups) = {e.groups[k] : k \in 1..Len(e.groups)}
    BY LineIs
  <2> HIDE DEF added
  <2>12. /\ Shape(joined) /\ joined.ok = added.ok /\ joined.pw = added.pw /\ Grown(added, joined)
         /\ \A k \in 1..Len(e.groups) : e.groups[k] \in DOMAIN added.gr =>
              e.user \in joined.gr[e.groups[k]].members
    BY <2>2, <2>10, <2>11, Joined
  <2> HIDE DEF joined
  <2>13. Shape(v) /\ v.ok = joined.ok /\ v.pw = joined.pw /\ v.gr = joined.gr
    BY <2>1, <2>12 DEF Shape
  <2>14. Grown(u, v) /\ \A g \in Range(e.groups) : e.user \in v.gr[g].members
    BY <2>10, <2>11, <2>12, <2>13 DEF Grown
  <2>15. v.pw = pw /\ v.pw[e.user].uid = uid /\ v.pw[e.user].gid = u.gr[e.group].gid
    BY <2>7, <2>8, <2>10, <2>12, <2>13 DEF gid
  <2> QED
    BY <1>2, <2>3, <2>4, <2>5, <2>7, <2>9, <2>13, <2>14, <2>15
<1> QED
  BY <1>1, <1>2

-----------------------------------------------------------------------------
(* Users: the passes.  G is what the passes over the groups left.          *)

\* The groups of a line are there, unless the passes over the groups failed.
Placed(G, e) == G.ok => e.group \in DOMAIN G.gr /\ Range(e.groups) \subseteq DOMAIN G.gr

\* What the files say of a line that made a user.
Entered(G, e, u) ==
  /\ e.uid >= -2 /\ e.uid # 0 /\ e.gid >= -2 /\ e.gid # 0
  /\ e.gid >= 0 => /\ \A g \in DOMAIN G.gr : G.gr[g].gid = e.gid => g = e.group
                   /\ G.gr[e.group].gid = e.gid
  /\ e.user \in DOMAIN u.pw
  /\ ~IsAuto(e.uid) => u.pw[e.user].uid = e.uid
  /\ u.pw[e.user].gid = G.gr[e.group].gid
  /\ \A g \in Range(e.groups) : e.user \in u.gr[g].members

UsersInv(G, D, u) ==
  /\ Shape(u) /\ \A e \in D : e \in TableLines /\ Placed(G, e)
  /\ u.ok =>
       /\ G.ok /\ Grown(G, u) /\ UserFile(u.pw)
       /\ \A m, n \in DOMAIN u.pw : m # n => u.pw[m].uid # u.pw[n].uid
       /\ \A e \in D : Entered(G, e, u)

\* One more user disturbs no line that is done: a user of the same name is in
\* the same main group, or the check would have refused it, and keeps its
\* number, which is the one given or is not chosen again.
LEMMA UsersKeep ==
  ASSUME NEW G, NEW D, NEW u, UsersInv(G, D, u), NEW e \in TableLines, Placed(G, e),
         NEW v, v = AddOneUser(u, e)
  PROVE  UsersInv(G, D \union {e}, v)
<1>1. CASE ~u.ok
  BY <1>1 DEF AddOneUser, UsersInv
<1>2. CASE u.ok
  <2>1. /\ Shape(u) /\ \A d \in D : d \in TableLines /\ Placed(G, d)
        /\ G.ok /\ Grown(G, u) /\ GroupFile(u.gr) /\ UserFile(u.pw)
        /\ \A m, n \in DOMAIN u.pw : m # n => u.pw[m].uid # u.pw[n].uid
        /\ \A d \in D : Entered(G, d, u)
        /\ e.group \in DOMAIN u.gr /\ Range(e.groups) \subseteq DOMAIN u.gr
    BY <1>2 DEF UsersInv, Grown, Placed
  <2>2. /\ Shape(v)
        /\ v.ok =>
             /\ CheckUserValidity(u, e) /\ Grown(u, v)
             /\ UserFile(v.pw) /\ DOMAIN v.pw = DOMAIN u.pw \union {e.user}
             /\ \A n \in DOMAIN u.pw \ {e.user} : v.pw[n] = u.pw[n]
             /\ v.pw[e.user].gid = u.gr[e.group].gid
             /\ ~IsAuto(e.uid) => v.pw[e.user].uid = e.uid
             /\ IsAuto(e.uid) /\ e.user \in DOMAIN u.pw => v.pw[e.user].uid = u.pw[e.user].uid
             /\ IsAuto(e.uid) /\ e.user \notin DOMAIN u.pw =>
                  \A n \in DOMAIN u.pw : u.pw[n].uid # v.pw[e.user].uid
             /\ \A g \in Range(e.groups) : e.user \in v.gr[g].members
    BY <1>2, <2>1, UserAdded
  <2> SUFFICES ASSUME v.ok
               PROVE  /\ Grown(G, v) /\ UserFile(v.pw)
                      /\ \A m, n \in DOMAIN v.pw : m # n => v.pw[m].uid # v.pw[n].uid
                      /\ \A d \in D \union {e} : Entered(G, d, v)
    BY <2>1, <2>2 DEF UsersInv
  <2>3. Grown(G, v)
    BY <2>1, <2>2 DEF Grown
  <2>4. e.uid \in Int /\ e.gid \in Int
    BY DEF TableLines
  <2>5. e.uid >= -2 /\ e.uid # 0 /\ e.gid >= -2 /\ e.gid # 0
    BY <2>2 DEF CheckUserValidity
  <2>6. ~IsAuto(e.uid) => e.uid >= 0
    BY <2>4, <2>5 DEF IsAuto, AutoSystemId, AutoUserId
  <2>7. ~IsAuto(e.uid) => /\ \A n \in DOMAIN u.pw : u.pw[n].uid = e.uid => n = e.user
                          /\ e.user \in DOMAIN u.pw => u.pw[e.user].uid = e.uid
    BY <2>2, <2>6 DEF CheckUserValidity, GetUsernames
  <2>8. e.user \in DOMAIN u.pw => v.pw[e.user].uid = u.pw[e.user].uid
    BY <2>2, <2>7
  <2>9. \A n \in DOMAIN u.pw \ {e.user} : u.pw[n].uid # v.pw[e.user].uid
    BY <2>1, <2>2, <2>7, <2>8
  <2>10. \A m, n \in DOMAIN v.pw : m # n => v.pw[m].uid # v.pw[n].uid
    <3> SUFFICES ASSUME NEW m \in DOMAIN v.pw, NEW n \in DOMAIN v.pw, m # n
                 PROVE  v.pw[m].uid # v.pw[n].uid
      OBVIOUS
    <3>1. CASE m # e.user /\ n # e.user
      BY <2>1, <2>2, <3>1
    <3>2. CASE m = e.user \/ n = e.user
      BY <2>2, <2>9, <3>2
    <3> QED
      BY <3>1, <3>2
  <2>11. Entered(G, e, v)
    <3>1. \A g \in DOMAIN G.gr : g \in DOMAIN u.gr /\ u.gr[g].gid = G.gr[g].gid
      BY <2>1 DEF Grown
    <3>2. e.group \in DOMAIN G.gr
      BY <2>1 DEF Placed
    <3>3. e.gid >= 0 => /\ \A g \in DOMAIN u.gr : u.gr[g].gid = e.gid => g = e.group
                        /\ u.gr[e.group].gid = e.gid
      BY <2>1, <2>2 DEF CheckUserValidity, GetGroups
    <3> QED
      BY <2>2, <2>5, <3>1, <3>2, <3>3 DEF Entered
  <2>12. ASSUME NEW d \in D PROVE Entered(G, d, v)
    <3>1. Entered(G, d, u)
      BY <2>1
    <3>2. d \in TableLines /\ Placed(G, d)
      BY <2>1
    <3>3. \A g \in Range(d.groups) : d.user \in v.gr[g].members
      BY <2>1, <2>2, <3>1, <3>2 DEF Entered, Grown, Placed
    <3>4. CASE d.user # e.user
      <4>1. d.user \in DOMAIN v.pw /\ v.pw[d.user] = u.pw[d.user]
        BY <2>2, <3>1, <3>4 DEF Entered
      <4> QED
        BY <3>1, <3>3, <4>1 DEF Entered
    <3>5. CASE d.user = e.user
      <4>1. e.user \in DOMAIN u.pw /\ u.pw[e.user].gid = G.gr[d.group].gid
        BY <3>1, <3>5 DEF Entered
      <4>2. \A g \in DOMAIN u.gr : u.gr[g].gid = u.pw[e.user].gid => g = e.group
        BY <2>2, <4>1 DEF CheckUserValidity, GetUgroup, GetGroups
      <4>3. d.group \in DOMAIN u.gr /\ u.gr[d.group].gid = G.gr[d.group].gid
        BY <2>1, <3>2 DEF Grown, Placed
      <4>4. d.group = e.group
        BY <4>1, <4>2, <4>3
      <4>5. v.pw[d.user].gid = G.gr[d.group].gid
        BY <2>2, <3>5, <4>3, <4>4
      <4>6. v.pw[d.user].uid = u.pw[d.user].uid /\ d.user \in DOMAIN v.pw
        BY <2>2, <2>8, <3>5, <4>1
      <4> QED
        BY <3>1, <3>3, <4>5, <4>6 DEF Entered
    <3> QED
      BY <3>4, <3>5
  <2> QED
    BY <2>2, <2>3, <2>10, <2>11, <2>12
<1> QED
  BY <1>1, <1>2 DEF UsersInv, Shape

\* A step of the pass over the users with a number keeps the invariant.
LEMMA FixedUserKept ==
  ASSUME NEW G, NEW D, NEW u, UsersInv(G, D, u), NEW e \in TableLines, Placed(G, e), NEW v, v = FixedUser(u, e)
  PROVE  UsersInv(G, D \union (IF IsUser(e) /\ e.uid >= 0 THEN {e} ELSE {}), v)
<1>1. CASE IsUser(e) /\ e.uid >= 0
  BY <1>1, UsersKeep DEF FixedUser
<1>2. CASE ~(IsUser(e) /\ e.uid >= 0)
  BY <1>2 DEF FixedUser
<1> QED
  BY <1>1, <1>2

\* So does a step of the pass over those without.
LEMMA ChosenUserKept ==
  ASSUME NEW G, NEW D, NEW u, UsersInv(G, D, u), NEW e \in TableLines, Placed(G, e), NEW v, v = ChosenUser(u, e)
  PROVE  UsersInv(G, D \union (IF IsUser(e) /\ e.uid < 0 THEN {e} ELSE {}), v)
<1>1. CASE IsUser(e) /\ e.uid < 0
  BY <1>1, UsersKeep DEF ChosenUser
<1>2. CASE ~(IsUser(e) /\ e.uid < 0)
  BY <1>2 DEF ChosenUser
<1> QED
  BY <1>1, <1>2

\* A pass: h[i] is the state after i steps, and step i does the lines Mine[i].
Enters(G, n, h, Mine) ==
  \A i \in 1..n : \A D : UsersInv(G, D, h[i - 1]) => UsersInv(G, D \union Mine[i], h[i])
DoneBy(D, Mine, i) == D \union UNION {Mine[k] : k \in 1..i}

\* A whole pass keeps the invariant, for the lines it did.
LEMMA UserPass ==
  ASSUME NEW G, NEW D, NEW n \in Nat, NEW h, NEW Mine, UsersInv(G, D, h[0]), Enters(G, n, h, Mine)
  PROVE  UsersInv(G, DoneBy(D, Mine, n), h[n])
<1> DEFINE T == {i \in 0..n : UsersInv(G, DoneBy(D, Mine, i), h[i])}
<1>1. 0 \in T
  <2>1. DoneBy(D, Mine, 0) = D
    BY DEF DoneBy
  <2> QED
    BY <2>1
<1>2. ASSUME NEW i \in 0..(n - 1), i \in T PROVE i + 1 \in T
  <2>1. i + 1 \in 1..n /\ (i + 1) - 1 = i /\ i \in Nat /\ i + 1 \in 0..n
    OBVIOUS
  <2>2. DoneBy(D, Mine, i + 1) = DoneBy(D, Mine, i) \union Mine[i + 1]
    <3>1. 1..(i + 1) = (1..i) \union {i + 1}
      BY <2>1
    <3> QED
      BY <3>1 DEF DoneBy
  <2>3. UsersInv(G, DoneBy(D, Mine, i) \union Mine[i + 1], h[i + 1])
    BY <1>2, <2>1 DEF Enters
  <2> QED
    BY <2>1, <2>2, <2>3
<1>3. n \in T
  <2> HIDE DEF T
  <2>1. 0..n \subseteq T
    BY <1>1, <1>2, Joining!UpTo
  <2> QED
    BY <2>1
<1> QED
  BY <1>3

\* What the script leaves, if it does not fail.
LEMMA UsersMade ==
  ASSUME NEW entries \in Seq(TableLines), NEW G, GroupFile(G.gr) \/ ~G.ok, Shape(G), UserFile(G.pw) \/ ~G.ok,
         G.ok => \A m, n \in DOMAIN G.pw : m # n => G.pw[m].uid # G.pw[n].uid,
         \A i \in DOMAIN entries : Placed(G, entries[i]),
         NEW u1, u1 = EveryFixedUser(G, entries),
         NEW u, u = EveryChosenUser(u1, entries)
  PROVE  \E C : UsersInv(G, C, u) /\ \A i \in DOMAIN entries : IsUser(entries[i]) => entries[i] \in C
<1> DEFINE n == Len(entries)
           Fixed == [i \in 1..n |-> IF IsUser(entries[i]) /\ entries[i].uid >= 0 THEN {entries[i]} ELSE {}]
           Chosen == [i \in 1..n |-> IF IsUser(entries[i]) /\ entries[i].uid < 0 THEN {entries[i]} ELSE {}]
<1>1. /\ n \in Nat /\ DOMAIN entries = 1..n
      /\ \A i \in 1..n : entries[i] \in TableLines /\ Placed(G, entries[i]) /\ entries[i].uid \in Int
  BY LineIs
<1>2. UsersInv(G, {}, G)
  BY DEF UsersInv, Grown
<1>3. \A i \in 1..n : IsUser(entries[i]) => entries[i] \in Fixed[i] \/ entries[i] \in Chosen[i]
  BY <1>1
<1> HIDE DEF n, Fixed, Chosen
<1>4. UsersInv(G, DoneBy({}, Fixed, n), u1)
  <2>1. PICK h : h[0] = G /\ h[n] = u1 /\ \A i \in 1..n : h[i] = FixedUser(h[i - 1], entries[i])
    BY <1>1, FixedUserPass
  <2>2. ASSUME NEW i \in 1..n, NEW D, UsersInv(G, D, h[i - 1])
        PROVE  UsersInv(G, D \union Fixed[i], h[i])
    <3>1. Fixed[i] = IF IsUser(entries[i]) /\ entries[i].uid >= 0 THEN {entries[i]} ELSE {}
      BY DEF Fixed
    <3>2. h[i] = FixedUser(h[i - 1], entries[i]) /\ entries[i] \in TableLines /\ Placed(G, entries[i])
      BY <1>1, <2>1
    <3> QED
      BY <2>2, <3>1, <3>2, FixedUserKept
  <2>3. Enters(G, n, h, Fixed)
    BY <2>2 DEF Enters
  <2>4. UsersInv(G, {}, h[0]) /\ n \in Nat
    BY <1>1, <1>2, <2>1
  <2>5. UsersInv(G, DoneBy({}, Fixed, n), h[n])
    BY <2>3, <2>4, UserPass
  <2> QED
    BY <2>1, <2>5
<1> DEFINE C == DoneBy(DoneBy({}, Fixed, n), Chosen, n)
<1>5. UsersInv(G, C, u)
  <2>1. PICK h : h[0] = u1 /\ h[n] = u /\ \A i \in 1..n : h[i] = ChosenUser(h[i - 1], entries[i])
    BY <1>1, ChosenUserPass
  <2>2. ASSUME NEW i \in 1..n, NEW D, UsersInv(G, D, h[i - 1])
        PROVE  UsersInv(G, D \union Chosen[i], h[i])
    <3>1. Chosen[i] = IF IsUser(entries[i]) /\ entries[i].uid < 0 THEN {entries[i]} ELSE {}
      BY DEF Chosen
    <3>2. h[i] = ChosenUser(h[i - 1], entries[i]) /\ entries[i] \in TableLines /\ Placed(G, entries[i])
      BY <1>1, <2>1
    <3> QED
      BY <2>2, <3>1, <3>2, ChosenUserKept
  <2>3. Enters(G, n, h, Chosen)
    BY <2>2 DEF Enters
  <2>4. UsersInv(G, DoneBy({}, Fixed, n), h[0]) /\ n \in Nat
    BY <1>1, <1>2, <1>4, <2>1
  <2>5. UsersInv(G, DoneBy(DoneBy({}, Fixed, n), Chosen, n), h[n])
    BY <2>3, <2>4, UserPass
  <2> QED
    BY <2>1, <2>5
<1>6. \A i \in 1..n : Fixed[i] \subseteq C /\ Chosen[i] \subseteq C
  BY DEF DoneBy
<1> HIDE DEF C
<1> QED
  BY <1>1, <1>3, <1>5, <1>6

\* An id that a line of a user gives is not one to be chosen, and not another's.
LEMMA NotGivenTwice ==
  ASSUME NEW G, NEW e \in TableLines, NEW u, Entered(G, e, u),
         NEW g \in DOMAIN G.gr, NEW h \in DOMAIN G.gr, g # h, G.gr[g].gid = G.gr[h].gid,
         ~IsAuto(G.gr[g].gid)
  PROVE  ~Given(e, g, G.gr[g].gid) /\ ~Given(e, h, G.gr[g].gid)
<1>1. e.uid \in Int /\ e.gid \in Int
  BY DEF TableLines
<1>2. IsAuto(AutoId(e))
  <2>1. e.uid >= -2 /\ e.uid # 0
    BY DEF Entered
  <2>2. CASE e.uid < 0
    BY <1>1, <2>1, <2>2 DEF AutoId, IsAuto, AutoSystemId, AutoUserId
  <2>3. CASE e.uid > 0
    BY <1>1, <2>3 DEF AutoId, IsAuto
  <2> QED
    BY <1>1, <2>1, <2>2, <2>3
<1>3. ~(e.gid = G.gr[g].gid)
  <2> SUFFICES ASSUME e.gid = G.gr[g].gid PROVE FALSE
    OBVIOUS
  <2>1. e.gid >= 0
    BY <1>1 DEF Entered, IsAuto, AutoSystemId, AutoUserId
  <2>2. g = e.group /\ h = e.group
    BY <2>1 DEF Entered
  <2> QED
    BY <2>2
<1> QED
  BY <1>2, <1>3 DEF Given

\* The script, for all tables and all files it may begin with.
LEMMA MkUsersKeeps ==
  ASSUME NEW entries \in Seq(TableLines), NEW pw, NEW gr, WellNumbered(pw, gr),
         NEW u, u = MkUsers(entries, pw, gr), u.ok
  PROVE  Kept(entries, gr, u)
<1> DEFINE g1 == EveryFixedGroup(Begin(pw, gr), entries)
           g2 == EveryChosenGroup(g1, entries)
           G == EveryOtherGroups(g2, entries)
           u1 == EveryFixedUser(G, entries)
           E == Range(entries)
<1>1. u = EveryChosenUser(u1, entries)
  BY DEF MkUsers, EveryFixedGroup, EveryChosenGroup, EveryOtherGroups, EveryFixedUser, EveryChosenUser
<1> HIDE DEF g1, g2, G, u1
<1>2. /\ GroupsInv(pw, gr, E, G)
      /\ G.ok => \A i \in DOMAIN entries : /\ entries[i].group \in DOMAIN G.gr
                                            /\ Range(entries[i].groups) \subseteq DOMAIN G.gr
  BY GroupsMade DEF g1, g2, G
<1>3. \A e \in E : e \in TableLines /\ \E i \in DOMAIN entries : e = entries[i]
  BY DEF Range
<1> HIDE DEF E
<1>4. PICK C : UsersInv(G, C, u) /\ \A i \in DOMAIN entries : IsUser(entries[i]) => entries[i] \in C
  <2>1. Shape(G)
    BY <1>2 DEF GroupsInv
  <2>2. GroupFile(G.gr) \/ ~G.ok
    BY <1>2 DEF GroupsInv
  <2>3. /\ UserFile(G.pw) \/ ~G.ok
        /\ G.ok => \A m, n \in DOMAIN G.pw : m # n => G.pw[m].uid # G.pw[n].uid
    BY <1>2 DEF GroupsInv, WellNumbered, UserFile
  <2>4. \A i \in DOMAIN entries : Placed(G, entries[i])
    BY <1>2 DEF Placed
  <2> QED
    BY <1>1, <2>1, <2>2, <2>3, <2>4, UsersMade DEF u1
<1>5. /\ G.ok /\ Grown(G, u)
      /\ \A m, n \in DOMAIN u.pw : m # n => u.pw[m].uid # u.pw[n].uid
      /\ \A e \in E : IsUser(e) => Entered(G, e, u)
  BY <1>3, <1>4 DEF UsersInv
<1>6. /\ \A g \in DOMAIN gr : g \in DOMAIN G.gr /\ gr[g].members \subseteq G.gr[g].members
      /\ \A g \in DOMAIN G.gr : ~IsAuto(G.gr[g].gid)
      /\ \A g, h \in DOMAIN G.gr :
           g # h /\ G.gr[g].gid = G.gr[h].gid =>
             \E e \in E : Given(e, g, G.gr[g].gid) \/ Given(e, h, G.gr[g].gid)
  BY <1>2, <1>5 DEF GroupsInv
<1>7. /\ DOMAIN u.gr = DOMAIN G.gr
      /\ \A g \in DOMAIN G.gr : u.gr[g].gid = G.gr[g].gid /\ G.gr[g].members \subseteq u.gr[g].members
  BY <1>5 DEF Grown
<1>8. ASSUME NEW e \in E, IsUser(e)
      PROVE  /\ e.uid > 0 => u.pw[e.user].uid = e.uid
             /\ e.gid > 0 => u.gr[e.group].gid = e.gid
             /\ u.pw[e.user].gid = u.gr[e.group].gid
             /\ \A g \in Range(e.groups) : e.user \in u.gr[g].members
  <2>1. Entered(G, e, u) /\ e.uid \in Int /\ e.gid \in Int
    BY <1>3, <1>5, <1>8, LineIs
  <2>2. e.group \in DOMAIN G.gr
    BY <1>2, <1>3, <1>5
  <2>3. u.gr[e.group].gid = G.gr[e.group].gid
    BY <1>7, <2>2
  <2>4. e.uid > 0 => ~IsAuto(e.uid)
    BY <2>1 DEF IsAuto, AutoSystemId, AutoUserId
  <2>5. e.gid > 0 => e.gid >= 0
    BY <2>1
  <2> QED
    BY <2>1, <2>3, <2>4, <2>5 DEF Entered
<1>9. \A g \in DOMAIN gr : gr[g].members \subseteq u.gr[g].members
  BY <1>6, <1>7
<1>10. ASSUME NEW g \in DOMAIN u.gr, NEW h \in DOMAIN u.gr, g # h, u.gr[g].gid = u.gr[h].gid
       PROVE  \E e \in E : Gave(e, g, u.gr[g].gid) \/ Gave(e, h, u.gr[h].gid)
  <2>1. g \in DOMAIN G.gr /\ h \in DOMAIN G.gr /\ u.gr[g].gid = G.gr[g].gid /\ u.gr[h].gid = G.gr[h].gid
    BY <1>7
  <2>2. PICK e \in E : Given(e, g, G.gr[g].gid) \/ Given(e, h, G.gr[g].gid)
    BY <1>6, <1>10, <2>1
  <2>3. ~IsUser(e)
    <3> SUFFICES ASSUME IsUser(e) PROVE FALSE
      OBVIOUS
    <3>1. Entered(G, e, u) /\ e \in TableLines
      BY <1>3, <1>5
    <3>2. G.gr[g].gid = G.gr[h].gid /\ ~IsAuto(G.gr[g].gid)
      BY <1>6, <1>10, <2>1
    <3> QED
      BY <1>10, <2>1, <2>2, <3>1, <3>2, NotGivenTwice
  <2> QED
    BY <1>10, <2>1, <2>2, <2>3 DEF Given, Gave
<1> QED
  BY <1>5, <1>8, <1>9, <1>10 DEF Kept, E

-----------------------------------------------------------------------------
(* The types that the steps rely on.                                       *)

Steps == {"idle", "toolchain", "libs", "compile", "copy", "finalize", "users", "owners", "devices"}
ProcFields == {"step", "i", "command", "u", "m", "lines", "entries"}
ProcTyped ==
  /\ "step" \in DOMAIN proc /\ proc.step \in Steps
  /\ ~At("idle") => DOMAIN proc = ProcFields /\ proc.i \in Nat \ {0}
LeftTyped == DOMAIN left = {"plan", "calls", "faults", "edits"} /\ left.plan \in DOMAIN Plans
FilesTyped ==
  /\ tool \in 0..2 /\ (At("toolchain") => tool < 2) /\ src \in Nat \ {0}
  /\ DOMAIN lib = Range(Libs) /\ DOMAIN exe = Indices /\ DOMAIN target = Indices
Typed == ProcTyped /\ LeftTyped /\ FilesTyped

\* A library of the list is one of the libraries.
LEMMA LibInRange == ASSUME NEW i \in 1..Len(Libs) PROVE Libs[i] \in Range(Libs)
BY ProgramsAssumption DEF Range

\* Every step keeps the types.
LEMMA TypedStep == ASSUME Typed, [Next]_vars PROVE Typed'
<1> USE DEF Typed, ProcTyped, LeftTyped, FilesTyped, Steps, ProcFields, At, vars, work, rest
<1>1. CASE Call
  BY <1>1 DEF Call, ToolchainThere
<1>2. CASE Toolchain
  <2>1. tool + 1 \in 0..2
    BY <1>2 DEF Toolchain
  <2>2. CASE tool + 1 = 2
    BY <1>2, <2>1, <2>2 DEF Toolchain, To
  <2>3. CASE tool + 1 # 2
    BY <1>2, <2>1, <2>3 DEF Toolchain
  <2> QED
    BY <2>2, <2>3
<1>3. CASE Library
  BY <1>3 DEF Library, Next1
<1>4. CASE Gate
  BY <1>4 DEF Gate, Goto
<1>5. CASE Compile
  <2> UNCHANGED <<work, target, rest>>
    BY <1>5 DEF Compile, Abort
  <2> /\ "step" \in DOMAIN proc' /\ proc'.step \in Steps \ {"toolchain"}
      /\ proc'.step # "idle" => DOMAIN proc' = ProcFields /\ proc'.i \in Nat \ {0}
    <3>1. proc' = None \/ \E c : proc' = [proc EXCEPT !.step = "copy", !.command = c]
      BY <1>5 DEF Compile, Abort
    <3>2. CASE proc' = None
      BY <3>2 DEF None
    <3>3. CASE \E c : proc' = [proc EXCEPT !.step = "copy", !.command = c]
      BY <1>5, <3>3 DEF Compile
    <3> QED
      BY <3>1, <3>2, <3>3
  <2> QED
    OBVIOUS
<1>6. CASE CopyProgram
  BY <1>6 DEF CopyProgram
<1>7. CASE Compiled
  BY <1>7 DEF Compiled, Goto
<1>8. CASE DeployBench
  BY <1>8 DEF DeployBench, Next1
<1>9. CASE RootfsCommon
  BY <1>9 DEF RootfsCommon
<1>10. CASE MakeUsers
  BY <1>10 DEF MakeUsers, None
<1>11. CASE MakeOwners
  BY <1>11 DEF MakeOwners
<1>12. CASE MakeDevices
  BY <1>12 DEF MakeDevices, None
<1>13. CASE MakeImage
  BY <1>13 DEF MakeImage, None
<1>14. CASE Interrupt
  BY <1>14 DEF Interrupt, None
<1>15. CASE Edit
  BY <1>15 DEF Edit
<1>16. CASE UNCHANGED vars
  BY <1>16
<1> QED
  BY <1>1, <1>2, <1>3, <1>4, <1>5, <1>6, <1>7, <1>8, <1>9, <1>10, <1>11, <1>12, <1>13, <1>14,
     <1>15, <1>16 DEF Next

\* The steps of build_riscv.sh and the files of the host are of these types.
THEOREM AlwaysTyped == Spec => []Typed
<1>1. Init => Typed
  BY DEF Init, None, Empty, Typed, ProcTyped, LeftTyped, FilesTyped, Steps, At
<1> QED
  BY <1>1, TypedStep, PTL DEF Spec

-----------------------------------------------------------------------------
(* The programs.                                                           *)

Present == {i \in Indices : exe[i] # Missing}
Uniform(e, wanted) ==
  \A i, j \in wanted :
    /\ e[i].v = e[j].v /\ e[i].v > 0 /\ e[i].cc = 2
    /\ e[i].whole \/ j <= i

\* The programs that are there are the first ones, and none of a library that
\* is not; when none is missing they are uniform.
Segment == \A i, j \in Indices : i < j /\ j \in Present => i \in Present
OnlyWanted == Present \subseteq Wanted(lib)
Alike == BenchmarksCompiled => Uniform(exe, Wanted(lib))

\* While programs are compiled, those before are new, and one is missing that
\* still comes.
Compiler == proc.step \notin {"idle", "toolchain"} => tool = 2
New == [v |-> src, whole |-> TRUE, cc |-> 2]
Pass ==
  proc.step \in {"compile", "copy"} =>
    /\ \A j \in Indices : j < proc.i => exe[j] = New
    /\ proc.i \in Wanted(lib) => \E k \in Wanted(lib) : k >= proc.i /\ k \notin Present
    /\ At("copy") => proc.i \in Wanted(lib)

\* After that all are there, and are copied into the target directory.
Later == {"users", "owners", "devices"}
Done == proc.step \in {"finalize"} \union Later => BenchmarksCompiled
Deployed ==
  \A j \in Present :
    \/ At("finalize") /\ j < proc.i
    \/ proc.step \in Later
    => target[j] = exe[j]

ProgramsInv ==
  Segment /\ OnlyWanted /\ Alike /\ Compiler /\ Pass /\ Done /\ Deployed /\ Installed

\* The programs that are asked for are the first ones.
LEMMA WantedIsSegment ==
  ASSUME NEW there
  PROVE  /\ Wanted(there) \subseteq Indices
         /\ \A i, j \in Indices : i < j /\ j \in Wanted(there) => i \in Wanted(there)
BY ProgramsAssumption DEF Wanted, Indices

\* The programs are numbered from one.
LEMMA IndicesAreNumbers == Indices = 1..Len(Programs) /\ Len(Programs) \in Nat
BY ProgramsAssumption DEF Indices

\* As long as files, compiler and libraries stay and no programs are compiled,
\* the programs do too.
LEMMA NothingCompiled ==
  ASSUME ProgramsInv, UNCHANGED <<lib, exe>>
  PROVE  /\ Segment' /\ OnlyWanted' /\ Alike' /\ Present' = Present
         /\ BenchmarksCompiled' = BenchmarksCompiled
BY DEF ProgramsInv, Segment, OnlyWanted, Alike, Present, BenchmarksCompiled, Uniform

\* A step after the compilation only has to care for what is copied.
LEMMA NothingElse ==
  ASSUME ProgramsInv, UNCHANGED <<lib, exe, tool, image>>, proc'.step \notin {"compile", "copy"},
         proc'.step \in {"idle", "toolchain"} \/ proc.step \notin {"idle", "toolchain"},
         Done', Deployed'
  PROVE  ProgramsInv'
<1>1. Segment' /\ OnlyWanted' /\ Alike'
  BY NothingCompiled
<1>2. Compiler'
  BY DEF ProgramsInv, Compiler
<1>3. Pass'
  BY DEF Pass
<1>4. Installed'
  BY DEF ProgramsInv, Installed, Made
<1> QED
  BY <1>1, <1>2, <1>3, <1>4 DEF ProgramsInv

\* A library that was missing and is there now has no programs yet.
LEMMA LibraryAdded ==
  ASSUME ProgramsInv, UNCHANGED exe, NEW l \in Range(Libs), DOMAIN lib = Range(Libs), lib[l] = "missing",
         NEW state \in {"whole", "part"}, lib' = [lib EXCEPT ![l] = state]
  PROVE  Segment' /\ OnlyWanted' /\ Alike' /\ Present' = Present
<1>1. Present' = Present /\ Segment'
  BY DEF ProgramsInv, Segment, Present
<1>2. Wanted(lib) \subseteq Wanted(lib')
  BY ProgramsAssumption DEF Wanted
<1>3. OnlyWanted'
  BY <1>1, <1>2 DEF ProgramsInv, OnlyWanted
<1>4. ASSUME BenchmarksCompiled' PROVE Uniform(exe, Wanted(lib'))
  <2>1. Wanted(lib') \subseteq Present
    BY <1>4, WantedIsSegment DEF BenchmarksCompiled, Present
  <2>2. Wanted(lib') = Wanted(lib)
    BY <2>1, <1>2 DEF ProgramsInv, OnlyWanted
  <2> QED
    BY <1>4, <2>2 DEF ProgramsInv, Alike, BenchmarksCompiled
<1> QED
  BY <1>1, <1>3, <1>4 DEF Alike, Uniform

\* Every step keeps what is said of the programs.
LEMMA ProgramsStep == ASSUME Typed, ProgramsInv, [Next]_vars PROVE ProgramsInv'
<1> USE DEF At, vars, work, rest
<1> DEFINE Same == UNCHANGED <<lib, exe, target, tool, image, src>>
<1>1. CASE Call
  <2>1. Same /\ proc'.step \in {"libs", "toolchain"} /\ (proc'.step = "libs" => tool = 2)
    BY <1>1 DEF Call, ToolchainThere
  <2> QED
    BY <2>1, NothingCompiled
    DEF ProgramsInv, Compiler, Pass, Done, Deployed, Later, Installed, Made, NoImage
<1>2. CASE Toolchain
  <2>1. UNCHANGED <<lib, exe, target, image, src>> /\ tool' = tool + 1
    BY <1>2 DEF Toolchain
  <2>2. proc'.step \in {"libs", "toolchain"} /\ (proc'.step = "libs" => tool' = 2)
    BY <1>2 DEF Toolchain, To, Typed, ProcTyped, ProcFields
  <2> QED
    BY <2>1, <2>2, NothingCompiled
    DEF ProgramsInv, Compiler, Pass, Done, Deployed, Later, Installed, Made, NoImage
<1>3. CASE Library
  <2>1. UNCHANGED <<tool, exe, target, image, src>> /\ proc'.step = "libs" /\ proc.step = "libs"
    BY <1>3 DEF Library, Next1, Typed, ProcTyped, ProcFields
  <2>2. UNCHANGED lib \/ \E l \in Range(Libs) : lib[l] = "missing" /\ lib' = [lib EXCEPT ![l] = "whole"]
    BY <1>3, LibInRange DEF Library, Typed, ProcTyped
  <2>3. Segment' /\ OnlyWanted' /\ Alike' /\ Present' = Present
    BY <2>1, <2>2, NothingCompiled, LibraryAdded DEF Typed, FilesTyped
  <2> QED
    BY <2>1, <2>3 DEF ProgramsInv, Compiler, Pass, Done, Deployed, Later, Installed, Made, NoImage
<1>4. CASE Gate
  <2>1. Same /\ proc.step = "libs"
    BY <1>4 DEF Gate
  <2>2. CASE BenchmarksCompiled
    <3>1. proc'.step = "finalize" /\ proc'.i = 1
      BY <1>4, <2>2 DEF Gate, Goto, Typed, ProcTyped, ProcFields
    <3>2. Deployed'
      <4>1. \A j \in Present : ~(j < 1)
        BY IndicesAreNumbers DEF Present
      <4> QED
        BY <2>1, <3>1, <4>1, NothingCompiled DEF Deployed, Later
    <3> QED
      BY <2>1, <2>2, <3>1, <3>2, NothingCompiled
      DEF ProgramsInv, Compiler, Pass, Done, Later, Installed, Made, NoImage
  <2>3. CASE ~BenchmarksCompiled
    <3>1. proc'.step = "compile" /\ proc'.i = 1
      BY <1>4, <2>3 DEF Gate, Goto, Typed, ProcTyped, ProcFields
    <3>2. \E k \in Wanted(lib) : k >= 1 /\ k \notin Present
      BY <2>3, WantedIsSegment, IndicesAreNumbers DEF BenchmarksCompiled, Present
    <3>3. Pass'
      BY <2>1, <3>1, <3>2, NothingCompiled, IndicesAreNumbers DEF Pass
    <3> QED
      BY <2>1, <3>1, <3>3, NothingCompiled
      DEF ProgramsInv, Compiler, Done, Deployed, Later, Installed, Made, NoImage
  <2> QED
    BY <2>2, <2>3
<1>5. CASE Compile
  <2>1. Same /\ proc.step = "compile" /\ proc.i \in Wanted(lib)
    BY <1>5 DEF Compile, Abort
  <2>2. proc'.step = "idle" \/ (proc'.step = "copy" /\ proc'.i = proc.i)
    <3>1. proc' = None \/ \E c : proc' = [proc EXCEPT !.step = "copy", !.command = c]
      BY <1>5 DEF Compile, Abort
    <3>2. DOMAIN proc = ProcFields
      BY <2>1 DEF Typed, ProcTyped
    <3>3. ASSUME NEW c, proc' = [proc EXCEPT !.step = "copy", !.command = c]
          PROVE  proc'.step = "copy" /\ proc'.i = proc.i
      BY <3>2, <3>3 DEF ProcFields
    <3>4. CASE proc' = None
      BY <3>4 DEF None
    <3>5. CASE \E c : proc' = [proc EXCEPT !.step = "copy", !.command = c]
      BY <3>3, <3>5, Zenon
    <3> QED
      BY <3>1, <3>4, <3>5, Zenon
  <2>3. Pass'
    BY <2>1, <2>2, NothingCompiled DEF ProgramsInv, Pass, New
  <2> QED
    BY <2>1, <2>2, <2>3, NothingCompiled
    DEF ProgramsInv, Compiler, Done, Deployed, Later, Installed, Made, NoImage
<1>6. CASE CopyProgram
  <2>1. /\ UNCHANGED <<tool, lib, target, image, src>> /\ proc.step = "copy"
        /\ exe' = [exe EXCEPT ![proc.i] = [v |-> src, whole |-> TRUE, cc |-> tool]]
    BY <1>6 DEF CopyProgram
  <2>2. proc'.step = "compile" /\ proc'.i = proc.i + 1
    BY <1>6 DEF CopyProgram, Typed, ProcTyped, ProcFields
  <2>3. /\ tool = 2 /\ proc.i \in Wanted(lib) /\ proc.i \in Indices
        /\ New # Missing /\ DOMAIN exe = Indices
    BY <2>1, WantedIsSegment DEF ProgramsInv, Compiler, Pass, Typed, FilesTyped, New, Missing
  <2>4. exe' = [exe EXCEPT ![proc.i] = New] /\ New' = New /\ Present' = Present \union {proc.i}
    BY <2>1, <2>3 DEF New, Present
  <2>5. \A j \in Indices : j < proc.i + 1 => exe'[j] = New
    BY <2>1, <2>3, <2>4, IndicesAreNumbers DEF ProgramsInv, Pass
  <2>6. Segment' /\ OnlyWanted'
    BY <2>1, <2>3, <2>4, <2>5, IndicesAreNumbers DEF ProgramsInv, Segment, OnlyWanted, Pass, Present
  <2>7. proc.i + 1 \in Wanted(lib) => \E k \in Wanted(lib) : k >= proc.i + 1 /\ k \notin Present'
    <3>1. PICK k \in Wanted(lib) : k >= proc.i /\ k \notin Present
      BY <2>1, <2>3 DEF ProgramsInv, Pass
    <3>2. CASE k > proc.i
      BY <2>3, <2>4, <3>1, <3>2, WantedIsSegment, IndicesAreNumbers
    <3>3. CASE k = proc.i
      <4>1. ASSUME proc.i + 1 \in Wanted(lib) PROVE proc.i + 1 \notin Present'
        BY <2>3, <2>4, <3>1, <3>3, <4>1, WantedIsSegment, IndicesAreNumbers DEF ProgramsInv, Segment
      <4> QED
        BY <2>3, <4>1, IndicesAreNumbers
    <3> QED
      BY <2>3, <3>1, <3>2, <3>3, WantedIsSegment, IndicesAreNumbers
  <2>8. Alike'
    <3> SUFFICES ASSUME BenchmarksCompiled' PROVE Uniform(exe', Wanted(lib))
      BY <2>1 DEF Alike, Uniform
    <3>1. \A k \in Wanted(lib) : k \in Present'
      BY <2>1, WantedIsSegment DEF BenchmarksCompiled, Present
    <3>2. proc.i + 1 \notin Wanted(lib)
      BY <2>7, <3>1
    <3>3. \A j \in Wanted(lib) : j < proc.i + 1
      BY <2>3, <3>2, WantedIsSegment, IndicesAreNumbers
    <3>4. \A j \in Wanted(lib) : exe'[j] = New
      BY <2>5, <3>3, WantedIsSegment
    <3> QED
      BY <2>1, <3>4 DEF Uniform, New, Typed, FilesTyped
  <2>9. Pass'
    BY <2>1, <2>2, <2>4, <2>5, <2>7 DEF Pass
  <2> QED
    BY <2>1, <2>2, <2>6, <2>8, <2>9
    DEF ProgramsInv, Compiler, Done, Deployed, Later, Installed, Made, NoImage
<1>7. CASE Compiled
  <2>1. Same /\ proc.step = "compile" /\ proc.i \notin Wanted(lib)
    BY <1>7 DEF Compiled
  <2>2. proc'.step = "finalize" /\ proc'.i = 1
    BY <1>7 DEF Compiled, Goto, Typed, ProcTyped, ProcFields
  <2>3. BenchmarksCompiled
    <3> SUFFICES ASSUME NEW j \in Wanted(lib) PROVE exe[j] # Missing
      BY DEF BenchmarksCompiled
    <3>1. j \in Indices /\ proc.i \in Nat \ {0}
      BY <2>1, WantedIsSegment DEF Typed, ProcTyped
    <3>2. j < proc.i
      BY <2>1, <3>1, WantedIsSegment, IndicesAreNumbers
    <3> QED
      BY <2>1, <3>1, <3>2 DEF ProgramsInv, Pass, New, Missing
  <2>4. Deployed'
    <3>1. \A j \in Present : ~(j < 1)
      BY IndicesAreNumbers DEF Present
    <3> QED
      BY <2>1, <2>2, <3>1, NothingCompiled DEF Deployed, Later
  <2> QED
    BY <2>1, <2>2, <2>3, <2>4, NothingCompiled
    DEF ProgramsInv, Compiler, Pass, Done, Later, Installed, Made, NoImage
<1>8. CASE DeployBench
  <2>1. /\ UNCHANGED <<lib, exe, tool, image, src>> /\ proc.step = "finalize" /\ proc.i \in Indices
        /\ target' = IF exe[proc.i] = Missing THEN target
                     ELSE [target EXCEPT ![proc.i] = exe[proc.i]]
    BY <1>8 DEF DeployBench
  <2>2. proc'.step = "finalize" /\ proc'.i = proc.i + 1
    BY <1>8 DEF DeployBench, Next1, Typed, ProcTyped, ProcFields
  <2>3. Deployed'
    BY <2>1, <2>2, NothingCompiled, IndicesAreNumbers
    DEF ProgramsInv, Deployed, Later, Present, Typed, FilesTyped
  <2>4. Done'
    BY <2>1, <2>2, NothingCompiled DEF ProgramsInv, Done
  <2> QED
    BY <2>1, <2>2, <2>3, <2>4, NothingElse
<1>9. CASE RootfsCommon
  <2>1. Same /\ proc.step = "finalize" /\ proc.i \notin Indices
    BY <1>9 DEF RootfsCommon
  <2>2. proc'.step = "users"
    BY <1>9 DEF RootfsCommon, Typed, ProcTyped, ProcFields
  <2>3. \A j \in Present : j < proc.i
    <3>1. proc.i \in Nat \ {0}
      BY <2>1 DEF Typed, ProcTyped
    <3>2. Present \subseteq Indices
      BY DEF Present
    <3>3. \A j, k \in Indices : k < proc.i \/ (proc.i <= k /\ proc.i \in Indices)
      BY <3>1, IndicesAreNumbers
    <3> QED
      BY <2>1, <3>2, <3>3
  <2>4. \A j \in Present : target[j] = exe[j]
    BY <2>1, <2>3 DEF ProgramsInv, Deployed
  <2>5. Deployed'
    <3>1. Present' = Present
      BY <2>1, NothingCompiled
    <3> QED
      BY <2>1, <2>4, <3>1 DEF Deployed
  <2>6. Done'
    BY <2>1, <2>2, NothingCompiled DEF ProgramsInv, Done
  <2> QED
    BY <2>1, <2>2, <2>5, <2>6, NothingElse
<1>10. CASE MakeUsers
  <2>1. Same /\ proc.step = "users" /\ proc'.step \in {"owners", "idle"}
    BY <1>10 DEF MakeUsers, None, Typed, ProcTyped, ProcFields
  <2>2. Done' /\ Deployed'
    BY <2>1, NothingCompiled DEF ProgramsInv, Done, Deployed, Later
  <2> QED
    BY <2>1, <2>2, NothingElse
<1>11. CASE MakeOwners
  <2>1. Same /\ proc.step = "owners" /\ proc'.step = "devices"
    BY <1>11 DEF MakeOwners, Typed, ProcTyped, ProcFields
  <2>2. Done' /\ Deployed'
    BY <2>1, NothingCompiled DEF ProgramsInv, Done, Deployed, Later
  <2> QED
    BY <2>1, <2>2, NothingElse
<1>12. CASE MakeDevices
  <2>1. Same /\ proc.step = "devices" /\ proc'.step \in {"devices", "idle"}
    BY <1>12 DEF MakeDevices, None, Typed, ProcTyped, ProcFields
  <2>2. Done' /\ Deployed'
    BY <2>1, NothingCompiled DEF ProgramsInv, Done, Deployed, Later
  <2> QED
    BY <2>1, <2>2, NothingElse
<1>13. CASE MakeImage
  <2>1. UNCHANGED <<lib, exe, target, tool, src>> /\ proc.step = "devices" /\ proc'.step = "idle"
    BY <1>13 DEF MakeImage, None
  <2>2. image' = image \/ (image'.progs = target /\ image'.lib = lib)
    BY <1>13 DEF MakeImage
  <2>3. Uniform(target, Wanted(lib))
    BY <2>1, WantedIsSegment
    DEF ProgramsInv, Done, Deployed, Later, Alike, BenchmarksCompiled, Uniform, Present
  <2>4. Installed'
    BY <2>2, <2>3 DEF ProgramsInv, Installed, Made, NoImage, Uniform
  <2> QED
    BY <2>1, <2>4, NothingCompiled DEF ProgramsInv, Compiler, Pass, Done, Deployed, Later
<1>14. CASE Interrupt
  <2>1. UNCHANGED <<tool, image, src>> /\ proc'.step = "idle"
    BY <1>14 DEF Interrupt, None
  <2>2. CASE UNCHANGED <<lib, exe>>
    BY <2>1, <2>2, NothingCompiled
    DEF ProgramsInv, Compiler, Pass, Done, Deployed, Later, Installed, Made, NoImage
  <2>3. CASE /\ At("libs") /\ proc.i <= Len(Libs) /\ lib[Libs[proc.i]] = "missing"
             /\ lib' = [lib EXCEPT ![Libs[proc.i]] = "part"] /\ UNCHANGED <<exe, target>>
    <3>1. Segment' /\ OnlyWanted' /\ Alike' /\ Present' = Present
      <4>1. proc.i \in 1..Len(Libs)
        BY <2>3, ProgramsAssumption DEF Typed, ProcTyped
      <4>2. Libs[proc.i] \in Range(Libs)
        BY <4>1, LibInRange
      <4> QED
        BY <2>3, <4>2, LibraryAdded DEF Typed, FilesTyped
    <3> QED
      BY <2>1, <2>3, <3>1
      DEF ProgramsInv, Compiler, Pass, Done, Deployed, Later, Installed, Made, NoImage
  <2>4. CASE /\ At("copy") /\ UNCHANGED <<lib, target>>
             /\ exe' = [exe EXCEPT ![proc.i] = [v |-> src, whole |-> FALSE, cc |-> tool]]
    <3> DEFINE torn == [v |-> src, whole |-> FALSE, cc |-> tool]
    <3>1. /\ tool = 2 /\ proc.i \in Wanted(lib) /\ proc.i \in Indices
          /\ torn # Missing /\ DOMAIN exe = Indices /\ src > 0
      BY <2>4, WantedIsSegment DEF ProgramsInv, Compiler, Pass, Typed, FilesTyped, Missing
    <3>2. Present' = Present \union {proc.i}
      BY <2>4, <3>1 DEF Present
    <3>3. \A j \in Indices : j < proc.i => j \in Present /\ exe[j] = New
      BY <2>4, <3>1 DEF ProgramsInv, Pass, Present, New, Missing
    <3>4. Segment' /\ OnlyWanted'
      BY <2>4, <3>1, <3>2, <3>3, IndicesAreNumbers DEF ProgramsInv, Segment, OnlyWanted, Present
    <3>5. Alike'
      <4> SUFFICES ASSUME BenchmarksCompiled' PROVE Uniform(exe', Wanted(lib))
        BY <2>4 DEF Alike, Uniform
      <4>1. \A k \in Wanted(lib) : k \in Present'
        BY <2>4, WantedIsSegment DEF BenchmarksCompiled, Present
      <4>2. proc.i \notin Present
        BY <2>4, <3>1, <3>2, <4>1 DEF ProgramsInv, Pass
      <4>3. \A j \in Wanted(lib) : j <= proc.i
        BY <3>1, <3>2, <4>1, <4>2, WantedIsSegment, IndicesAreNumbers DEF ProgramsInv, Segment
      <4>4. \A j \in Wanted(lib) : j = proc.i \/ exe'[j] = New
        BY <2>4, <3>1, <3>3, <4>3, WantedIsSegment, IndicesAreNumbers
      <4>5. exe'[proc.i] = torn
        BY <2>4, <3>1
      <4> QED
        BY <3>1, <4>3, <4>4, <4>5 DEF Uniform, New
    <3> QED
      BY <2>1, <3>4, <3>5
      DEF ProgramsInv, Compiler, Pass, Done, Deployed, Later, Installed, Made, NoImage
  <2> QED
    BY <1>14, <2>2, <2>3, <2>4 DEF Interrupt
<1>15. CASE Edit
  <2>1. UNCHANGED <<lib, exe, target, tool, image, proc>> /\ proc.step = "idle"
    BY <1>15 DEF Edit
  <2> QED
    BY <2>1, NothingCompiled
    DEF ProgramsInv, Compiler, Pass, Done, Deployed, Later, Installed, Made, NoImage
<1>16. CASE UNCHANGED vars
  BY <1>16, NothingCompiled
  DEF ProgramsInv, Compiler, Pass, New, Done, Deployed, Later, Installed, Made, NoImage
<1> QED
  BY <1>1, <1>2, <1>3, <1>4, <1>5, <1>6, <1>7, <1>8, <1>9, <1>10, <1>11, <1>12, <1>13, <1>14,
     <1>15, <1>16 DEF Next

\* However often the sources change and calls are interrupted between two
\* images, an image has all programs of the libraries that were found, from
\* the same sources, by the complete compiler, and at most the last one is
\* torn.
THEOREM AlwaysInstalled == Spec => []Installed
<1>1. ASSUME Init PROVE ProgramsInv
  <2>1. exe = Empty /\ image = NoImage /\ proc.step = "idle"
    BY <1>1 DEF Init, None
  <2>2. \A i \in Indices : exe[i] = Missing
    BY <2>1 DEF Empty
  <2>3. Segment /\ OnlyWanted /\ Deployed
    BY <2>2 DEF Segment, OnlyWanted, Deployed, Present
  <2>4. Alike
    <3> SUFFICES ASSUME BenchmarksCompiled PROVE Wanted(lib) = {}
      BY DEF Alike, Uniform
    <3> QED
      BY <2>2, WantedIsSegment DEF BenchmarksCompiled
  <2> QED
    BY <2>1, <2>3, <2>4 DEF ProgramsInv, Compiler, Pass, Done, Later, Installed, Made, At
<1>2. ProgramsInv => Installed
  BY DEF ProgramsInv
<1> QED
  BY <1>1, <1>2, ProgramsStep, AlwaysTyped, PTL DEF Spec

-----------------------------------------------------------------------------
(* The users.                                                              *)

\* What the copy of the target directory holds, as far as the image is made:
\* what the script made of a table, if it did not fail.
Listed == MkUsers(proc.entries, Passwd, Group)
TableKept ==
  Made => image.entries \in Seq(TableLines) /\ MkUsers(image.entries, Passwd, Group).ok
CopyInv ==
  /\ proc.step \in Later => proc.entries \in Seq(TableLines)
  /\ At("users") => copy = FreshCopy
  /\ proc.step \in {"owners", "devices"} => copy = [pw |-> Listed.pw, gr |-> Listed.gr] /\ Listed.ok
  /\ Fresh /\ TableKept

\* Every step keeps what is said of the copy.
LEMMA CopyStep == ASSUME Typed, CopyInv, [Next]_vars PROVE CopyInv'
<1> USE DEF At, vars, work, rest
<1> DEFINE Elsewhere == proc'.step \notin Later /\ UNCHANGED image
<1>1. ASSUME Elsewhere PROVE CopyInv'
  BY <1>1 DEF CopyInv, Later, Fresh, TableKept, Made, NoImage
<1>2. CASE Call
  BY <1>1, <1>2 DEF Call, Later
<1>3. CASE Toolchain
  BY <1>1, <1>3 DEF Toolchain, To, Later, Typed, ProcTyped, ProcFields
<1>4. CASE Library
  BY <1>1, <1>4 DEF Library, Next1, Later, Typed, ProcTyped, ProcFields
<1>5. CASE Gate
  BY <1>1, <1>5 DEF Gate, Goto, Later, Typed, ProcTyped, ProcFields
<1>6. CASE Compile
  <2>1. proc' = None \/ \E c : proc' = [proc EXCEPT !.step = "copy", !.command = c]
    BY <1>6 DEF Compile, Abort
  <2>2. DOMAIN proc = ProcFields /\ UNCHANGED image
    BY <1>6 DEF Compile, Abort, Typed, ProcTyped
  <2>3. ASSUME NEW c, proc' = [proc EXCEPT !.step = "copy", !.command = c] PROVE proc'.step = "copy"
    BY <2>2, <2>3 DEF ProcFields
  <2>4. proc'.step = "idle" \/ proc'.step = "copy"
    <3>1. CASE proc' = None
      BY <3>1 DEF None
    <3>2. CASE \E c : proc' = [proc EXCEPT !.step = "copy", !.command = c]
      BY <2>3, <3>2, Zenon
    <3> QED
      BY <2>1, <3>1, <3>2, Zenon
  <2> QED
    BY <1>1, <2>2, <2>4 DEF Later
<1>7. CASE CopyProgram
  BY <1>1, <1>7 DEF CopyProgram, Later, Typed, ProcTyped, ProcFields
<1>8. CASE Compiled
  BY <1>1, <1>8 DEF Compiled, Goto, Later, Typed, ProcTyped, ProcFields
<1>9. CASE DeployBench
  BY <1>1, <1>9 DEF DeployBench, Next1, Later, Typed, ProcTyped, ProcFields
<1>10. CASE RootfsCommon
  <2>1. proc'.step = "users" /\ copy' = FreshCopy /\ UNCHANGED image /\ proc'.entries \in Plan.users
    BY <1>10 DEF RootfsCommon, Typed, ProcTyped, ProcFields
  <2>2. proc'.entries \in Seq(TableLines)
    BY <2>1, PlansAssumption DEF Plan, Typed, LeftTyped
  <2> QED
    BY <2>1, <2>2 DEF CopyInv, Later, FreshCopy, Fresh, TableKept, Made, NoImage
<1>11. CASE MakeUsers
  <2>1. At("users") /\ copy = [pw |-> Passwd, gr |-> Group] /\ UNCHANGED image
    BY <1>11 DEF MakeUsers, CopyInv, FreshCopy
  <2>2. copy' = [pw |-> Listed.pw, gr |-> Listed.gr]
    BY <1>11, <2>1 DEF MakeUsers, Listed
  <2>3. proc'.step = "idle" \/ (proc'.step = "owners" /\ proc'.entries = proc.entries /\ Listed.ok)
    BY <1>11, <2>1 DEF MakeUsers, None, Listed, Typed, ProcTyped, ProcFields
  <2>4. CASE proc'.step = "idle"
    BY <1>1, <2>1, <2>4 DEF Later
  <2>5. CASE proc'.step = "owners" /\ proc'.entries = proc.entries /\ Listed.ok
    BY <2>1, <2>2, <2>5 DEF CopyInv, Later, Listed, Fresh, TableKept, Made, NoImage
  <2> QED
    BY <2>3, <2>4, <2>5
<1>12. CASE MakeOwners
  <2>1. /\ proc.step = "owners" /\ proc'.step = "devices" /\ proc'.entries = proc.entries
        /\ UNCHANGED <<copy, image>>
    BY <1>12 DEF MakeOwners, Typed, ProcTyped, ProcFields
  <2> QED
    BY <2>1 DEF CopyInv, Later, Listed, Fresh, TableKept, Made, NoImage
<1>13. CASE MakeDevices
  <2>1. /\ proc.step = "devices" /\ UNCHANGED <<copy, image>>
        /\ proc'.step = "idle" \/ (proc'.step = "devices" /\ proc'.entries = proc.entries)
    BY <1>13 DEF MakeDevices, None, Typed, ProcTyped, ProcFields
  <2> QED
    BY <2>1 DEF CopyInv, Later, Listed, Fresh, TableKept, Made, NoImage
<1>14. CASE MakeImage
  <2>1. proc.step = "devices" /\ proc'.step = "idle"
    BY <1>14 DEF MakeImage, None
  <2>2. image' = image \/ (image'.pw = copy.pw /\ image'.gr = copy.gr /\ image'.entries = proc.entries)
    BY <1>14 DEF MakeImage
  <2>3. /\ copy.pw = Listed.pw /\ copy.gr = Listed.gr /\ Listed.ok
        /\ proc.entries \in Seq(TableLines)
    BY <2>1 DEF CopyInv, Later
  <2>4. Fresh' /\ TableKept'
    BY <2>2, <2>3 DEF CopyInv, Listed, Fresh, TableKept, Made, NoImage
  <2> QED
    BY <2>1, <2>4 DEF CopyInv, Later
<1>15. CASE Interrupt
  BY <1>1, <1>15 DEF Interrupt, None, Later
<1>16. CASE Edit
  BY <1>1, <1>16 DEF Edit, Later
<1>17. CASE UNCHANGED vars
  BY <1>17 DEF CopyInv, Later, Listed, FreshCopy, Fresh, TableKept, Made, NoImage
<1> QED
  BY <1>2, <1>3, <1>4, <1>5, <1>6, <1>7, <1>8, <1>9, <1>10, <1>11, <1>12, <1>13, <1>14, <1>15,
     <1>16, <1>17 DEF Next

\* The users and groups of an image are what mkusers makes of its own table
\* and the files of the skeleton, whatever earlier and interrupted calls did.
THEOREM AlwaysFresh == Spec => []Fresh
<1>1. Init => CopyInv
  BY DEF Init, None, NoImage, CopyInv, Later, Fresh, TableKept, Made, At
<1>2. CopyInv => Fresh
  BY DEF CopyInv
<1> QED
  BY <1>1, <1>2, CopyStep, AlwaysTyped, PTL DEF Spec

\* In no image two users have the same number, users and groups have the
\* numbers of the table and the members it asks for, nobody loses a group, and
\* only a line that makes no user gives a group the number of another.
THEOREM AlwaysUsersKept == Spec => []UsersKept
<1>1. Init => CopyInv
  BY DEF Init, None, NoImage, CopyInv, Later, Fresh, TableKept, Made, At
<1>2. ASSUME CopyInv PROVE UsersKept
  <2> SUFFICES ASSUME Made PROVE Kept(image.entries, Group, image)
    BY DEF UsersKept
  <2> DEFINE u == MkUsers(image.entries, Passwd, Group)
  <2>1. image.entries \in Seq(TableLines) /\ u.ok /\ image.pw = u.pw /\ image.gr = u.gr
    BY <1>2 DEF CopyInv, Fresh, TableKept
  <2>2. Kept(image.entries, Group, u)
    BY <2>1, SkeletonAssumption, MkUsersKeeps DEF SkeletonAssumption
  <2> HIDE DEF u
  <2> QED
    BY <2>1, <2>2 DEF Kept
<1> QED
  BY <1>1, <1>2, CopyStep, AlwaysTyped, PTL DEF Spec

-----------------------------------------------------------------------------
(* The commands of the compiler.                                           *)

\* What runs was called with arguments, through a wrapper of the plan.
CommandInv ==
  At("copy") =>
    LET c == proc.command
    IN \/ c = Refused
       \/ /\ c.b \in Wrappers /\ c.argv \in Seq(Arguments)
          /\ ~Unsafe(c.argv)

\* Every step keeps what is said of the command.
LEMMA CommandStep == ASSUME Typed, CommandInv, [Next]_vars PROVE CommandInv'
<1> USE DEF At, vars, work, rest
<1>1. ASSUME proc'.step # "copy" PROVE CommandInv'
  BY <1>1 DEF CommandInv
<1>2. CASE Call
  BY <1>1, <1>2 DEF Call
<1>3. CASE Toolchain
  BY <1>1, <1>3 DEF Toolchain, To, Typed, ProcTyped, ProcFields
<1>4. CASE Library \/ Gate \/ Compiled
  BY <1>1, <1>4 DEF Library, Gate, Compiled, Next1, Goto, Typed, ProcTyped, ProcFields
<1>5. CASE Compile
  <2>1. PICK b \in Plan.wrappers, call \in Plan.ways, env \in Plan.envs, argv \in Plan.commands :
          \/ proc' = None
          \/ /\ Main(b, call, env, argv) # Refused
             /\ proc' = [proc EXCEPT !.step = "copy",
                           !.command = [b |-> b, call |-> call, env |-> env, argv |-> argv,
                                        line |-> Main(b, call, env, argv)]]
    BY <1>5, ZenonT(60) DEF Compile, Abort
  <2>2. b \in Wrappers /\ argv \in Seq(Arguments)
    BY PlansAssumption DEF Plan, Typed, LeftTyped
  <2>6. Main(b, call, env, argv) # Refused => ~Unsafe(argv)
    BY DEF Main
  <2>3. DOMAIN proc = ProcFields
    BY <1>5 DEF Compile, Typed, ProcTyped
  <2>4. CASE proc' = None
    BY <1>1, <2>4 DEF None
  <2>5. ASSUME NEW line,
               proc' = [proc EXCEPT !.step = "copy",
                          !.command = [b |-> b, call |-> call, env |-> env, argv |-> argv, line |-> line]]
        PROVE  proc'.command.b = b /\ proc'.command.argv = argv
    BY <2>3, <2>5 DEF ProcFields
  <2> QED
    BY <2>1, <2>2, <2>4, <2>5, <2>6 DEF CommandInv
<1>6. CASE CopyProgram
  BY <1>1, <1>6 DEF CopyProgram, Typed, ProcTyped, ProcFields
<1>7. CASE DeployBench \/ RootfsCommon
  BY <1>1, <1>7 DEF DeployBench, RootfsCommon, Next1, Typed, ProcTyped, ProcFields
<1>8. CASE MakeUsers
  <2>1. proc'.step \in {"idle", "owners"}
    BY <1>8 DEF MakeUsers, None, Typed, ProcTyped, ProcFields
  <2> QED
    BY <1>1, <2>1
<1>11. CASE MakeOwners
  BY <1>1, <1>11 DEF MakeOwners, Typed, ProcTyped, ProcFields
<1>12. CASE MakeDevices
  <2>1. proc'.step \in {"idle", "devices"}
    BY <1>12 DEF MakeDevices, None, Typed, ProcTyped, ProcFields
  <2> QED
    BY <1>1, <2>1
<1>13. CASE MakeImage
  BY <1>1, <1>13 DEF MakeImage, None
<1>9. CASE Interrupt \/ Edit
  BY <1>1, <1>9 DEF Interrupt, Edit, None
<1>10. CASE UNCHANGED vars
  BY <1>10 DEF CommandInv
<1> QED
  BY <1>2, <1>3, <1>4, <1>5, <1>6, <1>7, <1>8, <1>9, <1>10, <1>11, <1>12,
     <1>13 DEF Next

\* It holds at all times.
LEMMA AlwaysCommand == Spec => []CommandInv
<1>1. Init => CommandInv
  BY DEF Init, None, CommandInv, At
<1> QED
  BY <1>1, CommandStep, AlwaysTyped, PTL DEF Spec

\* The memory of the wrapper is enough for every command that it executes,
\* whatever was compiled into it and whatever it was called with.
THEOREM AlwaysArgsFit == Spec => []ArgsFit
<1>1. ASSUME CommandInv PROVE ArgsFit
  <2> SUFFICES ASSUME Running(Command) PROVE Written(Command) <= Reserved(Command)
    BY DEF ArgsFit
  <2>1. Command.b \in Wrappers /\ Command.argv \in Seq(Arguments)
    BY <1>1 DEF Command, CommandInv, Running
  <2> HIDE DEF Command
  <2>2. Len(PredefArgs(Command.b, Command.call)) \in Nat
    BY <2>1, PredefArgsCounted
  <2>3. /\ Len(ExtraArgs(Command.b, Command.env, Command.argv)) \in Nat
        /\ Len(ExtraArgs(Command.b, Command.env, Command.argv)) <= 10
    BY <2>1, ExtraArgsAreFew DEF ExclusiveArgs
  <2>4. Len(Command.argv) \in Nat
    BY <2>1
  <2> DEFINE p == Len(PredefArgs(Command.b, Command.call))
             e == Len(ExtraArgs(Command.b, Command.env, Command.argv))
             a == Len(Command.argv)
  <2>5. Written(Command) = p + e + a + 1 /\ Reserved(Command) = p + (a + 1) + 10
    BY Zenon DEF Written, Reserved, ExclusiveArgs
  <2>6. p \in Nat /\ e \in Nat /\ e <= 10 /\ a \in Nat
    BY <2>2, <2>3, <2>4, Zenon
  <2> HIDE DEF p, e, a
  <2> QED
    BY <2>5, <2>6
<1> QED
  BY <1>1, AlwaysCommand, PTL

\* No option that the wrapper adds is against one that it was called with.
THEOREM AlwaysReconciled == Spec => []Reconciled
<1>1. ASSUME CommandInv PROVE Reconciled
  <2> SUFFICES ASSUME Running(Command)
               PROVE  LET added == ExtraArgs(Command.b, Command.env, Command.argv)
                      IN /\ \A f \in Families : ~(Has(added, f[1]) /\ Has(Command.argv, f[2]))
                         /\ Has(added, {"-mfp"}) => ~SoftFloat(Command.argv)
    BY DEF Reconciled
  <2> DEFINE argv == Command.argv
             added == ExtraArgs(Command.b, Command.env, argv)
  <2>1. Command.b \in Wrappers
    BY <1>1 DEF Command, CommandInv, Running
  <2>2. ASSUME NEW S, Has(added, S) PROVE Why(argv, S)
    BY <2>1, <2>2, AddedWhy
  <2> HIDE DEF argv, added
  <2>3. Has(added, {"-mfp"}) => ~SoftFloat(argv)
    BY <2>2 DEF Why, Dates, Hardening
  <2>4. ASSUME NEW f \in Families, Has(added, f[1]), Has(argv, f[2]) PROVE FALSE
    <3>1. CASE f = <<{"-mfloat-abi="}, {"-mfloat-abi=", "-msoft-float", "-mhard-float"}>>
      BY <2>2, <2>4, <3>1 DEF Why, Dates, Hardening
    <3>2. CASE f = <<{"-march=", "-mcpu="}, {"-march=", "-mcpu=", "-mtune="}>>
      <4>1. Has(argv, {"-march=", "-mtune=", "-mcpu="})
        BY <2>4, <3>2, HasMore
      <4> QED
        BY <2>2, <2>4, <3>2, <4>1 DEF Why, Dates, Hardening
    <3>3. CASE f = <<{"-fPIE", "-pie"}, {"-fno-pie", "-fno-PIE", "-no-pie", "-static", "-r", "-Wl,-r"}>>
      <4>1. f[2] \subseteq NotPie
        BY <3>3 DEF NotPie
      <4>2. Has(argv, NotPie)
        BY <2>4, <4>1, HasMore, Zenon
      <4> QED
        BY <2>2, <2>4, <3>3, <4>2 DEF Why, Dates, Hardening
    <3>4. CASE f = <<{"-pie"}, {"-shared"}>>
      BY <2>2, <2>4, <3>4 DEF Why, Dates, Hardening
    <3>5. CASE f = <<{"-fPIE"}, {"-fpie", "-fPIE", "-fpic", "-fPIC"}>>
      BY <2>2, <2>4, <3>5 DEF Why, Dates, Hardening
    <3>6. CASE f = <<{"-fPIE", "-pie", "-Wl,-z,now", "-Wl,-z,relro"}, {"-D__KERNEL__", "-D__UBOOT__"}>>
      <4>1. f[2] = {"-D__KERNEL__", "-D__UBOOT__"}
        BY <3>6
      <4>2. f[2] \subseteq NotPie
        BY <4>1 DEF NotPie
      <4>3. Has(argv, NotPie)
        BY <2>4, <4>2, HasMore, Zenon
      <4> QED
        BY <2>2, <2>4, <3>6, <4>1, <4>3 DEF Why, Dates, Hardening
    <3> QED
      BY <3>1, <3>2, <3>3, <3>4, <3>5, <3>6 DEF Families
  <2> QED
    BY <2>3, <2>4 DEF argv, added
<1> QED
  BY <1>1, AlwaysCommand, PTL

\* Whatever the compiler is called with, the wrapper refuses, or no directory of
\* the host is searched but behind a pair of options that the scan misreads.
THEOREM AlwaysSafePath == Spec => []NoUnsafePath
<1>1. ASSUME CommandInv PROVE NoUnsafePath
  <2> SUFFICES ASSUME Running(Command), NEW k \in DOMAIN Command.argv,
                      SearchesAt(Command.argv, k), Command.argv[k].rest \in UnsafePaths,
                      \A i \in 1..(k - 2) : ~Misread(Command.argv, i)
               PROVE  FALSE
    BY DEF NoUnsafePath
  <2>1. Command.argv \in Seq(Arguments) /\ ~Unsafe(Command.argv)
    BY <1>1 DEF Command, CommandInv, Running
  <2> QED
    BY <2>1, UnsafeFound
<1> QED
  BY <1>1, AlwaysCommand, PTL
=============================================================================
