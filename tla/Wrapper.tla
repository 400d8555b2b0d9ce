------------------------------- MODULE Wrapper -------------------------------
(***************************************************************************)
(* The program that stands in the place of Buildroot's cross compilers     *)
(* (toolchain/toolchain-wrapper.c): it puts options before those it was    *)
(* called with and executes the real compiler.                             *)
(*                                                                         *)
(* An argument is an option and what is attached to it; the name of a file *)
(* has no option.  A wrapper b is what was compiled into it: the flags     *)
(* that it always passes (flags), and whether it has a floating-point ABI, *)
(* a mode of 32-bit floating point, an architecture, a CPU, a date to take *)
(* from the environment, a compiler cache, PIE and read-only relocations.  *)
(* No architecture has both a choice of floating-point ABI (ARM) and a mode *)
(* of 32-bit floating point (MIPS).                                        *)
(*                                                                         *)
(* The tracing of the arguments is left out, and so are names that are     *)
(* longer than a path may be.                                              *)
(***************************************************************************)
EXTENDS Integers, Sequences, SequencesExt

CONSTANTS UnsafePaths \* the texts that begin with a name of the table unsafe_paths
ASSUME UnsafeAssumption == "" \notin UnsafePaths

Arg(opt, rest) == [opt |-> opt, rest |-> rest]
Plain(opt) == Arg(opt, "")
File(text) == Arg("", text)

OneTooFew == 9
\* How many arguments the wrapper reserves memory for.
ExclusiveArgs == 10

UnsafeOpts == <<"-I", "-idirafter", "-iquote", "-isystem", "-L">>

\* An argument that is nothing but one of these options takes the argument
\* after it, whatever that is: in a row of them every second one is taken.
Bare(argv, i) == argv[i].opt \in Range(UnsafeOpts) /\ argv[i].rest = ""
RowOfBare(argv, i, j) ==
  (\A m \in i..j : Bare(argv, m)) /\ (i = 1 \/ ~Bare(argv, i - 1))
Operand(argv, k) ==
  \E i \in 1..(k - 1) : RowOfBare(argv, i, k - 1) /\ (k - i) % 2 = 1

\* The directories that the compiler will search: what is attached to one of
\* the options, or taken by one.
SearchesAt(argv, k) ==
  IF Operand(argv, k) THEN argv[k].opt = "" ELSE argv[k].opt \in Range(UnsafeOpts)

Arguments == [opt : STRING, rest : STRING]
Wrappers ==
  {b \in [flags : Seq(Arguments), floatAbi : BOOLEAN, fp32 : BOOLEAN, arch : BOOLEAN, cpu : BOOLEAN,
          pie : BOOLEAN, relro : {"no", "partial", "full"}, epoch : BOOLEAN, ccache : BOOLEAN] :
     ~(b.floatAbi /\ b.fp32)}

-----------------------------------------------------------------------------
(* What is put before the arguments of the caller.                         *)

Has(argv, opts) == \E i \in DOMAIN argv : argv[i].opt \in opts
If(condition, args) == IF condition THEN args ELSE <<>>

\* The wrapper is found next to the compilers: by the path that it was called
\* by, or, if it was called by name, by what it is a link to.
AbsBaseDir(call) == IF call.byPath THEN call.dir ELSE call.real
PredefArgs(b, call) ==
  (IF b.ccache THEN <<Arg("ccache", AbsBaseDir(call))>> ELSE <<>>)
    \o <<Arg("compiler", AbsBaseDir(call)), Plain("--sysroot"), File(AbsBaseDir(call))>>
    \o b.flags

FloatAbi(b, argv) ==
  If(b.floatAbi /\ ~Has(argv, {"-mfloat-abi=", "-msoft-float", "-mhard-float"}),
     <<Plain("-mfloat-abi=")>>)

\* The last one of the two says what is wanted.
SoftFloat(argv) ==
  \E i \in DOMAIN argv :
    /\ argv[i].opt = "-msoft-float"
    /\ \A j \in DOMAIN argv : argv[j].opt = "-mhard-float" => j < i
Fp32Mode(b, argv) == If(b.fp32 /\ ~SoftFloat(argv), <<Plain("-mfp")>>)

TuneIgnored(b, argv) ==
  If(~Has(argv, {"-march=", "-mcpu="}),
     If(b.arch, <<Plain("-march=")>>) \o If(b.cpu, <<Plain("-mcpu=")>>))
ArchAndCpu(b, argv) ==
  If(~Has(argv, {"-march=", "-mtune=", "-mcpu="}),
     If(b.arch, <<Plain("-march=")>>) \o If(b.cpu, <<Plain("-mcpu=")>>))

\* The date of the environment: "none", "valid" or "invalid".
SourceDateEpoch(b, env) == IF b.epoch THEN env.date ELSE "none"
DateArgs(b, env) ==
  If(SourceDateEpoch(b, env) = "valid",
     <<Plain("-D__TIME__="), Plain("-D__DATE__="), Plain("-Wno-builtin-macro-redefined")>>)

NotPie == {"-r", "-Wl,-r", "-static", "-D__KERNEL__", "-D__UBOOT__", "-fno-pie", "-fno-PIE",
           "-no-pie"}
Pie(b, argv) ==
  If(b.pie /\ ~Has(argv, NotPie),
     If(~Has(argv, {"-fpie", "-fPIE", "-fpic", "-fPIC"}), <<Plain("-fPIE")>>)
       \o If(~Has(argv, {"-shared"}), <<Plain("-pie")>>))

Relro(b, argv) ==
  If(~Has(argv, {"-D__KERNEL__", "-D__UBOOT__"}),
     If(b.relro = "full", <<Plain("-Wl,-z,now")>>)
       \o If(b.relro # "no", <<Plain("-Wl,-z,relro")>>))

ExtraArgs(b, env, argv) ==
  FloatAbi(b, argv) \o Fp32Mode(b, argv) \o ArchAndCpu(b, argv) \o DateArgs(b, env)
    \o Pie(b, argv) \o Relro(b, argv)

-----------------------------------------------------------------------------
(* The search for directories of the machine that compiles.                *)

\* An argument is compared with the unsafe options in turn, from the one at
\* acc.from on.  When it is nothing but one of them, the argument after it is
\* a path, which is then compared with the options after that one.
CheckUnsafePath(acc, path) == [acc EXCEPT !.unsafe = @ \/ path \in UnsafePaths]
AttachedOnly(acc, arg) ==
  IF arg.opt \in Range(UnsafeOpts) /\ arg.rest # "" THEN CheckUnsafePath(acc, arg.rest) ELSE acc
CheckArg(acc, arg) ==
  LET checked == IF acc.path /\ arg.opt = "" THEN CheckUnsafePath(acc, arg.rest) ELSE acc
      fits == {j \in acc.from..Len(UnsafeOpts) : UnsafeOpts[j] = arg.opt}
      next == [checked EXCEPT !.from = 1, !.path = FALSE]
  IN CASE fits = {} -> next
       [] fits # {} /\ arg.rest # "" -> CheckUnsafePath(next, arg.rest)
       [] OTHER -> [checked EXCEPT !.from = (CHOOSE j \in fits : TRUE) + 1, !.path = TRUE]
Unsafe(argv) ==
  FoldLeft(CheckArg, [from |-> 1, path |-> FALSE, unsafe |-> FALSE], argv).unsafe

-----------------------------------------------------------------------------
(* The command that is executed.  ccache is skipped unless the environment *)
(* asks for it.                                                            *)

Forward(b, call, env, argv) ==
  LET all == PredefArgs(b, call) \o ExtraArgs(b, env, argv) \o argv
  IN IF b.ccache /\ ~env.ccache THEN Tail(all) ELSE all

Refused == <<>>
Main(b, call, env, argv) ==
  IF SourceDateEpoch(b, env) = "invalid" \/ Unsafe(argv) THEN Refused
  ELSE Forward(b, call, env, argv)
=============================================================================
