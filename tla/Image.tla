-------------------------------- MODULE Image --------------------------------
(***************************************************************************)
(* scripts/build_riscv.sh: the tool chain, the libraries, the benchmarks   *)
(* and the image of the card of the VisionFive 2, as often as it is called *)
(* and wherever it is interrupted.                                         *)
(*                                                                         *)
(* Of the host's directories lib and exe say which libraries and programs  *)
(* are there, and target what the file system of the board is copied from. *)
(* copy is what an interrupted call left of such a copy.  proc is the call *)
(* that runs, image what the last one that ended well has made.            *)
(*                                                                         *)
(* A source has the number of its last change.  Sources and tables change  *)
(* between two calls only.                                                 *)
(***************************************************************************)
EXTENDS Wrapper, Makedevs, Users

CONSTANTS Programs,  \* the programs in the order they are made: [name, lib];
                     \* those of "onnx" come last
          Libs,      \* the libraries in the order they are made
          Skeleton,  \* the tree of the target directory, with etc/passwd and etc/group
          Passwd,
          Group,
          Plans      \* what calls may do, by name: sets of wrappers, ways to
                     \* call them, environments, commands and tables, and how
                     \* many calls, faults and changes there are (the bounds);
                     \* there: the libraries and the compiler are at the start

ASSUME ProgramsAssumption ==
  /\ Programs \in Seq([name : STRING, lib : STRING])
  /\ \A i, j \in DOMAIN Programs :
       i < j /\ Programs[i].lib = "onnx" => Programs[j].lib = "onnx"
  /\ Libs \in Seq(STRING) /\ "onnx" \in Range(Libs)
ASSUME PlansAssumption ==
  \A n \in DOMAIN Plans :
    /\ Plans[n].wrappers \subseteq Wrappers
    /\ Plans[n].commands \subseteq Seq(Arguments)
    /\ Plans[n].users \subseteq Seq(TableLines)
ASSUME SkeletonAssumption == WellNumbered(Passwd, Group)

VARIABLES tool, lib, exe, target, copy, proc, image, src, left
vars == <<tool, lib, exe, target, copy, proc, image, src, left>>
work == <<tool, lib, exe>>
rest == <<src, left>>

Indices == DOMAIN Programs
Missing == [v |-> 0, whole |-> FALSE, cc |-> 0]
Empty == [i \in Indices |-> Missing]
None == [step |-> "idle"]
NoImage == [progs |-> <<>>]
NoCopy == [pw |-> <<>>]

At(step) == proc.step = step
Plan == Plans[left.plan]
To(step) == proc' = [proc EXCEPT !.step = step]
Goto(step) == proc' = [proc EXCEPT !.step = step, !.i = 1]
Next1 == proc' = [proc EXCEPT !.i = @ + 1]

Init ==
  /\ src = 1 /\ proc = None /\ image = NoImage /\ copy = NoCopy /\ exe = Empty /\ target = Empty
  /\ \E n \in DOMAIN Plans :
       /\ tool = IF Plans[n].there THEN 2 ELSE 0
       /\ lib = [l \in Range(Libs) |-> IF Plans[n].there THEN "whole" ELSE "missing"]
       /\ left = [plan |-> n, calls |-> Plans[n].calls, faults |-> Plans[n].faults,
                  edits |-> Plans[n].edits]

-----------------------------------------------------------------------------
(* The tool chain and the libraries.                                       *)

\* Two compilers are asked for: the C compiler is there before the C library
\* is, the C++ compiler only at the end.
ToolchainThere == tool = 2

Call ==
  /\ At("idle") /\ left.calls > 0 /\ left' = [left EXCEPT !.calls = @ - 1]
  /\ proc' = [step |-> IF ToolchainThere THEN "libs" ELSE "toolchain", i |-> 1,
              command |-> Refused, u |-> Begin(<<>>, <<>>), m |-> Start(<<>>), lines |-> <<>>,
              entries |-> <<>>]
  /\ UNCHANGED <<work, target, copy, image, src>>

Toolchain ==
  /\ At("toolchain") /\ tool' = tool + 1
  /\ IF tool' = 2 THEN To("libs") ELSE UNCHANGED proc
  /\ UNCHANGED <<lib, exe, target, copy, image, rest>>

\* A library counts as built when its file is there.  ONNX Runtime need not be
\* possible to build, and the file of LiteRT need not be there to be copied.
Optional == {"onnx", "litert"}
Library ==
  /\ At("libs") /\ proc.i <= Len(Libs) /\ Next1
  /\ LET l == Libs[proc.i]
     IN IF lib[l] # "missing" THEN UNCHANGED lib
        ELSE \/ lib' = [lib EXCEPT ![l] = "whole"]
             \/ l \in Optional /\ UNCHANGED lib
  /\ UNCHANGED <<tool, exe, target, copy, image, rest>>

\* The programs that are asked for: those of ONNX only if its library is there.
Wanted(there) == {i \in Indices : Programs[i].lib # "onnx" \/ there["onnx"] # "missing"}
FirstCompiled == \A i \in Indices : Programs[i].lib # "onnx" => exe[i] # Missing
BenchmarksCompiled == \A i \in Wanted(lib) : exe[i] # Missing
Gate ==
  /\ At("libs") /\ proc.i > Len(Libs)
  /\ Goto(IF BenchmarksCompiled THEN "finalize" ELSE "compile")
  /\ UNCHANGED <<work, target, copy, image, rest>>

-----------------------------------------------------------------------------
(* The benchmarks.                                                         *)

Abort == proc' = None /\ UNCHANGED <<work, target, image, copy, rest>>

\* make calls the compiler, which is the wrapper.  A library of which
\* something is missing cannot be compiled with.
Compile ==
  /\ At("compile") /\ proc.i \in Wanted(lib)
  /\ \E b \in Plan.wrappers, call \in Plan.ways, env \in Plan.envs, argv \in Plan.commands :
       LET command == Main(b, call, env, argv)
       IN IF command = Refused \/ lib[Programs[proc.i].lib] # "whole" THEN Abort
          ELSE /\ proc' = [proc EXCEPT !.step = "copy",
                             !.command = [b |-> b, call |-> call, env |-> env, argv |-> argv,
                                          line |-> command]]
               /\ UNCHANGED <<work, target, image, copy, rest>>

CopyProgram ==
  /\ At("copy")
  /\ proc' = [proc EXCEPT !.step = "compile", !.i = @ + 1, !.command = Refused]
  /\ exe' = [exe EXCEPT ![proc.i] = [v |-> src, whole |-> TRUE, cc |-> tool]]
  /\ UNCHANGED <<tool, lib, target, copy, image, rest>>

Compiled ==
  /\ At("compile") /\ proc.i \notin Wanted(lib) /\ Goto("finalize")
  /\ UNCHANGED <<work, target, copy, image, rest>>

-----------------------------------------------------------------------------
(* make: the target directory, the tables and the image.                   *)

\* post_build.sh: a program that is not there is passed over.
DeployBench ==
  /\ At("finalize") /\ proc.i \in Indices /\ Next1
  /\ target' = IF exe[proc.i] = Missing THEN target
               ELSE [target EXCEPT ![proc.i] = exe[proc.i]]
  /\ UNCHANGED <<work, copy, image, rest>>

\* The tables of the packages and of the board are put together; the copy of
\* the target directory is made anew.
KeptCopy == IF copy = NoCopy THEN [pw |-> Passwd, gr |-> Group] ELSE copy
FreshCopy == [pw |-> Passwd, gr |-> Group]
RootfsCommon ==
  /\ At("finalize") /\ proc.i \notin Indices
  /\ \E users \in Plan.users, devices \in Plan.devices :
       proc' = [proc EXCEPT !.step = "users", !.entries = users, !.lines = devices]
  /\ copy' = FreshCopy
  /\ UNCHANGED <<work, target, image, rest>>

\* The files of users and groups are changed at once, the owners of the homes
\* later; a home that is missing is made.
MakeHome(fs, h) == BbMakeDirectory(fs, h.path, 755)
Homes(u) == FoldLeft(MakeHome, Skeleton, u.homes)
MakeUsers ==
  LET u == MkUsers(proc.entries, copy.pw, copy.gr)
  IN /\ At("users")
     /\ copy' = [pw |-> u.pw, gr |-> u.gr]
     /\ proc' = IF u.ok THEN [proc EXCEPT !.step = "owners", !.u = u] ELSE None
     /\ UNCHANGED <<work, target, image, rest>>

\* The script that is run as root: everything belongs to root at first.
ChownAll(fs, p, uid, gid) ==
  [q \in DOMAIN fs |-> IF IsPrefix(p, q) THEN [fs[q] EXCEPT !.uid = uid, !.gid = gid] ELSE fs[q]]
ChownHome(fs, h) == ChownAll(fs, h.path, h.uid, h.gid)
Owners(u) == FoldLeft(ChownHome, ChownAll(Homes(u), <<>>, 0, 0), u.homes)
MakeOwners ==
  /\ At("owners")
  /\ proc' = [proc EXCEPT !.step = "devices", !.i = 1, !.m = Start(Owners(proc.u))]
  /\ UNCHANGED <<work, target, copy, image, rest>>

UserIdsOf(c) == [n \in DOMAIN c.pw |-> c.pw[n].uid]
GroupIdsOf(c) == [g \in DOMAIN c.gr |-> c.gr[g].gid]
MakeDevices ==
  LET m == Apply(proc.m, proc.lines[proc.i], UserIdsOf(copy), GroupIdsOf(copy))
  IN /\ At("devices") /\ proc.i <= Len(proc.lines)
     /\ proc' = IF m.died THEN None ELSE [proc EXCEPT !.i = @ + 1, !.m = m]
     /\ UNCHANGED <<work, target, copy, image, rest>>

MakeImage ==
  /\ At("devices") /\ proc.i > Len(proc.lines) /\ proc' = None
  /\ IF proc.m.ret = 0
     THEN /\ image' = [progs |-> target, fs |-> proc.m.fs, pw |-> copy.pw, gr |-> copy.gr,
                       lib |-> lib, entries |-> proc.entries, lines |-> proc.lines, homes |-> proc.u.homes]
          /\ copy' = NoCopy
     ELSE UNCHANGED <<image, copy>>
  /\ UNCHANGED <<work, target, rest>>

-----------------------------------------------------------------------------
(* What goes wrong.                                                        *)

\* A command fails or the call is interrupted: the script ends.  What it was
\* writing is there in part.
Interrupt ==
  /\ ~At("idle") /\ left.faults > 0 /\ left' = [left EXCEPT !.faults = @ - 1]
  /\ proc' = None
  /\ \/ UNCHANGED <<lib, exe, target>>
     \/ /\ At("libs") /\ proc.i <= Len(Libs) /\ lib[Libs[proc.i]] = "missing"
        /\ lib' = [lib EXCEPT ![Libs[proc.i]] = "part"] /\ UNCHANGED <<exe, target>>
     \/ /\ At("copy")
        /\ exe' = [exe EXCEPT ![proc.i] = [v |-> src, whole |-> FALSE, cc |-> tool]]
        /\ UNCHANGED <<lib, target>>
     \/ /\ At("finalize") /\ proc.i \in Indices /\ exe[proc.i] # Missing
        /\ target' = [target EXCEPT ![proc.i] = [exe[proc.i] EXCEPT !.whole = FALSE]]
        /\ UNCHANGED <<lib, exe>>
  /\ UNCHANGED <<tool, copy, image, src>>

Edit ==
  /\ At("idle") /\ left.edits > 0 /\ left' = [left EXCEPT !.edits = @ - 1] /\ src' = src + 1
  /\ UNCHANGED <<work, target, copy, proc, image>>

Next ==
  \/ Call \/ Toolchain \/ Library \/ Gate \/ Compile \/ CopyProgram \/ Compiled
  \/ DeployBench \/ RootfsCommon \/ MakeUsers \/ MakeOwners \/ MakeDevices \/ MakeImage
  \/ Interrupt \/ Edit

Spec == Init /\ [][Next]_vars

-----------------------------------------------------------------------------
(* Properties: the compiler's commands.                                    *)

Running(c) == c # Refused
Command == IF At("copy") THEN proc.command ELSE Refused

\* The memory that the wrapper reserves, for what it always passes, what it
\* was called with (argc counts the name of the program too) and the extra
\* arguments it was written for, is enough for all of them and the end of the
\* list: no combination of options makes it add more.
Reserved(c) == Len(PredefArgs(c.b, c.call)) + (Len(c.argv) + 1) + ExclusiveArgs
Written(c) ==
  Len(PredefArgs(c.b, c.call)) + Len(ExtraArgs(c.b, c.env, c.argv)) + Len(c.argv) + 1
ArgsFit == Running(Command) => Written(Command) <= Reserved(Command)

\* An option of the search that takes one of those after it in the table: the
\* scan has this one take an argument too, which for the compiler is another's.
Misread(argv, i) ==
  /\ Bare(argv, i) /\ ~Operand(argv, i) /\ Bare(argv, i + 1)
  /\ \E a, b \in DOMAIN UnsafeOpts :
       a < b /\ UnsafeOpts[a] = argv[i].opt /\ UnsafeOpts[b] = argv[i + 1].opt

\* A compiler that runs searches a directory of the host, in either form of the
\* options, only behind such a pair.
NoUnsafePath ==
  Running(Command) =>
    LET argv == Command.argv
    IN \A k \in DOMAIN argv :
         SearchesAt(argv, k) /\ argv[k].rest \in UnsafePaths
           => \E i \in 1..(k - 2) : Misread(argv, i)

\* What the compiler ends up with fits together: the caller's floating-point
\* ABI and processor are not mixed with those of the wrapper, an object that
\* is not to be one is not made position independent, and a kernel or a boot
\* loader is not hardened.
Families ==
  {<<{"-mfloat-abi="}, {"-mfloat-abi=", "-msoft-float", "-mhard-float"}>>,
   <<{"-march=", "-mcpu="}, {"-march=", "-mcpu=", "-mtune="}>>,
   <<{"-fPIE", "-pie"}, {"-fno-pie", "-fno-PIE", "-no-pie", "-static", "-r", "-Wl,-r"}>>,
   <<{"-pie"}, {"-shared"}>>,
   <<{"-fPIE"}, {"-fpie", "-fPIE", "-fpic", "-fPIC"}>>,
   <<{"-fPIE", "-pie", "-Wl,-z,now", "-Wl,-z,relro"}, {"-D__KERNEL__", "-D__UBOOT__"}>>}
Reconciled ==
  Running(Command) =>
    LET argv == Command.argv
        added == ExtraArgs(Command.b, Command.env, argv)
    IN /\ \A f \in Families : ~(Has(added, f[1]) /\ Has(argv, f[2]))
       /\ Has(added, {"-mfp"}) => ~SoftFloat(argv)

-----------------------------------------------------------------------------
(* Properties: the image.                                                  *)

Made == image # NoImage

\* A call that ends well installs all programs that the libraries it found
\* are enough for, those of ONNX too if only an earlier call could not build
\* it; all come from the same sources and from the complete compiler; none
\* was cut short, except that the last one may have been.
Installed ==
  Made =>
    LET wanted == Wanted(image.lib)
    IN \A i, j \in wanted :
         /\ image.progs[i].v = image.progs[j].v /\ image.progs[i].v > 0
         /\ image.progs[i].cc = 2
         /\ image.progs[i].whole \/ j <= i

\* What earlier calls did does not show in the users of an image.
Fresh ==
  Made => LET u == MkUsers(image.entries, Passwd, Group) IN image.pw = u.pw /\ image.gr = u.gr

\* The owner of a file is that of the last line that names it or a directory
\* it was in then, by the users of the image itself; else that of the last
\* home it was in; else root.
Lines == DOMAIN image.lines
Homed == {p \in DOMAIN image.fs : p \in DOMAIN Skeleton \/ \E h \in Range(image.homes) : IsPrefix(p, h.path)}
Counted(line) == 0..((IF line.count = 0 THEN 1 ELSE line.count) - 1)
Name(line, k) == IF line.count <= 1 THEN line.path
                 ELSE Front(line.path) \o <<Last(line.path) \o ToString(line.start + k)>>
Batch(line) == {Name(line, k) : k \in Counted(line)}
MakesIt(i, p) ==
  LET line == image.lines[i]
  IN line.kind = "file" /\ \/ line.type = "d" /\ IsPrefix(p, line.path)
                           \/ line.type \in {"c", "b", "p"} /\ p \in Batch(line)
ThereBy(i, p) == p \in Homed \/ \E j \in 1..i : MakesIt(j, p)
NamesIt(i, p) ==
  LET line == image.lines[i]
  IN /\ line.kind = "file" /\ ThereBy(i, p)
     /\ CASE line.type = "r" -> IsPrefix(line.path, p)
          [] line.type = "d" -> p = Follow(image.fs, line.path)
          [] line.type \in {"f", "F"} -> p = Follow(image.fs, line.path) /\ image.fs[p].type = "file"
          [] OTHER -> p \in Batch(line)
OwnerOf(line) == <<GetUgId(line.user, UserIdsOf(image)), GetUgId(line.group, GroupIdsOf(image))>>
HomesOf(p) == {i \in DOMAIN image.homes : p \in Homed /\ IsPrefix(image.homes[i].path, p)}
Owner(p) ==
  LET naming == {i \in Lines : NamesIt(i, p)}
  IN CASE naming # {} -> OwnerOf(image.lines[Max(naming)])
       [] naming = {} /\ HomesOf(p) # {} ->
            LET h == image.homes[Max(HomesOf(p))] IN <<h.uid, h.gid>>
       [] OTHER -> <<0, 0>>
Owned == Made => \A p \in DOMAIN image.fs : <<image.fs[p].uid, image.fs[p].gid>> = Owner(p)

\* A line of devices makes as many as it says, with the numbers it says, and
\* no two lines made the same one.
DeviceLines == {i \in Lines : image.lines[i].kind = "file" /\ image.lines[i].type \in {"c", "b", "p"}}
Devices(line) ==
  {<<Name(line, k), <<line.major, line.minor + k * line.inc>>>> : k \in Counted(line)}
DevicesMade ==
  Made => \A i \in DeviceLines :
    LET line == image.lines[i]
    IN /\ Batch(line) \subseteq DOMAIN image.fs
       /\ {<<p, image.fs[p].dev>> : p \in Batch(line)} = Devices(line)
       /\ \A j \in DeviceLines \ {i} : Batch(line) \intersect Batch(image.lines[j]) = {}

\* The tree is what the tables say: its owners, and its devices.
AsTables == Owned /\ DevicesMade

\* The users of the image are those of the table: numbers, groups, members.
UsersKept == Made => Kept(image.entries, Group, image)
=============================================================================
