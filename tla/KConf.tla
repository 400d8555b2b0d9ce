------------------------------- MODULE KConf --------------------------------
(***************************************************************************)
(* The configuration of the image: the programs conf and menuconfig, run   *)
(* one after the other on the files of a build directory, updates of the   *)
(* Config.in files, and crashes.                                           *)
(*                                                                         *)
(* proc is the running program: its state G (KFile), what it still has to  *)
(* visit (todo), and the step it is at.                                    *)
(***************************************************************************)
EXTENDS KFile

CONSTANTS
  Trees,      \* the trees that Config.in files make (Parsed), each with its name
  Defconfigs, \* .config or defconfig as they may be found or edited by hand
  Texts,      \* what may be typed for an int, hex or string
  Packages,   \* the options of packages
  Updates,    \* what the Config.in files of a tree may become, by the names
  MaxDrawn,   \* bound on the symbols that randconfig draws m or y for
  Plans       \* bounds, by the name of the tree, on what happens: [runs, edits, faults,
              \* keys], the programs that may be run one after the other, edits
              \* of files, failures, and keys pressed in the sessions

VARIABLES
  disk,    \* the files: config, old, defconfig, and those of conf_write_autoconf
  touched, \* names whose files were touched since auto.conf was replaced
  proc,    \* the running program
  ready,   \* the last syncconfig succeeded, and nothing was run since
  left     \* what the bounds leave

vars == <<tree, disk, touched, proc, ready, left>>

None0 == [mode |-> "none"]
Running == proc.mode # "none"
At(step) == Running /\ proc.step = step
Idle == ~Running

AskModes == {"oldaskconfig", "oldconfig", "syncconfig", "listnewconfig"}
AllModes == {"allnoconfig", "allyesconfig", "allmodconfig", "alldefconfig", "randconfig"}
OldModes == {"savedefconfig", "olddefconfig"}
ConfModes == AskModes \union AllModes \union OldModes \union {"defconfig"}
NewMode(mode) == CASE mode = "allnoconfig" -> "no" [] mode = "allyesconfig" -> "yes"
                   [] mode = "allmodconfig" -> "mod" [] mode = "randconfig" -> "random"
                   [] OTHER -> "default"

Init ==
  /\ tree \in Trees
  /\ \E f \in Defconfigs :
       disk = [config |-> f, old |-> Absent, defconfig |-> f,
               conf |-> <<>>, header |-> <<>>, tristate |-> <<>>]
  /\ touched = {}
  /\ proc = None0 /\ ready = FALSE
  /\ left \in Plans[tree.name]

-----------------------------------------------------------------------------
(* main of conf, up to the questions.                                      *)

\* What is read, and how the program goes on.  The Makefile runs three modes
\* also with KCONFIG_ALLCONFIG: they keep .config but for the packages.
NoPackages == SelectSeq(disk.config, LAMBDA line : line.name \notin Packages)
Seeds(mode) ==
  {Fresh} \union IF mode \in {"randconfig", "allyesconfig", "allnoconfig"} /\ disk.config # Absent
                 THEN {ReadSimple(Fresh, NoPackages).G} ELSE {}
Read(mode) ==
  IF mode \in AllModes THEN Seeds(mode)
  ELSE {ConfRead(Fresh, IF mode = "defconfig" THEN disk.defconfig ELSE disk.config)}
First(mode) ==
  CASE mode \in AllModes \union {"defconfig"} -> "setnew"
    [] mode \in AskModes -> "ask"
    [] mode = "savedefconfig" -> "save"
    [] OTHER -> "write"
Todo(mode) == CASE mode = "oldaskconfig" -> << <<"conf", 1>> >>
                [] mode \in AskModes \ {"oldaskconfig"} -> << <<"check", 1>> >>
                [] OTHER -> <<>>

\* A program at its first step.  It writes to file, and ends once it has,
\* unless it is a session: name, trail, rows, failed and unread are theirs
\* (KFront).
NewProc(mode, G, step, session) ==
  [mode |-> mode, G |-> G, step |-> step, todo |-> Todo(mode), root |-> 1,
   again |-> FALSE, lines |-> <<>>, torn |-> FALSE, file |-> "config",
   leaving |-> ~session, name |-> "config", trail |-> <<1>>,
   rows |-> {}, failed |-> FALSE, unread |-> FALSE]
Run(p) ==
  /\ Idle /\ left.runs # <<>> /\ p.mode \in Head(left.runs)
  /\ proc' = p /\ ready' = FALSE /\ left' = [left EXCEPT !.runs = Tail(@)]
  /\ UNCHANGED <<tree, disk, touched>>

\* Without the file they are to start from, two modes end at once.
Start ==
  /\ Idle /\ left.runs # <<>>
  /\ \E mode \in ConfModes \cap Head(left.runs) :
       /\ mode = "defconfig" => disk.defconfig # Absent
       /\ mode = "syncconfig" => disk.config # Absent
       /\ \E G \in Read(mode) : Run(NewProc(mode, G, First(mode), FALSE))

\* KCONFIG_NOSILENTUPDATE: syncconfig does not ask.
RefuseUpdate ==
  /\ At("ask") /\ proc.mode = "syncconfig" /\ proc.todo = Todo("syncconfig")
  /\ ~proc.again /\ proc.G.changed
  /\ proc' = None0
  /\ UNCHANGED <<tree, disk, touched, ready, left>>

\* What rand() may give: new symbols are n or y, or m if they are tristate.
Randoms(G) ==
  LET new == {s \in DOMAIN G.sym : Type(s) \in Boolish /\ ~HasValue(G, s) /\ ~G.sym[s].valid}
  IN {r \in [new -> 0..2] : /\ \A s \in new : Type(s) = "bool" => r[s] # 1
                            /\ Cardinality({s \in new : r[s] # 0}) <= MaxDrawn}

NewSet(r) ==
  LET more == proc.mode = "randconfig" /\ r.again
  IN proc' = [proc EXCEPT !.G = r.G, !.step = IF more THEN @ ELSE "write"]
SetNew ==
  /\ At("setnew")
  /\ \E rnd \in IF proc.mode = "randconfig" THEN Randoms(proc.G) ELSE {<<>>} :
       NewSet(SetAllNew(proc.G, NewMode(proc.mode), rnd))
  /\ UNCHANGED <<tree, disk, touched, ready, left>>

-----------------------------------------------------------------------------
(* The questions: conf and check_conf visit the tree.                      *)

Kids(do, k) == [i \in DOMAIN tree.node[k].kids |-> <<do, tree.node[k].kids[i]>>]
SymOf(k) == tree.node[k].sym
IsMenu(k) == NodeHasPrompt(k) /\ tree.props[NodePrompt(k)].type = "menu"

\* The menu that the entry k is in, or is.
RECURSIVE ParentMenu(_)
ParentMenu(k) == IF k = 1 \/ IsMenu(k) THEN k ELSE ParentMenu(tree.node[k].up)

Visit(do, k) == At("ask") /\ proc.todo # <<>> /\ proc.todo[1] = <<do, k>>
\* The program goes on in the state G with the visits first.
GoOn(G, first) ==
  /\ proc' = [proc EXCEPT !.G = G, !.todo = first \o Tail(@)]
  /\ UNCHANGED <<tree, disk, touched, ready, left>>

\* conf: only menus that hold new symbols are shown once more.
VisitShown(k) ==
  LET s == SymOf(k)
      ask == << <<IF Type(s) \in Boolish THEN "sym" ELSE "string", k>> >>
  IN CASE IsMenu(k) /\ proc.mode # "oldaskconfig" /\ proc.root # k -> << <<"check", k>> >>
       [] s = NoSym -> Kids("conf", k)
       [] s \in ChoiceSyms -> << <<"choice", k>> >>
       [] OTHER -> ask \o Kids("conf", k)
VisitIf(v, k) == GoOn(v[1], IF v[2] THEN VisitShown(k) ELSE <<>>)
ConfEntry(k) == Visit("conf", k) /\ VisitIf(MenuVisible(proc.G, k), k)

\* check_conf: what is new and can be changed is asked, with its whole menu.
New(G, s) == /\ s # NoSym /\ ~HasValue(G, s)
             /\ IsChangable(G, s) \/ (s \in ChoiceSyms /\ G.sym[s].tri = 2)
CheckIf(v, k) ==
  LET ask == v[2] /\ New(v[1], SymOf(k)) /\ proc.mode # "listnewconfig"
      m == ParentMenu(k)
  IN /\ proc' = [proc EXCEPT !.G = v[1],
           !.todo = (IF ask THEN << <<"conf", m>> >> ELSE <<>>)
                    \o (IF v[2] THEN Kids("check", k) ELSE <<>>) \o Tail(@),
           !.root = IF ask THEN m ELSE @, !.again = @ \/ ask]
     /\ UNCHANGED <<tree, disk, touched, ready, left>>
CheckEntry(k) == Visit("check", k) /\ CheckIf(MenuVisible(proc.G, k), k)

\* conf_askvalue: whether there is something to answer.
Asks(G, s) == IsChangable(G, s) /\ (HasValue(G, s) => proc.mode = "oldaskconfig")

\* Answers that set the symbol, by its kind.
SymAnswers(G, s) ==
  IF ~Asks(G, s) THEN {G}
  ELSE {r[1] : r \in {q \in {SetTristate(G, s, v) : v \in 0..2} : q[2]}}
StringAnswers(G, s) ==
  IF ~Asks(G, s) THEN {G}
  ELSE {r[1] : r \in {q \in {SetString(G, s, t) : t \in Texts[Type(s)] \union {G.sym[s].val}} : q[2]}}

AnswerSym(k) == /\ Visit("sym", k)
                /\ \E G \in SymAnswers(proc.G, SymOf(k)) : GoOn(G, <<>>)
AnswerString(k) == /\ Visit("string", k)
                   /\ \E G \in StringAnswers(proc.G, SymOf(k)) : GoOn(G, <<>>)

\* conf_choice: first how much of it there is to be, where that may be
\* changed.
ChoiceAnswered(G, k) ==
  LET new == ~HasValue(proc.G, SymOf(k))
  IN GoOn(G, CASE G.sym[SymOf(k)].tri = 2 -> << <<IF new THEN "choose" ELSE "keep", k>> >>
               [] G.sym[SymOf(k)].tri = 1 -> Kids("conf", k)
               [] OTHER -> <<>>)
AnswerChoice(k) ==
  /\ Visit("choice", k)
  /\ IF ~IsChangable(proc.G, SymOf(k)) THEN ChoiceAnswered(proc.G, k)
     ELSE \E G \in SymAnswers(proc.G, SymOf(k)) : ChoiceAnswered(Calc(G, SymOf(k)), k)

\* Then which.  What is below the chosen one is asked next, and what is below
\* a choice only while it is m.
SeeValue(acc, v, j) ==
  [G |-> v[1],
   kids |-> IF v[2] /\ SymOf(j) # NoSym THEN Append(acc.kids, j) ELSE acc.kids]
SeeValues(G, k) ==
  FoldLeft(LAMBDA acc, j : SeeValue(acc, MenuVisible(acc.G, j), j),
           [G |-> G, kids |-> <<>>], tree.node[k].kids)
ChooseFrom(seen, free, k) ==
  \E j \in Range(seen.kids) :
    /\ free \/ Len(seen.kids) = 1 \/ SymOf(j) = seen.G.sym[SymOf(k)].val
    /\ GoOn(SetTristate(seen.G, SymOf(j), 2)[1], Kids("conf", j))
Choose(k) ==
  /\ Visit("choose", k) \/ Visit("keep", k)
  /\ ChooseFrom(SeeValues(proc.G, k), Visit("choose", k) \/ proc.mode = "oldaskconfig", k)

\* Mutant: one pass for all questions.
EndOfOnePass ==
  /\ At("ask") /\ proc.todo = <<>>
  /\ proc' = IF proc.mode = "listnewconfig" THEN None0
             ELSE [proc EXCEPT !.step = IF proc.mode = "syncconfig" /\ ~proc.G.changed
                                        THEN "split" ELSE "write"]
  /\ UNCHANGED <<tree, disk, touched, ready, left>>

\* Mutant: that something was asked is not forgotten.
EndOfPassAgain ==
  /\ At("ask") /\ proc.todo = <<>>
  /\ proc' = IF proc.again THEN [proc EXCEPT !.todo = Todo(proc.mode)]
             ELSE IF proc.mode = "listnewconfig" THEN None0
             ELSE [proc EXCEPT !.step = IF proc.mode = "syncconfig" /\ ~proc.G.changed
                                        THEN "split" ELSE "write"]
  /\ UNCHANGED <<tree, disk, touched, ready, left>>

\* The end of a pass over the tree: again, as long as something was asked.
EndOfPass ==
  /\ At("ask") /\ proc.todo = <<>>
  /\ proc' = IF proc.mode = "oldaskconfig"
             THEN [proc EXCEPT !.mode = "oldconfig", !.todo = Todo("oldconfig")]
             ELSE IF proc.again
             THEN [proc EXCEPT !.again = FALSE, !.todo = Todo(proc.mode)]
             ELSE IF proc.mode = "listnewconfig" THEN None0
             ELSE [proc EXCEPT !.step = IF proc.mode = "syncconfig" /\ ~proc.G.changed
                                        THEN "split" ELSE "write"]
  /\ UNCHANGED <<tree, disk, touched, ready, left>>

Ask == \E k \in DOMAIN tree.node :
         \/ ConfEntry(k) \/ CheckEntry(k) \/ AnswerSym(k) \/ AnswerString(k)
         \/ AnswerChoice(k) \/ Choose(k)

-----------------------------------------------------------------------------
(* conf_write: a file of the process is written and takes the place of the *)
(* one that is there, which is renamed: .config becomes .config.old.       *)

\* The program is at the step next, its state is G.
To(next, G) == proc' = [proc EXCEPT !.step = next, !.G = G]
MayFail == left.faults > 0 /\ left' = [left EXCEPT !.faults = @ - 1]
CanWrite == UNCHANGED left

\* Bound: how much there is of a file that was cut short.
Cuts(lines) == {n \in {0, Len(lines) - 1} : n >= 0}

\* What is written is not checked: without space the file ends early.
Wrote(w, lines, torn) ==
  proc' = [proc EXCEPT !.step = "backup", !.G = w.G, !.lines = lines, !.torn = torn]
WriteLines(w) ==
  \/ CanWrite /\ Wrote(w, w.lines, FALSE)
  \/ MayFail /\ \E n \in Cuts(w.lines) : Wrote(w, SubSeq(w.lines, 1, n), TRUE)
WriteTmp ==
  /\ At("write") /\ WriteLines(WriteConf(proc.G))
  /\ UNCHANGED <<tree, disk, touched, ready>>

\* Mutant: the old file is not kept.
NoBackup ==
  /\ At("backup") /\ To("install", proc.G)
  /\ UNCHANGED <<tree, disk, touched, ready, left>>

\* The failure of this one is not noticed.
Backup ==
  /\ At("backup")
  /\ \/ /\ CanWrite
        /\ disk' = IF disk[proc.file] = Absent THEN disk
                   ELSE IF proc.file = "config"
                   THEN [disk EXCEPT !.old = disk.config, !.config = Absent]
                   ELSE [disk EXCEPT ![proc.file] = Absent]
     \/ MayFail /\ UNCHANGED disk
  /\ To("install", proc.G)
  /\ UNCHANGED <<tree, touched, ready>>

\* The name that menuconfig and nconfig write to from then on.
Renamed(p) == IF p.mode \in {"menuconfig", "nconfig"} THEN p.file ELSE p.name

Install ==
  /\ At("install")
  /\ disk' = [disk EXCEPT ![proc.file] = proc.lines]
  /\ LET G == [proc.G EXCEPT !.changed = FALSE]
     IN IF proc.mode = "syncconfig" THEN To("split", G)
        ELSE proc' = IF proc.leaving THEN None0
                     ELSE [proc EXCEPT !.G = G, !.step = "show", !.name = Renamed(proc)]
  /\ UNCHANGED <<tree, touched, ready, left>>

\* conf_write_defconfig writes the file itself.
WriteMinimal(lines) ==
  \/ CanWrite /\ disk' = [disk EXCEPT !.defconfig = lines]
  \/ MayFail /\ \E n \in Cuts(lines) : disk' = [disk EXCEPT !.defconfig = SubSeq(lines, 1, n)]
SaveDefconfig ==
  /\ At("save") /\ WriteMinimal(WriteDefconfig(proc.G).lines)
  /\ proc' = None0
  /\ UNCHANGED <<tree, touched, ready>>

-----------------------------------------------------------------------------
(* conf_write_autoconf: after the files of the names that changed, the     *)
(* header, tristate.conf and auto.conf take their places in this order.    *)

\* Those of the names that come before s.
UpTo(s, names) ==
  LET Before(n) == SelectInSeq(tree.order, LAMBDA m : m = n)
  IN {n \in names : Before(n) < Before(s)}

Touch(changed, G) ==
  \/ CanWrite /\ touched' = touched \union changed /\ To("header", G)
  \/ /\ MayFail
     /\ \E s \in changed : touched' = touched \union UpTo(s, changed)
     /\ proc' = None0
TouchSplit(G) == Touch(Split(G, disk.conf), G)
SplitConfig ==
  /\ At("split") /\ TouchSplit(CalcAll(ClearAllValid(proc.G)))
  /\ UNCHANGED <<tree, disk, ready>>

InstallHeader ==
  /\ At("header")
  /\ disk' = [disk EXCEPT !.header = AutoConf(proc.G)] /\ To("tristate", proc.G)
  /\ UNCHANGED <<tree, touched, ready, left>>

InstallTristate ==
  /\ At("tristate")
  /\ disk' = [disk EXCEPT !.tristate = TristateConf(proc.G)] /\ To("auto", proc.G)
  /\ UNCHANGED <<tree, touched, ready, left>>

InstallAuto ==
  /\ At("auto")
  /\ disk' = [disk EXCEPT !.conf = AutoConf(proc.G)]
  /\ proc' = None0 /\ ready' = TRUE /\ touched' = {}
  /\ UNCHANGED <<tree, left>>

-----------------------------------------------------------------------------
(* From outside.                                                           *)

\* The program ends anywhere: interrupted, a file that cannot be opened or
\* renamed, or a crash of the system.
Crash ==
  /\ Running /\ MayFail
  /\ proc' = None0
  /\ UNCHANGED <<tree, disk, touched, ready>>

\* The Config.in files change, or .config is edited by hand.  (As long as
\* nothing was made of them, other files are another initial state.)
Edit ==
  /\ Idle /\ ready /\ left.edits > 0
  /\ left' = [left EXCEPT !.edits = @ - 1]
  /\ \/ tree' \in {t \in Trees : t.name \in Updates[tree.name]} /\ UNCHANGED disk
     \/ \E f \in Defconfigs \ {disk.config} : disk' = [disk EXCEPT !.config = f] /\ UNCHANGED tree
  /\ ready' = FALSE
  /\ UNCHANGED <<touched, proc>>

Rest == Idle /\ UNCHANGED vars

ConfStep == \/ SetNew \/ Ask \/ EndOfPass
            \/ WriteTmp \/ Backup \/ Install \/ SaveDefconfig
            \/ SplitConfig \/ InstallHeader \/ InstallTristate \/ InstallAuto
ConfNext == Start \/ RefuseUpdate \/ ConfStep \/ Crash \/ Edit \/ Rest

-----------------------------------------------------------------------------
(* Properties.                                                             *)

\* A tristate choice that is y while one of its values is new: once it was
\* calculated it counts as new itself, and is m the next time.
HalfSet == \E c \in DOMAIN proc.G.sym \cap ChoiceSyms :
             Type(c) = "tristate" /\ proc.G.sym[c].tri = 2 /\ ~HasValue(proc.G, c)
\* What depends on a number that was out of range when it was read keeps the
\* value it had with it.
WasOutOfRange ==
  \E s \in DOMAIN proc.G.sym : proc.G.sym[s].uval # NoSym /\ ~HasValue(proc.G, s)
Sound == ~tree.loop /\ ~HalfSet /\ ~WasOutOfRange
ValuesOf(G) == [s \in DOMAIN G.sym |-> StringValue(G, s)]
Writing == At("write") \/ At("save") \/ At("split")

\* What is written as .config is what is read from it: the same values for
\* every symbol, and nothing that is still to be updated.
ReadsAs(G, values) == ValuesOf(G) = values /\ ~G.changed
RoundTrip ==
  At("install") /\ ~proc.torn /\ ~proc.failed /\ Sound =>
    ReadsAs(ConfRead(Fresh, proc.lines), ValuesOf(CalcAll(proc.G)))

\* A defconfig that was saved gives the configuration back.
Restored(G) == SetAllNew(ConfRead(Fresh, WriteDefconfig(G).lines), "default", <<>>).G
DefconfigRestores ==
  At("save") /\ Sound => ValuesOf(CalcAll(Restored(proc.G))) = ValuesOf(CalcAll(proc.G))

\* The values that are kept are what is calculated anew, in whatever order.
CalculatedAnew(G, kept) ==
  /\ ValuesOf(CalcAll(G)) = kept
  /\ ValuesOf(FoldLeft(Calc, G, Reverse(tree.order))) = kept
UpToDate ==
  Writing /\ Sound => CalculatedAnew(Invalidated(proc.G), ValuesOf(CalcAll(proc.G)))

\* A choice that is y has one value that is y, and a symbol is at least what
\* selects it.
ConsistentIn(G, values) ==
  LET Y(c) == {m \in Range(Members(c)) : G.sym[m].tri = 2}
  IN \A s \in DOMAIN G.sym :
       LET e == tree.rev[s]
       IN /\ s \in ChoiceSyms /\ G.sym[s].tri = 2 => Cardinality(Y(s)) = 1
          /\ e # None /\ Type(s) \in Boolish => G.sym[s].tri >= Value(e, values)
AllConsistent(G) == ConsistentIn(G, Listed(Strings(G)))
Consistent == Writing => AllConsistent(CalcAll(proc.G))

\* A value that is accepted is the value from then on.
TakesEffect(r, s, v) == r[2] => Calc(r[1], s).sym[s].tri = v
AllTakeEffect(G) ==
  \A s \in DOMAIN G.sym : Type(s) \in Boolish =>
    \A v \in (0..2) \ {G.sym[s].tri} : TakesEffect(SetTristate(G, s, v), s, v)
SetTakesEffect == Writing /\ Sound => AllTakeEffect(CalcAll(proc.G))

\* Once the questions end, all that can be set was.
AskedIn(G) ==
  \A k \in DOMAIN tree.node :
    LET s == tree.node[k].sym
    IN /\ s # NoSym /\ NodeHasPrompt(k) /\ IsChangable(G, s)
       /\ MenuVisible(G, k)[2]
       => HasValue(G, s)
AllAsked == Writing /\ proc.mode \in AskModes => AskedIn(CalcAll(proc.G))

\* The files are written as KStore promises, whatever is in them: the backup
\* before the new file takes its place, the files of the names that changed
\* before the header, and auto.conf last.
\* The value of each name in auto.conf or the header, as they are written.
PerName(conf) == [s \in DOMAIN TypeOf |-> IF s \in DOMAIN conf THEN conf[s] ELSE "unset"]
AtWork ==
  CASE Idle -> [step |-> "off"]
    [] At("backup") \/ At("install") ->
         [step |-> proc.step, ours |-> proc.file = "config", lines |-> proc.lines, torn |-> proc.torn]
    [] At("header") -> [step |-> "header", values |-> PerName(AutoConf(proc.G))]
    [] At("tristate") \/ At("auto") -> [step |-> "auto", values |-> PerName(AutoConf(proc.G))]
    [] OTHER -> [step |-> "works"]
AllLines == [name : STRING, set : BOOLEAN, text : STRING, quoted : BOOLEAN]
Store == INSTANCE KStore WITH
  Names <- DOMAIN TypeOf, Texts <- STRING, Unset <- "unset", Contents <- Seq(AllLines),
  config <- disk.config, old <- disk.old,
  header <- PerName(disk.header), auto <- PerName(disk.conf),
  prog <- AtWork, faults <- left.faults
StoresFiles == Store!StoreSpec

\* auto.conf marks that all steps before were done: see KStore.
CompletionMarked == Store!CompletionMarked
=============================================================================
