------------------------------- MODULE KFront -------------------------------
(***************************************************************************)
(* The programs that show the options and let the user change them:        *)
(* menuconfig (mconf.c), nconfig (nconf.c), gconfig (gconf.c) and xconfig  *)
(* (qconf.cc).  They run in the place of conf, on the same files.          *)
(*                                                                         *)
(* A session is at the step "menu" while it waits for its user.  trail     *)
(* holds the nodes whose pages are open, the last one in front; rows is    *)
(* what is on the screen; name is the file it will write to.  What is only looked at (help, search, the   *)
(* options that are not visible, the folding of trees) is left out.        *)
(***************************************************************************)
EXTENDS KConf

Textual == {"menuconfig", "nconfig"}
FrontModes == Textual \union {"gconfig", "xconfig"}
Names == {"config", "defconfig"} \* files that are loaded and saved

Session(mode) == At("menu") /\ proc.mode = mode
Page == Last(proc.trail)

StartSession ==
  /\ Idle /\ left.runs # <<>>
  /\ \E mode \in FrontModes \cap Head(left.runs) :
       Run(NewProc(mode, ConfRead(Fresh, disk.config), "show", TRUE))

-----------------------------------------------------------------------------
(* What is on a page.  To show an entry is to calculate it.                *)

SeenAs(acc, v) == <<[acc EXCEPT !.G = v[1]], v[2]>>
Seen(acc, k) == SeenAs(acc, MenuVisible(acc.G, k))
Row(acc, k, tag) == [acc EXCEPT !.rows = @ \union {[at |-> k, tag |-> tag]}]
RowIf(v, k, tag) == IF v[2] THEN Row(v[1], k, tag) ELSE v[1]
NoRows(G) == [G |-> G, rows |-> {}]

\* The visible entries of a choice.
ChoicePage(acc, k) ==
  FoldLeft(LAMBDA b, j : RowIf(Seen(b, j), j, "x"), acc, tree.node[k].kids)

\* A tag says what a row is: m for a menu, t for what can be y, m or n, s for a
\* text, x for a value of a choice, and : for what cannot be changed.
Tag(G, s) == CASE Type(s) \notin Boolish -> "s"
               [] ChoiceOf(s) # NoSym /\ G.sym[s].tri = 2 -> ":"
               [] OTHER -> "t"

\* The row of a choice, and which of its visible entries is chosen.
ChoiceRow(acc, k, values) ==
  LET G == values.G
      chosen == {r.at : r \in {q \in values.rows : SymOf(q.at) = G.sym[SymOf(k)].val}}
      tag == IF IsChangable(G, SymOf(k)) \/ chosen # {} THEN "t" ELSE ":"
  IN <<Row([acc EXCEPT !.G = G], k, tag), chosen>>

\* build_conf: of a choice that is y only what is below its value is on the
\* page.
RECURSIVE BuildConf(_, _, _)
BuildEach(acc, page, ks) == FoldLeft(LAMBDA c, j : BuildConf(c, page, j), acc, ks)
BuildBelow(acc, page, k) == BuildEach(acc, page, tree.node[k].kids)
BuildChoice(row, page, k) ==
  IF row[1].G.sym[SymOf(k)].tri # 2 THEN BuildBelow(row[1], page, k)
  ELSE BuildEach(row[1], page, SetToSeq({j \in row[2] : tree.node[j].kids # <<>>}))
BuildSymbol(acc, page, k, tag) ==
  CASE k = page -> BuildBelow(Row(acc, k, ":"), page, k)
    [] k # page /\ IsMenu(k) /\ tag # "s" -> Row(acc, k, tag)
    [] OTHER -> BuildBelow(Row(acc, k, tag), page, k)
BuildShown(acc, page, k) ==
  CASE SymOf(k) \in ChoiceSyms ->
         BuildChoice(ChoiceRow(acc, k, ChoicePage(NoRows(acc.G), k)), page, k)
    [] SymOf(k) \notin ChoiceSyms /\ SymOf(k) # NoSym ->
         BuildSymbol(acc, page, k, Tag(acc.G, SymOf(k)))
    [] OTHER ->
         IF k # page /\ IsMenu(k) THEN Row(acc, k, "m")
         ELSE BuildBelow(IF k = page THEN acc ELSE Row(acc, k, ":"), page, k)
BuildIf(v, page, k) == IF v[2] THEN BuildShown(v[1], page, k) ELSE v[1]
BuildConf(acc, page, k) == BuildIf(Seen(acc, k), page, k)

\* display_tree: all that is visible.
RECURSIVE DisplayTree(_, _)
DisplayTree(acc, k) ==
  FoldLeft(LAMBDA b, j : DisplayTree(RowIf(Seen(b, j), j, "t"), j), acc, tree.node[k].kids)

\* updateMenuList: all that is visible, and nothing below what is not.
RECURSIVE UpdateMenuList(_, _)
UpdateIf(v, k) == IF v[2] THEN UpdateMenuList(Row(v[1], k, "t"), k) ELSE v[1]
UpdateMenuList(acc, k) ==
  FoldLeft(LAMBDA b, j : UpdateIf(Seen(b, j), j), acc, tree.node[k].kids)

OnScreen(G) ==
  CASE proc.mode = "gconfig" -> DisplayTree(NoRows(G), 1)
    [] proc.mode = "xconfig" -> UpdateMenuList(NoRows(G), 1)
    [] OTHER -> IF SymOf(Page) \in ChoiceSyms THEN ChoicePage(NoRows(G), Page)
                ELSE BuildConf(NoRows(G), Page, Page)

Displayed(acc) == proc' = [proc EXCEPT !.step = "menu", !.G = acc.G, !.rows = acc.rows]
Show == /\ At("show") /\ Displayed(OnScreen(proc.G))
        /\ UNCHANGED <<tree, disk, touched, ready, left>>

-----------------------------------------------------------------------------
(* Keys.                                                                   *)

\* The process goes on as p; what was on the screen is drawn anew.
Go(p) == proc' = [p EXCEPT !.rows = {}]

\* The user presses a key, or more for one step.
Key(p) ==
  /\ left.keys > 0 /\ left' = [left EXCEPT !.keys = @ - 1]
  /\ Go(p)
  /\ UNCHANGED <<tree, disk, touched, ready>>
Change(G) == Key([proc EXCEPT !.G = G, !.step = "show"])
Open(k) == Key([proc EXCEPT !.trail = Append(@, k), !.step = "show"])
Tagged(tags) == {r.at : r \in {q \in proc.rows : q.tag \in tags}}

\* y, or else m.
OrM(r, G, s) == IF r[2] THEN r[1] ELSE SetTristate(G, s, 1)[1]
SetYes(G, s) == OrM(SetTristate(G, s, 2), G, s)

\* Texts that are accepted; others are asked for again.
Typed(G, s) == {r[1] : r \in {q \in {SetString(G, s, t) : t \in Texts[Type(s)]} : q[2]}}

\* The keys of menuconfig and nconfig: the space bar, y, n and m on a row,
\* Enter on what can be opened.
Opens(k) == IsMenu(k) \/ (SymOf(k) \in ChoiceSyms /\ proc.G.sym[SymOf(k)].tri = 2)
PageKey ==
  /\ SymOf(Page) \notin ChoiceSyms
  /\ \/ \E k \in Tagged({"t"}) :
          \/ Change(SetYes(proc.G, SymOf(k)))
          \/ \E v \in 0..1 : Change(SetTristate(proc.G, SymOf(k), v)[1])
          \/ Change(ToggleTristate(proc.G, SymOf(k)))
          \/ Opens(k) /\ Open(k)
     \/ \E k \in Tagged({"m"}) : Open(k)
PageString == \E k \in Tagged({"s"}) : \E G \in Typed(proc.G, SymOf(k)) : Change(G)
\* A value is chosen, or none, and the page is closed.
PageChoice ==
  \E k \in Tagged({"x"}) :
    /\ SymOf(k) # NoSym
    /\ Key([proc EXCEPT !.G = SetTristate(proc.G, SymOf(k), 2)[1],
                        !.step = "show", !.trail = Front(@)])

MConfKey == Session("menuconfig") /\ PageKey
MConfString == Session("menuconfig") /\ PageString
MConfChoice == Session("menuconfig") /\ PageChoice
NConfKey == Session("nconfig") /\ PageKey
NConfString == Session("nconfig") /\ PageString
NConfChoice == Session("nconfig") /\ PageChoice

\* The page in front is closed.  (The last one: see HandleExit and DoExit.)
Back ==
  /\ At("menu") /\ proc.mode \in Textual /\ Len(proc.trail) > 1
  /\ Go([proc EXCEPT !.trail = Front(@), !.step = "show"])
  /\ UNCHANGED <<tree, disk, touched, ready, left>>

\* A click into a column of a row.  What is not possible is y.
\* (To toggle a text is left out: it has no value from then on.)
ChangeSymValue(s) ==
  \E v \in 0..2 :
    Change(SetTristate(proc.G, s, IF TristateWithinRange(proc.G, s, v) THEN v ELSE 2)[1])
ToggleSymValue(s) == Change(ToggleTristate(proc.G, s))
RendererEdited(s) == \E t \in Texts[Type(s)] : Change(SetString(proc.G, s, t)[1])
GConfClick ==
  /\ Session("gconfig")
  /\ \E k \in {j \in Tagged({"t"}) : SymOf(j) # NoSym} :
       LET s == SymOf(k)
       IN \/ Type(s) \in Boolish /\ (ChangeSymValue(s) \/ ToggleSymValue(s))
          \/ Type(s) \notin Boolish /\ RendererEdited(s)

\* A column or a key of xconfig, and the line that edits a text.
SetValue(s) == \E v \in 0..2 : Change(SetTristate(proc.G, s, v)[1])
ChangeValue(s) == Change(ToggleTristate(proc.G, s))
LineEdit(s) == \E t \in Texts[Type(s)] : Change(SetString(proc.G, s, t)[1])
QConfClick ==
  /\ Session("xconfig")
  /\ \E k \in {j \in Tagged({"t"}) : SymOf(j) # NoSym} :
       LET s == SymOf(k)
       IN \/ Type(s) \in Boolish /\ (SetValue(s) \/ ChangeValue(s))
          \/ Type(s) \notin Boolish /\ LineEdit(s)

-----------------------------------------------------------------------------
(* Files.                                                                  *)

\* A file that is not there is not read, but what was changed before counts
\* as saved.
Unread(G) == Calc([G EXCEPT !.changed = FALSE], Modules)
Load(n, loaded) ==
  IF disk[n] # Absent THEN Key(loaded)
  ELSE Key([proc EXCEPT !.G = Unread(@), !.step = "show", !.unread = TRUE])

\* conf_load: the file that was read is the one to write to.
PageLoad ==
  \E n \in Names :
    Load(n, [proc EXCEPT !.G = [ConfRead(@, disk[n]) EXCEPT !.changed = TRUE],
                         !.step = "show", !.name = n])
MConfLoad == Session("menuconfig") /\ PageLoad
NConfLoad == Session("nconfig") /\ PageLoad

\* The others go on to write .config, and do not count it as changed.
WindowLoad ==
  \E n \in Names : Load(n, [proc EXCEPT !.G = ConfRead(@, disk[n]), !.step = "show"])
LoadFilename == Session("gconfig") /\ WindowLoad
LoadConfig == Session("xconfig") /\ WindowLoad

Save(n) == Key([proc EXCEPT !.file = n, !.step = "write"])
MConfSave == Session("menuconfig") /\ \E n \in Names : Save(n)
NConfSave == Session("nconfig") /\ \E n \in Names : Save(n)
OnSave == Session("gconfig") /\ proc.G.changed /\ Save("config")
StoreFilename == Session("gconfig") /\ \E n \in Names : Save(n)
\* To save as does not ask conf_write for the name that was chosen.
SaveConfig == Session("xconfig") /\ Save("config")

\* The user is asked only if something changed.  (To go on is no step.)
Leave(mode) ==
  /\ Session(mode)
  /\ \/ proc' = None0
     \/ proc.G.changed
        /\ Go([proc EXCEPT !.file = proc.name, !.leaving = TRUE, !.step = "write"])
  /\ UNCHANGED <<tree, disk, touched, ready, left>>
HandleExit == Session("menuconfig") /\ Len(proc.trail) = 1 /\ Leave("menuconfig")
DoExit == Leave("nconfig")
DeleteEvent == Leave("gconfig")
CloseEvent == Leave("xconfig")

\* The temporary file cannot be opened, or not be renamed: the user is told.
\* Only xconfig does not end when it was to be left.
SaveFails ==
  /\ At("write") \/ At("install")
  /\ proc.mode \in FrontModes /\ MayFail
  /\ proc' = IF proc.leaving /\ proc.mode # "xconfig" THEN None0
             ELSE [proc EXCEPT !.step = "show", !.leaving = FALSE,
                               !.failed = @ \/ At("install")]
  /\ UNCHANGED <<tree, disk, touched, ready>>

SessionNext ==
  \/ StartSession \/ Back \/ SaveFails
  \/ MConfKey \/ MConfString \/ MConfChoice \/ MConfLoad \/ MConfSave \/ HandleExit
  \/ NConfKey \/ NConfString \/ NConfChoice \/ NConfLoad \/ NConfSave \/ DoExit
  \/ GConfClick \/ LoadFilename \/ OnSave \/ StoreFilename \/ DeleteEvent
  \/ QConfClick \/ LoadConfig \/ SaveConfig \/ CloseEvent

Step == ConfStep \/ Show
Next == ConfNext \/ Show \/ SessionNext

\* A program that was started goes on, its user answers: WF_vars(Step), as a
\* step is always possible then.  (TLC is slow to find out whether one is.)
\* A session may wait for ever.
GoesOn == []<>(Idle \/ At("menu")) \/ []<><<Step>>_vars
Spec == Init /\ [][Next]_vars /\ GoesOn

-----------------------------------------------------------------------------
(* Properties.                                                             *)

\* What menuconfig and nconfig take for saved is what the file says that they
\* write to.  (A file that could not be read or written whole is different.)
NothingUnsaved ==
  At("menu") /\ proc.mode \in Textual /\ ~proc.G.changed =>
    \/ proc.torn \/ proc.unread \/ proc.failed \/ ~Sound
    \/ ValuesOf(ConfRead(Fresh, disk[proc.name])) = ValuesOf(CalcAll(proc.G))

\* Every program that is answered ends, or waits for its user.
Ends == Running ~> (Idle \/ At("menu"))
=============================================================================
