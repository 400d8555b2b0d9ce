------------------------------ MODULE KDialog ------------------------------
(***************************************************************************)
(* The dialogs of menuconfig (lxdialog): the menu, the list of the values  *)
(* of a choice, the line one edits, the text one scrolls and the question  *)
(* yes or no.  One of them is open at a time; a key is an action.  What    *)
(* the keys ask for is kept beside (the fields due, before and after), for *)
(* the properties.                                                         *)
(*                                                                         *)
(* Left out: colours, frames, titles, the arrows, a screen that is too     *)
(* small.  The second key of an escape sequence is one of the others.      *)
(***************************************************************************)
EXTENDS Integers, Sequences, FiniteSets, FiniteSetsExt, SequencesExt

CONSTANTS
  MaxItems,   \* bound on the items of a menu or list
  Heights,    \* the rows of a window
  BoxWidth,   \* the columns of the line one edits
  MaxLen,     \* MAX_LEN, of that line
  MaxLines,   \* bound on the lines of a text
  MaxRight    \* bound on the columns a text is scrolled to the right
ASSUME DialogAssumption ==
  /\ MaxItems \in Nat /\ Heights \subseteq Nat \ {0} /\ BoxWidth \in Nat \ {0}
  /\ MaxLen \in Nat /\ MaxLines \in Nat /\ MaxRight \in Nat

VARIABLE dlg  \* the dialog that is open, or the answer of the last one

Closed == [kind |-> "none"]
\* What is left of a dialog once it is answered.
Answer(kind, code, rest) == [kind |-> "answer", of |-> kind, code |-> code, rest |-> rest]
Answered(kind) == dlg.kind = "answer" /\ dlg.of = kind

\* The button that is taken and the one that is lit.  Where one edits a line,
\* no button is taken, and the first one is lit.
Editing == -1
ButtonLit(b) == IF b = Editing THEN 0 ELSE b
TakeButton(d, b) == [d EXCEPT !.button = b, !.bright = ButtonLit(b), !.resized = FALSE]
\* A window of a new size is drawn with the first button lit.
Resized(d) == [d EXCEPT !.bright = 0, !.resized = TRUE]

-----------------------------------------------------------------------------
(* Menus and lists: items and rows are numbered from 0.  An item is known  *)
(* by whether its letter is the one that is pressed.                       *)

NoItem == -1
\* The program ends: it reads the text of an item that is not there.
Crashed(d) == [kind |-> "crashed", resized |-> d.resized]

ItemCount(d) == Len(d.items)
RowCount(d) == IF d.height < ItemCount(d) THEN d.height ELSE ItemCount(d)
ChosenItem(d) == d.scroll + d.choice
BlankRow == [item |-> NoItem, lit |-> FALSE]

PrintItem(d, row, lit) == [d EXCEPT !.rows[row] = [item |-> d.scroll + row, lit |-> lit]]
\* The rows that are left of the window are scrolled.
DoScroll(d, n) ==
  [d EXCEPT !.scroll = @ + n,
            !.rows = [i \in DOMAIN @ |-> IF i + n \in DOMAIN @ THEN @[i + n] ELSE BlankRow]]

\* The window is drawn from an item on.
Drawn(d, first) ==
  [d EXCEPT !.rows = [i \in 0..(RowCount(d) - 1) |->
                        [item |-> first + i, lit |-> i = d.choice]]]

\* The item to begin with, and where it is in the window: as it was when the
\* menu was left, if that is possible still.
DefaultItem(d) == IF d.selected = NoItem THEN d.choice ELSE d.selected
\* (mutant) a menu that got shorter.
ScrollFits(d) == d.saved <= DefaultItem(d) /\ DefaultItem(d) < d.saved + RowCount(d)
KeepsScroll(d) ==
  /\ d.saved <= DefaultItem(d) /\ DefaultItem(d) < d.saved + RowCount(d)
  /\ d.saved + RowCount(d) <= ItemCount(d)
Kept(d) ==
  IF KeepsScroll(d)
  THEN [d EXCEPT !.scroll = d.saved, !.first = d.saved, !.choice = DefaultItem(d) - d.saved]
  ELSE [d EXCEPT !.scroll = 0, !.choice = DefaultItem(d)]
Centred(d) ==
  LET half == RowCount(d) \div 2
      scroll == IF d.choice >= ItemCount(d) - half THEN ItemCount(d) - RowCount(d)
                ELSE d.choice - half
  IN IF d.choice < RowCount(d) THEN d
     ELSE [d EXCEPT !.scroll = scroll, !.first = scroll, !.choice = @ - scroll]

\* To the label do_resize and the loop below it: first is set anew only where
\* the scroll is.
DrawMenu(m, height) ==
  LET d == Centred(Kept([m EXCEPT !.height = height]))
  IN IF d.first + RowCount(d) > ItemCount(d) THEN Crashed(d)
     ELSE [Drawn(d, d.first) EXCEPT !.stale = d.first # d.scroll, !.due = DefaultItem(m)]

DialogMenu(items, selected, saved, height) ==
  DrawMenu([kind |-> "menu", items |-> items, selected |-> selected, saved |-> saved,
            height |-> height, first |-> 0, scroll |-> 0, choice |-> 0, rows |-> <<>>,
            stale |-> FALSE, due |-> 0, button |-> 0, bright |-> 0, resized |-> FALSE], height)

\* The next row with the letter, else the first one.
RowsWith(d) == {i \in 0..(RowCount(d) - 1) : d.items[d.scroll + i + 1]}
LetterRow(d) ==
  LET below == {i \in RowsWith(d) : i > d.choice}
  IN Min(IF below # {} THEN below ELSE RowsWith(d))

Unlit(d) == PrintItem(d, d.choice, FALSE)
Lit(d) == PrintItem(d, d.choice, TRUE)
LineUp(d) ==
  IF d.choice < 2 /\ d.scroll > 0 THEN PrintItem(DoScroll(d, -1), 0, FALSE)
  ELSE [d EXCEPT !.choice = IF @ > 0 THEN @ - 1 ELSE 0]
LineDown(d) ==
  IF d.choice > RowCount(d) - 3 /\ d.scroll + RowCount(d) < ItemCount(d)
  THEN PrintItem(DoScroll(d, 1), RowCount(d) - 1, FALSE)
  ELSE [d EXCEPT !.choice = IF @ + 1 < RowCount(d) THEN @ + 1 ELSE RowCount(d) - 1]
StepUp(d) ==
  IF d.scroll > 0 THEN PrintItem(DoScroll(d, -1), 0, FALSE)
  ELSE [d EXCEPT !.choice = IF @ > 0 THEN @ - 1 ELSE 0]
StepDown(d) ==
  IF d.scroll + RowCount(d) < ItemCount(d)
  THEN PrintItem(DoScroll(d, 1), RowCount(d) - 1, FALSE)
  ELSE [d EXCEPT !.choice = IF @ + 1 < RowCount(d) THEN @ + 1 ELSE @]
PageUp(d) == FoldLeft(LAMBDA e, i : StepUp(e), d, [i \in 1..RowCount(d) |-> i])
PageDown(d) == FoldLeft(LAMBDA e, i : StepDown(e), d, [i \in 1..RowCount(d) |-> i])
ToLetter(d) == [d EXCEPT !.choice = LetterRow(d)]

\* The item that is n after the one the keys asked for so far.
Moved(d, n) ==
  LET i == d.due + n IN IF i < 0 THEN 0 ELSE IF i >= ItemCount(d) THEN ItemCount(d) - 1 ELSE i
Menu == dlg.kind = "menu"
MenuMove ==
  /\ Menu
  /\ LET d == Unlit(dlg)
         Page == RowCount(dlg)
     IN \/ dlg' = [Lit(LineUp(d)) EXCEPT !.due = Moved(dlg, -1)]
        \/ dlg' = [Lit(LineDown(d)) EXCEPT !.due = Moved(dlg, 1)]
        \/ dlg' = [Lit(PageUp(d)) EXCEPT !.due = Moved(dlg, -Page)]
        \/ dlg' = [Lit(PageDown(d)) EXCEPT !.due = Moved(dlg, Page)]
        \/ /\ RowsWith(d) # {}
           /\ dlg' = [Lit(ToLetter(d)) EXCEPT !.due = dlg.scroll + LetterRow(dlg)]
MenuButton ==
  /\ Menu
  /\ \E step \in {1, 4} : dlg' = TakeButton(dlg, (dlg.button + step) % 5)

\* Enter takes the button, letters have codes of their own.
MenuAnswers ==
  /\ Menu
  /\ \E code \in {dlg.button, 2} \union (5..10) :
       dlg' = Answer("menu", code, [items |-> dlg.items, item |-> ChosenItem(dlg),
                                    saved |-> dlg.scroll])
MenuResized == Menu /\ \E h \in Heights : dlg' = DrawMenu(Resized(dlg), h)

\* conf of mconf shows the menu again, with the item that was chosen.  It may
\* have an item less, and that may be the one.
MenuAgain ==
  /\ Answered("menu")
  /\ \E h \in Heights :
       \/ dlg' = DialogMenu(dlg.rest.items, dlg.rest.item, dlg.rest.saved, h)
       \/ LET fewer == Front(dlg.rest.items)
              item == IF dlg.rest.item < Len(fewer) THEN dlg.rest.item ELSE NoItem
          IN fewer # <<>> /\ dlg' = DialogMenu(fewer, item, dlg.rest.saved, h)

\* A list has a fixed number of rows; it begins with the value of the choice,
\* or the one whose help was read.
DialogChecklist(items, item, height) ==
  LET scroll == IF item >= height THEN item - height + 1 ELSE 0
      d == [kind |-> "list", items |-> items, height |-> height, scroll |-> scroll,
            choice |-> item - scroll, rows |-> <<>>, due |-> item, button |-> 0, bright |-> 0,
            resized |-> FALSE]
  IN Drawn(d, scroll)

\* A window of one row is not scrolled, it is printed on.
ListScroll(d, row, n) ==
  LET off == IF d.height > 1 THEN DoScroll(PrintItem(d, row, FALSE), n)
             ELSE [d EXCEPT !.scroll = @ + n]
  IN PrintItem(off, row, TRUE)
ListGo(d, row) == Lit([Unlit(d) EXCEPT !.choice = row])
ListUp(d) ==
  CASE d.choice > 0 -> ListGo(d, d.choice - 1)
    [] d.choice = 0 /\ d.scroll > 0 -> ListScroll(d, 0, -1)
    [] OTHER -> d
ListDown(d) ==
  LET bottom == RowCount(d) - 1
  IN CASE d.choice < bottom -> ListGo(d, d.choice + 1)
       [] d.choice = bottom /\ ChosenItem(d) < ItemCount(d) - 1 -> ListScroll(d, bottom, 1)
       [] OTHER -> d

List == dlg.kind = "list"
ListMove ==
  /\ List
  /\ \/ dlg' = [ListUp(dlg) EXCEPT !.due = Moved(dlg, -1)]
     \/ dlg' = [ListDown(dlg) EXCEPT !.due = Moved(dlg, 1)]
     \/ /\ RowsWith(dlg) # {}
        /\ dlg' = [ListGo(dlg, Min(RowsWith(dlg))) EXCEPT !.due = dlg.scroll + Min(RowsWith(dlg))]
ListButton == List /\ dlg' = TakeButton(dlg, 1 - dlg.button)
ListAnswers ==
  /\ List
  /\ \E code \in {dlg.button, 1} :
       dlg' = Answer("list", code, [items |-> dlg.items, item |-> ChosenItem(dlg),
                                    height |-> dlg.height])
ListResized == List /\ dlg' = Drawn(Resized(dlg), dlg.scroll)
\* After the help.
ListAgain ==
  /\ Answered("list") /\ dlg.code = 1
  /\ dlg' = DialogChecklist(dlg.rest.items, dlg.rest.item, dlg.rest.height)

-----------------------------------------------------------------------------
(* The line one edits.  It begins at a column of the text; a column after  *)
(* the end is blank.                                                       *)

Blank == 0
Typeable == 1..2

\* The columns are printed up to one after the text.
Printed(d) ==
  [d EXCEPT !.cells = [c \in DOMAIN @ |->
     LET i == d.show + c
     IN CASE i < Len(d.text) -> d.text[i + 1] [] i = Len(d.text) -> Blank [] OTHER -> @[c]]]

\* From the label do_resize on: the cursor goes to the end.
DrawInput(d) ==
  LET n == Len(d.text)
      show == IF n >= BoxWidth THEN n - BoxWidth + 1 ELSE 0
  IN Printed([d EXCEPT !.pos = n, !.show = show, !.x = n - show,
                       !.cells = [c \in 0..(BoxWidth - 1) |-> Blank],
                       !.before = d.text, !.after = <<>>])
DialogInputbox(text) ==
  DrawInput([kind |-> "input", text |-> text, pos |-> 0, show |-> 0, x |-> 0, cells |-> <<>>,
             before |-> <<>>, after |-> <<>>, button |-> Editing, bright |-> ButtonLit(Editing),
             resized |-> FALSE])

CursorLeft(d) ==
  IF d.x > 0 THEN [d EXCEPT !.pos = @ - 1, !.x = @ - 1]
  ELSE Printed([d EXCEPT !.pos = @ - 1, !.show = @ - 1])
CursorRight(d) ==
  IF d.x < BoxWidth - 1 THEN [d EXCEPT !.pos = @ + 1, !.x = @ + 1]
  ELSE Printed([d EXCEPT !.pos = @ + 1, !.show = @ + 1])
\* (mutant) the window never goes back.
RubOutStays(d) ==
  LET shown == IF d.x = 0 THEN d ELSE [d EXCEPT !.x = @ - 1]
  IN Printed([shown EXCEPT !.text = RemoveAt(@, d.pos), !.pos = @ - 1])
RubOut(d) ==
  LET shown == IF d.x = 0 THEN [d EXCEPT !.show = @ - 1] ELSE [d EXCEPT !.x = @ - 1]
  IN Printed([shown EXCEPT !.text = RemoveAt(@, d.pos), !.pos = @ - 1])
Insert(d, letter) ==
  LET shown == IF d.x = BoxWidth - 1 THEN [d EXCEPT !.show = @ + 1] ELSE [d EXCEPT !.x = @ + 1]
  IN Printed([shown EXCEPT !.text = InsertAt(@, d.pos + 1, letter), !.pos = @ + 1])

Input == dlg.kind = "input"
InputEdit ==
  /\ Input /\ dlg.button = Editing
  /\ LET d == dlg IN
     \/ /\ d.pos > 0
        /\ dlg' = [RubOut(d) EXCEPT !.before = Front(@)]
     \/ /\ d.pos > 0
        /\ dlg' = [CursorLeft(d) EXCEPT !.before = Front(@), !.after = <<Last(d.before)>> \o @]
     \/ /\ d.pos < Len(d.text)
        /\ dlg' = [CursorRight(d) EXCEPT !.before = Append(@, Head(d.after)), !.after = Tail(@)]
     \/ /\ Len(d.text) < MaxLen
        /\ \E letter \in Typeable : dlg' = [Insert(d, letter) EXCEPT !.before = Append(@, letter)]
\* The line, OK and Help go round; up and down leave the line.
InputButton ==
  /\ Input
  /\ \E step \in {1, 2} : dlg' = TakeButton(dlg, ((dlg.button + 1 + step) % 3) - 1)
InputAnswers ==
  /\ Input
  /\ \E code \in {ButtonLit(dlg.button)} \union (IF dlg.button = Editing THEN {} ELSE {0, 1}) :
       dlg' = Answer("input", code, [text |-> dlg.text])
InputResized == Input /\ dlg' = DrawInput(Resized(dlg))

-----------------------------------------------------------------------------
(* A text of lines, numbered from 1; whole says whether the last one has an*)
(* end.  The page is a line, or the end of the text, one after the last.   *)
(* The field page is where the reading goes on, top the first line that is *)
(* shown, end_reached, begin_reached and page_length are as in the code.   *)

TextEnd(d) == d.lines + 1
GetLine(d) ==
  IF d.page = TextEnd(d) THEN [d EXCEPT !.end = TRUE]
  ELSE [d EXCEPT !.page = @ + 1, !.end = d.page = d.lines /\ ~d.whole]
GetLines(d, n) == FoldLeft(LAMBDA e, i : GetLine(e), d, [i \in 1..n |-> i])

\* What was read after the end counts as a line.  At the begin it stops.
\* (mutant) the end is a line like any other.
BackAny(d) ==
  IF d.begin THEN d
  ELSE [d EXCEPT !.page = IF @ > 1 THEN @ - 1 ELSE 1, !.begin = d.page <= 2]
BackLine(d) ==
  CASE d.begin -> d
    [] ~d.begin /\ d.page = TextEnd(d) /\ d.end -> [d EXCEPT !.end = FALSE]
    [] ~d.begin /\ ~(d.page = TextEnd(d) /\ d.end) ->
         [d EXCEPT !.page = IF @ > 1 THEN @ - 1 ELSE 1, !.begin = d.page <= 2]
BackLines(d, n) ==
  FoldLeft(LAMBDA e, i : BackLine(e), [d EXCEPT !.begin = FALSE], [i \in 1..n |-> i])

\* The lines are read until the end was, and counted.  Where matches are
\* marked, the page is read once before.
PrintLine(d) ==
  LET e == GetLine(d) IN [e EXCEPT !.length = IF d.past THEN @ ELSE @ + 1, !.past = @ \/ e.end]
PrintPage(d) ==
  LET e == IF d.marks THEN BackLines(GetLines(d, d.height), d.height) ELSE d
  IN FoldLeft(LAMBDA f, i : PrintLine(f),
              [e EXCEPT !.length = 0, !.past = FALSE, !.top = e.page], [i \in 1..d.height |-> i])

\* From the start, or from the line where the text was left.
DialogTextbox(lines, whole, height, marks, vscroll, hscroll) ==
  LET d == [kind |-> "text", lines |-> lines, whole |-> whole, height |-> height,
            marks |-> marks, page |-> 1, begin |-> vscroll = 0, end |-> FALSE, past |-> FALSE,
            length |-> 0, top |-> 1, right |-> hscroll, due |-> vscroll + 1]
  IN PrintPage(GetLines(d, vscroll))

\* The line that is n after the one the keys asked for so far; where matches
\* are marked, the page does not go past the end of the text.
LastPage(d) == IF d.lines + 2 > d.height THEN d.lines + 2 - d.height ELSE 1
DueLine(d, n) ==
  LET i == IF d.due + n < 1 THEN 1 ELSE d.due + n
  IN IF d.marks /\ i > LastPage(d) THEN LastPage(d) ELSE i
ShowLine(d, n) == dlg' = [PrintPage(d) EXCEPT !.due = DueLine(dlg, n)]

Text == dlg.kind = "text"
TextMove ==
  /\ Text
  /\ LET d == dlg IN
     \/ /\ ~d.begin
        /\ dlg' = [PrintPage([d EXCEPT !.begin = TRUE, !.page = 1]) EXCEPT !.due = 1]
     \/ dlg' = [PrintPage(BackLines([d EXCEPT !.end = TRUE, !.page = TextEnd(d)], d.height))
                EXCEPT !.due = LastPage(d)]
     \/ ~d.begin /\ ShowLine(BackLines(d, d.length + 1), -1)
     \/ ~d.begin /\ ShowLine(BackLines(d, d.length + d.height), -d.height)
     \/ ~d.end /\ ShowLine(BackLines(d, d.length - 1), 1)
     \/ ~d.end /\ ShowLine([d EXCEPT !.begin = FALSE], d.height)
TextShift ==
  /\ Text
  /\ \E right \in 0..MaxRight :
       /\ right \in {dlg.right + 1} \union (IF dlg.right > 0 THEN {0, dlg.right - 1} ELSE {})
       /\ ShowLine([BackLines(dlg, dlg.length) EXCEPT !.right = right], 0)
\* It goes back by the height of the dialog that was, frame and button too.
Frame == 4
TextResized ==
  /\ Text
  /\ \E h \in Heights :
       LET d == PrintPage([BackLines(dlg, dlg.height + Frame) EXCEPT !.height = h])
       IN dlg' = [d EXCEPT !.due = d.top]
\* Where it is left is counted in lines.
VScroll(d) == BackLines(d, d.length).page - 1
TextLeft ==
  /\ Text
  /\ dlg' = Answer("text", 0, [lines |-> dlg.lines, height |-> dlg.height, marks |-> dlg.marks,
                               vscroll |-> VScroll(dlg), right |-> dlg.right, due |-> dlg.due])
\* search_conf of mconf shows its text again after a jump to an option.
TextAgain ==
  /\ Answered("text") /\ dlg.rest.marks
  /\ LET t == dlg.rest
     IN dlg' = [DialogTextbox(t.lines, TRUE, t.height, TRUE, t.vscroll, t.right) EXCEPT !.due = t.due]

-----------------------------------------------------------------------------
(* A question, and what all dialogs have in common.                        *)

DialogYesno == [kind |-> "yesno", button |-> 0, bright |-> 0, resized |-> FALSE]
YesNo == dlg.kind = "yesno"
YesNoButton == YesNo /\ dlg' = TakeButton(dlg, 1 - dlg.button)
YesNoAnswers == YesNo /\ \E code \in 0..1 : dlg' = Answer("yesno", code, <<>>)
YesNoResized == YesNo /\ dlg' = Resized(dlg)

\* The escape key, or a letter that stands for it.
Escape == dlg.kind \notin {"none", "crashed", "answer"} /\ dlg' = Closed

\* The screen before a dialog is shown.
OpenMenu ==
  /\ \E n \in 1..MaxItems : \E items \in [1..n -> BOOLEAN], selected \in -1..(n - 1),
                              saved \in 0..(MaxItems - 1), h \in Heights :
       dlg' = DialogMenu(items, selected, saved, h)
OpenList ==
  \E n \in 1..MaxItems : \E items \in [1..n -> BOOLEAN], item \in 0..(n - 1), h \in Heights :
    dlg' = DialogChecklist(items, item, h)
OpenInput == \E n \in 0..MaxLen : dlg' = DialogInputbox([i \in 1..n |-> 1])
OpenText ==
  \E n \in 1..MaxLines, h \in Heights :
    \/ dlg' = DialogTextbox(n, FALSE, h, FALSE, 0, 0)
    \/ \E marks \in BOOLEAN : dlg' = DialogTextbox(n, TRUE, h, marks, 0, 0)
OpenYesNo == dlg' = DialogYesno

DialogInit == dlg = Closed
DialogNext ==
  \/ dlg = Closed /\ (OpenMenu \/ OpenList \/ OpenInput \/ OpenText \/ OpenYesNo)
  \/ MenuMove \/ MenuButton \/ MenuAnswers \/ MenuResized \/ MenuAgain
  \/ ListMove \/ ListButton \/ ListAnswers \/ ListResized \/ ListAgain
  \/ InputEdit \/ InputButton \/ InputAnswers \/ InputResized
  \/ TextMove \/ TextShift \/ TextResized \/ TextLeft \/ TextAgain
  \/ YesNoButton \/ YesNoAnswers \/ YesNoResized
  \/ Escape
DialogSpec == DialogInit /\ [][DialogNext]_dlg

-----------------------------------------------------------------------------
(* Properties.                                                             *)

\* Every row shows its item and the lit one is the item that will be taken,
\* which is the one the keys asked for; unless the window got another size and
\* the rows were drawn from a first item that was not set anew.  That is also
\* the only way in which the program reads an item that is not there.
LitIsChosen ==
  /\ dlg.kind \in {"menu", "list"} /\ ~(Menu /\ dlg.stale) =>
       /\ ChosenItem(dlg) = dlg.due
       /\ \A i \in DOMAIN dlg.rows :
            dlg.rows[i] = [item |-> dlg.scroll + i, lit |-> i = dlg.choice]
  /\ dlg.kind = "crashed" => dlg.resized

\* The button that is lit is the one Enter takes, unless the window got
\* another size since.
ButtonIsLit ==
  dlg.kind \in {"menu", "list", "input", "yesno"} =>
    dlg.bright = ButtonLit(dlg.button) \/ dlg.resized

\* The text is what was typed, the cursor is in the window where the next
\* letter will go, and the window shows that part of the text.
EditsAsTyped ==
  Input => LET d == dlg IN
    /\ d.text = d.before \o d.after
    /\ d.pos = Len(d.before) /\ d.pos = d.show + d.x /\ d.x \in 0..(BoxWidth - 1)
    /\ \A c \in 0..(BoxWidth - 1) :
         LET i == d.show + c + 1
         IN d.cells[c] = IF i \in DOMAIN d.text THEN d.text[i] ELSE Blank

\* A text with an end of its last line is shown from the line that the keys
\* asked for, also after it was left and shown again.
ScrollsAsAsked == Text /\ dlg.whole => dlg.top = dlg.due

DialogsRight == LitIsChosen /\ ButtonIsLit /\ EditsAsTyped /\ ScrollsAsAsked
=============================================================================
