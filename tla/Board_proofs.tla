---------------------------- MODULE Board_proofs ----------------------------
(***************************************************************************)
(* The text files of the board and what the programs of a campaign leave,  *)
(* text and CSVs, for every schedule, every image and any number of boots, *)
(* power cuts and errors.                                                  *)
(***************************************************************************)
EXTENDS Board, TLAPS

-----------------------------------------------------------------------------
(* The inductive invariant.                                                *)

Dirs == InstalledDirs \union {Root}

\* What a text file may hold: the entries of any boot, and the report of
\* any entry of the schedule started in any directory.
Entry ==
  [what : {"header", "failed", "torn", "notice"}, boot : Nat]
  \union {[what |-> "report", boot |-> b,
           by |-> Program(d[1], d[2], Schedule[i].exec),
           made |-> LabelOf(Profile[d], Schedule[i].exec, Schedule[i].args),
           warmups |-> Warmups(Profile[d], Schedule[i].args)] :
            b \in Nat, d \in Dirs, i \in DOMAIN Schedule}

\* The script is in the middle of an entry.
Busy == pc \in {"launch", "running", "saving", "report", "status"}

ScriptInv ==
  /\ pos \in Nat \ {0} /\ boot \in Nat /\ cwd \in Dirs
  /\ pc # "off" /\ full => boot \in scarce
  /\ Busy => pos \in DOMAIN Schedule

TxtTyped == txt \in [Labels -> Seq(Entry)] /\ onCard \in [Labels -> Nat]

\* What is on the card is a part of the file.
OnCardBound == \A l \in Labels : onCard[l] <= Len(txt[l])

\* No entry is from a boot still to come.
BootsPast == \A l \in Labels : \A i \in 1 .. Len(txt[l]) : txt[l][i].boot <= boot

\* The entry being run has its header of this boot, if there was space all
\* the time.
Headed ==
  Busy /\ boot \notin scarce =>
    \E j \in 1 .. Len(txt[E.label]) : /\ txt[E.label][j].what = "header"
                                      /\ txt[E.label][j].boot = boot

Ordered(s) == \A i \in 2 .. Len(s) : s[i - 1].boot <= s[i].boot
Owned(s, poor) ==
  \A i \in 1 .. Len(s) :
    s[i].what # "header" =>
      \/ s[i].boot \in poor
      \/ \E j \in 1 .. i - 1 : s[j].what = "header" /\ s[j].boot = s[i].boot

FilesInv == \A l \in Labels : Ordered(txt[l]) /\ Owned(txt[l], scarce)

BoardInv ==
  /\ ScriptInv /\ TxtTyped /\ OnCardBound /\ BootsPast /\ Headed /\ FilesInv

-----------------------------------------------------------------------------
(* Sequences of entries.                                                   *)

\* The boots of a schedule are numbers.
LEMMA EntryBoot == ASSUME NEW e \in Entry PROVE e.boot \in Nat
BY DEF Entry

\* An entry of this boot may follow what is there, a header anywhere and
\* another line once its header is there or the card has been full.
LEMMA AppendFiles ==
  ASSUME NEW s \in Seq(Entry), NEW e \in Entry, NEW b \in Nat, e.boot = b,
         NEW poor, Ordered(s), Owned(s, poor),
         \A i \in 1 .. Len(s) : s[i].boot <= b,
         e.what # "header" =>
           \/ b \in poor
           \/ \E j \in 1 .. Len(s) : s[j].what = "header" /\ s[j].boot = b
  PROVE  /\ Append(s, e) \in Seq(Entry)
         /\ Len(Append(s, e)) = Len(s) + 1
         /\ Ordered(Append(s, e)) /\ Owned(Append(s, e), poor)
         /\ \A i \in 1 .. Len(s) : Append(s, e)[i] = s[i]
         /\ \A i \in 1 .. Len(s) + 1 : Append(s, e)[i].boot <= b
         /\ Append(s, e)[Len(s) + 1] = e
<1> DEFINE t == Append(s, e)
<1>1. /\ t \in Seq(Entry) /\ Len(t) = Len(s) + 1 /\ Len(s) \in Nat
      /\ t[Len(s) + 1] = e
      /\ \A i \in 1 .. Len(s) : t[i] = s[i]
  OBVIOUS
<1> HIDE DEF t
<1>2. Ordered(t)
  <2> SUFFICES ASSUME NEW i \in 2 .. Len(t) PROVE t[i - 1].boot <= t[i].boot
    BY DEF Ordered
  <2>1. CASE i \in 2 .. Len(s)
    BY <1>1, <2>1 DEF Ordered
  <2>2. CASE i = Len(s) + 1
    BY <1>1, <2>2
  <2> QED
    BY <1>1, <2>1, <2>2
<1>3. Owned(t, poor)
  <2> SUFFICES ASSUME NEW i \in 1 .. Len(t), t[i].what # "header", t[i].boot \notin poor
               PROVE  \E j \in 1 .. i - 1 : t[j].what = "header" /\ t[j].boot = t[i].boot
    BY DEF Owned
  <2>1. CASE i \in 1 .. Len(s)
    <3>1. PICK j \in 1 .. i - 1 : s[j].what = "header" /\ s[j].boot = s[i].boot
      BY <1>1, <2>1 DEF Owned
    <3> QED
      BY <1>1, <2>1, <3>1
  <2>2. CASE i = Len(s) + 1
    BY <1>1, <2>2
  <2> QED
    BY <1>1, <2>1, <2>2
<1>4. \A i \in 1 .. Len(s) + 1 : t[i].boot <= b
  BY <1>1
<1> QED
  BY <1>1, <1>2, <1>3, <1>4 DEF t

\* Nothing is lost by forgetting an end.
LEMMA PrefixFiles ==
  ASSUME NEW s \in Seq(Entry), NEW n \in 0 .. Len(s), NEW poor,
         Ordered(s), Owned(s, poor)
  PROVE  /\ SubSeq(s, 1, n) \in Seq(Entry)
         /\ Len(SubSeq(s, 1, n)) = n
         /\ \A i \in 1 .. n : SubSeq(s, 1, n)[i] = s[i]
         /\ Ordered(SubSeq(s, 1, n)) /\ Owned(SubSeq(s, 1, n), poor)
<1> DEFINE t == SubSeq(s, 1, n)
<1>1. /\ t \in Seq(Entry) /\ Len(t) = n /\ n \in Nat /\ Len(s) \in Nat
      /\ \A i \in 1 .. n : t[i] = s[i]
  OBVIOUS
<1> HIDE DEF t
<1>2. Ordered(t)
  <2> SUFFICES ASSUME NEW i \in 2 .. n PROVE t[i - 1].boot <= t[i].boot
    BY <1>1 DEF Ordered
  <2>1. i \in 2 .. Len(s) /\ t[i] = s[i] /\ t[i - 1] = s[i - 1]
    BY <1>1
  <2> QED
    BY <2>1 DEF Ordered
<1>3. Owned(t, poor)
  <2> SUFFICES ASSUME NEW i \in 1 .. n, t[i].what # "header", t[i].boot \notin poor
               PROVE  \E j \in 1 .. i - 1 : t[j].what = "header" /\ t[j].boot = t[i].boot
    BY <1>1 DEF Owned
  <2>1. PICK j \in 1 .. i - 1 : s[j].what = "header" /\ s[j].boot = s[i].boot
    BY <1>1 DEF Owned
  <2> QED
    BY <1>1, <2>1
<1> QED
  BY <1>1, <1>2, <1>3 DEF t

\* The more campaigns met a full card, the less is asked of a file.
LEMMA OwnedGrows ==
  ASSUME NEW s, NEW poor, NEW more, poor \subseteq more, Owned(s, poor)
  PROVE  Owned(s, more)
BY DEF Owned

-----------------------------------------------------------------------------
(* The steps.                                                              *)

\* The lines that a script writes of an entry.
LEMMA LineTypes ==
  ASSUME ScriptInv, pos \in DOMAIN Schedule
  PROVE  /\ {Header, Failed, Reported, Notice, Torn} \subseteq Entry
         /\ Header.boot = boot /\ Failed.boot = boot /\ Reported.boot = boot
         /\ Notice.boot = boot /\ Torn.boot = boot
         /\ Header.what = "header"
         /\ E.label \in Labels
<1>1. Reported \in Entry
  BY DEF Reported, Here, Made, E, Entry, ScriptInv
<1>2. {Header, Failed, Notice, Torn} \subseteq Entry
  BY DEF Header, Failed, Notice, Torn, Entry, ScriptInv
<1> QED
  BY <1>1, <1>2 DEF Header, Failed, Reported, Notice, Torn, E, Labels

\* What tee leaves in a file: all of the line, and on a full card a part of it
\* or nothing.
LEMMA TeeCases ==
  ASSUME NEW l, NEW line, TeeAppend(l, line)
  PROVE  \/ full /\ txt' = txt
         \/ \E put \in {line, Torn} : /\ txt' = [txt EXCEPT ![l] = Append(@, put)]
                                     /\ (full \/ put = line)
BY DEF TeeAppend

\* A line of this boot keeps the files in order, and what was a header before
\* is one after.
LEMMA AddStep ==
  ASSUME BoardInv, NEW k \in Labels, NEW e \in Entry, e.boot = boot,
         txt' = [txt EXCEPT ![k] = Append(@, e)], UNCHANGED <<boot, onCard, scarce>>,
         e.what # "header" =>
           \/ boot \in scarce
           \/ \E j \in 1 .. Len(txt[k]) : txt[k][j].what = "header" /\ txt[k][j].boot = boot
  PROVE  /\ TxtTyped' /\ OnCardBound' /\ BootsPast' /\ FilesInv'
         /\ \/ boot \in scarce
            \/ \E j \in 1 .. Len(txt'[k]) : /\ txt'[k][j].what = "header"
                                           /\ txt'[k][j].boot = boot
<1>1. \A l \in Labels : txt[l] \in Seq(Entry) /\ Len(txt[l]) \in Nat
                       /\ onCard[l] \in Nat /\ onCard[l] <= Len(txt[l])
  BY DEF BoardInv, TxtTyped, OnCardBound
<1>2. /\ txt'[k] = Append(txt[k], e)
      /\ \A l \in Labels \ {k} : txt'[l] = txt[l]
  BY DEF BoardInv, TxtTyped
<1>3. /\ Append(txt[k], e) \in Seq(Entry)
      /\ Len(Append(txt[k], e)) = Len(txt[k]) + 1
      /\ Ordered(Append(txt[k], e)) /\ Owned(Append(txt[k], e), scarce)
      /\ \A i \in 1 .. Len(txt[k]) : Append(txt[k], e)[i] = txt[k][i]
      /\ \A i \in 1 .. Len(txt[k]) + 1 : Append(txt[k], e)[i].boot <= boot
      /\ Append(txt[k], e)[Len(txt[k]) + 1] = e
  <2>1. boot \in Nat /\ Ordered(txt[k]) /\ Owned(txt[k], scarce)
        /\ \A i \in 1 .. Len(txt[k]) : txt[k][i].boot <= boot
    BY DEF BoardInv, ScriptInv, FilesInv, BootsPast
  <2>2. txt[k] \in Seq(Entry)
    BY <1>1
  <2> QED
    BY <2>1, <2>2, AppendFiles
<1>4. TxtTyped'
  BY <1>3 DEF BoardInv, TxtTyped
<1>5. OnCardBound'
  BY <1>1, <1>2, <1>3 DEF OnCardBound
<1>6. BootsPast'
  BY <1>2, <1>3 DEF BoardInv, BootsPast
<1>7. FilesInv'
  BY <1>2, <1>3 DEF BoardInv, FilesInv
<1>8. boot \in scarce \/ \E j \in 1 .. Len(txt'[k]) : /\ txt'[k][j].what = "header"
                                                    /\ txt'[k][j].boot = boot
  <2>1. CASE e.what = "header"
    BY <2>1, <1>1, <1>2, <1>3
  <2>2. CASE e.what # "header" /\ boot \notin scarce
    <3>1. PICK j \in 1 .. Len(txt[k]) : txt[k][j].what = "header" /\ txt[k][j].boot = boot
      BY <2>2
    <3>2. j \in 1 .. Len(txt'[k]) /\ txt'[k][j] = txt[k][j]
      BY <3>1, <1>1, <1>2, <1>3
    <3> QED
      BY <3>1, <3>2
  <2> QED
    BY <2>1, <2>2
<1> QED
  BY <1>4, <1>5, <1>6, <1>7, <1>8

\* So does tee -a, whatever the card takes of the line.
LEMMA TeeStep ==
  ASSUME BoardInv, pos \in DOMAIN Schedule, pc # "off",
         NEW e \in Entry, e.boot = boot, TeeAppend(E.label, e),
         e.what # "header" => Busy,
         UNCHANGED <<boot, onCard, scarce>>
  PROVE  /\ TxtTyped' /\ OnCardBound' /\ BootsPast' /\ FilesInv'
         /\ \/ boot \in scarce
            \/ \E j \in 1 .. Len(txt'[E.label]) : /\ txt'[E.label][j].what = "header"
                                                 /\ txt'[E.label][j].boot = boot
<1>1. ScriptInv /\ E.label \in Labels
  BY DEF BoardInv, E, Labels
<1>2. CASE full /\ txt' = txt
  BY <1>1, <1>2 DEF BoardInv, ScriptInv, TxtTyped, OnCardBound, BootsPast, FilesInv
<1>3. CASE \E put \in {e, Torn} : /\ txt' = [txt EXCEPT ![E.label] = Append(@, put)]
                                 /\ (full \/ put = e)
  <2>1. PICK put \in {e, Torn} : /\ txt' = [txt EXCEPT ![E.label] = Append(@, put)]
                                 /\ (full \/ put = e)
    BY <1>3
  <2>2. put \in Entry /\ put.boot = boot
    BY <1>1, <2>1, LineTypes
  <2>3. put.what # "header" =>
          \/ boot \in scarce
          \/ \E j \in 1 .. Len(txt[E.label]) : /\ txt[E.label][j].what = "header"
                                              /\ txt[E.label][j].boot = boot
    BY <1>1, <2>1 DEF BoardInv, ScriptInv, Headed
  <2> QED
    BY ONLY <1>1, <2>1, <2>2, <2>3, AddStep, BoardInv, UNCHANGED <<boot, onCard, scarce>>
<1> QED
  BY <1>2, <1>3, TeeCases

\* The invariant holds at the start.
LEMMA BoardInit == Init => BoardInv
<1> SUFFICES ASSUME Init PROVE BoardInv
  OBVIOUS
<1>1. txt = [l \in Labels |-> <<>>] /\ onCard = [l \in Labels |-> 0]
  BY DEF Init
<1>2. \A l \in Labels : txt[l] = <<>> /\ onCard[l] = 0 /\ Len(txt[l]) = 0
  BY <1>1
<1>3. TxtTyped
  BY <1>1 DEF TxtTyped
<1>4. OnCardBound /\ BootsPast /\ FilesInv
  BY <1>2 DEF OnCardBound, BootsPast, FilesInv, Ordered, Owned
<1>5. pc = "off" /\ pos = 1 /\ cwd = Root /\ boot = 0
  BY DEF Init
<1>6. ScriptInv /\ Headed
  <2>1. ~Busy
    BY <1>5 DEF Busy
  <2>2. cwd \in Dirs
    BY ONLY <1>5 DEF Dirs
  <2>3. pos \in Nat \ {0} /\ boot \in Nat
    BY <1>5
  <2> QED
    BY ONLY <1>5, <2>1, <2>2, <2>3, Zenon DEF ScriptInv, Headed
<1> QED
  BY <1>3, <1>4, <1>5, <1>6 DEF BoardInv

\* The script goes on within an entry, or anything happens that is not about
\* the text files.
LEMMA QuietStep ==
  ASSUME BoardInv, UNCHANGED <<txt, boot>>, ScriptInv',
         onCard' = onCard \/ onCard' = [l \in Labels |-> Len(txt[l])],
         Busy' => Busy /\ pos' = pos, scarce \subseteq scarce'
  PROVE  BoardInv'
<1>1. TxtTyped' /\ OnCardBound'
  BY DEF BoardInv, TxtTyped, OnCardBound
<1>2. BootsPast' /\ FilesInv'
  BY OwnedGrows DEF BoardInv, BootsPast, FilesInv
<1>3. Headed'
  BY DEF BoardInv, Headed, E, ScriptInv
<1> QED
  BY <1>1, <1>2, <1>3 DEF BoardInv

\* A step that adds the entry e to the file of the one being run, or of the
\* one about to be.
LEMMA LineStep ==
  ASSUME BoardInv, pos \in DOMAIN Schedule, pc # "off",
         NEW e \in Entry, e.boot = boot, TeeAppend(E.label, e),
         e.what # "header" => Busy,
         UNCHANGED <<boot, onCard, pos, full, scarce>>, cwd' \in Dirs
  PROVE  BoardInv'
<1>1. /\ TxtTyped' /\ OnCardBound' /\ BootsPast' /\ FilesInv'
      /\ \/ boot \in scarce
         \/ \E j \in 1 .. Len(txt'[E.label]) : /\ txt'[E.label][j].what = "header"
                                              /\ txt'[E.label][j].boot = boot
  BY TeeStep
<1>2. ScriptInv'
  BY DEF BoardInv, ScriptInv
<1>3. Headed'
  BY <1>1 DEF Headed, E
<1> QED
  BY <1>1, <1>2, <1>3 DEF BoardInv

\* A power cut keeps the invariant.
LEMMA CutStep == ASSUME BoardInv, PowerCut PROVE BoardInv'
<1>1. PICK kept \in [Labels -> 0 .. Longest] :
        /\ \A l \in Labels : onCard[l] <= kept[l] /\ kept[l] <= Len(txt[l])
        /\ txt' = [l \in Labels |-> SubSeq(txt[l], 1, kept[l])]
  BY DEF PowerCut
<1>2. /\ boot' = boot /\ pos' = 1 /\ cwd' = Root /\ pc' = "off" /\ scarce' = scarce
      /\ onCard' = [l \in Labels |-> Len(txt'[l])]
  BY DEF PowerCut, Off
<1>3. ASSUME NEW l \in Labels
      PROVE  /\ txt'[l] \in Seq(Entry) /\ Ordered(txt'[l]) /\ Owned(txt'[l], scarce)
             /\ Len(txt'[l]) <= Len(txt[l])
             /\ \A i \in 1 .. Len(txt'[l]) : txt'[l][i] = txt[l][i]
  <2>1. txt[l] \in Seq(Entry) /\ Ordered(txt[l]) /\ Owned(txt[l], scarce)
    BY DEF BoardInv, TxtTyped, FilesInv
  <2>2. txt'[l] = SubSeq(txt[l], 1, kept[l]) /\ kept[l] \in 0 .. Len(txt[l])
    BY <1>1
  <2>3. /\ SubSeq(txt[l], 1, kept[l]) \in Seq(Entry)
        /\ Len(SubSeq(txt[l], 1, kept[l])) = kept[l]
        /\ \A i \in 1 .. kept[l] : SubSeq(txt[l], 1, kept[l])[i] = txt[l][i]
        /\ Ordered(SubSeq(txt[l], 1, kept[l])) /\ Owned(SubSeq(txt[l], 1, kept[l]), scarce)
    BY ONLY <2>1, <2>2, PrefixFiles
  <2> QED
    BY <2>1, <2>2, <2>3
<1>4. TxtTyped'
  BY <1>1, <1>2, <1>3 DEF TxtTyped
<1>5. OnCardBound'
  BY <1>2, <1>3 DEF OnCardBound
<1>6. BootsPast'
  <2> SUFFICES ASSUME NEW l \in Labels, NEW i \in 1 .. Len(txt'[l])
               PROVE  txt'[l][i].boot <= boot
    BY <1>2 DEF BootsPast
  <2>1. Len(txt[l]) \in Nat /\ Len(txt'[l]) \in Nat
    BY <1>3 DEF BoardInv, TxtTyped
  <2>2. i \in 1 .. Len(txt[l]) /\ txt'[l][i] = txt[l][i]
    BY <1>3, <2>1
  <2> QED
    BY <2>2 DEF BoardInv, BootsPast
<1>7. FilesInv'
  BY <1>2, <1>3 DEF FilesInv
<1>8. ScriptInv' /\ Headed'
  <2>1. ~Busy'
    BY <1>2 DEF Busy
  <2>2. cwd' \in Dirs
    BY ONLY <1>2 DEF Dirs
  <2> QED
    BY <1>2, <2>1, <2>2 DEF BoardInv, ScriptInv, Headed
<1> QED
  BY <1>4, <1>5, <1>6, <1>7, <1>8 DEF BoardInv

\* One step per action.
LEMMA BoardStep == BoardInv /\ [Next]_vars => BoardInv'
<1> SUFFICES ASSUME BoardInv, [Next]_vars PROVE BoardInv'
  OBVIOUS
<1> USE ScheduleAssumption
<1>0. /\ ScriptInv
      /\ Busy => pos \in DOMAIN Schedule
  BY DEF BoardInv, ScriptInv
<1>1. ASSUME Fail, Busy PROVE BoardInv'
  <2>1. /\ TeeAppend(E.label, Failed) /\ pc # "off"
        /\ UNCHANGED <<boot, onCard, pos, full, cwd, scarce>>
    BY <1>1 DEF Fail, Busy
  <2>2. Failed \in Entry /\ Failed.boot = boot
    BY <1>0, <1>1, LineTypes
  <2> QED
    BY <2>1, <2>2, <1>0, <1>1, LineStep DEF ScriptInv
<1>2. CASE SkipOnnx
  BY <1>2, QuietStep DEF SkipOnnx, files, text, outside, BoardInv, ScriptInv, Busy
<1>3. CASE Enter
  <2>1. /\ pc = "next" /\ pos <= Len(Schedule) /\ TeeAppend(E.label, Header)
        /\ cwd' = (IF DirOf(E) \in InstalledDirs THEN DirOf(E) ELSE cwd)
        /\ UNCHANGED <<boot, onCard, pos, full, scarce>>
    BY <1>3 DEF Enter, outside
  <2>2. pos \in DOMAIN Schedule
    BY <2>1, <1>0 DEF ScriptInv
  <2>3. Header \in Entry /\ Header.boot = boot /\ Header.what = "header"
    BY <1>0, <2>2, LineTypes
  <2>4. cwd' \in Dirs
    BY <2>1, <1>0 DEF Dirs, ScriptInv
  <2> QED
    BY <2>1, <2>2, <2>3, <2>4, LineStep
<1>4. CASE Rejected
  BY <1>1, <1>4 DEF Rejected, Busy
<1>5. CASE NotFound
  BY <1>1, <1>5 DEF NotFound, Busy
<1>6. CASE Refused
  BY <1>1, <1>6 DEF Refused, Busy
<1>7. CASE Started
  BY <1>7, QuietStep DEF Started, files, text, outside, BoardInv, ScriptInv, Busy
<1>8. CASE InferenceFails
  BY <1>1, <1>8 DEF InferenceFails, Busy
<1>9. CASE OpenCsv
  BY <1>9, QuietStep DEF OpenCsv, outside, BoardInv, ScriptInv, Busy, text
<1>10. CASE CsvNotOpened
  BY <1>10, QuietStep DEF CsvNotOpened, files, text, outside, BoardInv, ScriptInv, Busy
<1>11. CASE WriteCsv
  BY <1>11, QuietStep DEF WriteCsv, outside, BoardInv, ScriptInv, Busy, text
<1>12. CASE Report
  <2>1. /\ Busy /\ TeeAppend(E.label, Reported)
        /\ UNCHANGED <<boot, onCard, pos, full, cwd, scarce>> /\ pc # "off"
    BY <1>12 DEF Report, outside, Busy
  <2>2. Reported \in Entry /\ Reported.boot = boot
    BY <1>0, <2>1, LineTypes
  <2> QED
    BY <2>1, <2>2, <1>0, LineStep DEF ScriptInv
<1>13. CASE Retry
  <2>1. /\ Busy /\ TeeAppend(E.label, Notice)
        /\ UNCHANGED <<boot, onCard, pos, full, cwd, scarce>> /\ pc # "off"
    BY <1>13 DEF Retry, outside, Busy
  <2>2. Notice \in Entry /\ Notice.boot = boot
    BY <1>0, <2>1, LineTypes
  <2> QED
    BY <2>1, <2>2, <1>0, LineStep DEF ScriptInv
<1>14. CASE Advance
  BY <1>14, QuietStep DEF Advance, files, text, outside, BoardInv, ScriptInv, Busy
<1>15. CASE Complete
  BY <1>15, QuietStep DEF Complete, files, text, outside, BoardInv, ScriptInv, Busy
<1>16. CASE PowerOn
  <2>1. /\ boot' = boot + 1 /\ pc' = "next"
        /\ UNCHANGED <<pos, cwd, txt, onCard, full>>
        /\ scarce' = IF full THEN scarce \union {boot + 1} ELSE scarce
    BY <1>16 DEF PowerOn, files, text, outside
  <2>2. ScriptInv' /\ Headed'
    BY <2>1, <1>0 DEF ScriptInv, Headed, Busy
  <2>3. TxtTyped' /\ OnCardBound' /\ FilesInv'
    BY <2>1, OwnedGrows DEF BoardInv, TxtTyped, OnCardBound, FilesInv
  <2>4. BootsPast'
    <3> SUFFICES ASSUME NEW l \in Labels, NEW i \in 1 .. Len(txt[l])
                 PROVE  txt[l][i].boot <= boot + 1
      BY <2>1 DEF BootsPast
    <3>1. txt[l][i] \in Entry
      BY DEF BoardInv, TxtTyped
    <3>2. txt[l][i].boot \in Nat
      BY <3>1, EntryBoot
    <3> QED
      BY <3>2, <1>0 DEF BoardInv, BootsPast, ScriptInv
  <2> QED
    BY <2>2, <2>3, <2>4 DEF BoardInv
<1>17. CASE FillUp
  BY <1>17, QuietStep DEF FillUp, script, files, text, BoardInv, ScriptInv, Busy
<1>18. CASE Shutdown
  <2>1. /\ pc' = "off" /\ pos' = 1 /\ cwd' = Root /\ onCard' = Written
        /\ UNCHANGED <<txt, boot, full, scarce>>
    BY <1>18 DEF Shutdown, Off, outside, text
  <2>2. cwd' \in Dirs
    BY ONLY <2>1 DEF Dirs
  <2>3. ScriptInv' /\ ~Busy'
    BY <2>1, <2>2, <1>0 DEF ScriptInv, Busy
  <2> QED
    BY <2>1, <2>3, QuietStep DEF Written
<1>19. CASE PowerCut
  BY <1>19, CutStep
<1>20. CASE Stopped \/ UNCHANGED vars
  <2>1. UNCHANGED vars
    BY <1>20 DEF Stopped
  <2> QED
    BY <2>1, QuietStep
    DEF vars, script, files, text, outside, BoardInv, ScriptInv, Busy
<1> QED
  BY <1>2, <1>3, <1>4, <1>5, <1>6, <1>7, <1>8, <1>9, <1>10, <1>11, <1>12,
     <1>13, <1>14, <1>15, <1>16, <1>17, <1>18, <1>19, <1>20
  DEF Next, Script, Outside

\* The invariant holds at all times.
LEMMA BoardAlways == Spec => []BoardInv
<1>1. Init => BoardInv
  BY BoardInit
<1>2. BoardInv /\ [Next]_vars => BoardInv'
  BY BoardStep
<1> QED
  BY <1>1, <1>2, PTL DEF Spec

-----------------------------------------------------------------------------
(* What the text files promise.                                            *)

\* Whatever fails in a campaign and wherever the power goes, a text file is a
\* sequence of campaigns, each outcome after a header of its own boot unless
\* the card was full for a time in that boot.
THEOREM WellFormed == Spec => []TxtWellFormed
<1>1. BoardInv => TxtWellFormed
  <2> SUFFICES ASSUME BoardInv, NEW l \in Labels
               PROVE  /\ \A i \in 2 .. Len(txt[l]) :
                           txt[l][i - 1].boot <= txt[l][i].boot
                      /\ \A i \in DOMAIN txt[l] :
                           txt[l][i].what # "header" =>
                             \/ txt[l][i].boot \in scarce
                             \/ \E j \in 1 .. i - 1 :
                                  /\ txt[l][j].what = "header"
                                  /\ txt[l][j].boot = txt[l][i].boot
    BY DEF TxtWellFormed
  <2>1. Ordered(txt[l]) /\ Owned(txt[l], scarce) /\ DOMAIN txt[l] = 1 .. Len(txt[l])
    BY DEF BoardInv, FilesInv, TxtTyped
  <2> QED
    BY <2>1 DEF Ordered, Owned
<1> QED
  BY <1>1, BoardAlways, PTL

\* The first n entries of s are the first of t.
Within(s, n, t) ==
  n <= Len(t) /\ \A i \in 1 .. n : t[i] = s[i]

\* What agrees with the first n lines has them as a prefix.
LEMMA PrefixWithin ==
  ASSUME NEW s \in Seq(Entry), NEW t \in Seq(Entry), NEW n \in 0 .. Len(s),
         Within(s, n, t)
  PROVE  IsPrefix(SubSeq(s, 1, n), t)
<1> DEFINE a == SubSeq(s, 1, n)
           b == SubSeq(t, 1, n)
<1>1. /\ a \in Seq(Entry) /\ Len(a) = n /\ n \in Nat /\ n <= Len(t)
      /\ \A i \in 1 .. n : a[i] = s[i]
  BY DEF Within
<1>2. /\ b \in Seq(Entry) /\ Len(b) = n
      /\ \A i \in 1 .. n : b[i] = t[i]
  BY <1>1
<1>3. \A i \in 1 .. n : a[i] = b[i]
  BY <1>1, <1>2 DEF Within
<1> HIDE DEF a, b
<1>4. a = b
  BY <1>1, <1>2, <1>3
<1>5. Len(a) <= Len(t) /\ a = SubSeq(t, 1, Len(a))
  BY <1>1, <1>4 DEF b
<1> QED
  BY <1>5 DEF IsPrefix, a

\* The script and what is outside it only add to a file, or cut off what was
\* not yet on the card.
LEMMA KeptStep ==
  ASSUME BoardInv, [Next]_vars, NEW l \in Labels
  PROVE  Within(txt[l], onCard[l], txt'[l])
<1> USE ScheduleAssumption
<1>1. /\ txt[l] \in Seq(Entry) /\ Len(txt[l]) \in Nat /\ onCard[l] \in Nat
      /\ onCard[l] <= Len(txt[l])
  BY DEF BoardInv, TxtTyped, OnCardBound
<1>2. CASE UNCHANGED txt
  BY <1>1, <1>2 DEF Within
<1>3. ASSUME NEW e, TeeAppend(E.label, e)
      PROVE  Within(txt[l], onCard[l], txt'[l])
  <2>1. CASE txt' = txt
    BY <1>2, <2>1
  <2>2. CASE txt' # txt
    <3>1. PICK put : txt' = [txt EXCEPT ![E.label] = Append(@, put)]
      BY <1>3, <2>2, TeeCases
    <3>2. txt'[l] = txt[l] \/ txt'[l] = Append(txt[l], put)
      BY <3>1 DEF BoardInv, TxtTyped
    <3> QED
      BY <1>1, <3>2 DEF Within
  <2> QED
    BY <2>1, <2>2
<1>4. CASE PowerCut
  <2>1. PICK kept \in [Labels -> 0 .. Longest] :
          /\ \A k \in Labels : onCard[k] <= kept[k] /\ kept[k] <= Len(txt[k])
          /\ txt' = [k \in Labels |-> SubSeq(txt[k], 1, kept[k])]
    BY <1>4 DEF PowerCut
  <2>2. txt'[l] = SubSeq(txt[l], 1, kept[l]) /\ kept[l] \in onCard[l] .. Len(txt[l])
    BY <1>1, <2>1
  <2> QED
    BY <1>1, <2>2 DEF Within
<1>5. CASE Enter \/ Report \/ Retry
  BY <1>3, <1>5 DEF Enter, Report, Retry
<1>6. CASE Rejected \/ NotFound \/ Refused \/ InferenceFails
  BY <1>3, <1>6 DEF Rejected, NotFound, Refused, InferenceFails, Fail
<1>7. CASE SkipOnnx \/ Started \/ OpenCsv \/ CsvNotOpened \/ WriteCsv
           \/ Advance \/ Complete
  BY <1>2, <1>7 DEF SkipOnnx, Started, OpenCsv, CsvNotOpened, WriteCsv,
                    Advance, Complete, files, text
<1>8. CASE PowerOn \/ FillUp \/ Shutdown \/ Stopped \/ UNCHANGED vars
  BY <1>2, <1>8 DEF PowerOn, FillUp, Shutdown, Stopped, vars, files, text
<1> QED
  BY <1>4, <1>5, <1>6, <1>7, <1>8 DEF Next, Script, Outside

\* Nothing a text file has on the card is ever lost or changed.
THEOREM Kept == Spec => OnCardKept
<1>1. BoardInv /\ BoardInv' /\ [Next]_vars =>
        [\A l \in Labels : IsPrefix(SubSeq(txt[l], 1, onCard[l]), txt'[l])]_vars
  <2> SUFFICES ASSUME BoardInv, BoardInv', [Next]_vars, NEW l \in Labels
               PROVE  IsPrefix(SubSeq(txt[l], 1, onCard[l]), txt'[l])
    OBVIOUS
  <2>1. /\ txt[l] \in Seq(Entry) /\ txt'[l] \in Seq(Entry)
        /\ onCard[l] \in 0 .. Len(txt[l])
    BY DEF BoardInv, TxtTyped, OnCardBound
  <2>2. Within(txt[l], onCard[l], txt'[l])
    BY KeptStep
  <2> QED
    BY ONLY <2>1, <2>2, PrefixWithin
<1> QED
  BY <1>1, BoardAlways, PTL DEF Spec, OnCardKept

-----------------------------------------------------------------------------
(* Where the script is.                                                    *)

InProgram == pc \in {"running", "saving", "report"}

PlaceInv ==
  /\ pc = "off" => pos = 1 /\ cwd = Root
  /\ pc \in {"next", "complete"} => CwdAt(pos - 1, cwd)
  /\ pc = "complete" => pos > Len(Schedule)
  /\ Busy => CwdAt(pos, cwd) /\ (E.onnx => HaveOnnx)
  /\ InProgram => Here \in Installed /\ ~Usage(Profile[cwd], E.args)

\* The entry i is skipped, or its cd fails.
LEMMA CwdStays ==
  ASSUME NEW i \in Nat \ {0}, NEW d, CwdAt(i - 1, d), ~Enters(i)
  PROVE  CwdAt(i, d)
<1>1. \A k \in 1 .. i : k \in 1 .. i - 1 \/ k = i
  OBVIOUS
<1>2. CASE d = Root /\ \A k \in 1 .. i - 1 : ~Enters(k)
  BY <1>1, <1>2 DEF CwdAt
<1>3. CASE \E k \in 1 .. i - 1 : /\ Enters(k) /\ d = DirOf(Schedule[k])
                                 /\ \A j \in k + 1 .. i - 1 : ~Enters(j)
  <2>1. PICK k \in 1 .. i - 1 : /\ Enters(k) /\ d = DirOf(Schedule[k])
                                /\ \A j \in k + 1 .. i - 1 : ~Enters(j)
    BY <1>3
  <2>2. k \in 1 .. i /\ \A j \in k + 1 .. i : ~Enters(j)
    BY <2>1
  <2> QED
    BY <2>1, <2>2 DEF CwdAt
<1> QED
  BY <1>2, <1>3 DEF CwdAt

\* An entry that changes the directory leaves its own, and no other, behind.
LEMMA CwdMoves ==
  ASSUME NEW i \in Nat \ {0}, Enters(i)
  PROVE  /\ CwdAt(i, DirOf(Schedule[i]))
         /\ \A d : CwdAt(i, d) => d = DirOf(Schedule[i])
<1>1. CwdAt(i, DirOf(Schedule[i]))
  BY DEF CwdAt
<1>2. ASSUME NEW d, CwdAt(i, d) PROVE d = DirOf(Schedule[i])
  <2>1. PICK k \in 1 .. i : /\ Enters(k) /\ d = DirOf(Schedule[k])
                            /\ \A j \in k + 1 .. i : ~Enters(j)
    BY <1>2 DEF CwdAt
  <2>2. k = i
    BY <2>1
  <2> QED
    BY <2>1, <2>2
<1> QED
  BY <1>1, <1>2

\* A step within an entry, or after which there is none.
LEMMA PlaceQuiet ==
  ASSUME PlaceInv, UNCHANGED <<pos, cwd>>, pc' = pc \/ (Busy /\ pc' \in {"launch", "status"})
                                                   \/ (InProgram /\ InProgram')
  PROVE  PlaceInv'
BY DEF PlaceInv, Busy, InProgram, E, Here

\* Every step keeps PlaceInv.
LEMMA PlaceStep == BoardInv /\ PlaceInv /\ [Next]_vars => PlaceInv'
<1> SUFFICES ASSUME BoardInv, PlaceInv, [Next]_vars PROVE PlaceInv'
  OBVIOUS
<1> USE ScheduleAssumption
<1>0. pos \in Nat \ {0}
  BY DEF BoardInv, ScriptInv
<1>1. CASE SkipOnnx
  <2>1. /\ pc = "next" /\ pc' = "next" /\ pos' = pos + 1 /\ cwd' = cwd
        /\ CwdAt(pos - 1, cwd) /\ ~Enters(pos)
    BY <1>1 DEF SkipOnnx, PlaceInv, Enters, E
  <2>2. CwdAt(pos, cwd)
    BY <1>0, <2>1, CwdStays
  <2>3. pos' - 1 = pos
    BY <1>0, <2>1
  <2> QED
    BY <2>1, <2>2, <2>3 DEF PlaceInv, Busy, InProgram
<1>2. CASE Enter
  <2>1. /\ pc = "next" /\ pc' = "launch" /\ pos' = pos /\ (E.onnx => HaveOnnx)
        /\ cwd' = (IF DirOf(E) \in InstalledDirs THEN DirOf(E) ELSE cwd)
        /\ CwdAt(pos - 1, cwd)
    BY <1>2 DEF Enter, PlaceInv
  <2>2. CASE DirOf(E) \in InstalledDirs
    <3>1. Enters(pos) /\ cwd' = DirOf(Schedule[pos])
      BY <2>1, <2>2 DEF Enters, E
    <3>2. CwdAt(pos, cwd')
      BY <1>0, <3>1, CwdMoves
    <3> QED
      BY <2>1, <3>2 DEF PlaceInv, Busy, InProgram, E
  <2>3. CASE DirOf(E) \notin InstalledDirs
    <3>1. ~Enters(pos) /\ cwd' = cwd
      BY <2>1, <2>3 DEF Enters, E
    <3>2. CwdAt(pos, cwd)
      BY <1>0, <2>1, <3>1, CwdStays
    <3> QED
      BY <2>1, <3>1, <3>2 DEF PlaceInv, Busy, InProgram, E
  <2> QED
    BY <2>2, <2>3
<1>3. CASE Rejected \/ NotFound \/ Refused \/ InferenceFails
  BY <1>3, PlaceQuiet DEF Rejected, NotFound, Refused, InferenceFails, Fail, Busy
<1>4. CASE Started
  BY <1>4 DEF Started, PlaceInv, Busy, InProgram, E, Here
<1>5. CASE OpenCsv \/ CsvNotOpened \/ WriteCsv
  BY <1>5, PlaceQuiet DEF OpenCsv, CsvNotOpened, WriteCsv, InProgram, text
<1>6. CASE Report \/ Retry
  BY <1>6, PlaceQuiet DEF Report, Retry, Busy
<1>7. CASE Advance
  <2>1. pos' - 1 = pos
    BY <1>0, <1>7 DEF Advance
  <2> QED
    BY <1>7, <2>1 DEF Advance, PlaceInv, Busy, InProgram
<1>8. CASE Complete
  BY <1>8 DEF Complete, PlaceInv, Busy, InProgram
<1>9. CASE PowerOn
  <2>1. CwdAt(0, Root)
    BY DEF CwdAt
  <2> QED
    BY <1>9, <2>1 DEF PowerOn, PlaceInv, Busy, InProgram
<1>10. CASE FillUp \/ Stopped \/ UNCHANGED vars
  BY <1>10, PlaceQuiet DEF FillUp, Stopped, vars, script
<1>11. CASE Shutdown \/ PowerCut
  BY <1>11 DEF Shutdown, PowerCut, Off, PlaceInv, Busy, InProgram, text
<1> QED
  BY <1>1, <1>2, <1>3, <1>4, <1>5, <1>6, <1>7, <1>8, <1>9, <1>10, <1>11
  DEF Next, Script, Outside

-----------------------------------------------------------------------------
(* Where a report comes from.                                              *)

\* r is what the program of entry i reports when it ran in the directory d.
IsReport(r, i, d) ==
  LET e == Schedule[i]
  IN  /\ r.by = Program(d[1], d[2], e.exec)
      /\ r.made = LabelOf(Profile[d], e.exec, e.args)
      /\ r.warmups = Warmups(Profile[d], e.args)

\* A report in the file of a label is from the entry of the label, run where
\* the script can be when it has come there.
Traced(l, r) ==
  \E i \in DOMAIN Schedule, d \in InstalledDirs :
    Schedule[i].label = l /\ MayRun(i, d) /\ IsReport(r, i, d)

TraceInv ==
  \A l \in Labels : \A j \in 1 .. Len(txt[l]) :
    txt[l][j].what = "report" => Traced(l, txt[l][j])

-----------------------------------------------------------------------------
(* The CSV of the program that runs.                                       *)

\* It was emptied in this boot and is whole at the end, if there was space, or
\* could not be opened.
Unsaved == <<Csv, boot>> \in unsaved
Saved ==
  /\ Csv \in DOMAIN csv
  /\ \E whole \in BOOLEAN : /\ csv[Csv] = [boot |-> boot, whole |-> whole]
                            /\ boot \notin scarce => whole = TRUE

CsvInv ==
  /\ cuts \in Nat
  /\ pc = "saving" =>
       Csv \in DOMAIN csv /\ csv[Csv] = [boot |-> boot, whole |-> FALSE]
  /\ pc = "report" => Saved \/ Unsaved

\* The CSV of a report is there, or could not be opened.
HasCsv(r) ==
  \/ CsvOf(r) \in DOMAIN csv /\ csv[CsvOf(r)].boot >= r.boot
  \/ <<CsvOf(r), r.boot>> \in unsaved

\* As long as the power was never cut, that holds of every report.
SavedInv ==
  cuts = 0 =>
    \A l \in Labels : \A j \in 1 .. Len(txt[l]) :
      txt[l][j].what = "report" => HasCsv(txt[l][j])

-----------------------------------------------------------------------------
(* The outcomes of the campaign.                                           *)

\* Entry i has left its CSV, which may be being written anew, or the error of
\* the library, or its CSV could not be opened.
Outcome(i) ==
  \/ /\ CsvOfEntry(i) \in DOMAIN csv
     /\ \/ csv[CsvOfEntry(i)] = [boot |-> boot, whole |-> TRUE]
        \/ pc = "saving" /\ Csv = CsvOfEntry(i)
  \/ /\ Profile[DirOf(Schedule[i])].mayFail
     /\ Last(txt[Schedule[i].label]) = [what |-> "failed", boot |-> boot]
  \/ <<CsvOfEntry(i), boot>> \in unsaved

Passed(i) == i < pos \/ (i = pos /\ pc = "status")

FreshInv ==
  pc # "off" /\ boot \notin scarce /\ perf # "few" =>
    \A i \in Runnable : Passed(i) => Outcome(i)

OutcomesInv == PlaceInv /\ TraceInv /\ CsvInv /\ SavedInv /\ FreshInv

-----------------------------------------------------------------------------
(* The text files, entry by entry.                                         *)

\* Of what is in a file after a step, only the report of the program that
\* ran is a report that was not there before.
LEMMA NewEntries ==
  ASSUME BoardInv, [Next]_vars, NEW l \in Labels, NEW j \in 1 .. Len(txt'[l])
  PROVE  \/ j \in 1 .. Len(txt[l]) /\ txt'[l][j] = txt[l][j]
         \/ txt'[l][j].what # "report"
         \/ Report /\ l = E.label /\ txt'[l][j] = Reported
<1> USE ScheduleAssumption
<1>1. txt[l] \in Seq(Entry) /\ onCard[l] \in 0 .. Len(txt[l])
  BY DEF BoardInv, TxtTyped, OnCardBound
<1>2. CASE UNCHANGED txt
  BY <1>2
<1>3. ASSUME NEW e, TeeAppend(E.label, e)
      PROVE  \/ j \in 1 .. Len(txt[l]) /\ txt'[l][j] = txt[l][j]
             \/ txt'[l][j] = Torn
             \/ l = E.label /\ txt'[l][j] = e
  <2>1. CASE txt'[l] = txt[l]
    BY <2>1
  <2>2. CASE txt'[l] # txt[l]
    <3>1. PICK put \in {e, Torn} : txt' = [txt EXCEPT ![E.label] = Append(@, put)]
      BY <1>3, <2>2, TeeCases
    <3>2. l = E.label /\ txt'[l] = Append(txt[l], put)
      BY <2>2, <3>1 DEF BoardInv, TxtTyped
    <3> QED
      BY <1>1, <3>1, <3>2
  <2> QED
    BY <2>1, <2>2
<1>4. CASE Enter
  BY <1>3, <1>4 DEF Enter, Header, Torn
<1>5. CASE Rejected \/ NotFound \/ Refused \/ InferenceFails \/ Retry
  BY <1>3, <1>5 DEF Rejected, NotFound, Refused, InferenceFails, Retry, Fail, Failed,
                    Notice, Torn
<1>6. CASE Report
  BY <1>3, <1>6 DEF Report, Torn
<1>7. CASE PowerCut
  <2>1. PICK kept \in [Labels -> 0 .. Longest] :
          /\ \A k \in Labels : onCard[k] <= kept[k] /\ kept[k] <= Len(txt[k])
          /\ txt' = [k \in Labels |-> SubSeq(txt[k], 1, kept[k])]
    BY <1>7 DEF PowerCut
  <2>2. txt'[l] = SubSeq(txt[l], 1, kept[l]) /\ kept[l] \in 0 .. Len(txt[l])
    BY <1>1, <2>1
  <2> QED
    BY <1>1, <2>2
<1>8. CASE SkipOnnx \/ Started \/ OpenCsv \/ CsvNotOpened \/ WriteCsv
           \/ Advance \/ Complete
  BY <1>2, <1>8 DEF SkipOnnx, Started, OpenCsv, CsvNotOpened, WriteCsv,
                    Advance, Complete, files, text
<1>9. CASE PowerOn \/ FillUp \/ Shutdown \/ Stopped \/ UNCHANGED vars
  BY <1>2, <1>9 DEF PowerOn, FillUp, Shutdown, Stopped, vars, files, text
<1> QED
  BY <1>4, <1>5, <1>6, <1>7, <1>8, <1>9 DEF Next, Script, Outside

\* A program that runs does so in its own directory.
LEMMA RunsHere ==
  ASSUME BoardInv, PlaceInv, InProgram
  PROVE  /\ pos \in DOMAIN Schedule /\ MayRun(pos, cwd)
         /\ cwd \in InstalledDirs /\ DirOf(Here) = cwd
<1>1. /\ Busy /\ pos \in DOMAIN Schedule /\ cwd \in Dirs
      /\ CwdAt(pos, cwd) /\ (E.onnx => HaveOnnx)
      /\ Here \in Installed /\ ~Usage(Profile[cwd], E.args)
  BY DEF BoardInv, ScriptInv, PlaceInv, InProgram, Busy
<1>2. DirOf(Here) = cwd
  <2>1. PICK fw, bench : cwd = <<fw, bench>>
    BY <1>1 DEF Dirs, InstalledDirs, DirOf, Root
  <2>2. Here.fw = cwd[1] /\ Here.bench = cwd[2]
    BY DEF Here, Program
  <2> QED
    BY <2>1, <2>2 DEF DirOf
<1>3. cwd \in InstalledDirs
  BY <1>1, <1>2 DEF InstalledDirs
<1>4. MayRun(pos, cwd)
  BY <1>1 DEF MayRun, E, Here
<1> QED
  BY <1>1, <1>2, <1>3, <1>4

\* Every step keeps TraceInv.
LEMMA TraceStep == BoardInv /\ PlaceInv /\ TraceInv /\ [Next]_vars => TraceInv'
<1> SUFFICES ASSUME BoardInv, PlaceInv, TraceInv, [Next]_vars,
                    NEW l \in Labels, NEW j \in 1 .. Len(txt'[l]),
                    txt'[l][j].what = "report"
             PROVE  Traced(l, txt'[l][j])
  BY DEF TraceInv, Traced, MayRun, CwdAt, IsReport
<1>1. CASE j \in 1 .. Len(txt[l]) /\ txt'[l][j] = txt[l][j]
  BY <1>1 DEF TraceInv
<1>2. CASE Report /\ l = E.label /\ txt'[l][j] = Reported
  <2>1. InProgram
    BY <1>2 DEF Report, InProgram
  <2>2. pos \in DOMAIN Schedule /\ MayRun(pos, cwd) /\ cwd \in InstalledDirs
    BY <2>1, RunsHere
  <2>3. IsReport(Reported, pos, cwd)
    BY DEF IsReport, Reported, Here, Made, E
  <2> QED
    BY <1>2, <2>2, <2>3 DEF Traced, E
<1> QED
  BY <1>1, <1>2, NewEntries

-----------------------------------------------------------------------------
(* The CSVs.                                                               *)

\* A power cut is counted.
LEMMA CutCounts ==
  ASSUME PowerCut PROVE cuts' = cuts + 1 /\ pc' = "off"
BY Zenon DEF PowerCut, Off

\* Every step keeps CsvInv.
LEMMA CsvStep == BoardInv /\ CsvInv /\ [Next]_vars => CsvInv'
<1> SUFFICES ASSUME BoardInv, CsvInv, [Next]_vars PROVE CsvInv'
  OBVIOUS
<1>1. CASE OpenCsv
  BY <1>1 DEF OpenCsv, CsvInv, Csv, Made, E, text
<1>2. CASE CsvNotOpened
  <2>1. pc' = "report" /\ cuts' = cuts /\ Unsaved'
    BY <1>2 DEF CsvNotOpened, Unsaved, Csv, Made, E
  <2> QED
    BY <2>1 DEF CsvInv
<1>3. CASE WriteCsv
  <2>1. PICK whole \in BOOLEAN : /\ csv' = [csv EXCEPT ![Csv].whole = whole]
                                 /\ ~full => whole = TRUE
    BY <1>3 DEF WriteCsv, text
  <2>2. /\ pc' = "report" /\ cuts' = cuts /\ boot' = boot /\ Csv' = Csv
        /\ scarce' = scarce /\ (full => boot \in scarce)
        /\ Csv \in DOMAIN csv /\ csv[Csv] = [boot |-> boot, whole |-> FALSE]
    BY <1>3 DEF WriteCsv, outside, CsvInv, Csv, Made, E, BoardInv, ScriptInv, text
  <2>3. csv'[Csv] = [boot |-> boot, whole |-> whole] /\ Csv \in DOMAIN csv'
    BY <2>1, <2>2
  <2>4. Saved'
    BY <2>1, <2>2, <2>3 DEF Saved
  <2> QED
    BY <2>2, <2>4 DEF CsvInv
<1>4. CASE SkipOnnx \/ Enter \/ Rejected \/ NotFound \/ Refused \/ Started
           \/ InferenceFails \/ Report \/ Retry \/ Advance \/ Complete
  <2>1. cuts' = cuts /\ pc' # "saving" /\ pc' # "report"
    BY <1>4 DEF SkipOnnx, Enter, Rejected, NotFound, Refused, Started, InferenceFails,
                Report, Retry, Advance, Complete, Fail, outside
  <2> QED
    BY <2>1 DEF CsvInv
<1>5. CASE PowerOn \/ Shutdown \/ PowerCut
  <2>1. (cuts' = cuts \/ cuts' = cuts + 1) /\ pc' # "saving" /\ pc' # "report"
    BY <1>5, CutCounts DEF PowerOn, Shutdown, Off, outside
  <2> QED
    BY <2>1 DEF CsvInv
<1>6. CASE FillUp \/ Stopped \/ UNCHANGED vars
  <2>1. /\ UNCHANGED <<pc, pos, cwd, csv, boot, cuts, unsaved>> /\ scarce \subseteq scarce'
    BY <1>6 DEF FillUp, Stopped, vars, script, files, text, outside
  <2> QED
    BY <2>1 DEF CsvInv, Saved, Unsaved, Csv, Made, E
<1> QED
  BY <1>1, <1>2, <1>3, <1>4, <1>5, <1>6 DEF Next, Script, Outside

\* Without a power cut a CSV stays or is written anew in this boot.
LEMMA CsvGrows ==
  ASSUME BoardInv, CsvInv, [Next]_vars, ~PowerCut, NEW f \in DOMAIN csv
  PROVE  f \in DOMAIN csv' /\ (csv'[f] = csv[f] \/ csv'[f].boot = boot)
<1>1. CASE OpenCsv
  BY <1>1 DEF OpenCsv, text
<1>2. CASE WriteCsv
  <2>1. PICK whole : csv' = [csv EXCEPT ![Csv].whole = whole]
    BY <1>2 DEF WriteCsv, text
  <2>2. csv[Csv] = [boot |-> boot, whole |-> FALSE]
    BY <1>2 DEF WriteCsv, CsvInv, text
  <2> QED
    BY <2>1, <2>2
<1>3. CASE UNCHANGED csv
  BY <1>3
<1> QED
  BY <1>1, <1>2, <1>3
  DEF Next, Script, Outside, SkipOnnx, Enter, Rejected, NotFound, Refused, Started,
      InferenceFails, CsvNotOpened, Report, Retry, Advance, Complete, Fail,
      PowerOn, Shutdown, FillUp, Stopped, vars, files, text

\* What met a full card, and what could not be opened, is not forgotten.
LEMMA PastGrows ==
  ASSUME [Next]_vars PROVE scarce \subseteq scarce' /\ unsaved \subseteq unsaved'
BY DEF Next, Script, Outside, SkipOnnx, Enter, Rejected, NotFound, Refused, Started,
  InferenceFails, OpenCsv, CsvNotOpened, WriteCsv, Report, Retry, Advance, Complete, Fail,
  PowerOn, Shutdown, PowerCut, FillUp, Stopped, vars, outside, text

\* Every step keeps SavedInv.
LEMMA SavedStep ==
  BoardInv /\ BoardInv' /\ PlaceInv /\ CsvInv /\ SavedInv /\ [Next]_vars => SavedInv'
<1> SUFFICES ASSUME BoardInv, BoardInv', PlaceInv, CsvInv, SavedInv, [Next]_vars,
                    cuts' = 0, NEW l \in Labels, NEW j \in 1 .. Len(txt'[l]),
                    txt'[l][j].what = "report"
             PROVE  HasCsv(txt[l][j])'
  BY DEF SavedInv
<1>0. unsaved \subseteq unsaved'
  BY PastGrows
<1>9. ASSUME \/ /\ CsvOf(txt'[l][j]) \in DOMAIN csv'
                /\ csv'[CsvOf(txt'[l][j])].boot >= txt'[l][j].boot
             \/ <<CsvOf(txt'[l][j]), txt'[l][j].boot>> \in unsaved'
      PROVE  HasCsv(txt[l][j])'
  BY <1>9 DEF HasCsv, CsvOf
<1>1. ~PowerCut
  BY CutCounts DEF CsvInv
<1>2. cuts = 0
  BY <1>1 DEF Next, Script, Outside, SkipOnnx, Enter, Rejected, NotFound, Refused, Started,
      InferenceFails, OpenCsv, CsvNotOpened, WriteCsv, Report, Retry, Advance, Complete, Fail,
      PowerOn, Shutdown, FillUp, Stopped, vars, outside, text
<1>3. CASE j \in 1 .. Len(txt[l]) /\ txt'[l][j] = txt[l][j]
  <2> DEFINE r == txt[l][j]
  <2>1. HasCsv(r)
    BY <1>2, <1>3 DEF SavedInv
  <2>2. boot >= r.boot
    <3>1. r.boot <= boot
      BY <1>3 DEF BoardInv, BootsPast
    <3>2. r \in Entry /\ boot \in Nat
      BY <1>3 DEF BoardInv, TxtTyped, ScriptInv
    <3> QED
      BY <3>1, <3>2, EntryBoot
  <2>3. txt'[l][j] = r
    BY <1>3
  <2> HIDE DEF r
  <2>4. CASE CsvOf(r) \in DOMAIN csv /\ csv[CsvOf(r)].boot >= r.boot
    BY <1>1, <1>9, <2>2, <2>3, <2>4, CsvGrows
  <2>5. CASE <<CsvOf(r), r.boot>> \in unsaved
    BY <1>0, <1>9, <2>3, <2>5
  <2> QED
    BY <2>1, <2>4, <2>5 DEF HasCsv
<1>4. CASE Report /\ l = E.label /\ txt'[l][j] = Reported
  <2>1. CsvOf(Reported) = Csv
    <3>1. DirOf(Here) = cwd
      BY <1>4, RunsHere DEF Report, InProgram
    <3> QED
      BY <3>1 DEF CsvOf, Reported, Csv
  <2>2. Reported.boot = boot /\ csv' = csv /\ (Saved \/ Unsaved) /\ boot \in Nat
    BY <1>4 DEF Report, CsvInv, Reported, BoardInv, ScriptInv
  <2>3. CASE Saved
    BY <1>4, <1>9, <2>1, <2>2, <2>3 DEF Saved
  <2>4. CASE Unsaved
    BY <1>0, <1>4, <1>9, <2>1, <2>2, <2>4 DEF Unsaved
  <2> QED
    BY <2>2, <2>3, <2>4
<1> QED
  BY <1>3, <1>4, NewEntries

-----------------------------------------------------------------------------
(* The campaign.                                                           *)

\* A program that can run at its entry is started in its own directory.
LEMMA RunnableHere ==
  ASSUME BoardInv, PlaceInv, Busy, pos \in Runnable
  PROVE  /\ cwd = DirOf(E) /\ CsvOfEntry(pos) = Csv
         /\ Here \in Installed /\ ~Usage(Profile[cwd], E.args) /\ ~CannotLoad
<1>1. /\ Program(E.fw, E.bench, E.exec) \in Installed /\ (E.onnx => HaveOnnx)
      /\ ~Usage(Profile[DirOf(E)], E.args)
      /\ \A k \in DOMAIN Profile[DirOf(E)].loads :
           <<E.fw, E.bench, Profile[DirOf(E)].loads[k]>> \notin Unusable
  BY DEF Runnable, E
<1>2. DirOf(Program(E.fw, E.bench, E.exec)) = DirOf(E)
  BY DEF DirOf, Program
<1>3. Enters(pos)
  BY <1>1, <1>2 DEF Enters, E, InstalledDirs
<1>4. cwd = DirOf(E)
  BY <1>3, CwdMoves DEF BoardInv, ScriptInv, PlaceInv, E
<1>5. cwd[1] = E.fw /\ cwd[2] = E.bench
  BY <1>4 DEF DirOf
<1>6. CsvOfEntry(pos) = Csv
  BY <1>4 DEF CsvOfEntry, Csv, Made, E
<1> QED
  BY <1>1, <1>4, <1>5, <1>6 DEF Here, CannotLoad

\* A step that touches no file, with no entry passed that could have run.
LEMMA FreshQuiet ==
  ASSUME FreshInv, UNCHANGED <<csv, txt, boot, perf>>,
         scarce \subseteq scarce', unsaved \subseteq unsaved',
         pc # "off", \A i \in Runnable : Passed(i)' => Passed(i),
         pc = "saving" => pc' = "saving" /\ UNCHANGED <<pos, cwd>>
  PROVE  FreshInv'
<1> SUFFICES ASSUME boot \notin scarce', perf' # "few", NEW i \in Runnable, Passed(i)'
             PROVE  Outcome(i)'
  BY DEF FreshInv, Runnable
<1>1. Outcome(i)
  BY DEF FreshInv
<1> QED
  BY <1>1 DEF Outcome, CsvOfEntry, Csv, Made, E

\* A step that adds a line to the file of the entry being run.
LEMMA FreshLine ==
  ASSUME BoardInv, FreshInv, pos \in DOMAIN Schedule, NEW e, TeeAppend(E.label, e),
         UNCHANGED <<csv, boot, perf, scarce, unsaved, pos>>, pc # "off", pc # "saving",
         pos \in Runnable /\ pc' = "status" /\ boot \notin scarce /\ perf # "few" =>
           Outcome(pos)'
  PROVE  FreshInv'
<1> SUFFICES ASSUME boot \notin scarce, perf # "few", NEW i \in Runnable, Passed(i)'
             PROVE  Outcome(i)'
  BY DEF FreshInv, Runnable
<1>1. CASE i = pos /\ pc' = "status"
  BY <1>1
<1>2. CASE i < pos
  <2>1. Outcome(i)
    BY <1>2 DEF FreshInv, Passed
  <2>2. i \in DOMAIN Schedule /\ Schedule[i].label \in Labels
    BY DEF Runnable, Labels
  <2>3. pos \in Nat /\ i # pos
    BY <1>2 DEF BoardInv, ScriptInv
  <2>4. Schedule[i].label # E.label
    BY <2>2, <2>3, LabelsAssumption DEF E
  <2>5. txt'[Schedule[i].label] = txt[Schedule[i].label]
    BY <2>2, <2>4, TeeCases DEF BoardInv, TxtTyped
  <2> QED
    BY <2>1, <2>5 DEF Outcome, CsvOfEntry
<1> QED
  BY <1>1, <1>2 DEF Passed

\* Every step keeps FreshInv.
LEMMA FreshStep ==
  BoardInv /\ PlaceInv /\ CsvInv /\ FreshInv /\ [Next]_vars => FreshInv'
<1> SUFFICES ASSUME BoardInv, PlaceInv, CsvInv, FreshInv, [Next]_vars PROVE FreshInv'
  OBVIOUS
<1> USE ScheduleAssumption
<1>0. /\ pos \in Nat \ {0} /\ (Busy => pos \in DOMAIN Schedule)
      /\ \A i \in Runnable : i \in Nat \ {0} /\ i \in DOMAIN Schedule
  BY DEF BoardInv, ScriptInv, Runnable
<1>1. CASE SkipOnnx
  <2>1. pos \notin Runnable
    BY <1>1 DEF SkipOnnx, Runnable, E
  <2>2. \A i \in Runnable : Passed(i)' => Passed(i)
    BY <1>0, <1>1, <2>1 DEF SkipOnnx, Passed
  <2> QED
    BY <1>1, <2>2, FreshQuiet DEF SkipOnnx, files, text, outside
<1>2. CASE Enter \/ Retry
  BY <1>0, <1>2, FreshLine DEF Enter, Retry, outside, Busy
<1>3. CASE Rejected
  <2>1. perf = "few" /\ perf' = perf
    BY <1>3 DEF Rejected, PerfRejects, Fail
  <2> QED
    BY <2>1 DEF FreshInv
<1>4. CASE NotFound \/ Refused
  <2>1. pc = "launch" /\ Busy /\ Fail
    BY <1>4 DEF NotFound, Refused, Busy
  <2>2. pos \notin Runnable
    BY <1>4, <2>1, RunnableHere DEF NotFound, Refused
  <2> QED
    BY <1>0, <2>1, <2>2, FreshLine DEF Fail
<1>5. CASE InferenceFails
  <2>1. /\ pc = "running" /\ Busy /\ Fail /\ Profile[cwd].mayFail
        /\ TeeAppend(E.label, Failed) /\ pos' = pos /\ boot' = boot
        /\ (full => boot \in scarce)
    BY <1>5 DEF InferenceFails, Busy, Fail, BoardInv, ScriptInv
  <2>2. ASSUME pos \in Runnable, boot \notin scarce PROVE Outcome(pos)'
    <3>1. cwd = DirOf(Schedule[pos])
      BY <2>1, <2>2, RunnableHere DEF E
    <3>2. E.label \in Labels /\ txt[E.label] \in Seq(Entry)
      BY <1>0, <2>1 DEF BoardInv, TxtTyped, E, Labels
    <3>3. txt'[E.label] = Append(txt[E.label], Failed)
      BY <2>1, <2>2, <3>2 DEF TeeAppend, BoardInv, TxtTyped
    <3>4. Last(txt'[E.label]) = Failed
      BY <3>2, <3>3 DEF Last
    <3> QED
      BY <2>1, <3>1, <3>4 DEF Outcome, Failed, E
  <2> QED
    BY <1>0, <2>1, <2>2, FreshLine DEF Fail
<1>6. CASE Report
  <2>1. /\ pc = "report" /\ Busy /\ pos' = pos /\ boot' = boot /\ csv' = csv
        /\ TeeAppend(E.label, Reported) /\ unsaved' = unsaved
    BY <1>6 DEF Report, Busy, outside
  <2>2. ASSUME pos \in Runnable, boot \notin scarce PROVE Outcome(pos)'
    <3>1. CsvOfEntry(pos) = Csv
      BY <2>1, <2>2, RunnableHere
    <3>2. \/ Csv \in DOMAIN csv /\ csv[Csv] = [boot |-> boot, whole |-> TRUE]
          \/ <<Csv, boot>> \in unsaved
      BY <2>1, <2>2 DEF CsvInv, Saved, Unsaved
    <3> QED
      BY <2>1, <3>1, <3>2 DEF Outcome, CsvOfEntry
  <2> QED
    BY <1>0, <1>6, <2>1, <2>2, FreshLine DEF Report, outside
<1>7. CASE Started \/ CsvNotOpened \/ Advance \/ Complete
  <2>1. /\ pc # "off" /\ pc # "saving" /\ UNCHANGED <<csv, txt, boot, perf, scarce>>
    BY <1>7 DEF Started, CsvNotOpened, Advance, Complete, files, text, outside
  <2>2. \A i \in Runnable : Passed(i)' => Passed(i)
    BY <1>0, <1>7 DEF Started, CsvNotOpened, Advance, Complete, Passed
  <2> QED
    BY <2>1, <2>2, FreshQuiet, PastGrows
<1>8. CASE OpenCsv
  <2> SUFFICES ASSUME boot \notin scarce, perf # "few", NEW i \in Runnable, Passed(i)'
               PROVE  Outcome(i)'
    BY <1>8 DEF FreshInv, Runnable, OpenCsv, outside, text
  <2>1. /\ pc = "running" /\ pc' = "saving"
        /\ UNCHANGED <<pos, cwd, txt, boot, unsaved>>
        /\ DOMAIN csv' = DOMAIN csv \union {Csv}
        /\ \A f \in DOMAIN csv \ {Csv} : csv'[f] = csv[f]
    BY <1>8 DEF OpenCsv, outside, text
  <2>2. Outcome(i) /\ Csv' = Csv /\ CsvOfEntry(i)' = CsvOfEntry(i)
    BY <2>1 DEF FreshInv, Passed, Csv, Made, E, CsvOfEntry
  <2>3. CASE CsvOfEntry(i) = Csv
    BY <2>1, <2>2, <2>3 DEF Outcome
  <2>4. CASE CsvOfEntry(i) # Csv
    BY <2>1, <2>2, <2>4 DEF Outcome
  <2> QED
    BY <2>3, <2>4
<1>9. CASE WriteCsv
  <2> SUFFICES ASSUME boot \notin scarce, perf # "few", NEW i \in Runnable, Passed(i)'
               PROVE  Outcome(i)'
    BY <1>9 DEF FreshInv, Runnable, WriteCsv, outside, text
  <2>1. /\ pc = "saving" /\ pc' = "report"
        /\ UNCHANGED <<pos, cwd, txt, boot, unsaved>>
    BY <1>9 DEF WriteCsv, outside, text
  <2>2. Outcome(i) /\ CsvOfEntry(i)' = CsvOfEntry(i)
    BY <2>1 DEF FreshInv, Passed, CsvOfEntry
  <2>3. PICK whole \in BOOLEAN : whole = TRUE /\ csv' = [csv EXCEPT ![Csv].whole = whole]
    BY <1>9 DEF WriteCsv, BoardInv, ScriptInv, text
  <2>4. /\ DOMAIN csv' = DOMAIN csv /\ Csv \in DOMAIN csv
        /\ csv'[Csv] = [boot |-> boot, whole |-> whole]
        /\ \A f \in DOMAIN csv \ {Csv} : csv'[f] = csv[f]
    <3>1. Csv \in DOMAIN csv /\ csv[Csv] = [boot |-> boot, whole |-> FALSE]
      BY <2>1 DEF CsvInv
    <3>2. csv' = [csv EXCEPT ![Csv].whole = whole]
      BY <2>3
    <3>3. csv'[Csv] = [boot |-> boot, whole |-> whole]
      BY <3>1, <3>2
    <3>4. /\ DOMAIN csv' = DOMAIN csv
          /\ \A f \in DOMAIN csv \ {Csv} : csv'[f] = csv[f]
      BY <3>2
    <3> QED
      BY <3>1, <3>3, <3>4
  <2>5. CASE CsvOfEntry(i) = Csv
    BY <2>1, <2>2, <2>3, <2>4, <2>5 DEF Outcome
  <2>6. CASE CsvOfEntry(i) # Csv
    BY <2>1, <2>2, <2>4, <2>6 DEF Outcome
  <2> QED
    BY <2>5, <2>6
<1>10. CASE PowerOn
  <2>1. pos' = 1 /\ pc' = "next"
    BY <1>10 DEF PowerOn, PlaceInv
  <2> QED
    BY <1>0, <2>1 DEF FreshInv, Passed, Runnable
<1>11. CASE Shutdown \/ PowerCut
  BY <1>11 DEF Shutdown, PowerCut, Off, FreshInv, text
<1>12. CASE FillUp
  <2>1. pc # "off" /\ UNCHANGED <<pc, pos, cwd, csv, txt, boot, perf>>
    BY <1>12 DEF FillUp, script, files, text
  <2>2. \A i \in Runnable : Passed(i)' => Passed(i)
    BY <2>1 DEF Passed
  <2> QED
    BY <2>1, <2>2, FreshQuiet, PastGrows
<1>13. CASE Stopped \/ UNCHANGED vars
  <2>1. UNCHANGED <<pc, pos, cwd, csv, txt, boot, perf, scarce, unsaved>>
    BY <1>13 DEF Stopped, vars, script, files, text, outside
  <2>2. CASE pc = "off"
    BY <2>1, <2>2 DEF FreshInv
  <2>3. CASE pc # "off"
    <3>1. \A i \in Runnable : Passed(i)' => Passed(i)
      BY <2>1 DEF Passed
    <3> QED
      BY <2>1, <2>3, <3>1, FreshQuiet
  <2> QED
    BY <2>2, <2>3
<1> QED
  BY <1>1, <1>2, <1>3, <1>4, <1>5, <1>6, <1>7, <1>8, <1>9, <1>10, <1>11, <1>12, <1>13
  DEF Next, Script, Outside

-----------------------------------------------------------------------------
\* All parts of the invariant hold at the start.
LEMMA OutcomesInit == Init => OutcomesInv
<1> SUFFICES ASSUME Init PROVE OutcomesInv
  OBVIOUS
<1>1. /\ pc = "off" /\ pos = 1 /\ cwd = Root /\ cuts = 0
      /\ \A l \in Labels : Len(txt[l]) = 0
  BY DEF Init
<1>2. PlaceInv
  BY <1>1 DEF PlaceInv, Busy, InProgram
<1>3. TraceInv /\ SavedInv
  BY <1>1 DEF TraceInv, SavedInv
<1>4. CsvInv /\ FreshInv
  BY <1>1 DEF CsvInv, FreshInv
<1> QED
  BY <1>2, <1>3, <1>4 DEF OutcomesInv

\* They hold at all times.
LEMMA OutcomesAlways == Spec => [](BoardInv /\ OutcomesInv)
<1>1. Init => OutcomesInv
  BY OutcomesInit
<1>2. BoardInv /\ BoardInv' /\ OutcomesInv /\ [Next]_vars => OutcomesInv'
  BY PlaceStep, TraceStep, CsvStep, SavedStep, FreshStep DEF OutcomesInv
<1> QED
  BY <1>1, <1>2, BoardAlways, PTL DEF Spec

-----------------------------------------------------------------------------
(* What the results promise.                                               *)

\* Unless the power was cut, a report in a text file means that its program
\* left its CSV in that campaign or a later one, or could not open it:
\* whatever failed, and however many campaigns and shutdowns there were.
THEOREM ReportHasCsv == Spec => []ReportAfterCsv
<1>1. BoardInv /\ OutcomesInv => ReportAfterCsv
  <2> SUFFICES ASSUME BoardInv, SavedInv, cuts = 0, NEW l \in Labels, NEW r \in ReportsOf(l)
               PROVE  HasCsv(r)
    BY DEF OutcomesInv, ReportAfterCsv, HasCsv
  <2>1. PICK j \in 1 .. Len(txt[l]) : r = txt[l][j] /\ txt[l][j].what = "report"
    BY DEF ReportsOf, BoardInv, TxtTyped
  <2> QED
    BY <2>1 DEF SavedInv
<1> QED
  BY <1>1, OutcomesAlways, PTL

\* When the script ends and there was space all the time, every program that
\* could run has left the complete CSV of this campaign, or its library
\* reported an error in it, or the CSV could not be opened: whatever failed
\* before it and whatever earlier campaigns and cuts left.
THEOREM CampaignIsFresh == Spec => []FreshAtEnd
<1>1. BoardInv /\ OutcomesInv => FreshAtEnd
  <2> SUFFICES ASSUME BoardInv, PlaceInv, FreshInv, pc = "complete", boot \notin scarce,
                      perf # "few", NEW i \in Runnable
               PROVE  \/ /\ CsvOfEntry(i) \in DOMAIN csv
                         /\ csv[CsvOfEntry(i)] = [boot |-> boot, whole |-> TRUE]
                      \/ /\ Profile[DirOf(Schedule[i])].mayFail
                         /\ Last(txt[Schedule[i].label]) = [what |-> "failed", boot |-> boot]
                      \/ <<CsvOfEntry(i), boot>> \in unsaved
    BY DEF OutcomesInv, FreshAtEnd
  <2>1. i < pos
    BY ScheduleAssumption DEF PlaceInv, Runnable, BoardInv, ScriptInv
  <2> QED
    BY <2>1 DEF FreshInv, Passed, Outcome
<1> QED
  BY <1>1, OutcomesAlways, PTL

\* A report is in a text file only if its program may run when the script has
\* come to the entry of that label.
LEMMA ReportsTraced ==
  ASSUME BoardInv, OutcomesInv, NEW l \in Labels, NEW r \in ReportsOf(l)
  PROVE  Traced(l, r)
<1>1. PICK j \in 1 .. Len(txt[l]) : r = txt[l][j] /\ txt[l][j].what = "report"
  BY DEF ReportsOf, BoardInv, TxtTyped
<1> QED
  BY <1>1 DEF OutcomesInv, TraceInv

\* If the label of every call names what the script can start there, which can
\* be told from the schedule and the image alone, then the text files hold what
\* their names say, after any campaigns, cuts and errors.
THEOREM NamesWhatRan ==
  ASSUME LabelsFit
  PROVE  Spec => []TxtNamesWhatRan
<1>1. BoardInv /\ OutcomesInv => TxtNamesWhatRan
  <2> SUFFICES ASSUME BoardInv, OutcomesInv, NEW l \in Labels, NEW r \in ReportsOf(l)
               PROVE  Describes(r) = l
    BY DEF TxtNamesWhatRan
  <2>1. PICK i \in DOMAIN Schedule, d \in InstalledDirs :
          Schedule[i].label = l /\ MayRun(i, d) /\ IsReport(r, i, d)
    BY ReportsTraced DEF Traced
  <2> DEFINE told == [by |-> Program(d[1], d[2], Schedule[i].exec),
                      made |-> LabelOf(Profile[d], Schedule[i].exec, Schedule[i].args)]
  <2>2. Describes(told) = l
    BY <2>1, LabelsFit DEF LabelsFit
  <2>3. r.by = told.by /\ r.made = told.made
    BY <2>1 DEF IsReport
  <2> HIDE DEF told
  <2> QED
    BY <2>2, <2>3 DEF Describes
<1> QED
  BY <1>1, OutcomesAlways, PTL

\* If the arguments of every call leave the number of warm-up inferences alone,
\* no report is of a program that was warmed up otherwise.
THEOREM WarmedUp ==
  ASSUME WarmupsFit
  PROVE  Spec => []WarmedUpOthers
<1>1. BoardInv /\ OutcomesInv => WarmedUpOthers
  <2> SUFFICES ASSUME BoardInv, OutcomesInv, NEW l \in Labels, NEW r \in ReportsOf(l),
                      DirOf(r.by) # <<"Genann", "Iris">>
               PROVE  r.warmups = NWarmup
    BY DEF WarmedUpOthers
  <2>1. PICK i \in DOMAIN Schedule, d \in InstalledDirs :
          Schedule[i].label = l /\ MayRun(i, d) /\ IsReport(r, i, d)
    BY ReportsTraced DEF Traced
  <2>2. DirOf(r.by) = d
    <3>1. PICK fw, bench : d = <<fw, bench>>
      BY DEF InstalledDirs, DirOf
    <3>2. r.by.fw = d[1] /\ r.by.bench = d[2]
      BY <2>1 DEF IsReport, Program
    <3> QED
      BY <3>1, <3>2 DEF DirOf
  <2> QED
    BY <2>1, <2>2, WarmupsFit DEF WarmupsFit, IsReport
<1> QED
  BY <1>1, OutcomesAlways, PTL
=============================================================================
