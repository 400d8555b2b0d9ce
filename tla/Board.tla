------------------------------- MODULE Board --------------------------------
(***************************************************************************)
(* A board from power-on to power-off: the start script runs the whole     *)
(* schedule at every boot, each entry of it                                *)
(*                                                                         *)
(*   cd <directory>; echo header >> <label>.txt;                           *)
(*   perf stat ./<program> <arguments> | tee -a <label>.txt                *)
(*                                                                         *)
(* and the program leaves latencies/latencies_<its label>.csv in the       *)
(* directory it was started in.  The script never stops at an error, the   *)
(* text files grow from boot to boot, the CSVs are written anew, and the   *)
(* power may go at any point, taking with it what the kernel has not yet   *)
(* written to the card.                                                    *)
(*                                                                         *)
(* Left out: the contents of the rows (PerfCounters), the console.         *)
(***************************************************************************)
EXTENDS Calls, FiniteSets

CONSTANTS
  Unusable,   \* <<framework, benchmark, file>>: files no program can load
  Perfs,      \* what perf may turn out to be on this image, see perf
  Fallback,   \* run_benchmarks_riscv.sh, which has a second event list
  MayFill,    \* the card may run out of space
  MaxBoots,   \* bound on how often the board is started
  MaxCuts,    \* on how often the power is cut
  MaxTroubles \* and on everything that goes wrong, see Troubles

VARIABLES
  pc,       \* where the script is, "off" without power
  pos,      \* the entry of the schedule it has reached
  cwd,      \* its directory: <<framework, benchmark>>
  retried,  \* it is in the retry with PERF_EVENTS_FALLBACK
  tee,      \* the exit status of the last tee, TRUE for success
  boot,     \* how many times the board was started
  perf,     \* "absent", "full", or "few": it rejects the full event list
  txt,      \* txt[label]: the entries appended to <label>.txt
  csv,      \* the CSVs: <<directory, label>> to what was last written
  onCard,   \* onCard[label]: how many entries are safely on the card
  csvOnCard,   \* the CSVs as they are on the card
  full,     \* no space is left on the card
  errors,   \* how often a library failed, a CSV was not opened, the card got full
  fits,     \* how often a full card still took something of a line
  cuts,     \* how often the power was cut
  \* What the properties need to know of the past.
  scarce,   \* the boots during which the card was full for a time
  unsaved   \* the CSVs that could not be opened, each with the boot

script == <<pc, pos, cwd, retried, tee, boot>>
text == <<txt, fits>>
files == <<text, csv, onCard, csvOnCard>>
outside == <<perf, full, errors, cuts, scarce, unsaved>>
vars == <<script, files, outside>>

E == Schedule[pos]

\* ./<exec> in the directory the script is in, and what it is to do.
Here == Program(cwd[1], cwd[2], E.exec)
Made == LabelOf(Profile[cwd], E.exec, E.args)
Csv == <<cwd, Made>>

\* An entry of a text file.
Header == [what |-> "header", boot |-> boot]
Failed == [what |-> "failed", boot |-> boot]
Notice == [what |-> "notice", boot |-> boot]
Reported == [what |-> "report", boot |-> boot, by |-> Here, made |-> Made,
             warmups |-> Warmups(Profile[cwd], E.args)]

\* What is left of a line that did not fit as a whole.
Torn == [what |-> "torn", boot |-> boot]

\* What may go wrong has one bound for all of it.
Troubles == errors + fits + cuts

\* (mutant) tee without -a.
TeeOverwrites(l, line) ==
  /\ txt' = IF full THEN txt ELSE [txt EXCEPT ![l] = <<line>>]
  /\ tee' = ~full /\ fits' = fits

(***************************************************************************)
(* tee -a.  On a full card a line is lost, unless the last block of the    *)
(* file has room for a part of it or for all; tee fails if anything of the *)
(* line is missing.                                                        *)
(***************************************************************************)
TeeAppend(l, line) ==
  \/ /\ ~full
     /\ txt' = [txt EXCEPT ![l] = Append(@, line)]
     /\ tee' = TRUE /\ fits' = fits
  \/ /\ full
     /\ txt' = txt
     /\ tee' = FALSE /\ fits' = fits
  \/ /\ full /\ Troubles < MaxTroubles
     /\ \E put \in {line, Torn} :
          txt' = [txt EXCEPT ![l] = Append(@, put)] /\ tee' = (put = line)
     /\ fits' = fits + 1

Init ==
  /\ pc = "off" /\ pos = 1 /\ cwd = Root /\ retried = FALSE /\ tee = TRUE
  /\ boot = 0 /\ perf \in Perfs
  /\ txt = [l \in Labels |-> <<>>]
  /\ csv = <<>>
  /\ onCard = [l \in Labels |-> 0]
  /\ csvOnCard = <<>>
  /\ full = FALSE
  /\ errors = 0 /\ cuts = 0 /\ fits = 0
  /\ scarce = {} /\ unsaved = {}

PowerOn ==
  /\ pc = "off" /\ boot < MaxBoots
  /\ boot' = boot + 1
  /\ scarce' = IF full THEN scarce \union {boot + 1} ELSE scarce
  /\ pc' = "next"
  /\ UNCHANGED <<pos, cwd, retried, tee, files, perf, full, errors, cuts, unsaved>>

\* The calls inside the tests of HAVE_ONNX.
SkipOnnx ==
  /\ pc = "next" /\ pos <= Len(Schedule) /\ E.onnx /\ ~HaveOnnx
  /\ pos' = pos + 1
  /\ UNCHANGED <<pc, cwd, retried, tee, boot, files, outside>>

\* (mutant) the header goes to the file of the entry before.
EnterLate ==
  /\ pc = "next" /\ pos <= Len(Schedule) /\ (E.onnx => HaveOnnx)
  /\ cwd' = IF DirOf(E) \in InstalledDirs THEN DirOf(E) ELSE cwd
  /\ TeeAppend(Schedule[IF pos > 1 THEN pos - 1 ELSE 1].label, Header)
  /\ pc' = "launch" /\ retried' = FALSE
  /\ UNCHANGED <<pos, boot, csv, onCard, csvOnCard, outside>>

\* cd and the header.  When cd fails the script stays where it was.
Enter ==
  /\ pc = "next" /\ pos <= Len(Schedule) /\ (E.onnx => HaveOnnx)
  /\ cwd' = IF DirOf(E) \in InstalledDirs THEN DirOf(E) ELSE cwd
  /\ TeeAppend(E.label, Header)
  /\ pc' = "launch" /\ retried' = FALSE
  /\ UNCHANGED <<pos, boot, csv, onCard, csvOnCard, outside>>

(***************************************************************************)
(* The left side of the pipe.  Until the program measures, it may end      *)
(* in several ways that leave a line of text and no CSV.                   *)
(***************************************************************************)
PerfRejects == perf = "few" /\ ~retried
CannotLoad ==
  \E k \in DOMAIN Profile[cwd].loads :
    <<cwd[1], cwd[2], Profile[cwd].loads[k]>> \in Unusable

Fail ==
  /\ TeeAppend(E.label, Failed)
  /\ pc' = "status"
  /\ UNCHANGED <<pos, cwd, retried, boot, csv, onCard, csvOnCard, perf, full,
                 cuts, scarce, unsaved>>

\* perf stat refuses the event list: the program is not started.
Rejected == pc = "launch" /\ PerfRejects /\ Fail /\ UNCHANGED errors

NotFound ==
  /\ pc = "launch" /\ ~PerfRejects /\ Here \notin Installed
  /\ Fail /\ UNCHANGED errors

\* Usage, or a file main cannot use: exit 1.
Refused ==
  /\ pc = "launch" /\ ~PerfRejects /\ Here \in Installed
  /\ Usage(Profile[cwd], E.args) \/ CannotLoad
  /\ Fail /\ UNCHANGED errors

Started ==
  /\ pc = "launch" /\ ~PerfRejects /\ Here \in Installed
  /\ ~Usage(Profile[cwd], E.args) /\ ~CannotLoad
  /\ pc' = "running"
  /\ UNCHANGED <<pos, cwd, retried, tee, boot, files, outside>>

\* (mutant) an error leaves the measured loop, and main goes on to report.
InferenceStops ==
  /\ pc = "running" /\ Profile[cwd].mayFail /\ Troubles < MaxTroubles
  /\ errors' = errors + 1
  /\ pc' = "report"
  /\ UNCHANGED <<pos, cwd, retried, tee, boot, files, perf, full, cuts, scarce, unsaved>>

\* CHECK_ORT in the warm-up or in the measured loop: exit 1.
InferenceFails ==
  /\ pc = "running" /\ Profile[cwd].mayFail /\ Troubles < MaxTroubles
  /\ errors' = errors + 1
  /\ Fail

(***************************************************************************)
(* The inferences done, save_csv opens the file, writes the rows and       *)
(* closes it.  Opening empties the file, which may give a full card some   *)
(* space again.  save_csv returns silently when the file cannot be opened, *)
(* for want of space or for another reason, and does not notice rows that  *)
(* find no space.  Then main reports in either case, and what the program  *)
(* printed reaches tee when it ends.                                       *)
(***************************************************************************)
OpenCsv ==
  /\ pc = "running"
  /\ csv' = [f \in DOMAIN csv \union {Csv} |->
               IF f = Csv THEN [boot |-> boot, whole |-> FALSE] ELSE csv[f]]
  /\ full' \in IF Csv \in DOMAIN csv THEN {full, FALSE} ELSE {full}
  /\ pc' = "saving"
  /\ UNCHANGED <<pos, cwd, retried, tee, boot, text, onCard, csvOnCard, perf,
                 errors, cuts, scarce, unsaved>>

CsvNotOpened ==
  /\ pc = "running"
  /\ \/ full /\ Csv \notin DOMAIN csv /\ UNCHANGED errors
     \/ Troubles < MaxTroubles /\ errors' = errors + 1
  /\ unsaved' = unsaved \union {<<Csv, boot>>}
  /\ pc' = "report"
  /\ UNCHANGED <<pos, cwd, retried, tee, boot, files, perf, full, cuts, scarce>>

WriteCsv ==
  /\ pc = "saving"
  /\ \E whole \in IF full THEN BOOLEAN ELSE {TRUE} :
       csv' = [csv EXCEPT ![Csv].whole = whole]
  /\ pc' = "report"
  /\ UNCHANGED <<pos, cwd, retried, tee, boot, text, onCard, csvOnCard, outside>>

Report ==
  /\ pc = "report"
  /\ TeeAppend(E.label, Reported)
  /\ pc' = "status"
  /\ UNCHANGED <<pos, cwd, retried, boot, csv, onCard, csvOnCard, outside>>

(***************************************************************************)
(* "if ! perf ... | tee": the status of a pipe is that of its last         *)
(* command, so the retry depends on tee alone.                             *)
(***************************************************************************)
WantsRetry == Fallback /\ perf # "absent" /\ ~retried /\ ~tee

\* (mutant) the retry is not remembered: the test is made again after it.
RetryForever ==
  /\ pc = "status" /\ WantsRetry
  /\ pc' = "launch"
  /\ UNCHANGED <<pos, cwd, retried, tee, boot, files, outside>>

\* The notice of it goes through tee as well.
Retry ==
  /\ pc = "status" /\ WantsRetry
  /\ TeeAppend(E.label, Notice)
  /\ retried' = TRUE /\ pc' = "launch"
  /\ UNCHANGED <<pos, cwd, boot, csv, onCard, csvOnCard, outside>>

\* (mutant) an entry that went wrong ends the loop body (set -e in a loop).
AdvanceTwo ==
  /\ pc = "status" /\ ~WantsRetry
  /\ pos' = IF txt[E.label] # <<>> /\ Last(txt[E.label]).what = "failed"
            THEN pos + 2 ELSE pos + 1
  /\ pc' = "next"
  /\ UNCHANGED <<cwd, retried, tee, boot, files, outside>>

Advance ==
  /\ pc = "status" /\ ~WantsRetry
  /\ pos' = pos + 1 /\ pc' = "next"
  /\ UNCHANGED <<cwd, retried, tee, boot, files, outside>>

Complete ==
  /\ pc = "next" /\ pos > Len(Schedule)
  /\ pc' = "complete"
  /\ UNCHANGED <<pos, cwd, retried, tee, boot, files, outside>>

(***************************************************************************)
(* From outside.                                                           *)
(***************************************************************************)
Written == [l \in Labels |-> Len(txt[l])]

FillUp ==
  /\ MayFill /\ pc # "off" /\ ~full /\ Troubles < MaxTroubles
  /\ errors' = errors + 1
  /\ full' = TRUE
  /\ scarce' = scarce \union {boot}
  /\ UNCHANGED <<script, files, perf, cuts, unsaved>>

Longest == Max({Len(txt[l]) : l \in Labels})

\* What the script knew is gone.
Off ==
  /\ pc' = "off" /\ pos' = 1 /\ cwd' = Root /\ retried' = FALSE /\ tee' = TRUE
  /\ UNCHANGED boot

\* The user shuts the board down: everything reaches the card.
Shutdown ==
  /\ pc = "complete"
  /\ onCard' = Written /\ csvOnCard' = csv
  /\ Off
  /\ UNCHANGED <<text, csv, outside>>

\* What a cut may leave of the CSVs: each as it was on the card, as it was
\* last written, or cut short.
Changed == {f \in DOMAIN csv : f \notin DOMAIN csvOnCard \/ csvOnCard[f] # csv[f]}
Leftovers ==
  {[f \in DOMAIN csv \ (old \ DOMAIN csvOnCard) |->
      IF f \in old THEN csvOnCard[f]
      ELSE IF f \in short THEN [csv[f] EXCEPT !.whole = FALSE] ELSE csv[f]] :
   old \in SUBSET Changed, short \in SUBSET Changed}

\* The power goes: of what was appended to a text file since it was last
\* known to be on the card, the kernel has written none, some or all, and
\* what is lost leaves space.
PowerCut ==
  /\ pc # "off" /\ cuts < MaxCuts /\ Troubles < MaxTroubles
  /\ cuts' = cuts + 1
  /\ Off
  /\ \E kept \in [Labels -> 0 .. Longest] :
       /\ \A l \in Labels : onCard[l] <= kept[l] /\ kept[l] <= Len(txt[l])
       /\ txt' = [l \in Labels |-> SubSeq(txt[l], 1, kept[l])]
  /\ csv' \in Leftovers
  /\ onCard' = [l \in Labels |-> Len(txt'[l])]
  /\ csvOnCard' = csv'
  /\ full' \in {full, FALSE}
  /\ UNCHANGED <<perf, errors, fits, scarce, unsaved>>

Stopped == pc = "off" /\ boot = MaxBoots /\ UNCHANGED vars

Script ==
  \/ SkipOnnx \/ Enter
  \/ Rejected \/ NotFound \/ Refused \/ Started
  \/ InferenceFails \/ OpenCsv \/ CsvNotOpened \/ WriteCsv \/ Report
  \/ Retry \/ Advance \/ Complete

Outside == PowerOn \/ FillUp \/ Shutdown \/ PowerCut

Next == Script \/ Outside \/ Stopped

\* The script runs as long as there is power.
Spec == Init /\ [][Next]_vars /\ WF_vars(Script)

-----------------------------------------------------------------------------
(* Properties.                                                             *)

ReportsOf(l) == {txt[l][i] : i \in {j \in DOMAIN txt[l] : txt[l][j].what = "report"}}
CsvOf(r) == <<DirOf(r.by), r.made>>

\* <label>.txt holds reports of the framework, benchmark, variant and
\* precision that the label names (the directory, the program, the arguments
\* and the label are four independent strings of each call of run_perf).
TxtNamesWhatRan == \A l \in Labels : \A r \in ReportsOf(l) : Describes(r) = l

\* A text file is a sequence of campaigns: boots follow each other, and an
\* outcome belongs to a header of its own boot, whatever was lost between.
\* Only in a campaign that met a full card may the header be missing: space
\* that a CSV written anew gives back lets later lines through.
TxtWellFormed ==
  \A l \in Labels :
    /\ \A i \in 2 .. Len(txt[l]) : txt[l][i - 1].boot <= txt[l][i].boot
    /\ \A i \in DOMAIN txt[l] :
         txt[l][i].what # "header" =>
           \/ txt[l][i].boot \in scarce
           \/ \E j \in 1 .. i - 1 : /\ txt[l][j].what = "header"
                                    /\ txt[l][j].boot = txt[l][i].boot

\* Unless the power was cut, a report means its program left its CSV, in that
\* campaign or a later one, or could not open it: no other failure parts the
\* two halves of a result.
ReportAfterCsv ==
  cuts = 0 =>
    \A l \in Labels : \A r \in ReportsOf(l) :
      \/ CsvOf(r) \in DOMAIN csv /\ csv[CsvOf(r)].boot >= r.boot
      \/ <<CsvOf(r), r.boot>> \in unsaved

\* The entries whose program has what it needs, as if cd never failed.
Runnable ==
  {i \in DOMAIN Schedule :
     LET e == Schedule[i]
         p == Profile[DirOf(e)]
     IN  /\ Program(e.fw, e.bench, e.exec) \in Installed
         /\ e.onnx => HaveOnnx
         /\ ~Usage(p, e.args)
         /\ \A k \in DOMAIN p.loads : <<e.fw, e.bench, p.loads[k]>> \notin Unusable}

CsvOfEntry(i) ==
  LET e == Schedule[i]
  IN  <<DirOf(e), LabelOf(Profile[DirOf(e)], e.exec, e.args)>>

\* When the script ends and there was space all the time, every program that
\* could run has left the CSV of this campaign, complete, unless its library
\* reported an error or the CSV could not be opened: an entry that fails, a
\* CSV a power cut damaged or a leftover of an earlier campaign changes
\* nothing.
FreshAtEnd ==
  pc = "complete" /\ boot \notin scarce /\ perf # "few" =>
    \A i \in Runnable :
      \/ /\ CsvOfEntry(i) \in DOMAIN csv
         /\ csv[CsvOfEntry(i)] = [boot |-> boot, whole |-> TRUE]
      \/ /\ Profile[DirOf(Schedule[i])].mayFail
         /\ Last(txt[Schedule[i].label]) = [what |-> "failed", boot |-> boot]
      \/ <<CsvOfEntry(i), boot>> \in unsaved

\* What is on the card in a text file is never lost or changed.
OnCardKept ==
  [][\A l \in Labels : IsPrefix(SubSeq(txt[l], 1, onCard[l]), txt'[l])]_vars

\* Every campaign ends, whatever fails in it, as long as there is power.
CampaignEnds == (pc # "off") ~> (pc \in {"complete", "off"})

\* Every measured loop but that of Genann's Iris was preceded by the default
\* number of warm-up inferences.  (That program reads the activation which the
\* runners give it as a number of warm-ups, 0.)
WarmedUpOthers ==
  \A l \in Labels : \A r \in ReportsOf(l) :
    DirOf(r.by) # <<"Genann", "Iris">> => r.warmups = NWarmup

\* With the second event list, a perf that rejects the first one does not
\* keep the programs from being measured.
FallbackMeasures ==
  pc = "complete" /\ Fallback /\ perf = "few" /\ boot \notin scarce =>
    \A i \in Runnable : \E r \in ReportsOf(Schedule[i].label) : r.boot = boot
=============================================================================
