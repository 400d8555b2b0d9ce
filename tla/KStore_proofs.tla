---------------------------- MODULE KStore_proofs ----------------------------
(***************************************************************************)
(* What follows from the order in which the files of a configuration are   *)
(* written, for any names, values and contents, any number of programs and *)
(* edits, and a failure at any step.                                       *)
(***************************************************************************)
EXTENDS KStore, TLAPS

-----------------------------------------------------------------------------
(* The inductive invariant.                                                *)

InWrite == [step : {"backup", "install"}, ours : BOOLEAN, lines : Contents, torn : BOOLEAN]
InSplit == [step : {"header", "auto"}, values : Values]
ProgTyped == prog \in {Off, Works} \union InWrite \union InSplit
Typed ==
  /\ ProgTyped /\ faults \in 0..1 /\ touched \subseteq Names
  /\ header \in Values /\ auto \in Values

\* From the touching on, every name that gets another value in auto.conf is
\* touched; and the header has the new values before auto.conf has.
AboutToSplit ==
  prog \in InSplit => /\ Differing(prog.values) \subseteq touched
                      /\ At("auto") => header = prog.values
\* A file is cut short only by the one failure there is; when it takes its
\* place, the old one has been renamed, since that did not fail too.
CutOnce ==
  prog \in InWrite => /\ prog.torn => faults = 0
                      /\ At("install") /\ prog.ours /\ prog.torn => config = Absent

StoreInv == Typed /\ AboutToSplit /\ CutOnce

-----------------------------------------------------------------------------
(* Every step keeps it.                                                    *)

\* What a program is at shows in what it holds.
LEMMA Programs ==
  /\ Off \notin InWrite \union InSplit /\ Works \notin InWrite \union InSplit /\ Off # Works
  /\ \A p \in InWrite : p \notin InSplit /\ p.step \notin {"off", "works", "header", "auto"}
  /\ \A p \in InSplit : p.step \notin {"off", "works", "backup", "install"}
  /\ Off.step = "off" /\ Works.step = "works"
BY DEF Off, Works, InWrite, InSplit

\* The program is between two files.
LEMMA Between ==
  ASSUME StoreInv, prog' \in {Off, Works}, faults' \in 0..1, UNCHANGED splitFiles,
         touched' \subseteq Names
  PROVE  StoreInv'
<1>1. prog' \notin InWrite /\ prog' \notin InSplit
  BY Programs
<1> QED
  BY <1>1 DEF StoreInv, Typed, ProgTyped, AboutToSplit, CutOnce, splitFiles

\* A file is written, or about to take its place.
LEMMA Writes ==
  ASSUME StoreInv, prog' \in InWrite, faults' \in 0..1, UNCHANGED <<splitFiles, touched>>, CutOnce'
  PROVE  StoreInv'
<1>1. prog' \notin InSplit
  BY Programs
<1> QED
  BY <1>1 DEF StoreInv, Typed, ProgTyped, AboutToSplit, splitFiles

LEMMA StoreStep == ASSUME StoreInv, [StoreNext]_storeVars PROVE StoreInv'
<1>0. /\ faults \in 0..1 /\ touched \subseteq Names /\ prog \in {Off, Works} \union InWrite \union InSplit
      /\ header \in Values /\ auto \in Values
  BY DEF StoreInv, Typed, ProgTyped
<1>1. CASE Start \/ Finish
  BY <1>0, <1>1, Between DEF Start, Finish
<1>2. CASE WriteTmp
  <2>1. prog' \in InWrite /\ At("backup")' /\ ~At("install")'
    BY <1>2 DEF WriteTmp, Writing, InWrite, At
  <2>2. faults' \in 0..1 /\ (prog'.torn => faults' = 0)
    <3>1. CASE Succeeds /\ prog' \in Writing("backup", FALSE)
      BY <1>0, <3>1 DEF Succeeds, Writing
    <3>2. CASE Fails
      BY <1>0, <3>2 DEF Fails
    <3> QED
      BY <1>2, <3>1, <3>2 DEF WriteTmp
  <2> QED
    BY <1>2, <2>1, <2>2, Writes DEF WriteTmp, CutOnce
<1>3. CASE Backup
  <2>1. prog \in InWrite
    BY <1>0, <1>3, Programs DEF Backup, At
  <2>2. /\ prog' \in InWrite /\ prog'.ours = prog.ours /\ prog'.torn = prog.torn
    BY <1>3, <2>1 DEF Backup, InWrite
  <2>3. faults' \in 0..1 /\ (prog.torn => faults = 0 /\ faults' = 0 /\ (prog.ours => config' = Absent))
    <3>1. prog.torn => faults = 0
      BY <2>1 DEF StoreInv, CutOnce
    <3> QED
      BY <1>0, <1>3, <3>1 DEF Backup, Succeeds, Fails, confFiles
  <2> QED
    BY <1>3, <2>1, <2>2, <2>3, Writes DEF Backup, CutOnce
<1>4. CASE Install
  BY <1>0, <1>4, Between DEF Install
<1>5. CASE Touch
  <2>1. CASE Fails /\ prog' = Off
    BY <1>0, <1>5, <2>1, Between DEF Touch, Fails
  <2>2. CASE Succeeds /\ prog' \in Splitting /\ Differing(prog'.values) \subseteq touched'
    <3>1. prog' \in InSplit /\ prog' \notin InWrite /\ ~At("auto")'
      BY <2>2, Programs DEF Splitting, InSplit, At
    <3>2. Typed'
      BY <1>0, <1>5, <2>2, <3>1 DEF Touch, Succeeds, splitFiles, Typed, ProgTyped
    <3>3. AboutToSplit'
      BY <1>5, <2>2, <3>1 DEF Touch, AboutToSplit, Differing, splitFiles
    <3> QED
      BY <3>1, <3>2, <3>3 DEF StoreInv, CutOnce
  <2> QED
    BY <1>5, <2>1, <2>2 DEF Touch
<1>6. CASE InstallHeader
  <2>1. prog \in InSplit
    BY <1>0, <1>6, Programs DEF InstallHeader, At
  <2>2. prog' \in InSplit /\ prog'.values = prog.values /\ prog' \notin InWrite
    BY <1>6, <2>1, Programs DEF InstallHeader, InSplit
  <2>3. Typed' /\ header' = prog'.values
    BY <1>0, <1>6, <2>1, <2>2 DEF InstallHeader, Typed, ProgTyped, InSplit
  <2>4. AboutToSplit'
    BY <1>6, <2>1, <2>2, <2>3 DEF InstallHeader, AboutToSplit, Differing, StoreInv
  <2> QED
    BY <2>2, <2>3, <2>4 DEF StoreInv, CutOnce
<1>7. CASE InstallAuto
  <2>1. prog.values \in Values
    BY <1>0, <1>7, Programs DEF InstallAuto, At, InSplit
  <2>2. prog' = Off /\ prog' \notin InSplit /\ prog' \notin InWrite
    BY <1>7, Programs DEF InstallAuto
  <2>3. Typed'
    BY <1>0, <1>7, <2>1, <2>2 DEF InstallAuto, Typed, ProgTyped
  <2> QED
    BY <2>2, <2>3 DEF StoreInv, AboutToSplit, CutOnce
<1>8. CASE Failure
  BY <1>0, <1>8, Between DEF Failure, Fails
<1>9. CASE Edit
  BY <1>0, <1>9, Between DEF Edit
<1>10. CASE UNCHANGED storeVars
  BY <1>10 DEF storeVars, confFiles, splitFiles, StoreInv, Typed, ProgTyped,
               AboutToSplit, Differing, CutOnce, At
<1> QED
  BY <1>1, <1>2, <1>3, <1>4, <1>5, <1>6, <1>7, <1>8, <1>9, <1>10 DEF StoreNext

-----------------------------------------------------------------------------
(* The theorems.                                                           *)

LEMMA AlwaysStored == StoreSpec => []StoreInv
<1>1. StoreInit => StoreInv
  <2> SUFFICES ASSUME StoreInit PROVE StoreInv
    OBVIOUS
  <2>1. prog \notin InWrite /\ prog \notin InSplit
    BY Programs DEF StoreInit
  <2> QED
    BY <2>1 DEF StoreInit, StoreInv, Typed, ProgTyped, AboutToSplit, CutOnce, Values
<1>2. StoreInv /\ [StoreNext]_storeVars => StoreInv'
  BY StoreStep
<1> QED
  BY <1>1, <1>2, PTL DEF StoreSpec

\* Whatever fails, and wherever programs end, auto.conf takes a new content only
\* once all steps before were done for it.
THEOREM AlwaysMarked == StoreSpec => CompletionMarked
<1> DEFINE Marks == auto' # auto =>
                      /\ header = auto'
                      /\ \A n \in Names : auto'[n] # auto[n] => n \in touched
<1>1. ASSUME StoreInv, StoreNext PROVE Marks
  <2>1. CASE InstallAuto
    <3>1. prog \in InSplit
      BY <1>1, <2>1, Programs DEF InstallAuto, At, StoreInv, Typed, ProgTyped
    <3>2. Differing(prog.values) \subseteq touched /\ header = prog.values
      BY <1>1, <2>1, <3>1 DEF InstallAuto, StoreInv, AboutToSplit
    <3> QED
      BY <2>1, <3>2 DEF InstallAuto, Differing
  <2>2. CASE ~InstallAuto
    BY <1>1, <2>2 DEF StoreNext, Start, Finish, WriteTmp, Backup, Install, Touch, InstallHeader,
                      Failure, Edit, splitFiles
  <2> QED
    BY <2>1, <2>2
<1>2. ASSUME UNCHANGED storeVars PROVE Marks
  BY <1>2 DEF storeVars, splitFiles
<1>3. StoreInv /\ [StoreNext]_storeVars => [Marks]_storeVars
  BY <1>1, <1>2
<1> QED
  BY <1>3, AlwaysStored, PTL DEF StoreSpec, CompletionMarked

\* What was configured is not lost by one failure.
THEOREM ConfigurationKept == StoreSpec => NeverLost
<1> DEFINE Keeps == prog # Off /\ config # Absent /\ config' # config =>
                      old' = config \/ (config' = prog.lines /\ ~prog.torn)
<1>1. ASSUME StoreInv, StoreNext PROVE Keeps
  <2>1. prog \in {Off, Works} \union InWrite \union InSplit
    BY <1>1 DEF StoreInv, Typed, ProgTyped
  <2>2. CASE Backup
    BY <2>2 DEF Backup, confFiles
  <2>3. CASE Install
    <3>1. prog \in InWrite
      BY <2>1, <2>3, Programs DEF Install, At
    <3> QED
      BY <1>1, <2>3, <3>1 DEF Install, StoreInv, CutOnce, InWrite
  <2>4. CASE Start \/ Finish \/ WriteTmp \/ Touch \/ InstallHeader \/ InstallAuto \/ Failure
    BY <2>4 DEF Start, Finish, WriteTmp, Touch, InstallHeader, InstallAuto, Failure, confFiles
  <2>5. CASE Edit
    BY <2>5 DEF Edit
  <2> QED
    BY <1>1, <2>2, <2>3, <2>4, <2>5 DEF StoreNext
<1>2. ASSUME UNCHANGED storeVars PROVE Keeps
  BY <1>2 DEF storeVars, confFiles
<1>3. StoreInv /\ [StoreNext]_storeVars => [Keeps]_storeVars
  BY <1>1, <1>2
<1> QED
  BY <1>3, AlwaysStored, PTL DEF StoreSpec, NeverLost
=============================================================================
