------------------------------- MODULE KStore -------------------------------
(***************************************************************************)
(* What the writing of a configuration promises to the files, whatever is  *)
(* in them: conf_write puts a file in the place of the one that is there,  *)
(* which it keeps as .config.old; conf_write_autoconf first touches the    *)
(* files of the names that changed, then replaces the header, and last     *)
(* auto.conf, from which the next program tells what changed and make that *)
(* all was done.  Each step may fail, and the program may end after each.  *)
(*                                                                         *)
(* KConf and KFront, where the contents are calculated, implement it.      *)
(***************************************************************************)
EXTENDS Integers

CONSTANTS
  Names,    \* all names that symbols have or had
  Texts,    \* their values in auto.conf and the header
  Unset,    \* the value of a name that is not set
  Contents, \* what .config may hold
  Absent    \* stands for a file that is not there

VARIABLES
  config, old,  \* .config and .config.old
  header, auto, \* autoconf.h and auto.conf: the value of each name
  touched,      \* the names whose files were touched since auto.conf was replaced
  prog,         \* what the program is at, and what it is about to put there
  faults        \* how many steps may still fail

storeVars == <<config, old, header, auto, touched, prog, faults>>
confFiles == <<config, old>>
splitFiles == <<header, auto>>

Values == [Names -> Texts \union {Unset}]
Off == [step |-> "off"]
Works == [step |-> "works"]
\* In conf_write: the file that is written, ours or another one, and its lines.
Writing(step, torn) == [step : {step}, ours : BOOLEAN, lines : Contents, torn : {torn}]
\* In conf_write_autoconf: the values that are written.
Splitting == [step : {"header"}, values : Values]
At(step) == prog.step = step

StoreInit ==
  /\ config \in Contents \union {Absent} /\ old = Absent
  /\ header = [n \in Names |-> Unset] /\ auto = header
  /\ touched = {} /\ prog = Off /\ faults \in 0..1

Succeeds == faults' = faults
Fails == faults > 0 /\ faults' = faults - 1

\* A program is started, and ends without a word.
Start == /\ prog = Off /\ prog' = Works
         /\ UNCHANGED <<confFiles, splitFiles, touched, faults>>
Finish == /\ prog = Works /\ prog' = Off
          /\ UNCHANGED <<confFiles, splitFiles, touched, faults>>

\* Without space the file is cut short, which nobody sees.
WriteTmp ==
  /\ prog = Works
  /\ \/ Succeeds /\ prog' \in Writing("backup", FALSE)
     \/ Fails /\ prog' \in Writing("backup", TRUE)
  /\ UNCHANGED <<confFiles, splitFiles, touched>>
Backup ==
  /\ At("backup") /\ prog' = [prog EXCEPT !.step = "install"]
  /\ \/ /\ Succeeds
        /\ IF prog.ours /\ config # Absent THEN old' = config /\ config' = Absent
           ELSE UNCHANGED confFiles
     \/ Fails /\ UNCHANGED confFiles
  /\ UNCHANGED <<splitFiles, touched>>
Install ==
  /\ At("install") /\ prog' \in {Off, Works}
  /\ config' = IF prog.ours THEN prog.lines ELSE config
  /\ UNCHANGED <<old, splitFiles, touched, faults>>

\* The names with another value than in the last auto.conf are touched.
Differing(v) == {n \in Names : v[n] # auto[n]}
Touch ==
  /\ prog = Works
  /\ touched \subseteq touched' /\ touched' \subseteq Names
  /\ \/ Succeeds /\ prog' \in Splitting /\ Differing(prog'.values) \subseteq touched'
     \/ Fails /\ prog' = Off
  /\ UNCHANGED <<confFiles, splitFiles>>
InstallHeader ==
  /\ At("header") /\ prog' = [prog EXCEPT !.step = "auto"]
  /\ header' = prog.values
  /\ UNCHANGED <<confFiles, auto, touched, faults>>
InstallAuto ==
  /\ At("auto") /\ prog' = Off
  /\ auto' = prog.values /\ touched' = {}
  /\ UNCHANGED <<confFiles, header, faults>>

\* A step fails and the program ends, or a session goes on; a crash.
Failure ==
  /\ prog # Off /\ Fails /\ prog' \in {Off, Works}
  /\ UNCHANGED <<confFiles, splitFiles, touched>>

\* The menus or .config are edited.
Edit ==
  /\ prog = Off /\ config' \in Contents \union {Absent}
  /\ UNCHANGED <<old, splitFiles, touched, prog, faults>>

StoreNext ==
  \/ Start \/ Finish \/ WriteTmp \/ Backup \/ Install
  \/ Touch \/ InstallHeader \/ InstallAuto \/ Failure \/ Edit
StoreSpec == StoreInit /\ [][StoreNext]_storeVars

-----------------------------------------------------------------------------
(* What follows.                                                           *)

\* auto.conf "marks the successful completion of the previous steps": when it
\* is replaced the header has its values already, and the files of all names
\* whose value it changes were touched since it was replaced before, however
\* many programs failed or were interrupted in between.
CompletionMarked ==
  [][auto' # auto =>
       /\ header = auto'
       /\ \A n \in Names : auto'[n] # auto[n] => n \in touched]_storeVars

\* A program changes .config only to keep it as .config.old, or to put a whole
\* new one there, although one step may fail, wherever it does.
NeverLost ==
  [][prog # Off /\ config # Absent /\ config' # config =>
       \/ old' = config
       \/ config' = prog.lines /\ ~prog.torn]_storeVars
=============================================================================
