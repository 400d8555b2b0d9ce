------------------------------- MODULE Calls --------------------------------
(***************************************************************************)
(* A schedule and an image, before anything runs: where a call may find    *)
(* the script, and whether its label names the program it would start      *)
(* there (the directory, the program, the arguments and the label are four *)
(* independent strings of each call of run_perf).                          *)
(***************************************************************************)
EXTENDS Programs, Schedules

CONSTANTS
  Schedule,   \* the calls of run_perf (Schedules)
  Installed   \* the programs on the card: a directory is there with them

ASSUME ScheduleAssumption ==
  Len(Schedule) \in Nat /\ DOMAIN Schedule = 1 .. Len(Schedule)

\* No two calls of run_perf write to the same text file.
ASSUME LabelsAssumption ==
  \A i, j \in DOMAIN Schedule : Schedule[i].label = Schedule[j].label => i = j

Root == <<"/", "">>
Labels == {Schedule[i].label : i \in DOMAIN Schedule}
DirOf(p) == <<p.fw, p.bench>>
InstalledDirs == {DirOf(p) : p \in Installed}
HaveOnnx == Program("ONNX", "Iris", <<"benchmark_mlp">>) \in Installed

-----------------------------------------------------------------------------
\* The label of a text file that holds the report r.
Describes(r) ==
  <<FrameworkWord[r.by.fw], KindWord[r.by.bench]>> \o r.made.variant
  \o (IF r.made.prec = "int8" /\ r.by.fw # "CMSIS-NN" THEN <<"int8">>
                                                     ELSE <<>>)

\* Where the script is when it has come to entry i: in the directory of the
\* last entry whose cd succeeded.
Enters(i) ==
  /\ Schedule[i].onnx => HaveOnnx
  /\ DirOf(Schedule[i]) \in InstalledDirs
CwdAt(i, d) ==
  \/ d = Root /\ \A k \in 1 .. i : ~Enters(k)
  \/ \E k \in 1 .. i : /\ Enters(k) /\ d = DirOf(Schedule[k])
                      /\ \A j \in k + 1 .. i : ~Enters(j)

\* The program of entry i may run in the directory d.
MayRun(i, d) ==
  LET e == Schedule[i]
  IN  /\ CwdAt(i, d) /\ (e.onnx => HaveOnnx)
      /\ Program(d[1], d[2], e.exec) \in Installed
      /\ ~Usage(Profile[d], e.args)

\* What can be said of a schedule and an image before anything runs: the
\* label of each call names what it starts, and the warm-up is the default.
LabelsFit ==
  \A i \in DOMAIN Schedule : \A d \in InstalledDirs :
    MayRun(i, d) =>
      LET e == Schedule[i]
      IN  Describes([by |-> Program(d[1], d[2], e.exec),
                     made |-> LabelOf(Profile[d], e.exec, e.args)]) = e.label
WarmupsFit ==
  \A i \in DOMAIN Schedule : \A d \in InstalledDirs \ {<<"Genann", "Iris">>} :
    MayRun(i, d) => Warmups(Profile[d], Schedule[i].args) = NWarmup
=============================================================================
