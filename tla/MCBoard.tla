------------------------------ MODULE MCBoard -------------------------------
(***************************************************************************)
(* Instances of Board for TLC: a short schedule with everything that may     *)
(* go wrong, and the schedules of the two scripts in full.        *)
(***************************************************************************)
EXTENDS Board

MCNumber == "32" :> 32 @@ "64" :> 64 @@ "128" :> 128

\* A call that is made only if the ONNX Runtime is there for it, an ONNX
\* program, whose library may report an error, one whose model is missing, and
\* one that always works.
MCFew ==
  IfOnnx(Call("ONNX", "Iris", <<"small", "relu">>))
  \o Call("ONNX", "Autoencoder", <<"small">>)
  \o Call("FANN", "IAES", <<"small", "relu">>)
  \o Int8("LiteRT", "Iris", <<"small", "relu">>)

ProgramsOf(schedule) ==
  {Program(schedule[i].fw, schedule[i].bench, schedule[i].exec) :
     i \in DOMAIN schedule}

MCFewInstalled == ProgramsOf(MCFew) \ {Program("ONNX", "Iris", MCFew[1].exec)}
MCNoModel == {<<"FANN", "IAES", "model">>}

\* The 150 calls of the Raspberry Pi, whose image was made without the LSTM of
\* NCNN: no other program has the name of its program.
MCPi == SchedulePi
MCPiInstalled == {p \in ProgramsOf(SchedulePi) : <<p.fw, p.bench>> # <<"NCNN", "LSTM">>}

\* The 129 calls of the VisionFive 2.
MCRiscv == ScheduleRiscv
MCRiscvInstalled == ProgramsOf(ScheduleRiscv)

\* The Autoencoder of NCNN was skipped when the image was made.
MCOneSkipped ==
  MCRiscvInstalled \ {Program("NCNN", "Autoencoder", <<"benchmark_ae">>)}

\* What the theorems NamesWhatRan and WarmedUp suppose holds for the short
\* schedule, and not when a program was skipped.
ASSUME LabelsFitShort == Schedule = MCFew => LabelsFit /\ WarmupsFit
ASSUME LabelsFitSkipped ==
  Schedule = MCRiscv /\ Installed = MCOneSkipped => ~LabelsFit

ASSUME Configurations == Len(SchedulePi) = 150 /\ Len(ScheduleRiscv) = 129
ASSUME LabelsUnique ==
  /\ IsInjective([i \in DOMAIN SchedulePi |-> SchedulePi[i].label])
  /\ IsInjective([i \in DOMAIN ScheduleRiscv |-> ScheduleRiscv[i].label])
=============================================================================
