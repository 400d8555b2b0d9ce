----------------------------- MODULE Schedules ------------------------------
(***************************************************************************)
(* The schedules of the two runner scripts: the calls of run_perf, in      *)
(* order.  An entry is the directory (framework and benchmark), the        *)
(* executable and its arguments, and the words of the label that names the *)
(* text file; "onnx" marks the calls made only when HAVE_ONNX.             *)
(***************************************************************************)
EXTENDS Sequences, SequencesExt

Sizes == <<"small", "medium", "large">>
Acts == <<"relu", "sigmoid">>
Configs == <<"simple", "intermediate", "mobilenet">>
Hiddens == <<"32", "64", "128">>

\* The bodies of a shell loop over the words of s, one after the other.
Loop(s, Body(_)) == FlattenSeq([i \in DOMAIN s |-> Body(s[i])])

\* The executable of a benchmark and the word for it in a label.
ExecOf == [Iris |-> "benchmark_mlp", IAES |-> "benchmark_iaes",
           Autoencoder |-> "benchmark_ae", CNN2D |-> "benchmark_cnn2d",
           LSTM |-> "benchmark_lstm"]
KindWord == [Iris |-> "mlp", IAES |-> "iaes", Autoencoder |-> "ae",
             CNN2D |-> "cnn2d", LSTM |-> "lstm"]
FrameworkWord ==
  [f \in {"FANN", "Genann", "NCNN", "LiteRT", "ONNX", "CMSIS-NN"} |->
     CASE f = "FANN" -> "fann" [] f = "Genann" -> "genann"
       [] f = "NCNN" -> "ncnn" [] f = "LiteRT" -> "litert"
       [] f = "ONNX" -> "onnx" [] f = "CMSIS-NN" -> "cmsisnn"]

\* run_perf of a program with these arguments, its label ending in words.
RunPerf(fw, bench, exec, args, words) ==
  << [fw |-> fw, bench |-> bench, exec |-> exec, args |-> args,
      label |-> <<FrameworkWord[fw], KindWord[bench]>> \o words,
      onnx |-> FALSE] >>

Call(fw, bench, v) == RunPerf(fw, bench, <<ExecOf[bench]>>, v, v)
Int8(fw, bench, v) ==
  RunPerf(fw, bench, <<ExecOf[bench]>>, v \o <<"int8">>, v \o <<"int8">>)
CompiledCall(bench, v) ==
  RunPerf("CMSIS-NN", bench, <<ExecOf[bench]>> \o v, <<>>, v)

Both(fw, bench, v) == Call(fw, bench, v) \o Int8(fw, bench, v)

\* Inside "if [ $HAVE_ONNX -eq 1 ]".
IfOnnx(calls) == [i \in DOMAIN calls |-> [calls[i] EXCEPT !.onnx = TRUE]]

\* (mutant) the Iris call of Genann copied for IAES, with its directory.
GenannMlpPasted(size) ==
  LET iris == RunPerf("Genann", "Iris", <<"benchmark_mlp">>,
                      <<size, "sigmoid">>, <<size, "sigmoid">>)
  IN  iris \o <<[iris[1] EXCEPT !.label = <<"genann", "iaes", size, "sigmoid">>]>>

GenannMlp(size) ==
  RunPerf("Genann", "Iris", <<"benchmark_mlp">>, <<size, "sigmoid">>,
          <<size, "sigmoid">>)
  \o RunPerf("Genann", "IAES", <<"benchmark_iaes">>, <<size>>,
             <<size, "sigmoid">>)

FeedForward == <<"Iris", "IAES">>

-----------------------------------------------------------------------------
(* run_benchmarks.sh, the Raspberry Pi's.                                  *)

PiMlp ==
  Loop(Sizes, LAMBDA size :
    Loop(Acts, LAMBDA act :
      Loop(FeedForward, LAMBDA bench :
        LET v == <<size, act>>
        IN  Call("FANN", bench, v) \o Call("NCNN", bench, v)
            \o Both("LiteRT", bench, v) \o Both("ONNX", bench, v)
            \o CompiledCall(bench, v)))
    \o GenannMlp(size))

PiAutoencoder ==
  Loop(Sizes, LAMBDA size : LET v == <<size>> IN
    Call("FANN", "Autoencoder", v) \o Call("Genann", "Autoencoder", v)
    \o Call("NCNN", "Autoencoder", v) \o Both("LiteRT", "Autoencoder", v)
    \o Both("ONNX", "Autoencoder", v) \o CompiledCall("Autoencoder", v))

\* The loops over the configurations of CNN2D and the sizes of LSTM.
PiOthers(bench, variants) ==
  Loop(variants, LAMBDA w : LET v == <<w>> IN
    Call("NCNN", bench, v) \o Both("LiteRT", bench, v)
    \o Both("ONNX", bench, v) \o CompiledCall(bench, v))

SchedulePi ==
  PiMlp \o PiAutoencoder \o PiOthers("CNN2D", Configs)
  \o PiOthers("LSTM", Hiddens)

-----------------------------------------------------------------------------
(* run_benchmarks_riscv.sh, the VisionFive 2's: no CMSIS-NN, and the calls *)
(* of ONNX last in each body.                                              *)

RiscvMlp ==
  Loop(Sizes, LAMBDA size :
    Loop(Acts, LAMBDA act : LET v == <<size, act>> IN
      Loop(FeedForward, LAMBDA bench :
        Call("FANN", bench, v) \o Call("NCNN", bench, v)
        \o Both("LiteRT", bench, v))
      \o IfOnnx(Loop(FeedForward, LAMBDA bench : Both("ONNX", bench, v))))
    \o GenannMlp(size))

RiscvAutoencoder ==
  Loop(Sizes, LAMBDA size : LET v == <<size>> IN
    Call("FANN", "Autoencoder", v) \o Call("Genann", "Autoencoder", v)
    \o Call("NCNN", "Autoencoder", v) \o Both("LiteRT", "Autoencoder", v)
    \o IfOnnx(Both("ONNX", "Autoencoder", v)))

RiscvOthers(bench, variants) ==
  Loop(variants, LAMBDA w : LET v == <<w>> IN
    Call("NCNN", bench, v) \o Both("LiteRT", bench, v)
    \o IfOnnx(Both("ONNX", bench, v)))

ScheduleRiscv ==
  RiscvMlp \o RiscvAutoencoder \o RiscvOthers("CNN2D", Configs)
  \o RiscvOthers("LSTM", Hiddens)
=============================================================================
