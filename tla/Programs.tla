------------------------------ MODULE Programs ------------------------------
(***************************************************************************)
(* The 26 benchmark programs, as main of each treats its command line and  *)
(* its files up to the measured loop.  A word of the command line is a     *)
(* string; what a file contains is left out, only whether it can be used   *)
(* matters.                                                                *)
(*                                                                         *)
(*   need    positional arguments without which main prints its usage      *)
(*   only    the values of argv[1] main lets through ({}: any)             *)
(*   flags   the other arguments are scanned for "f32" and "int8", and     *)
(*           any other word is the number of warm-up inferences; when      *)
(*           FALSE the first of them is that number                        *)
(*   kind    first part of the label                                       *)
(*   fixed   the words main puts in the label whatever the arguments       *)
(*   prec    the precision of the label when no flag chooses it            *)
(*   loads   the files main loads, in this order, returning 1 at the first *)
(*           it cannot use                                                 *)
(*   mayFail an error of the library during an inference ends the program  *)
(***************************************************************************)
EXTENDS Integers, Sequences, SequencesExt

CONSTANTS
  NWarmup,   \* N_WARMUP, the default number of warm-up inferences
  Number     \* Number[w]: the value of the words that are numerals

\* atoi(w): a word that is not a numeral is 0.
Atoi(w) == IF w \in DOMAIN Number THEN Number[w] ELSE 0

Program(fw, bench, exec) == [fw |-> fw, bench |-> bench, exec |-> exec]

\* The default profile: FANN's.
Plain == [need |-> 2, only |-> {}, flags |-> FALSE, fixed |-> <<>>,
          prec |-> "f32", loads |-> <<"data", "model">>, mayFail |-> FALSE]

Autoencoder == <<"threshold", "data", "model">>
Images == <<"images", "labels", "model">>
HiddenSizes == {"32", "64", "128"}
CnnConfigs == {"simple", "intermediate", "mobilenet"}

With(base, kind, changes) == [kind |-> kind] @@ changes @@ base

FannIris == With(Plain, "mlp", <<>>)
FannIaes == With(Plain, "iaes", <<>>)
FannAe == With(Plain, "ae", [need |-> 1, loads |-> Autoencoder])

\* Genann has no activation argument: a second word is the warm-up count.
Genann == [need |-> 1, prec |-> "f64"] @@ Plain
GenannIris == With(Genann, "mlp", [fixed |-> <<"sigmoid">>])
GenannIaes == With(Genann, "iaes", [fixed |-> <<"sigmoid">>])
GenannAe == With(Genann, "ae", [loads |-> Autoencoder])

Flagged == [flags |-> TRUE] @@ Plain
NcnnIris == With(Flagged, "mlp", <<>>)
NcnnIaes == With(Flagged, "iaes", <<>>)
NcnnAe == With(Flagged, "ae", [need |-> 1, loads |-> Autoencoder])
NcnnCnn == With(Flagged, "cnn", [need |-> 1, loads |-> Images])
NcnnLstm == With(Flagged, "lstm", [need |-> 1, only |-> HiddenSizes])

LiteRTIris == With(Flagged, "mlp", <<>>)
LiteRTIaes == With(Flagged, "iaes", <<>>)
LiteRTAe == With(Flagged, "ae", [need |-> 1, loads |-> Autoencoder])
LiteRTCnn == With(Flagged, "cnn", [need |-> 1, loads |-> Images])
LiteRTLstm == With(Flagged, "lstm", [need |-> 1, only |-> HiddenSizes])

\* CHECK_ORT ends the program on any error of the library.
Ort == [mayFail |-> TRUE] @@ Flagged
OnnxIris == With(Ort, "mlp", <<>>)
OnnxIaes == With(Ort, "iaes", <<>>)
OnnxAe == With(Ort, "ae", [need |-> 1, loads |-> Autoencoder])
OnnxCnn ==
  With(Ort, "cnn", [need |-> 1, only |-> CnnConfigs, loads |-> Images])
OnnxLstm == With(Ort, "lstm", [need |-> 1, only |-> HiddenSizes])

\* CMSIS-NN is compiled for one variant, which is in the program's name, its
\* model with it: only the test set is loaded, and the only argument is the
\* warm-up count.
Compiled == [need |-> 0, prec |-> "int8", loads |-> <<"data">>] @@ Plain
CmsisIris == With(Compiled, "mlp", <<>>)
CmsisIaes == With(Compiled, "iaes", <<>>)
CmsisAe == With(Compiled, "ae", [loads |-> <<"threshold", "data">>])
CmsisCnn == With(Compiled, "cnn", [loads |-> <<"images", "labels">>])
CmsisLstm == With(Compiled, "lstm", <<>>)

\* The profile of the program a framework has for a benchmark.
Profile ==
  <<"FANN", "Iris">> :> FannIris @@ <<"FANN", "IAES">> :> FannIaes
  @@ <<"FANN", "Autoencoder">> :> FannAe
  @@ <<"Genann", "Iris">> :> GenannIris @@ <<"Genann", "IAES">> :> GenannIaes
  @@ <<"Genann", "Autoencoder">> :> GenannAe
  @@ <<"NCNN", "Iris">> :> NcnnIris @@ <<"NCNN", "IAES">> :> NcnnIaes
  @@ <<"NCNN", "Autoencoder">> :> NcnnAe
  @@ <<"NCNN", "CNN2D">> :> NcnnCnn @@ <<"NCNN", "LSTM">> :> NcnnLstm
  @@ <<"LiteRT", "Iris">> :> LiteRTIris @@ <<"LiteRT", "IAES">> :> LiteRTIaes
  @@ <<"LiteRT", "Autoencoder">> :> LiteRTAe
  @@ <<"LiteRT", "CNN2D">> :> LiteRTCnn @@ <<"LiteRT", "LSTM">> :> LiteRTLstm
  @@ <<"ONNX", "Iris">> :> OnnxIris @@ <<"ONNX", "IAES">> :> OnnxIaes
  @@ <<"ONNX", "Autoencoder">> :> OnnxAe
  @@ <<"ONNX", "CNN2D">> :> OnnxCnn @@ <<"ONNX", "LSTM">> :> OnnxLstm
  @@ <<"CMSIS-NN", "Iris">> :> CmsisIris
  @@ <<"CMSIS-NN", "IAES">> :> CmsisIaes
  @@ <<"CMSIS-NN", "Autoencoder">> :> CmsisAe
  @@ <<"CMSIS-NN", "CNN2D">> :> CmsisCnn @@ <<"CMSIS-NN", "LSTM">> :> CmsisLstm

-----------------------------------------------------------------------------
(* What main makes of the arguments args, a sequence of words.             *)

Usage(p, args) ==
  \/ Len(args) < p.need
  \/ p.only # {} /\ args[1] \notin p.only

Rest(p, args) == SubSeq(args, p.need + 1, Len(args))

LastOr(s, default) == IF s = <<>> THEN default ELSE s[Len(s)]
IsFlag(w) == w \in {"f32", "int8"}
NoFlag(w) == w \notin {"f32", "int8"}

Precision(p, args) ==
  IF p.flags THEN LastOr(SelectSeq(Rest(p, args), IsFlag), p.prec) ELSE p.prec

\* (mutant) the first of the other arguments is always the count.
WarmupsFirst(p, args) ==
  IF Rest(p, args) = <<>> THEN NWarmup ELSE Atoi(Head(Rest(p, args)))

Warmups(p, args) ==
  LET counts == IF p.flags THEN SelectSeq(Rest(p, args), NoFlag)
                           ELSE Rest(p, args)
  IN  IF counts = <<>> THEN NWarmup
      ELSE IF p.flags THEN Atoi(LastOr(counts, "")) ELSE Atoi(Head(counts))

\* The variant the program runs: its arguments, or its name for CMSIS-NN.
Variant(p, exec, args) == Tail(exec) \o SubSeq(args, 1, p.need) \o p.fixed

\* The label of the report and of every row, and the name of the CSV.
LabelOf(p, exec, args) ==
  [kind |-> p.kind, variant |-> Variant(p, exec, args),
   prec |-> Precision(p, args)]
=============================================================================
