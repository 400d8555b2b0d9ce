---------------------------- MODULE Measurement -----------------------------
(***************************************************************************)
(* What the measured loop of a harness promises: once the counters are     *)
(* set up, N_RUNS inferences are measured one after the other.  The sample *)
(* of each tells, for every counter that is available, of one and the same *)
(* share of the work of that inference and of nothing else, and nothing    *)
(* for the others.  The share has all that the main thread does in any     *)
(* case; it is the whole when no other thread takes part.  The same        *)
(* counters are available to all the samples.                              *)
(***************************************************************************)
EXTENDS Integers

CONSTANTS
  Fd,            \* the counters
  Iteration,     \* the inferences to measure, 0 .. NRuns - 1
  NRuns,         \* how many they are
  Inference(_),  \* Inference(i): the work of inference i
  Alone(_)       \* Alone(i): what of it only the main thread does

VARIABLES
  ready,   \* the counters are set up
  avail,   \* those that can be used
  done,    \* how many inferences are measured
  sample   \* sample[i][k]: what counter k tells of inference i

vars == <<ready, avail, done, sample>>

Init ==
  /\ ready = FALSE
  /\ avail = {}
  /\ done = 0
  /\ sample = [i \in Iteration |-> [k \in Fd |-> {}]]

\* Any of the counters may be missing on this machine.
SetUp ==
  /\ ~ready /\ ready' = TRUE
  /\ avail' \in SUBSET Fd
  /\ UNCHANGED <<done, sample>>

\* The shares of inference i a sample may tell of.
Shares(i) == {S \in SUBSET Inference(i) : Alone(i) \subseteq S}

Measure ==
  /\ ready /\ done < NRuns
  /\ \E share \in Shares(done) :
       sample' = [sample EXCEPT
         ![done] = [k \in Fd |-> IF k \in avail THEN share ELSE {}]]
  /\ done' = done + 1
  /\ UNCHANGED <<ready, avail>>

\* When all is measured the counters may be given back.
Release ==
  /\ ready /\ done = NRuns
  /\ avail' \in SUBSET avail
  /\ UNCHANGED <<ready, done, sample>>

Next == SetUp \/ Measure \/ Release

Spec == Init /\ [][Next]_vars
=============================================================================
