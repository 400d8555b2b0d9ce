---------------------------- MODULE PerfCounters ----------------------------
(***************************************************************************)
(* The measured loop of every benchmark_*.c: perf_open_all once, then for  *)
(* each of N_RUNS inferences                                               *)
(*                                                                         *)
(*    copy input; perf_reset_enable; t0; infer; t1; perf_disable_read;     *)
(*    score                                                                *)
(*                                                                         *)
(* run by the main thread, with the kernel's counter scheduling            *)
(* interleaved between any two of its steps.  All 26 harnesses share these *)
(* functions word for word; the lines named in the project are those of    *)
(* FANN/benchmarks/MLP/Iris/benchmark_mlp.c.                               *)
(*                                                                         *)
(* The counters are opened for the calling thread alone (pid 0, inherit    *)
(* not set).  The five NCNN harnesses link -fopenmp and leave the number   *)
(* of threads at the library's default, so parts of an inference may be    *)
(* done by worker threads that no counter sees; the other harnesses are    *)
(* the case Shared = {}.                                                   *)
(*                                                                         *)
(* A counter's value is abstracted to the set of work units it has         *)
(* counted: which steps of the harness, of which iteration, ran while the  *)
(* counter was enabled and actually on the PMU.                            *)
(***************************************************************************)
EXTENDS Integers, FiniteSets

CONSTANTS
  NFds,        \* length of PerfFds.fd, 6 in the code
  Column,      \* Column[k]: the element of out[] the counter k is added to
  NWarmup,     \* N_WARMUP: inferences before the counters are opened
  NRuns,       \* N_RUNS: measured inferences
  InferParts,  \* steps one inference is cut into (an interrupt falls between)
  Shared,      \* those of them the library may hand to worker threads
  NClosed,     \* counters the epilogue of main closes, 5 in the code
  MaxInterrupts,  \* bound: ticks and preemptions in a behaviour
  Outer,       \* events another tool (perf stat) keeps enabled on this task
  Hostable     \* the sets of events the PMU can count at the same time

Fd == 0 .. NFds - 1
Event == Fd \union Outer
Cols == {Column[k] : k \in Fd}
Iteration == 0 .. NRuns - 1

ASSUME SizesAssumption ==
  /\ NFds \in Nat /\ NWarmup \in Nat /\ NRuns \in Nat
  /\ InferParts \in Nat /\ NClosed \in Nat /\ MaxInterrupts \in Nat
  /\ Shared \subseteq 0 .. InferParts - 1
  /\ Outer \intersect Int = {}
  /\ Column \in [Fd -> Nat]

\* What can be counted together can be counted in part.
ASSUME HostableAssumption ==
  /\ Hostable \subseteq SUBSET Event
  /\ {} \in Hostable
  /\ \A S \in Hostable : \A T \in SUBSET S : T \in Hostable

(***************************************************************************)
(* Work units.  A unit is one step of the thread: what it did, in which    *)
(* iteration, and the loop index or inference part.  "wait" is the thread  *)
(* at the end of a part that workers do.                                   *)
(***************************************************************************)
Bracket == {"reset", "enable", "start", "stop", "disable", "read", "tick",
            "wait"}
Aside == {"tick", "wait"}
Doing == Bracket \union {"infer", "prepare", "score"}
Unit == [by : Doing, run : Nat, n : Nat]

\* What the clock sees: the thread's steps, and the time of other tasks.
Elapsed == [by : Doing \union {"other"}, run : Nat, n : Nat]

Did(what, i, j) == [by |-> what, run |-> i, n |-> j]

\* The inference of iteration i, whole.
Inference(i) == {Did("infer", i, p) : p \in 0 .. InferParts - 1}

\* Its parts that are never handed out, and all parts that ever can be.
Alone(i) == {Did("infer", i, p) : p \in (0 .. InferParts - 1) \ Shared}
Lendable == {Did("infer", i, p) : i \in Iteration, p \in Shared}

VARIABLES
  pc,         \* where the thread is
  run,        \* i of the measured loop
  idx,        \* warm-up count, _i of the loops over fd[], or inference part
  open,       \* {k : fd[k] >= 0}
  enabled,    \* counters the last ioctl on which was ENABLE
  resident,   \* events the kernel has on the PMU
  value,      \* value[k]: the units counter k holds
  raw,        \* raw[] of perf_disable_read
  pmc,        \* pmc_data[]: the row of each iteration
  timer,      \* what elapsed since t0
  latencies,  \* latencies[]
  lent,       \* the parts that worker threads do, of all the inferences
  interrupts  \* how many times the kernel has interrupted the thread

vars == <<pc, run, idx, open, enabled, resident, value, raw, pmc, timer,
          latencies, lent, interrupts>>
thread == <<pc, run, idx>>
counters == <<open, enabled, resident>>
results == <<raw, pmc, latencies, lent>>

\* What the main thread itself does of inference i.
Own(i) == Inference(i) \ lent

\* u was done by the main thread between perf_reset_enable and
\* perf_disable_read of iteration i: it belongs to that inference or to the
\* bracketing calls.
InWindow(u, i) == u \in Own(i) \/ (u.run = i /\ u.by \in Bracket)

\* The maximal sets of events of S that fit on the PMU together.
Schedules(S) ==
  {R \in SUBSET S : /\ R \in Hostable
                    /\ \A e \in S \ R : R \union {e} \notin Hostable}

\* The values after the step u: every counter on the PMU has counted it.
Counted(u) ==
  [k \in Fd |-> IF k \in resident THEN value[k] \union {u} ELSE value[k]]

\* (mutant) out[c] = raw[k] instead of adding up the counters of column c.
RowOverwrites(counts) ==
  [c \in Cols |->
    LET last == CHOOSE k \in Fd : /\ Column[k] = c
                                  /\ \A j \in Fd : Column[j] = c => j <= k
    IN  {last} \X counts[last]]

\* The row perf_disable_read leaves in out[]: each column is the sum of the
\* counters assigned to it (l1_loads is fed by two).
Row(counts) ==
  [c \in Cols |-> UNION {{k} \X counts[k] : k \in {j \in Fd : Column[j] = c}}]

Init ==
  /\ pc = "warmup" /\ run = 0 /\ idx = 0
  /\ open = {} /\ enabled = {}
  /\ resident \in Schedules(Outer)
  /\ value = [k \in Fd |-> {}]
  /\ raw = [k \in Fd |-> {}]
  /\ pmc = [i \in Iteration |-> [c \in Cols |-> {}]]
  /\ timer = {}
  /\ latencies = [i \in Iteration |-> {}]
  /\ lent \in SUBSET Lendable
  /\ interrupts = 0

(***************************************************************************)
(* Warm-up inferences run before any counter exists.                       *)
(***************************************************************************)
Warmup ==
  /\ pc = "warmup"
  /\ IF idx < NWarmup THEN idx' = idx + 1 /\ pc' = pc
                      ELSE idx' = 0 /\ pc' = "open"
  /\ UNCHANGED <<interrupts, run, counters, value, timer, results>>

\* (mutant) the loop over fd[] runs one too far.
OpenOneTooMany ==
  /\ pc = "open" /\ idx <= NFds
  /\ \E opened \in {{}, {idx}} : open' = open \union opened
  /\ idx' = idx + 1
  /\ UNCHANGED <<interrupts, pc, run, enabled, resident, value, timer, results>>

(***************************************************************************)
(* perf_open_all: each perf_event_open may fail, and a failure is kept as  *)
(* a negative fd without a word.  attr.disabled = 1: nothing counts yet.   *)
(***************************************************************************)
OpenFd ==
  /\ pc = "open" /\ idx < NFds
  /\ \E opened \in {{}, {idx}} : open' = open \union opened
  /\ idx' = idx + 1
  /\ UNCHANGED <<interrupts, pc, run, enabled, resident, value, timer, results>>

OpenedAll ==
  /\ pc = "open" /\ idx = NFds
  /\ pc' = "loop"
  /\ UNCHANGED <<interrupts, run, idx, counters, value, timer, results>>

\* (mutant) the loop of perf_reset_enable starts from 1.
PrepareFromOne ==
  /\ pc = "loop" /\ run < NRuns
  /\ pc' = "reset" /\ idx' = 1
  /\ value' = Counted(Did("prepare", run, 0))
  /\ UNCHANGED <<interrupts, run, counters, timer, results>>

\* Head of the measured loop: the input of sample i % n_samples is copied.
Prepare ==
  /\ pc = "loop" /\ run < NRuns
  /\ pc' = "reset" /\ idx' = 0
  /\ value' = Counted(Did("prepare", run, 0))
  /\ UNCHANGED <<interrupts, run, counters, timer, results>>

\* (mutant) no RESET before ENABLE.
ResetMissing ==
  /\ pc = "reset" /\ idx \in open
  /\ value' = Counted(Did("reset", run, idx))
  /\ pc' = "enable"
  /\ UNCHANGED <<interrupts, run, idx, counters, timer, results>>

(***************************************************************************)
(* perf_reset_enable: RESET then ENABLE on each open fd, in index order.   *)
(* Enabling an event makes the kernel choose anew what is on the PMU.      *)
(***************************************************************************)
Reset ==
  /\ pc = "reset" /\ idx \in open
  /\ value' = [Counted(Did("reset", run, idx)) EXCEPT ![idx] = {}]
  /\ pc' = "enable"
  /\ UNCHANGED <<interrupts, run, idx, counters, timer, results>>

Enable ==
  /\ pc = "enable"
  /\ value' = Counted(Did("enable", run, idx))
  /\ enabled' = enabled \union {idx}
  /\ resident' \in Schedules(enabled' \union Outer)
  /\ pc' = "reset" /\ idx' = idx + 1
  /\ UNCHANGED <<interrupts, run, open, timer, results>>

SkipEnable ==
  /\ pc = "reset" /\ idx < NFds /\ idx \notin open
  /\ idx' = idx + 1
  /\ UNCHANGED <<interrupts, pc, run, counters, value, timer, results>>

\* (mutant) t0 is taken once and kept.
StartTimerOnce ==
  /\ pc = "reset" /\ idx = NFds
  /\ value' = Counted(Did("start", run, 0))
  /\ timer' = timer
  /\ pc' = "infer" /\ idx' = 0
  /\ UNCHANGED <<interrupts, run, counters, results>>

\* t0 = time_us(): the elapsed time starts from here.
StartTimer ==
  /\ pc = "reset" /\ idx = NFds
  /\ value' = Counted(Did("start", run, 0))
  /\ timer' = {}
  /\ pc' = "infer" /\ idx' = 0
  /\ UNCHANGED <<interrupts, run, counters, results>>

(***************************************************************************)
(* A part of the inference.  Which parts workers do is chosen beforehand   *)
(* and looked at only when the part is due.  The clock runs for theirs     *)
(* too; the counters see the main thread wait for them.                    *)
(***************************************************************************)
Infer ==
  /\ pc = "infer" /\ idx < InferParts
  /\ Did("infer", run, idx) \notin lent
  /\ value' = Counted(Did("infer", run, idx))
  /\ timer' = timer \union {Did("infer", run, idx)}
  /\ idx' = idx + 1
  /\ UNCHANGED <<interrupts, pc, run, counters, results>>

InferByWorkers ==
  /\ pc = "infer" /\ idx < InferParts
  /\ Did("infer", run, idx) \in lent
  /\ value' = Counted(Did("wait", run, idx))
  /\ timer' = timer \union {Did("infer", run, idx)}
  /\ idx' = idx + 1
  /\ UNCHANGED <<interrupts, pc, run, counters, results>>

\* latencies[i] = time_us() - t0; raw[] of perf_disable_read starts at 0.
StopTimer ==
  /\ pc = "infer" /\ idx = InferParts
  /\ value' = Counted(Did("stop", run, 0))
  /\ latencies' = [latencies EXCEPT ![run] = timer]
  /\ raw' = [k \in Fd |-> {}]
  /\ pc' = "disable" /\ idx' = 0
  /\ UNCHANGED <<interrupts, run, counters, timer, pmc, lent>>

\* (mutant) the first DISABLE stops the whole group.
DisableGroup ==
  /\ pc = "disable" /\ idx \in open
  /\ value' = Counted(Did("disable", run, idx))
  /\ enabled' = {}
  /\ resident' = resident \ Fd
  /\ pc' = "read"
  /\ UNCHANGED <<interrupts, run, idx, open, timer, results>>

(***************************************************************************)
(* perf_disable_read: DISABLE then read each open fd, in index order; the  *)
(* read returns the plain count, with no scaling by the time running.      *)
(* Disabling an event does not by itself bring a waiting one in.           *)
(***************************************************************************)
Disable ==
  /\ pc = "disable" /\ idx \in open
  /\ value' = Counted(Did("disable", run, idx))
  /\ enabled' = enabled \ {idx}
  /\ resident' = resident \ {idx}
  /\ pc' = "read"
  /\ UNCHANGED <<interrupts, run, idx, open, timer, results>>

Read ==
  /\ pc = "read"
  /\ raw' = [raw EXCEPT ![idx] = value[idx]]
  /\ value' = Counted(Did("read", run, idx))
  /\ pc' = "disable" /\ idx' = idx + 1
  /\ UNCHANGED <<interrupts, run, counters, timer, pmc, latencies, lent>>

SkipRead ==
  /\ pc = "disable" /\ idx < NFds /\ idx \notin open
  /\ idx' = idx + 1
  /\ UNCHANGED <<interrupts, pc, run, counters, value, timer, results>>

\* out[] of iteration i is filled in.
Store ==
  /\ pc = "disable" /\ idx = NFds
  /\ pmc' = [pmc EXCEPT ![run] = Row(raw)]
  /\ pc' = "score"
  /\ UNCHANGED <<interrupts, run, idx, counters, value, timer, raw, latencies,
                 lent>>

\* The prediction is compared with the label, and the loop advances.
Score ==
  /\ pc = "score"
  /\ value' = Counted(Did("score", run, 0))
  /\ run' = run + 1
  /\ pc' = "loop"
  /\ UNCHANGED <<interrupts, idx, counters, timer, results>>

\* After the loop: the report, then the epilogue closes fd[0 .. NClosed-1].
Close ==
  /\ pc = "loop" /\ run = NRuns
  /\ open' = open \ (0 .. NClosed - 1)
  /\ pc' = "done"
  /\ UNCHANGED <<interrupts, run, idx, enabled, resident, value, timer, results>>

(***************************************************************************)
(* The kernel.  A tick interrupts the thread, its handler is counted (the  *)
(* attributes do not exclude the kernel), and the events that share the    *)
(* PMU are rotated.  A preemption lets time pass without the task's events *)
(* counting anything; on return the events are scheduled again.            *)
(***************************************************************************)
Tick ==
  /\ pc # "done" /\ interrupts < MaxInterrupts
  /\ interrupts' = interrupts + 1
  /\ value' = Counted(Did("tick", run, 0))
  /\ timer' = timer \union {Did("tick", run, 0)}
  /\ resident' \in Schedules(enabled \union Outer)
  /\ UNCHANGED <<thread, open, enabled, results>>

Preempt ==
  /\ pc # "done" /\ interrupts < MaxInterrupts
  /\ interrupts' = interrupts + 1
  /\ timer' = timer \union {Did("other", run, 0)}
  /\ resident' \in Schedules(enabled \union Outer)
  /\ UNCHANGED <<thread, open, enabled, value, results>>

Terminated == pc = "done" /\ UNCHANGED vars

Thread ==
  \/ Warmup \/ OpenFd \/ OpenedAll \/ Prepare
  \/ Reset \/ Enable \/ SkipEnable
  \/ StartTimer \/ Infer \/ InferByWorkers \/ StopTimer
  \/ Disable \/ Read \/ SkipRead \/ Store
  \/ Score \/ Close

Next == Thread \/ Tick \/ Preempt \/ Terminated

Spec == Init /\ [][Next]_vars

-----------------------------------------------------------------------------
(***************************************************************************)
(* Correctness.                                                            *)
(***************************************************************************)

TypeOK ==
  /\ pc \in {"warmup", "open", "loop", "reset", "enable", "infer", "disable",
             "read", "score", "done"}
  /\ run \in 0 .. NRuns
  /\ idx \in Nat
  /\ open \subseteq Fd
  /\ enabled \subseteq Fd
  /\ resident \in SUBSET Event
  /\ value \in [Fd -> SUBSET Unit]
  /\ raw \in [Fd -> SUBSET Unit]
  /\ pmc \in [Iteration -> [Cols -> SUBSET (Fd \X Unit)]]
  /\ timer \subseteq Elapsed
  /\ latencies \in [Iteration -> SUBSET Elapsed]
  /\ lent \subseteq Lendable
  /\ interrupts \in 0 .. MaxInterrupts

\* The iterations whose row has been written.
Stored == {i \in Iteration : i < run \/ (i = run /\ pc = "score")}

\* Some u was counted by counter k in the row of iteration i.
InRow(i, k, u) == <<k, u>> \in pmc[i][Column[k]]

\* A row holds only what the main thread did between perf_reset_enable and
\* perf_disable_read of its own iteration (lines 185-189): nothing of the
\* warm-up, of another inference, of copying the input or of scoring, and
\* nothing that worker threads did.
RowsPure ==
  \A i \in Iteration : \A c \in Cols : \A x \in pmc[i][c] : InWindow(x[2], i)

\* The harness's counters run only inside that bracket, and only those that
\* opened (the "fd >= 0" tests of both loops).
CountersOffOutside ==
  /\ enabled \subseteq open
  /\ pc \in {"warmup", "open", "loop", "score", "done"} => enabled = {}

\* A counter that could not be opened adds nothing to its column
\* ("negative fd -> writes 0", perf_probe.c:4).
UnopenedWritesZero ==
  pc # "done" =>
    \A i \in Iteration : \A c \in Cols : \A x \in pmc[i][c] : x[1] \in open

\* What latencies[i] times is inference i exactly, all its parts, whoever
\* did them, and no other step of the harness; interrupts and other tasks
\* may add to it.
LatencyExact ==
  \A i \in Stored :
    {u \in latencies[i] : u.by \notin {"tick", "other"}} = Inference(i)

\* Every row of every open counter covers all that the main thread did of
\* its inference.  For a harness with one thread that is the whole of it, the
\* meaning the tables give to "PMU counters of one inference"; what workers
\* did is in no row (RowsPure), though it is in the latency (LatencyExact).
RowsComplete ==
  pc # "done" =>
    \A i \in Stored : \A k \in open : \A u \in Own(i) : InRow(i, k, u)

\* The bracketing calls are a cost every counter carries equally: enabling
\* and disabling in the same index order gives all windows the same number
\* of calls, whichever counters failed to open.
Overhead(i, k) ==
  {x \in pmc[i][Column[k]] : x[1] = k /\ x[2].by \in Bracket \ Aside}
OverheadBalanced ==
  pc # "done" =>
    \A i \in Stored : \A j, k \in open :
      Cardinality(Overhead(i, j)) = Cardinality(Overhead(i, k))

\* A row and its latency are written once and never revised.
RowsFinal ==
  [][\A i \in Stored : pmc'[i] = pmc[i] /\ latencies'[i] = latencies[i]]_vars

(***************************************************************************)
(* The promise the loop keeps when the PMU can host all its events.        *)
(***************************************************************************)
Sampled(i) ==
  [k \in Fd |-> {x[2] : x \in {y \in pmc[i][Column[k]] :
                                 y[1] = k /\ y[2].by \notin Bracket}}]

Promise ==
  INSTANCE Measurement WITH
    ready  <- pc \notin {"warmup", "open"},
    avail  <- IF pc \in {"warmup", "open"} THEN {} ELSE open,
    done   <- IF pc = "score" THEN run + 1 ELSE run,
    sample <- [i \in Iteration |-> Sampled(i)]
KeepsPromise == Promise!Spec
=============================================================================
