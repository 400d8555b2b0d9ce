------------------------ MODULE PerfCounters_proofs -------------------------
(***************************************************************************)
(* Proofs about the measured loop, for any number of counters, iterations, *)
(* inference parts and interrupts, and for any PMU.                        *)
(***************************************************************************)
EXTENDS PerfCounters, TLAPS, FiniteSetTheorems, FunctionTheorems

USE SizesAssumption DEF SizesAssumption

-----------------------------------------------------------------------------
(* Facts about the helpers.                                                *)

\* The kernel only puts enabled events on the PMU.
LEMMA ScheduleSubset ==
  ASSUME NEW S, NEW R \in Schedules(S)
  PROVE  R \subseteq S
BY DEF Schedules

\* Only events on the PMU see a step; no other counter changes.
LEMMA CountedType ==
  ASSUME value \in [Fd -> SUBSET Unit], NEW u \in Unit
  PROVE  Counted(u) \in [Fd -> SUBSET Unit]
BY DEF Counted

\* What the thread did in an iteration is a unit.
LEMMA DidType ==
  ASSUME NEW w \in Doing, NEW i \in Nat, NEW j \in Nat
  PROVE  Did(w, i, j) \in Unit
BY DEF Did, Unit

\* A row that is written is one.
LEMMA RowType ==
  ASSUME NEW counts \in [Fd -> SUBSET Unit]
  PROVE  Row(counts) \in [Cols -> SUBSET (Fd \X Unit)]
BY DEF Row

-----------------------------------------------------------------------------
(* Type correctness.  The location of the thread bounds its loop index.    *)

Located ==
  /\ pc \in {"warmup", "open"} => run = 0
  /\ pc \in {"open", "reset", "disable"} => idx <= NFds
  /\ pc \in {"enable", "read"} => idx \in open
  /\ pc \in {"reset", "enable", "infer", "disable", "read", "score"} =>
       run < NRuns

TypeInv == TypeOK /\ Located

\* Every step keeps the types.
LEMMA TypeInvStep == TypeInv /\ [Next]_vars => TypeInv'
<1> SUFFICES ASSUME TypeInv, [Next]_vars PROVE TypeInv'
  OBVIOUS
<1> USE DEF TypeInv, TypeOK, Located, counters, results, thread
<1>0. /\ Fd \subseteq Nat
      /\ \A S \in SUBSET Event : \A R \in Schedules(S) : R \subseteq Event
  BY DEF Fd, Schedules, Event
<1>1. CASE Warmup
  BY <1>1 DEF Warmup
<1>2. CASE OpenFd
  <2>1. idx \in Fd /\ idx + 1 \in Nat /\ idx + 1 <= NFds
    BY <1>2 DEF OpenFd, Fd
  <2>2. open' \subseteq Fd
    BY <1>2, <2>1 DEF OpenFd
  <2>3. QED
    BY <1>2, <2>1, <2>2 DEF OpenFd
<1>3. CASE OpenedAll
  BY <1>3 DEF OpenedAll
<1>4. CASE Prepare
  <2>1. Did("prepare", run, 0) \in Unit
    BY DidType DEF Doing, Bracket
  <2>2. QED
    BY <1>4, <2>1, CountedType DEF Prepare
<1>5. CASE Reset
  <2>1. Did("reset", run, idx) \in Unit
    BY DidType DEF Doing, Bracket
  <2>2. QED
    BY <1>5, <2>1, CountedType DEF Reset
<1>6. CASE Enable
  <2>1. Did("enable", run, idx) \in Unit
    BY DidType DEF Doing, Bracket
  <2>2. resident' \in SUBSET Event
    BY <1>6, <1>0 DEF Enable, Event
  <2>3. idx + 1 <= NFds
    BY <1>6 DEF Enable, Fd
  <2>4. QED
    BY <1>6, <2>1, <2>2, <2>3, CountedType DEF Enable
<1>7. CASE SkipEnable
  BY <1>7 DEF SkipEnable
<1>8. CASE StartTimer
  <2>1. Did("start", run, 0) \in Unit
    BY DidType DEF Doing, Bracket
  <2>2. QED
    BY <1>8, <2>1, CountedType DEF StartTimer
<1>9. CASE Infer
  <2>1. Did("infer", run, idx) \in Unit /\ Did("infer", run, idx) \in Elapsed
    BY DidType DEF Doing, Bracket, Did, Elapsed
  <2>2. QED
    BY <1>9, <2>1, CountedType DEF Infer
<1>21. CASE InferByWorkers
  <2>1. Did("wait", run, idx) \in Unit /\ Did("infer", run, idx) \in Elapsed
    BY DidType DEF Doing, Bracket, Did, Elapsed
  <2>2. QED
    BY <1>21, <2>1, CountedType DEF InferByWorkers
<1>10. CASE StopTimer
  <2>1. Did("stop", run, 0) \in Unit
    BY DidType DEF Doing, Bracket
  <2>2. latencies' \in [Iteration -> SUBSET Elapsed]
    BY <1>10 DEF StopTimer
  <2>3. QED
    BY <1>10, <2>1, <2>2, CountedType DEF StopTimer
<1>11. CASE Disable
  <2>1. Did("disable", run, idx) \in Unit
    BY DidType DEF Doing, Bracket
  <2>2. QED
    BY <1>11, <2>1, CountedType DEF Disable
<1>12. CASE Read
  <2>1. Did("read", run, idx) \in Unit
    BY DidType DEF Doing, Bracket
  <2>2. idx + 1 <= NFds
    BY <1>12 DEF Read, Fd
  <2>3. QED
    BY <1>12, <2>1, <2>2, CountedType DEF Read
<1>13. CASE SkipRead
  BY <1>13 DEF SkipRead
<1>14. CASE Store
  <2>1. pmc' \in [Iteration -> [Cols -> SUBSET (Fd \X Unit)]]
    BY <1>14, RowType DEF Store
  <2>2. QED
    BY <1>14, <2>1 DEF Store
<1>15. CASE Score
  <2>1. Did("score", run, 0) \in Unit
    BY DidType DEF Doing, Bracket
  <2>2. QED
    BY <1>15, <2>1, CountedType DEF Score
<1>16. CASE Close
  BY <1>16 DEF Close
<1>17. CASE Tick
  <2>1. Did("tick", run, 0) \in Unit /\ Did("tick", run, 0) \in Elapsed
    BY DidType DEF Doing, Bracket, Did, Elapsed
  <2>2. resident' \in SUBSET Event
    BY <1>17, <1>0 DEF Tick, Event
  <2>3. QED
    BY <1>17, <2>1, <2>2, CountedType DEF Tick
<1>18. CASE Preempt
  <2>1. Did("other", run, 0) \in Elapsed
    BY DEF Did, Elapsed
  <2>2. resident' \in SUBSET Event
    BY <1>18, <1>0 DEF Preempt, Event
  <2>3. QED
    BY <1>18, <2>1, <2>2 DEF Preempt
<1>19. CASE UNCHANGED vars
  BY <1>19 DEF vars
<1>20. QED
  BY <1>1, <1>2, <1>3, <1>4, <1>5, <1>6, <1>7, <1>8, <1>9, <1>10, <1>11,
     <1>12, <1>13, <1>14, <1>15, <1>16, <1>17, <1>18, <1>19, <1>21
     DEF Next, Thread, Terminated

\* Every variable of the loop keeps its type; in particular the loop index
\* used on fd[] and raw[] stays within the array.
THEOREM TypeCorrect == Spec => []TypeOK
<1>1. Init => TypeInv
  BY DEF Init, TypeInv, TypeOK, Located, Schedules, Event, Fd
<1>2. TypeInv => TypeOK
  BY DEF TypeInv
<1>3. QED
  BY <1>1, <1>2, TypeInvStep, PTL DEF Spec

-----------------------------------------------------------------------------
(* Purity.  RowsPure alone is not inductive: it needs to know that a       *)
(* counter is enabled only between its ENABLE and its DISABLE, that only   *)
(* enabled counters are on the PMU, and that what a counter holds once it  *)
(* was reset in this iteration is work of this iteration's bracket.        *)

\* The counters that were reset in the current iteration.
Armed(k) ==
  /\ k \in open
  /\ \/ pc = "reset" /\ k < idx
     \/ pc = "enable" /\ k <= idx
     \/ pc \in {"infer", "disable", "read"}

\* Those between their ENABLE and their DISABLE.
Running(k) ==
  /\ k \in open
  /\ \/ pc \in {"reset", "enable"} /\ k < idx
     \/ pc = "infer"
     \/ pc = "disable" /\ k >= idx
     \/ pc = "read" /\ k > idx

KernelInv ==
  /\ \A k \in Fd : k \in enabled <=> Running(k)
  /\ resident \subseteq enabled \union Outer
ValuePure == \A k \in Fd : Armed(k) => \A u \in value[k] : InWindow(u, run)
RawPure == pc \in {"disable", "read"} =>
             \A k \in Fd : \A u \in raw[k] : InWindow(u, run)
RawOpen == pc # "done" => \A k \in Fd : raw[k] # {} => k \in open

PureInv ==
  /\ TypeInv /\ KernelInv
  /\ ValuePure /\ RawPure /\ RawOpen
  /\ RowsPure /\ UnopenedWritesZero

\* What a row holds came from the counters.
LEMMA RowMember ==
  ASSUME NEW counts \in [Fd -> SUBSET Unit], NEW c \in Cols,
         NEW x \in Row(counts)[c]
  PROVE  x[1] \in Fd /\ x[2] \in counts[x[1]]
BY DEF Row

\* Every step keeps KernelInv.
LEMMA KernelStep == TypeInv /\ KernelInv /\ [Next]_vars => KernelInv'
<1> SUFFICES ASSUME TypeInv, KernelInv, [Next]_vars PROVE KernelInv'
  OBVIOUS
<1> USE DEF TypeInv, TypeOK, Located, KernelInv, counters, results, thread
<1>0. Fd \subseteq Nat /\ \A k \in Fd : k < NFds
  BY DEF Fd
<1>1. CASE Warmup
  BY <1>1 DEF Warmup, Running
<1>2. CASE OpenFd
  BY <1>2 DEF OpenFd, Running
<1>3. CASE OpenedAll
  BY <1>3 DEF OpenedAll, Running
<1>4. CASE Prepare
  BY <1>0, <1>4 DEF Prepare, Running
<1>5. CASE Reset
  <2>1. \A k \in Fd : Running(k)' <=> Running(k)
    BY <1>0, <1>5 DEF Reset, Running
  <2>2. QED
    BY <1>5, <2>1 DEF Reset
<1>6. CASE Enable
  <2>1. \A k \in Fd : Running(k)' <=> (Running(k) \/ k = idx)
    BY <1>0, <1>6 DEF Enable, Running
  <2>2. resident' \subseteq enabled' \union Outer
    BY <1>6, ScheduleSubset DEF Enable
  <2>3. QED
    BY <1>6, <2>1, <2>2 DEF Enable
<1>7. CASE SkipEnable
  <2>0. \A k \in Fd : /\ k < idx + 1 <=> (k < idx \/ k = idx)
                      /\ k >= idx + 1 <=> (k >= idx /\ k # idx)
    BY <1>0
  <2>1. \A k \in Fd : Running(k)' <=> Running(k)
    BY <2>0, <1>7 DEF SkipEnable, Running
  <2>2. QED
    BY <1>7, <2>1 DEF SkipEnable
<1>8. CASE StartTimer
  <2>1. \A k \in Fd : Running(k)' <=> Running(k)
    BY <1>0, <1>8 DEF StartTimer, Running
  <2>2. QED
    BY <1>8, <2>1 DEF StartTimer
<1>9. CASE Infer
  <2>1. \A k \in Fd : Running(k)' <=> Running(k)
    BY <1>9 DEF Infer, Running
  <2>2. QED
    BY <1>9, <2>1 DEF Infer
<1>21. CASE InferByWorkers
  <2>1. \A k \in Fd : Running(k)' <=> Running(k)
    BY <1>21 DEF InferByWorkers, Running
  <2>2. QED
    BY <1>21, <2>1 DEF InferByWorkers
<1>10. CASE StopTimer
  <2>1. \A k \in Fd : Running(k)' <=> Running(k)
    BY <1>0, <1>10 DEF StopTimer, Running
  <2>2. QED
    BY <1>10, <2>1 DEF StopTimer
<1>11. CASE Disable
  <2>1. \A k \in Fd : Running(k)' <=> (Running(k) /\ k # idx)
    BY <1>0, <1>11 DEF Disable, Running
  <2>2. QED
    BY <1>11, <2>1 DEF Disable
<1>12. CASE Read
  <2>1. \A k \in Fd : Running(k)' <=> Running(k)
    BY <1>0, <1>12 DEF Read, Running
  <2>2. QED
    BY <1>12, <2>1 DEF Read
<1>13. CASE SkipRead
  <2>0. \A k \in Fd : /\ k < idx + 1 <=> (k < idx \/ k = idx)
                      /\ k >= idx + 1 <=> (k >= idx /\ k # idx)
    BY <1>0
  <2>1. \A k \in Fd : Running(k)' <=> Running(k)
    BY <2>0, <1>13 DEF SkipRead, Running
  <2>2. QED
    BY <1>13, <2>1 DEF SkipRead
<1>14. CASE Store
  <2>1. \A k \in Fd : Running(k)' <=> Running(k)
    BY <1>0, <1>14 DEF Store, Running
  <2>2. QED
    BY <1>14, <2>1 DEF Store
<1>15. CASE Score
  BY <1>15 DEF Score, Running
<1>16. CASE Close
  BY <1>16 DEF Close, Running
<1>17. CASE Tick
  BY <1>17, ScheduleSubset DEF Tick, Running
<1>18. CASE Preempt
  BY <1>18, ScheduleSubset DEF Preempt, Running
<1>19. CASE UNCHANGED vars
  BY <1>19 DEF vars, Running
<1>20. QED
  BY <1>1, <1>2, <1>3, <1>4, <1>5, <1>6, <1>7, <1>8, <1>9, <1>10, <1>11,
     <1>12, <1>13, <1>14, <1>15, <1>16, <1>17, <1>18, <1>19, <1>21
     DEF Next, Thread, Terminated

\* A step of this iteration's bracket keeps what the armed counters hold
\* pure.
LEMMA CountedPure ==
  ASSUME value \in [Fd -> SUBSET Unit], ValuePure, NEW u, InWindow(u, run)
  PROVE  \A k \in Fd : Armed(k) => \A v \in Counted(u)[k] : InWindow(v, run)
BY DEF Counted, ValuePure

\* Every step keeps PureInv.
LEMMA PureStep == PureInv /\ [Next]_vars => PureInv'
<1> SUFFICES ASSUME PureInv, [Next]_vars PROVE PureInv'
  OBVIOUS
<1> USE DEF PureInv, TypeInv, TypeOK, Located, counters, results, thread,
        InWindow, Own
<1>a. TypeInv' /\ KernelInv'
  BY TypeInvStep, KernelStep
<1>b. Fd \subseteq Nat /\ \A k \in Fd : k < NFds
  BY DEF Fd
<1>c. \A w \in Bracket : \A j : InWindow(Did(w, run, j), run)
  BY DEF InWindow, Did
<1> DEFINE Rest == ValuePure' /\ RawPure' /\ RawOpen' /\ RowsPure'
                   /\ UnopenedWritesZero'
<1> SUFFICES Rest
  BY <1>a
<1> USE DEF ValuePure, RawPure, RawOpen, RowsPure, UnopenedWritesZero, Armed
<1>1. CASE Warmup
  BY <1>1 DEF Warmup
<1>2. CASE OpenFd
  BY <1>2 DEF OpenFd
<1>3. CASE OpenedAll
  BY <1>3 DEF OpenedAll
<1>4. CASE Prepare
  BY <1>b, <1>4 DEF Prepare
<1>5. CASE Reset
  <2> DEFINE u == Did("reset", run, idx)
  <2>1. InWindow(u, run)
    BY <1>c DEF Bracket
  <2>2. \A k \in Fd : Armed(k) => \A v \in Counted(u)[k] : InWindow(v, run)
    BY <2>1, CountedPure
  <2>3. \A k \in Fd : Armed(k)' => Armed(k) \/ k = idx
    BY <1>b, <1>5 DEF Reset
  <2>4. /\ \A k \in Fd \ {idx} : value'[k] = Counted(u)[k]
        /\ value'[idx] = {}
    BY <1>5 DEF Reset, Counted
  <2>5. ValuePure'
    BY <1>5, <2>2, <2>3, <2>4 DEF Reset
  <2>6. QED
    BY <1>5, <2>5 DEF Reset
<1>6. CASE Enable
  <2> DEFINE u == Did("enable", run, idx)
  <2>1. InWindow(u, run)
    BY <1>c DEF Bracket
  <2>2. \A k \in Fd : Armed(k) => \A v \in Counted(u)[k] : InWindow(v, run)
    BY <2>1, CountedPure
  <2>3. \A k \in Fd : Armed(k)' => Armed(k)
    BY <1>b, <1>6 DEF Enable
  <2>4. ValuePure'
    BY <1>6, <2>2, <2>3 DEF Enable
  <2>5. QED
    BY <1>6, <2>4 DEF Enable
<1>7. CASE SkipEnable
  <2>0. \A k \in Fd : k < idx + 1 <=> (k < idx \/ k = idx)
    BY <1>b
  <2>1. \A k \in Fd : Armed(k)' => Armed(k)
    BY <2>0, <1>7 DEF SkipEnable
  <2>2. QED
    BY <1>7, <2>1 DEF SkipEnable
<1>8. CASE StartTimer
  <2> DEFINE u == Did("start", run, 0)
  <2>1. InWindow(u, run)
    BY <1>c DEF Bracket
  <2>2. \A k \in Fd : Armed(k) => \A v \in Counted(u)[k] : InWindow(v, run)
    BY <2>1, CountedPure
  <2>3. \A k \in Fd : Armed(k)' => Armed(k)
    BY <1>b, <1>8 DEF StartTimer
  <2>4. ValuePure'
    BY <1>8, <2>2, <2>3 DEF StartTimer
  <2>5. QED
    BY <1>8, <2>4 DEF StartTimer
<1>9. CASE Infer
  <2> DEFINE u == Did("infer", run, idx)
  <2>1. InWindow(u, run)
    BY <1>9 DEF InWindow, Own, Inference, Infer
  <2>2. \A k \in Fd : Armed(k) => \A v \in Counted(u)[k] : InWindow(v, run)
    BY <2>1, CountedPure
  <2>3. \A k \in Fd : Armed(k)' => Armed(k)
    BY <1>9 DEF Infer
  <2>4. ValuePure'
    BY <1>9, <2>2, <2>3 DEF Infer
  <2>5. QED
    BY <1>9, <2>4 DEF Infer
<1>21. CASE InferByWorkers
  <2> DEFINE u == Did("wait", run, idx)
  <2>1. InWindow(u, run)
    BY <1>c DEF Bracket
  <2>2. \A k \in Fd : Armed(k) => \A v \in Counted(u)[k] : InWindow(v, run)
    BY <2>1, CountedPure
  <2>3. \A k \in Fd : Armed(k)' => Armed(k)
    BY <1>21 DEF InferByWorkers
  <2>4. ValuePure'
    BY <1>21, <2>2, <2>3 DEF InferByWorkers
  <2>5. QED
    BY <1>21, <2>4 DEF InferByWorkers
<1>10. CASE StopTimer
  <2> DEFINE u == Did("stop", run, 0)
  <2>1. InWindow(u, run)
    BY <1>c DEF Bracket
  <2>2. \A k \in Fd : Armed(k) => \A v \in Counted(u)[k] : InWindow(v, run)
    BY <2>1, CountedPure
  <2>3. \A k \in Fd : Armed(k)' => Armed(k)
    BY <1>10 DEF StopTimer
  <2>4. ValuePure'
    BY <1>10, <2>2, <2>3 DEF StopTimer
  <2>5. QED
    BY <1>10, <2>4 DEF StopTimer
<1>11. CASE Disable
  <2> DEFINE u == Did("disable", run, idx)
  <2>1. InWindow(u, run)
    BY <1>c DEF Bracket
  <2>2. \A k \in Fd : Armed(k) => \A v \in Counted(u)[k] : InWindow(v, run)
    BY <2>1, CountedPure
  <2>3. \A k \in Fd : Armed(k)' => Armed(k)
    BY <1>11 DEF Disable
  <2>4. ValuePure'
    BY <1>11, <2>2, <2>3 DEF Disable
  <2>5. QED
    BY <1>11, <2>4 DEF Disable
<1>12. CASE Read
  <2> DEFINE u == Did("read", run, idx)
  <2>1. InWindow(u, run)
    BY <1>c DEF Bracket
  <2>2. \A k \in Fd : Armed(k) => \A v \in Counted(u)[k] : InWindow(v, run)
    BY <2>1, CountedPure
  <2>3. (\A k \in Fd : Armed(k)' => Armed(k)) /\ Armed(idx)
    BY <1>12 DEF Read
  <2>4. ValuePure'
    BY <1>12, <2>2, <2>3 DEF Read
  <2>5. /\ \A k \in Fd \ {idx} : raw'[k] = raw[k]
        /\ raw'[idx] = value[idx]
    BY <1>12 DEF Read
  <2>6. RawPure' /\ RawOpen'
    BY <1>12, <2>3, <2>5 DEF Read
  <2>7. QED
    BY <1>12, <2>4, <2>6 DEF Read
<1>13. CASE SkipRead
  BY <1>13 DEF SkipRead
<1>14. CASE Store
  <2>1. /\ \A i \in Iteration \ {run} : pmc'[i] = pmc[i]
        /\ run \in Iteration => pmc'[run] = Row(raw)
    BY <1>14 DEF Store
  <2>2. \A c \in Cols : \A x \in Row(raw)[c] :
          x[1] \in Fd /\ x[2] \in raw[x[1]]
    BY RowMember
  <2>3. \A c \in Cols : \A x \in Row(raw)[c] :
          InWindow(x[2], run) /\ x[1] \in open
    BY <1>14, <2>2 DEF Store
  <2>4. RowsPure'
    BY <1>14, <2>1, <2>3 DEF Store
  <2>5. UnopenedWritesZero'
    BY <1>14, <2>1, <2>3 DEF Store
  <2>6. QED
    BY <1>14, <2>4, <2>5 DEF Store
<1>15. CASE Score
  BY <1>15 DEF Score
<1>16. CASE Close
  BY <1>16 DEF Close
<1>17. CASE Tick
  <2> DEFINE u == Did("tick", run, 0)
  <2>1. InWindow(u, run)
    BY <1>c DEF Bracket
  <2>2. \A k \in Fd : Armed(k) => \A v \in Counted(u)[k] : InWindow(v, run)
    BY <2>1, CountedPure
  <2>3. \A k \in Fd : Armed(k)' => Armed(k)
    BY <1>17 DEF Tick
  <2>4. ValuePure'
    BY <1>17, <2>2, <2>3 DEF Tick
  <2>5. QED
    BY <1>17, <2>4 DEF Tick
<1>18. CASE Preempt
  BY <1>18 DEF Preempt
<1>19. CASE UNCHANGED vars
  BY <1>19 DEF vars
<1>20. QED
  BY <1>1, <1>2, <1>3, <1>4, <1>5, <1>6, <1>7, <1>8, <1>9, <1>10, <1>11,
     <1>12, <1>13, <1>14, <1>15, <1>16, <1>17, <1>18, <1>19, <1>21
     DEF Next, Thread, Terminated

\* PureInv holds at the start.
LEMMA PureInit == Init => PureInv
<1> SUFFICES ASSUME Init PROVE PureInv
  OBVIOUS
<1> USE DEF Init
<1>1. TypeInv
  BY DEF TypeInv, TypeOK, Located, Schedules, Event, Fd
<1>2. KernelInv
  BY ScheduleSubset DEF KernelInv, Running
<1>3. ValuePure /\ RawPure /\ RawOpen
  BY DEF ValuePure, Armed, RawPure, RawOpen
<1>4. RowsPure /\ UnopenedWritesZero
  BY DEF RowsPure, UnopenedWritesZero
<1>5. QED
  BY <1>1, <1>2, <1>3, <1>4 DEF PureInv

\* It holds at all times.
LEMMA PureInvariant == Spec => []PureInv
BY PureInit, PureStep, PTL DEF Spec

\* Whatever the kernel schedules and whenever it interrupts, a row holds
\* nothing but work done between perf_reset_enable and perf_disable_read of
\* its own iteration: no warm-up, no other inference, no scoring.
THEOREM Purity == Spec => []RowsPure
<1>1. PureInv => RowsPure
  BY DEF PureInv
<1>2. QED
  BY <1>1, PureInvariant, PTL

\* The harness's counters are off whenever the thread is outside the
\* bracket, and a counter that did not open is never enabled.
THEOREM OffOutside == Spec => []CountersOffOutside
<1>1. PureInv => CountersOffOutside
  BY DEF PureInv, TypeInv, TypeOK, KernelInv, Running, CountersOffOutside
<1>2. QED
  BY <1>1, PureInvariant, PTL

\* A counter that did not open leaves its columns without a count of it.
THEOREM UnopenedZero == Spec => []UnopenedWritesZero
<1>1. PureInv => UnopenedWritesZero
  BY DEF PureInv
<1>2. QED
  BY <1>1, PureInvariant, PTL

-----------------------------------------------------------------------------
(* Completeness, on a PMU that can host every event at once.  Then each    *)
(* enabled counter is on the PMU at every step, so it has counted every    *)
(* part of the inference done so far, and perf_disable_read copies that.   *)

EnoughRoom == Event \in Hostable

ValueComplete ==
  /\ pc = "infer" =>
       \A k \in open : \A p \in 0 .. idx - 1 :
         Did("infer", run, p) \notin lent => Did("infer", run, p) \in value[k]
  /\ pc \in {"disable", "read"} =>
       \A k \in open : \A u \in Own(run) : u \in value[k]
RawComplete ==
  pc \in {"disable", "read"} =>
    \A k \in open : k < idx => \A u \in Own(run) : u \in raw[k]

CompleteInv ==
  /\ PureInv
  /\ enabled \subseteq resident
  /\ ValueComplete /\ RawComplete /\ RowsComplete

\* With room for all, the only maximal schedule is everything.
LEMMA ScheduleAll ==
  ASSUME EnoughRoom, NEW S \in SUBSET Event, NEW R \in Schedules(S)
  PROVE  R = S
<1>1. R \subseteq S
  BY ScheduleSubset
<1>2. ASSUME NEW e \in S, e \notin R PROVE FALSE
  <2>1. R \union {e} \in SUBSET Event
    BY <1>1, <1>2
  <2>2. R \union {e} \in Hostable
    BY <2>1, HostableAssumption DEF EnoughRoom, HostableAssumption
  <2>3. QED
    BY <1>2, <2>2 DEF Schedules
<1>3. QED
  BY <1>1, <1>2

\* A step adds to what a counter holds, and reaches every counter on the
\* PMU.
LEMMA CountedGrows ==
  ASSUME value \in [Fd -> SUBSET Unit], NEW u, NEW k \in Fd
  PROVE  /\ value[k] \subseteq Counted(u)[k]
         /\ k \in resident => u \in Counted(u)[k]
BY DEF Counted

\* A row holds all that was read from its counters.
LEMMA RowHolds ==
  ASSUME NEW counts \in [Fd -> SUBSET Unit], NEW k \in Fd,
         NEW u \in counts[k]
  PROVE  <<k, u>> \in Row(counts)[Column[k]]
<1>1. Column[k] \in Cols
  BY DEF Cols
<1>2. k \in {j \in Fd : Column[j] = Column[k]}
  OBVIOUS
<1>3. <<k, u>> \in {k} \X counts[k]
  OBVIOUS
<1>4. QED
  BY <1>1, <1>2, <1>3 DEF Row

\* With enough room a counter that is enabled stays on its hardware.
LEMMA ResidentStep ==
  ASSUME EnoughRoom, PureInv, enabled \subseteq resident, [Next]_vars
  PROVE  enabled' \subseteq resident'
<1> USE DEF PureInv, TypeInv, TypeOK, counters, results, thread
<1>1. CASE Enable
  <2>1. enabled' \union Outer \in SUBSET Event
    BY <1>1 DEF Enable, Event, Located
  <2>2. QED
    BY <1>1, <2>1, ScheduleAll DEF Enable
<1>2. CASE Tick
  BY <1>2, ScheduleAll DEF Tick, Event
<1>3. CASE Preempt
  BY <1>3, ScheduleAll DEF Preempt, Event
<1>4. CASE Disable
  BY <1>4 DEF Disable
<1>5. CASE UNCHANGED vars
  BY <1>5 DEF vars
<1>6. QED
  BY <1>1, <1>2, <1>3, <1>4, <1>5
     DEF Next, Thread, Terminated, Warmup, OpenFd, OpenedAll, Prepare, Reset,
         SkipEnable, StartTimer, Infer, InferByWorkers, StopTimer, Read,
         SkipRead, Store, Score, Close

\* Every step keeps CompleteInv.
LEMMA CompleteStep ==
  ASSUME EnoughRoom, CompleteInv, [Next]_vars
  PROVE  CompleteInv'
<1> USE DEF CompleteInv, PureInv, TypeInv, TypeOK, Located, counters, results,
        thread, Own
<1>a. PureInv' /\ enabled' \subseteq resident'
  BY PureStep, ResidentStep
<1>b. Fd \subseteq Nat /\ \A k \in Fd : k < NFds
  BY DEF Fd
<1> DEFINE Rest == ValueComplete' /\ RawComplete' /\ RowsComplete'
<1> SUFFICES Rest
  BY <1>a
<1> USE DEF ValueComplete, RawComplete, RowsComplete, Stored, InRow
<1>1. CASE Warmup
  BY <1>1 DEF Warmup
<1>2. CASE OpenFd
  <2>1. run' = 0 /\ pc' = "open"
    BY <1>2 DEF OpenFd
  <2>2. \A i \in Iteration : i \notin Stored'
    BY <2>1 DEF Iteration
  <2>3. QED
    BY <2>1, <2>2 DEF Iteration
<1>3. CASE OpenedAll
  BY <1>3 DEF OpenedAll
<1>4. CASE Prepare
  BY <1>4 DEF Prepare
<1>5. CASE Reset
  BY <1>5 DEF Reset
<1>6. CASE Enable
  BY <1>6 DEF Enable
<1>7. CASE SkipEnable
  BY <1>7 DEF SkipEnable
<1>8. CASE StartTimer
  BY <1>8 DEF StartTimer
<1>9. CASE Infer
  <2> DEFINE u == Did("infer", run, idx)
  <2>1. \A k \in open : u \in Counted(u)[k]
    BY <1>9, CountedGrows DEF Infer, KernelInv, Running
  <2>2. \A k \in open : value[k] \subseteq Counted(u)[k]
    BY CountedGrows
  <2>3. \A p \in 0 .. idx' - 1 : p \in 0 .. idx - 1 \/ p = idx
    BY <1>9 DEF Infer
  <2>4. ValueComplete'
    BY <1>9, <2>1, <2>2, <2>3 DEF Infer
  <2>5. QED
    BY <1>9, <2>4 DEF Infer
<1>21. CASE InferByWorkers
  <2>1. \A k \in open : value[k] \subseteq value'[k]
    BY <1>21, CountedGrows DEF InferByWorkers
  <2>2. \A p \in 0 .. idx' - 1 : p \in 0 .. idx - 1 \/ p = idx
    BY <1>21 DEF InferByWorkers
  <2>3. ValueComplete'
    BY <1>21, <2>1, <2>2 DEF InferByWorkers
  <2>4. QED
    BY <1>21, <2>3 DEF InferByWorkers
<1>10. CASE StopTimer
  <2>1. \A k \in open : \A u \in Own(run) : u \in value[k]
    BY <1>10 DEF StopTimer, Own, Inference
  <2>2. \A k \in open : value[k] \subseteq value'[k]
    BY <1>10, CountedGrows DEF StopTimer
  <2>3. ValueComplete'
    BY <1>10, <2>1, <2>2 DEF StopTimer
  <2>4. RawComplete'
    BY <1>10, <1>b DEF StopTimer
  <2>5. QED
    BY <1>10, <2>3, <2>4 DEF StopTimer
<1>11. CASE Disable
  <2>1. \A k \in open : value[k] \subseteq value'[k]
    BY <1>11, CountedGrows DEF Disable
  <2>2. ValueComplete'
    BY <1>11, <2>1 DEF Disable
  <2>3. QED
    BY <1>11, <2>2 DEF Disable
<1>12. CASE Read
  <2>1. \A k \in open : value[k] \subseteq value'[k]
    BY <1>12, CountedGrows DEF Read
  <2>2. ValueComplete'
    BY <1>12, <2>1 DEF Read
  <2>3. \A k \in Fd : k < idx + 1 <=> (k < idx \/ k = idx)
    BY <1>b
  <2>4. /\ \A k \in Fd \ {idx} : raw'[k] = raw[k]
        /\ raw'[idx] = value[idx]
    BY <1>12 DEF Read
  <2>5. RawComplete'
    BY <1>12, <2>3, <2>4 DEF Read
  <2>6. QED
    BY <1>12, <2>2, <2>5 DEF Read
<1>13. CASE SkipRead
  <2>1. \A k \in Fd : k < idx + 1 <=> (k < idx \/ k = idx)
    BY <1>b
  <2>2. RawComplete'
    BY <1>13, <2>1 DEF SkipRead
  <2>3. QED
    BY <1>13, <2>2 DEF SkipRead
<1>14. CASE Store
  <2>1. \A k \in open : \A u \in Own(run) : u \in raw[k]
    BY <1>14, <1>b DEF Store
  <2>2. \A k \in open : \A u \in Own(run) :
          <<k, u>> \in Row(raw)[Column[k]]
    BY <2>1, RowHolds
  <2>3. /\ \A i \in Iteration \ {run} : pmc'[i] = pmc[i]
        /\ run \in Iteration => pmc'[run] = Row(raw)
    BY <1>14 DEF Store
  <2>4. Stored' \subseteq Stored \union {run}
    BY <1>14 DEF Store
  <2>5. RowsComplete'
    BY <1>14, <2>2, <2>3, <2>4 DEF Store
  <2>6. QED
    BY <1>14, <2>5 DEF Store
<1>15. CASE Score
  <2>1. Stored' \subseteq Stored
    BY <1>15 DEF Score, Iteration
  <2>2. RowsComplete'
    BY <1>15, <2>1 DEF Score
  <2>3. QED
    BY <1>15, <2>2 DEF Score
<1>16. CASE Close
  BY <1>16 DEF Close
<1>17. CASE Tick
  <2>1. \A k \in open : value[k] \subseteq value'[k]
    BY <1>17, CountedGrows DEF Tick
  <2>2. ValueComplete'
    BY <1>17, <2>1 DEF Tick
  <2>3. QED
    BY <1>17, <2>2 DEF Tick
<1>18. CASE Preempt
  BY <1>18 DEF Preempt
<1>19. CASE UNCHANGED vars
  BY <1>19 DEF vars
<1>20. QED
  BY <1>1, <1>2, <1>3, <1>4, <1>5, <1>6, <1>7, <1>8, <1>9, <1>10, <1>11,
     <1>12, <1>13, <1>14, <1>15, <1>16, <1>17, <1>18, <1>19, <1>21
     DEF Next, Thread, Terminated

\* CompleteInv holds at all times.
LEMMA CompleteInvariant ==
  ASSUME EnoughRoom
  PROVE  Spec => []CompleteInv
<1>1. Init => CompleteInv
  BY PureInit DEF CompleteInv, Init, ValueComplete, RawComplete, RowsComplete,
     Stored, Iteration
<1>2. CompleteInv /\ [Next]_vars => CompleteInv'
  BY CompleteStep
<1>3. QED
  BY <1>1, <1>2, PTL DEF Spec

\* Where the PMU can host all the events, the row of an iteration covers for
\* every counter that opened all that the main thread did of its inference.
THEOREM Completeness ==
  ASSUME EnoughRoom
  PROVE  Spec => []RowsComplete
<1>1. CompleteInv => RowsComplete
  BY DEF CompleteInv
<1>2. QED
  BY <1>1, CompleteInvariant, PTL

\* The row of an iteration covers its whole inference.
WholeInference ==
  pc # "done" =>
    \A i \in Stored : \A k \in open : \A u \in Inference(i) : InRow(i, k, u)

\* For a program with one thread (all but those that link OpenMP) that is
\* the whole inference.
THEOREM OneThread ==
  ASSUME EnoughRoom, Shared = {}
  PROVE  Spec => []WholeInference
<1>1. CompleteInv => WholeInference
  <2> SUFFICES ASSUME CompleteInv PROVE WholeInference
    OBVIOUS
  <2>1. lent = {}
    BY DEF CompleteInv, PureInv, TypeInv, TypeOK, Lendable
  <2>2. QED
    BY <2>1 DEF CompleteInv, RowsComplete, WholeInference, Own
<1>2. QED
  BY <1>1, CompleteInvariant, PTL

-----------------------------------------------------------------------------
(* The overhead of the calls, on such a PMU.  OverheadBalanced compares    *)
(* sizes, so it needs to be known which calls a counter has counted: the   *)
(* invariant names them for every counter at every step, and the sizes are *)
(* compared by a bijection with a set that is the same for all counters.   *)

\* The bracketing calls, without interrupts and waiting.
Call == Bracket \ Aside

\* The window of counter k holds the RESET and ENABLE of the counters after
\* it, both readings of the clock, its own DISABLE and the DISABLE and read
\* of those before it.
Billed(k, u) ==
  \/ u.by \in {"reset", "enable"} /\ u.n \in open /\ u.n > k
  \/ u.by \in {"start", "stop"} /\ u.n = 0
  \/ u.by = "disable" /\ u.n \in open /\ u.n <= k
  \/ u.by = "read" /\ u.n \in open /\ u.n < k

\* The call u of the current iteration is over.
Made(u) ==
  \/ u.by = "reset" /\ Armed(u.n)
  \/ /\ u.by = "enable"
     /\ \/ pc \in {"reset", "enable"} /\ u.n < idx
        \/ pc \in {"infer", "disable", "read"}
  \/ u.by = "start" /\ pc \in {"infer", "disable", "read"}
  \/ u.by = "stop" /\ pc \in {"disable", "read"}
  \/ /\ u.by = "disable"
     /\ (pc = "disable" /\ u.n < idx) \/ (pc = "read" /\ u.n <= idx)
  \/ u.by = "read" /\ pc \in {"disable", "read"} /\ u.n < idx

CallUnit == {u \in Unit : u.by \in Call}

ValueBilled ==
  \A k \in Fd : Armed(k) =>
    \A u \in CallUnit : u \in value[k] <=> u.run = run /\ Billed(k, u) /\ Made(u)
RawBilled ==
  pc \in {"disable", "read"} =>
    \A k \in open : k < idx =>
      \A u \in CallUnit : u \in raw[k] <=> u.run = run /\ Billed(k, u)
RowsBilled ==
  pc # "done" =>
    \A i \in Stored : \A k \in open :
      \A u \in CallUnit : InRow(i, k, u) <=> u.run = i /\ Billed(k, u)

BilledInv == CompleteInv /\ ValueBilled /\ RawBilled /\ RowsBilled

\* With room for all, a step is counted by the running counters and by them
\* alone.
LEMMA CountedByRunning ==
  ASSUME KernelInv, enabled \subseteq resident, value \in [Fd -> SUBSET Unit],
         NEW w, NEW k \in Fd
  PROVE  Counted(w)[k] = IF Running(k) THEN value[k] \union {w} ELSE value[k]
<1>1. k \in resident <=> Running(k)
  BY DEF KernelInv, Fd
<1>2. QED
  BY <1>1 DEF Counted

\* A unit is the step it names.
LEMMA UnitIs ==
  ASSUME NEW u \in Unit, NEW w \in Doing, NEW i \in Nat, NEW n \in Nat
  PROVE  u = Did(w, i, n) <=> u.by = w /\ u.run = i /\ u.n = n
BY DEF Unit, Did

\* A row holds of each counter what was read from it.
LEMMA RowExactly ==
  ASSUME NEW counts \in [Fd -> SUBSET Unit], NEW k \in Fd, NEW u
  PROVE  <<k, u>> \in Row(counts)[Column[k]] <=> u \in counts[k]
<1>1. Column[k] \in Cols
  BY DEF Cols
<1>2. ASSUME <<k, u>> \in Row(counts)[Column[k]] PROVE u \in counts[k]
  BY <1>1, <1>2 DEF Row
<1>3. QED
  BY <1>2, RowHolds

\* Every step keeps ValueBilled.
LEMMA ValueBilledStep ==
  ASSUME BilledInv, PureInv', Thread
  PROVE  ValueBilled'
<1> SUFFICES ASSUME NEW k \in Fd, Armed(k)', NEW u \in CallUnit
             PROVE  u \in value'[k] <=> u.run = run' /\ Billed(k, u)' /\ Made(u)'
  BY DEF ValueBilled
<1> USE DEF counters, results
<1>a. /\ PureInv /\ TypeInv /\ TypeOK /\ Located /\ KernelInv /\ ValueBilled
      /\ enabled \subseteq resident
  BY DEF BilledInv, CompleteInv, PureInv, TypeInv
<1>b. /\ run \in Nat /\ idx \in Nat /\ open \subseteq Fd /\ Fd \subseteq Nat
      /\ \A n \in open : n < NFds
      /\ value \in [Fd -> SUBSET Unit]
  BY <1>a DEF TypeOK, Fd
<1>c. u \in Unit /\ u.by \in Call /\ u.n \in Nat /\ u.run \in Nat
  BY DEF CallUnit, Unit
<1>d. \A w \in Doing : \A n \in Nat :
        u = Did(w, run, n) <=> u.by = w /\ u.run = run /\ u.n = n
  BY <1>b, <1>c, UnitIs
<1>e. \A w : Counted(w)[k] = IF Running(k) THEN value[k] \union {w} ELSE value[k]
  BY <1>a, <1>b, CountedByRunning
<1>f. Armed(k) =>
        (u \in value[k] <=> u.run = run /\ Billed(k, u) /\ Made(u))
  BY <1>a DEF ValueBilled
<1>g. pc \in {"enable", "read"} => idx \in open
  BY <1>a DEF Located
<1>h. pc \in {"reset", "disable"} => idx <= NFds
  BY <1>a DEF Located
<1>i. {"reset", "enable", "start", "stop", "disable", "read"} \subseteq Doing
  BY DEF Doing, Bracket
<1>j. u.by \in {"reset", "enable", "start", "stop", "disable", "read"}
  BY <1>c DEF Call, Aside, Bracket
<1>k. k \in Nat /\ k < NFds
  BY <1>b DEF Fd
<1>1. CASE Reset
  <2>1. CASE k = idx
    <3>1. value'[k] = {}
      BY <1>1, <1>b, <2>1 DEF Reset, Counted
    <3>2. ~(Billed(k, u)' /\ Made(u)')
      BY <1>1, <1>b, <1>c, <2>1 DEF Reset, Billed, Made, Armed
    <3>3. QED
      BY <3>1, <3>2
  <2>2. CASE k # idx
    <3>1. Armed(k) /\ Running(k) /\ k < idx
      BY <1>1, <1>b, <1>k, <2>2 DEF Reset, Armed, Running
    <3>2. value'[k] = value[k] \union {Did("reset", run, idx)}
      BY <1>1, <1>b, <1>e, <2>2, <3>1 DEF Reset, Counted
    <3>3. Made(u)' <=> Made(u) \/ (u.by = "reset" /\ u.n = idx)
      BY <1>1, <1>b, <1>c DEF Reset, Made, Armed
    <3>4. Billed(k, u)' <=> Billed(k, u)
      BY <1>1 DEF Reset, Billed
    <3>5. u.by = "reset" /\ u.n = idx => Billed(k, u)
      BY <1>1, <3>1 DEF Reset, Billed
    <3>6. run' = run
      BY <1>1 DEF Reset
    <3>7. QED
      BY <1>b, <1>d, <1>f, <1>i, <3>1, <3>2, <3>3, <3>4, <3>5, <3>6
  <2>3. QED
    BY <2>1, <2>2
<1>2. CASE Enable
  <2>1. Armed(k) /\ (Running(k) <=> k < idx)
    BY <1>2, <1>b, <1>k DEF Enable, Armed, Running
  <2>2. value'[k] = IF Running(k) THEN value[k] \union {Did("enable", run, idx)}
                                  ELSE value[k]
    BY <1>2, <1>e DEF Enable
  <2>3. Made(u)' <=> Made(u) \/ (u.by = "enable" /\ u.n = idx)
    BY <1>2, <1>b, <1>c DEF Enable, Made, Armed
  <2>4. Billed(k, u)' <=> Billed(k, u)
    BY <1>2 DEF Enable, Billed
  <2>5. u.by = "enable" /\ u.n = idx => (Billed(k, u) <=> k < idx)
    BY <1>2, <1>g DEF Enable, Billed
  <2>6. run' = run
    BY <1>2 DEF Enable
  <2>7. QED
    BY <1>b, <1>d, <1>f, <1>i, <2>1, <2>2, <2>3, <2>4, <2>5, <2>6
<1>3. CASE StartTimer
  <2>1. Armed(k) /\ Running(k)
    BY <1>3, <1>b, <1>k DEF StartTimer, Armed, Running
  <2>2. value'[k] = value[k] \union {Did("start", run, 0)}
    BY <1>3, <1>e, <2>1 DEF StartTimer
  <2>3. Billed(k, u) => (Made(u)' <=> Made(u) \/ (u.by = "start" /\ u.n = 0))
    BY <1>3, <1>b, <1>c DEF StartTimer, Made, Armed, Billed
  <2>4. Billed(k, u)' <=> Billed(k, u)
    BY <1>3 DEF StartTimer, Billed
  <2>5. u.by = "start" /\ u.n = 0 => Billed(k, u)
    BY DEF Billed
  <2>6. run' = run
    BY <1>3 DEF StartTimer
  <2>7. QED
    BY <1>d, <1>f, <1>i, <2>1, <2>2, <2>3, <2>4, <2>5, <2>6
<1>4. CASE Infer
  <2>1. Armed(k)
    BY <1>4, <1>b, <1>k DEF Infer, Armed
  <2>2. u # Did("infer", run, idx)
    BY <1>j DEF Did
  <2>3. u \in value'[k] <=> u \in value[k]
    BY <1>4, <1>e, <2>2 DEF Infer
  <2>4. (Made(u)' <=> Made(u)) /\ (Billed(k, u)' <=> Billed(k, u)) /\ run' = run
    BY <1>4 DEF Infer, Made, Armed, Billed
  <2>5. QED
    BY <1>f, <2>1, <2>3, <2>4
<1>11. CASE InferByWorkers
  <2>1. Armed(k)
    BY <1>11, <1>b, <1>k DEF InferByWorkers, Armed
  <2>2. u # Did("wait", run, idx)
    BY <1>j DEF Did
  <2>3. u \in value'[k] <=> u \in value[k]
    BY <1>11, <1>e, <2>2 DEF InferByWorkers
  <2>4. (Made(u)' <=> Made(u)) /\ (Billed(k, u)' <=> Billed(k, u)) /\ run' = run
    BY <1>11 DEF InferByWorkers, Made, Armed, Billed
  <2>5. QED
    BY <1>f, <2>1, <2>3, <2>4
<1>5. CASE StopTimer
  <2>1. Armed(k) /\ Running(k)
    BY <1>5, <1>b, <1>k DEF StopTimer, Armed, Running
  <2>2. value'[k] = value[k] \union {Did("stop", run, 0)}
    BY <1>5, <1>e, <2>1 DEF StopTimer
  <2>3. Billed(k, u) => (Made(u)' <=> Made(u) \/ (u.by = "stop" /\ u.n = 0))
    BY <1>5, <1>b, <1>c DEF StopTimer, Made, Armed, Billed
  <2>4. Billed(k, u)' <=> Billed(k, u)
    BY <1>5 DEF StopTimer, Billed
  <2>5. u.by = "stop" /\ u.n = 0 => Billed(k, u)
    BY DEF Billed
  <2>6. run' = run
    BY <1>5 DEF StopTimer
  <2>7. QED
    BY <1>d, <1>f, <1>i, <2>1, <2>2, <2>3, <2>4, <2>5, <2>6
<1>6. CASE Disable
  <2>1. Armed(k) /\ (Running(k) <=> k >= idx)
    BY <1>6, <1>b, <1>k DEF Disable, Armed, Running
  <2>2. value'[k] = IF Running(k) THEN value[k] \union {Did("disable", run, idx)}
                                  ELSE value[k]
    BY <1>6, <1>e DEF Disable
  <2>3. Made(u)' <=> Made(u) \/ (u.by = "disable" /\ u.n = idx)
    BY <1>6, <1>b, <1>c DEF Disable, Made, Armed
  <2>4. Billed(k, u)' <=> Billed(k, u)
    BY <1>6 DEF Disable, Billed
  <2>5. u.by = "disable" /\ u.n = idx => (Billed(k, u) <=> k >= idx)
    BY <1>6, <1>b, <1>k DEF Disable, Billed
  <2>6. run' = run
    BY <1>6 DEF Disable
  <2>7. QED
    BY <1>b, <1>d, <1>f, <1>i, <2>1, <2>2, <2>3, <2>4, <2>5, <2>6
<1>7. CASE Read
  <2>1. Armed(k) /\ (Running(k) <=> k > idx)
    BY <1>7, <1>b, <1>k DEF Read, Armed, Running
  <2>2. value'[k] = IF Running(k) THEN value[k] \union {Did("read", run, idx)}
                                  ELSE value[k]
    BY <1>7, <1>e DEF Read
  <2>3. Made(u)' <=> Made(u) \/ (u.by = "read" /\ u.n = idx)
    BY <1>7, <1>b, <1>c DEF Read, Made, Armed
  <2>4. Billed(k, u)' <=> Billed(k, u)
    BY <1>7 DEF Read, Billed
  <2>5. u.by = "read" /\ u.n = idx => (Billed(k, u) <=> k > idx)
    BY <1>7, <1>b, <1>k, <1>g DEF Read, Billed
  <2>6. run' = run
    BY <1>7 DEF Read
  <2>7. QED
    BY <1>b, <1>d, <1>f, <1>i, <2>1, <2>2, <2>3, <2>4, <2>5, <2>6
<1>8. CASE SkipEnable \/ SkipRead
  <2>1. idx \notin open /\ idx' = idx + 1 /\ pc' = pc /\ run' = run
        /\ open' = open /\ value' = value
    BY <1>8 DEF SkipEnable, SkipRead
  <2>2. pc \in {"reset", "disable"}
    BY <1>8 DEF SkipEnable, SkipRead
  <2>3. Armed(k)
    BY <1>b, <1>k, <2>1, <2>2 DEF Armed
  <2>4. Billed(k, u)' <=> Billed(k, u)
    BY <2>1 DEF Billed
  <2>5. Billed(k, u) => (Made(u)' <=> Made(u))
    BY <1>b, <1>c, <2>1, <2>2 DEF Billed, Made, Armed
  <2>6. QED
    BY <1>f, <2>1, <2>3, <2>4, <2>5
<1>9. CASE \/ Warmup \/ OpenFd \/ OpenedAll \/ Prepare \/ Store \/ Score
           \/ Close
  BY <1>9, <1>k DEF Warmup, OpenFd, OpenedAll, Prepare, Store, Score, Close, Armed
<1>10. QED
  BY <1>1, <1>2, <1>3, <1>4, <1>5, <1>6, <1>7, <1>8, <1>9, <1>11 DEF Thread

\* An interrupt is no call, and takes no counter off its turn.
LEMMA ValueBilledInterrupt ==
  ASSUME BilledInv, Tick \/ Preempt \/ Terminated \/ UNCHANGED vars
  PROVE  ValueBilled'
<1> SUFFICES ASSUME NEW k \in Fd, Armed(k)', NEW u \in CallUnit
             PROVE  u \in value'[k] <=> u.run = run' /\ Billed(k, u)' /\ Made(u)'
  BY DEF ValueBilled
<1>a. /\ KernelInv /\ ValueBilled /\ enabled \subseteq resident
      /\ value \in [Fd -> SUBSET Unit]
  BY DEF BilledInv, CompleteInv, PureInv, TypeInv, TypeOK
<1>b. pc' = pc /\ run' = run /\ idx' = idx /\ open' = open
  BY DEF Tick, Preempt, Terminated, vars, thread
<1>c. Armed(k) /\ (Made(u)' <=> Made(u)) /\ (Billed(k, u)' <=> Billed(k, u))
  BY <1>b DEF Armed, Made, Billed
<1>d. u # Did("tick", run, 0)
  BY DEF CallUnit, Call, Aside, Did
<1>e. value' = value \/ value' = Counted(Did("tick", run, 0))
  BY DEF Tick, Preempt, Terminated, vars
<1>f. u \in value'[k] <=> u \in value[k]
  BY <1>a, <1>d, <1>e, CountedByRunning
<1> QED
  BY <1>a, <1>b, <1>c, <1>f DEF ValueBilled

\* Every step keeps RawBilled.
LEMMA RawBilledStep ==
  ASSUME BilledInv, [Next]_vars
  PROVE  RawBilled'
<1> SUFFICES ASSUME pc' \in {"disable", "read"}, NEW k \in open', k < idx',
                    NEW u \in CallUnit
             PROVE  u \in raw'[k] <=> u.run = run' /\ Billed(k, u)'
  BY DEF RawBilled
<1> USE DEF counters, results, thread
<1>a. /\ TypeOK /\ Located /\ ValueBilled /\ RawBilled
  BY DEF BilledInv, CompleteInv, PureInv, TypeInv
<1>b. /\ run \in Nat /\ idx \in Nat /\ open \subseteq Fd /\ Fd \subseteq Nat
      /\ raw \in [Fd -> SUBSET Unit]
  BY <1>a DEF TypeOK, Fd
<1>c. u \in Unit /\ u.by \in Call /\ u.n \in Nat
  BY DEF CallUnit, Unit
<1>1. CASE StopTimer
  BY <1>1, <1>b DEF StopTimer
<1>2. CASE Read
  <2>0. open' = open /\ idx' = idx + 1 /\ run' = run
    BY <1>2 DEF Read
  <2>1. k \in open /\ (k < idx \/ k = idx) /\ run' = run
        /\ (Billed(k, u)' <=> Billed(k, u))
    <3>1. k \in Nat
      BY <1>b, <2>0
    <3>2. QED
      BY <1>b, <2>0, <3>1 DEF Billed
  <2>2. CASE k < idx
    BY <1>2, <1>a, <1>b, <2>1, <2>2 DEF Read, RawBilled
  <2>3. CASE k = idx
    <3>1. Armed(k) /\ raw'[k] = value[k] /\ k \in Fd
      BY <1>2, <1>b, <2>1, <2>3 DEF Read, Armed
    <3>2. Billed(k, u) => Made(u)
      BY <1>2, <1>b, <1>c, <2>1, <2>3 DEF Read, Billed, Made, Armed
    <3>3. QED
      BY <1>a, <2>1, <3>1, <3>2 DEF ValueBilled
  <2>4. QED
    BY <2>1, <2>2, <2>3
<1>3. CASE Disable \/ SkipRead
  <2>1. k \in open /\ k < idx /\ raw' = raw /\ run' = run
        /\ pc \in {"disable", "read"} /\ open' = open
    <3>1. open' = open /\ raw' = raw /\ run' = run
          /\ pc \in {"disable", "read"}
          /\ (idx' = idx \/ (idx' = idx + 1 /\ idx \notin open))
      BY <1>3 DEF Disable, SkipRead
    <3>2. k \in Nat
      BY <1>b, <3>1
    <3>3. QED
      BY <1>b, <3>1, <3>2
  <2>2. QED
    BY <1>a, <2>1 DEF RawBilled, Billed
<1>4. CASE UNCHANGED <<thread, open, raw>>
  BY <1>4, <1>a DEF RawBilled, Billed
<1>5. QED
  BY <1>1, <1>2, <1>3, <1>4 DEF Next, Thread, Terminated, vars, Warmup, OpenFd,
     OpenedAll, Prepare, Reset, Enable, SkipEnable, StartTimer, Infer,
     InferByWorkers, Store, Score, Close, Tick, Preempt

\* Every step keeps RowsBilled.
LEMMA RowsBilledStep ==
  ASSUME BilledInv, [Next]_vars
  PROVE  RowsBilled'
<1> SUFFICES ASSUME pc' # "done", NEW i \in Stored', NEW k \in open',
                    NEW u \in CallUnit
             PROVE  InRow(i, k, u)' <=> u.run = i /\ Billed(k, u)'
  BY DEF RowsBilled
<1> USE DEF counters, results, thread
<1>a. /\ TypeOK /\ Located /\ RawBilled /\ RowsBilled
  BY DEF BilledInv, CompleteInv, PureInv, TypeInv
<1>b. /\ run \in Nat /\ idx \in Nat /\ open \subseteq Fd /\ Fd \subseteq Nat
      /\ raw \in [Fd -> SUBSET Unit] /\ i \in Iteration
  BY <1>a DEF TypeOK, Fd, Stored
<1>1. CASE Store
  <2>1. /\ open' = open /\ run' = run /\ idx = NFds
        /\ pc = "disable" /\ pc' = "score"
        /\ pmc' = [pmc EXCEPT ![run] = Row(raw)]
        /\ (Billed(k, u)' <=> Billed(k, u))
    BY <1>1 DEF Store, Billed
  <2>2. CASE i = run
    <3>1. InRow(i, k, u)' <=> <<k, u>> \in Row(raw)[Column[k]]
      BY <1>a, <1>b, <2>1, <2>2 DEF InRow, TypeOK
    <3>2. k \in Fd /\ k < idx
      BY <1>b, <2>1 DEF Fd
    <3>3. InRow(i, k, u)' <=> u \in raw[k]
      BY <1>b, <3>1, <3>2, RowExactly
    <3>4. QED
      BY <1>a, <2>1, <2>2, <3>2, <3>3 DEF RawBilled
  <2>3. CASE i # run
    <3>1. i \in Stored /\ pmc'[i] = pmc[i]
      BY <1>a, <1>b, <2>1, <2>3 DEF Stored, TypeOK
    <3>2. QED
      BY <1>a, <2>1, <3>1 DEF RowsBilled, InRow
  <2>4. QED
    BY <2>2, <2>3
<1>2. CASE OpenFd
  BY <1>2, <1>a DEF OpenFd, Located, Stored, Iteration
<1>3. CASE UNCHANGED <<open, pmc>> /\ Stored' \subseteq Stored /\ pc # "done"
  BY <1>3, <1>a DEF RowsBilled, InRow, Billed
<1>4. CASE ~Store /\ ~OpenFd /\ pc' # "done"
  <2>1. UNCHANGED <<open, pmc>> /\ pc # "done"
    BY <1>4 DEF Next, Thread, Terminated, vars, Warmup, OpenedAll,
       Prepare, Reset, Enable, SkipEnable, StartTimer, Infer,
       InferByWorkers, StopTimer, Disable, Read, SkipRead, Score, Close, Tick,
       Preempt
  <2>2. \/ run' = run /\ (pc' = "score" => pc = "score")
        \/ run' = run + 1 /\ pc = "score" /\ pc' = "loop"
    BY <1>4 DEF Next, Thread, Terminated, vars, Warmup, OpenedAll,
       Prepare, Reset, Enable, SkipEnable, StartTimer, Infer,
       InferByWorkers, StopTimer, Disable, Read, SkipRead, Score, Close, Tick,
       Preempt
  <2>3. Stored' \subseteq Stored
    BY <1>b, <2>2 DEF Stored, Iteration
  <2>4. QED
    BY <1>3, <2>1, <2>3
<1>5. QED
  BY <1>1, <1>2, <1>4

\* The three hold at all times.
LEMMA BilledInvariant ==
  ASSUME EnoughRoom
  PROVE  Spec => []BilledInv
<1>1. Init => ValueBilled /\ RawBilled /\ RowsBilled
  BY DEF Init, ValueBilled, RawBilled, RowsBilled, Armed, Stored, Iteration
<1>2. BilledInv /\ CompleteInv' /\ [Next]_vars => BilledInv'
  <2> SUFFICES ASSUME BilledInv, CompleteInv', [Next]_vars PROVE BilledInv'
    OBVIOUS
  <2>1. ValueBilled'
    BY ValueBilledStep, ValueBilledInterrupt DEF CompleteInv, Next
  <2>2. QED
    BY <2>1, RawBilledStep, RowsBilledStep DEF BilledInv
<1>3. QED
  BY <1>1, <1>2, CompleteInvariant, PTL DEF Spec, BilledInv

\* The calls in the window of counter k of iteration i.
Bill(i, k) == {u \in CallUnit : u.run = i /\ Billed(k, u)}

\* Each window has as many calls as this set has elements, whatever the
\* counter: two for each open counter, and one more.
Tally == (open \X {1, 2}) \union {<<0, 0>>}

\* The call in the window of counter k that <<m, c>> of Tally stands for: in
\* the place of the counter's own reset and read, which its window misses,
\* the first reading of the clock.
Kind(k, m, c) ==
  IF c = 0 THEN "stop"
  ELSE IF c = 1 THEN IF m > k THEN "enable" ELSE "disable"
  ELSE IF m > k THEN "reset" ELSE IF m < k THEN "read" ELSE "start"
Place(k, m, c) == IF c = 2 /\ m = k THEN 0 ELSE m

Charges(i, k) ==
  [t \in Tally |-> Did(Kind(k, t[1], t[2]), i, Place(k, t[1], t[2]))]

\* A bill has as many calls as the tally says.
LEMMA BillSize ==
  ASSUME open \subseteq Fd, NEW i \in Nat, NEW k \in open
  PROVE  IsFiniteSet(Bill(i, k)) /\ Cardinality(Bill(i, k)) = Cardinality(Tally)
<1> DEFINE b == Charges(i, k)
<1>a. open \subseteq Nat /\ k \in Nat
  BY DEF Fd
<1>b. {"reset", "enable", "start", "stop", "disable", "read"} = Call
      /\ Call \subseteq Doing
  BY DEF Call, Aside, Bracket, Doing
<1>c. ASSUME NEW u
      PROVE  u \in Bill(i, k) <=>
               \E w \in Call, n \in Nat : u = Did(w, i, n) /\ Billed(k, u)
  <2>1. ASSUME u \in Bill(i, k)
        PROVE  \E w \in Call, n \in Nat : u = Did(w, i, n) /\ Billed(k, u)
    <3>1. u = Did(u.by, i, u.n) /\ u.by \in Call /\ u.n \in Nat
      BY <2>1 DEF Bill, CallUnit, Unit, Did
    <3>2. QED
      BY <2>1, <3>1 DEF Bill
  <2>2. ASSUME NEW w \in Call, NEW n \in Nat, u = Did(w, i, n), Billed(k, u)
        PROVE  u \in Bill(i, k)
    BY <1>b, <2>2, DidType DEF Bill, CallUnit, Did
  <2>3. QED
    BY <2>1, <2>2
<1>d. \A w, v \in Call : \A n, m \in Nat :
        Did(w, i, n) = Did(v, i, m) <=> w = v /\ n = m
  BY DEF Did
<1>e. \A w \in Call : \A n \in Nat :
        Billed(k, Did(w, i, n)) <=>
          \/ w \in {"reset", "enable"} /\ n \in open /\ n > k
          \/ w \in {"start", "stop"} /\ n = 0
          \/ w = "disable" /\ n \in open /\ n <= k
          \/ w = "read" /\ n \in open /\ n < k
  BY DEF Billed, Did
<1>f. \A t \in Tally : \/ t[1] \in open /\ t[2] \in {1, 2} /\ t = <<t[1], t[2]>>
                       \/ t = <<0, 0>>
  BY DEF Tally
<1>g. \A t \in Tally : b[t] = Did(Kind(k, t[1], t[2]), i, Place(k, t[1], t[2]))
  BY DEF Charges
<1>h. \A m \in open : \A c \in {1, 2} : <<m, c>> \in Tally
  BY DEF Tally
<1>i. <<0, 0>> \in Tally
  BY DEF Tally
<1>j. \A t \in Tally : Kind(k, t[1], t[2]) \in Call /\ Place(k, t[1], t[2]) \in Nat
  BY <1>a, <1>b, <1>f DEF Kind, Place
<1>k. ASSUME NEW m \in open, NEW c \in {1, 2}
      PROVE  Billed(k, Did(Kind(k, m, c), i, Place(k, m, c)))
  <2>1. m \in Nat
    BY <1>a
  <2>2. CASE c = 1 /\ m > k
    BY <1>b, <1>e, <2>1, <2>2 DEF Kind, Place
  <2>3. CASE c = 1 /\ m <= k
    <3>1. Kind(k, m, c) = "disable" /\ Place(k, m, c) = m
      BY <1>a, <2>1, <2>3 DEF Kind, Place
    <3>2. QED
      BY <1>b, <1>e, <2>1, <2>3, <3>1
  <2>4. CASE c = 2 /\ m > k
    <3>1. Kind(k, m, c) = "reset" /\ Place(k, m, c) = m
      BY <1>a, <2>1, <2>4 DEF Kind, Place
    <3>2. QED
      BY <1>b, <1>e, <2>1, <2>4, <3>1
  <2>5. CASE c = 2 /\ m < k
    <3>1. Kind(k, m, c) = "read" /\ Place(k, m, c) = m
      BY <1>a, <2>1, <2>5 DEF Kind, Place
    <3>2. QED
      BY <1>b, <1>e, <2>1, <2>5, <3>1
  <2>6. CASE c = 2 /\ m = k
    <3>1. Kind(k, m, c) = "start" /\ Place(k, m, c) = 0
      BY <1>a, <2>1, <2>6 DEF Kind, Place
    <3>2. QED
      BY <1>b, <1>e, <3>1
  <2>7. QED
    BY <1>a, <2>1, <2>2, <2>3, <2>4, <2>5, <2>6
<1> HIDE DEF b
<1>1. ASSUME NEW t \in Tally PROVE b[t] \in Bill(i, k)
  <2>1. Billed(k, Did(Kind(k, t[1], t[2]), i, Place(k, t[1], t[2])))
    <3>1. CASE t = <<0, 0>>
      <4>1. Kind(k, t[1], t[2]) = "stop" /\ Place(k, t[1], t[2]) = 0
        BY <3>1 DEF Kind, Place
      <4>2. QED
        BY <1>b, <1>e, <4>1
    <3>2. CASE t[1] \in open /\ t[2] \in {1, 2}
      BY <1>k, <3>2
    <3>3. QED
      BY <1>f, <3>1, <3>2
  <2>2. QED
    BY <1>c, <1>g, <1>j, <2>1
<1>2. ASSUME NEW u \in Bill(i, k) PROVE \E t \in Tally : b[t] = u
  <2>1. PICK w \in Call, n \in Nat : u = Did(w, i, n) /\ Billed(k, u)
    BY <1>c
  <2> SUFFICES \E t \in Tally : Kind(k, t[1], t[2]) = w /\ Place(k, t[1], t[2]) = n
    BY <1>g, <2>1
  <2>2. CASE w = "stop"
    <3>1. n = 0
      BY <1>e, <2>1, <2>2
    <3>2. QED
      BY <1>i, <2>2, <3>1 DEF Kind, Place
  <2>3. CASE w \in {"enable", "disable"}
    <3>1. n \in open /\ (w = "enable" <=> n > k)
      BY <1>a, <1>e, <2>1, <2>3
    <3>2. Kind(k, n, 1) = w /\ Place(k, n, 1) = n
      BY <2>3, <3>1 DEF Kind, Place
    <3>3. QED
      BY <1>h, <3>1, <3>2
  <2>4. CASE w \in {"reset", "read"}
    <3>1. n \in open /\ n # k /\ (w = "reset" <=> n > k) /\ (w = "read" <=> n < k)
      BY <1>a, <1>e, <2>1, <2>4
    <3>2. Kind(k, n, 2) = w /\ Place(k, n, 2) = n
      BY <2>4, <3>1 DEF Kind, Place
    <3>3. QED
      BY <1>h, <3>1, <3>2
  <2>5. CASE w = "start"
    <3>1. n = 0
      BY <1>e, <2>1, <2>5
    <3>2. Kind(k, k, 2) = w /\ Place(k, k, 2) = n
      BY <1>a, <2>5, <3>1 DEF Kind, Place
    <3>3. QED
      BY <1>h, <3>2
  <2>6. QED
    BY <1>b, <2>2, <2>3, <2>4, <2>5
<1>3. ASSUME NEW s \in Tally, NEW t \in Tally, b[s] = b[t] PROVE s = t
  <2>1. Kind(k, s[1], s[2]) = Kind(k, t[1], t[2])
        /\ Place(k, s[1], s[2]) = Place(k, t[1], t[2])
    BY <1>3, <1>d, <1>g, <1>j
  <2>2. s[2] = t[2]
    BY <1>f, <2>1 DEF Kind
  <2>3. QED
    BY <1>a, <1>f, <2>1, <2>2 DEF Kind, Place
<1>4. b \in Bijection(Tally, Bill(i, k))
  <2>1. b \in [Tally -> Bill(i, k)]
    <3>1. b = [t \in Tally |-> b[t]]
      BY DEF Charges, b
    <3>2. QED
      BY <1>1, <3>1
  <2>2. QED
    BY <1>2, <1>3, <2>1, Fun_IsBij
<1>5. IsFiniteSet(Tally)
  <2>1. IsFiniteSet(Fd)
    BY FS_Interval DEF Fd
  <2>2. IsFiniteSet(open) /\ IsFiniteSet({1, 2}) /\ IsFiniteSet({<<0, 0>>})
    <3>1. {1, 2} = {1} \union {2} /\ IsFiniteSet({1})
      BY FS_Singleton
    <3>2. IsFiniteSet({1, 2})
      BY <3>1, FS_AddElement
    <3>3. QED
      BY <2>1, <3>2, FS_Subset, FS_Singleton
  <2>3. IsFiniteSet(open \X {1, 2})
    BY <2>2, FS_Product
  <2>4. QED
    BY <2>2, <2>3, FS_Union DEF Tally
<1>6. QED
  BY <1>4, <1>5, FS_Bijection DEF ExistsBijection

\* What a row holds of a counter's bracketing calls is its bill.
LEMMA OverheadIs ==
  ASSUME BilledInv, pc # "done", NEW i \in Stored, NEW k \in open
  PROVE  Overhead(i, k) = {k} \X Bill(i, k)
<1>a. /\ TypeOK /\ RowsBilled /\ k \in Fd /\ i \in Iteration
      /\ Column[k] \in Cols
  BY DEF BilledInv, CompleteInv, PureInv, TypeInv, TypeOK, Stored, Cols
<1>b. pmc[i][Column[k]] \in SUBSET (Fd \X Unit)
  BY <1>a DEF TypeOK
<1>1. ASSUME NEW x \in Overhead(i, k) PROVE x \in {k} \X Bill(i, k)
  <2>1. x \in Fd \X Unit /\ x = <<k, x[2]>> /\ x[2] \in CallUnit
        /\ x \in pmc[i][Column[k]]
    BY <1>b DEF Overhead, CallUnit, Call, Aside
  <2>2. InRow(i, k, x[2])
    BY <2>1 DEF InRow
  <2>3. QED
    BY <1>a, <2>1, <2>2 DEF RowsBilled, Bill
<1>2. ASSUME NEW u \in Bill(i, k) PROVE <<k, u>> \in Overhead(i, k)
  BY <1>a DEF Bill, RowsBilled, InRow, Overhead, CallUnit, Call, Aside
<1>3. QED
  BY <1>1, <1>2

\* Where the PMU can host all the events, the row of an iteration carries as
\* many bracketing calls for one open counter as for any other, whichever
\* counters failed to open: ENABLE and DISABLE in the same index order make
\* all windows equally long.
THEOREM Balance ==
  ASSUME EnoughRoom
  PROVE  Spec => []OverheadBalanced
<1>1. BilledInv => OverheadBalanced
  <2> SUFFICES ASSUME BilledInv, pc # "done", NEW i \in Stored,
                      NEW j \in open, NEW k \in open
               PROVE  Cardinality(Overhead(i, j)) = Cardinality(Overhead(i, k))
    BY DEF OverheadBalanced
  <2>1. open \subseteq Fd /\ i \in Nat
    BY DEF BilledInv, CompleteInv, PureInv, TypeInv, TypeOK, Stored, Iteration
  <2>2. ASSUME NEW m \in open
        PROVE  Cardinality(Overhead(i, m)) = Cardinality(Tally)
    <3>1. IsFiniteSet(Bill(i, m)) /\ Cardinality(Bill(i, m)) = Cardinality(Tally)
      BY <2>1, BillSize
    <3>2. IsFiniteSet({m}) /\ Cardinality({m}) = 1
      BY FS_Singleton
    <3>3. Cardinality({m} \X Bill(i, m)) = 1 * Cardinality(Bill(i, m))
      BY <3>1, <3>2, FS_Product
    <3>4. Cardinality(Bill(i, m)) \in Nat
      BY <3>1, FS_CardinalityType
    <3>5. Overhead(i, m) = {m} \X Bill(i, m)
      BY OverheadIs
    <3>6. Cardinality({m} \X Bill(i, m)) = Cardinality(Bill(i, m))
      BY ONLY <3>3, <3>4
    <3>7. QED
      BY <3>1, <3>5, <3>6
  <2>3. QED
    BY <2>2
<1>2. QED
  BY <1>1, BilledInvariant, PTL

-----------------------------------------------------------------------------
(* Refinement: on such a PMU the loop implements Measurement.  The step    *)
(* that fills out[] is the abstract measurement; purity makes the sample   *)
(* no more, completeness no less, than the main thread's share of the      *)
(* inference.                                                              *)

\* The sample a stored row amounts to.
SamplesRight ==
  pc # "done" =>
    \A i \in Stored : \A k \in Fd :
      Sampled(i)[k] = IF k \in open THEN Own(i) ELSE {}

\* A row holds a sample of the loop.
LEMMA SampleOfRow == CompleteInv => SamplesRight
<1> SUFFICES ASSUME CompleteInv, pc # "done", NEW i \in Stored, NEW k \in Fd
             PROVE  Sampled(i)[k] = IF k \in open THEN Own(i) ELSE {}
  BY DEF SamplesRight
<1> USE DEF CompleteInv, PureInv, Stored
<1> DEFINE W == {y \in pmc[i][Column[k]] : y[1] = k /\ y[2].by \notin Bracket}
<1>1. Sampled(i)[k] = {x[2] : x \in W}
  BY DEF Sampled
<1>2. Column[k] \in Cols
  BY DEF Cols
<1>3. CASE k \in open
  <2>1. ASSUME NEW x \in W PROVE x[2] \in Own(i)
    BY <1>2 DEF RowsPure, InWindow
  <2>2. ASSUME NEW u \in Own(i) PROVE u \in {x[2] : x \in W}
    <3>1. <<k, u>> \in pmc[i][Column[k]]
      BY <1>3 DEF RowsComplete, InRow
    <3>2. u.by \notin Bracket
      BY DEF Own, Inference, Did, Bracket
    <3>3. <<k, u>> \in W
      BY <3>1, <3>2
    <3>4. QED
      BY <3>3
  <2>3. QED
    BY <1>1, <1>3, <2>1, <2>2
<1>4. CASE k \notin open
  <2>1. W = {}
    BY <1>2, <1>4 DEF UnopenedWritesZero
  <2>2. QED
    BY <1>1, <1>4, <2>1
<1>5. QED
  BY <1>3, <1>4

\* So does a row of the next state.
LEMMA SampleOfNextRow == CompleteInv' => SamplesRight'
BY SampleOfRow, PTL

\* The first states of the loop are first states of the measurement.
LEMMA RefineInit == Init => Promise!Init
<1> SUFFICES ASSUME Init PROVE Promise!Init
  OBVIOUS
<1>1. \A i \in Iteration : \A k \in Fd : pmc[i][Column[k]] = {}
  BY DEF Init, Cols
<1>2. \A i \in Iteration : Sampled(i) = [k \in Fd |-> {}]
  BY <1>1 DEF Sampled
<1>3. QED
  BY <1>2 DEF Init, Promise!Init

\* What is never handed out, the main thread does.
LEMMA AloneIsOwn ==
  ASSUME lent \subseteq Lendable, NEW i
  PROVE  Alone(i) \subseteq Own(i)
<1> SUFFICES ASSUME NEW p \in (0 .. InferParts - 1) \ Shared
             PROVE  Did("infer", i, p) \in Inference(i) \ Lendable
  BY DEF Alone, Own
<1>1. ASSUME NEW j \in Iteration, NEW q \in Shared
      PROVE  Did("infer", i, p) # Did("infer", j, q)
  BY DEF Did
<1>2. QED
  BY <1>1 DEF Lendable, Inference

\* Every step of the loop is one of the measurement, or none.
LEMMA RefineStep ==
  ASSUME CompleteInv, CompleteInv', [Next]_vars
  PROVE  [Promise!Next]_Promise!vars
<1> DEFINE ready == pc \notin {"warmup", "open"}
           avail == IF pc \in {"warmup", "open"} THEN {} ELSE open
           done == IF pc = "score" THEN run + 1 ELSE run
           sample == [i \in Iteration |-> Sampled(i)]
<1> USE DEF CompleteInv, PureInv, TypeInv, TypeOK, Located, counters, results,
        thread
<1>1. pmc' = pmc => sample' = sample
  BY DEF Sampled
<1>2. CASE OpenedAll
  <2>1. Promise!SetUp
    BY <1>1, <1>2 DEF OpenedAll, Promise!SetUp
  <2>2. QED
    BY <2>1 DEF Promise!Next
<1>3. CASE Store
  <2>1. ready /\ ready' /\ avail = open /\ avail' = open
        /\ done = run /\ done' = run + 1 /\ run < NRuns
    BY <1>3 DEF Store
  <2>2. run \in Stored' /\ pc' # "done" /\ run \in Iteration
    BY <1>3 DEF Store, Stored, Iteration
  <2>3. \A k \in Fd :
          Sampled(run)'[k] = IF k \in open THEN Own(run) ELSE {}
    BY <1>3, <2>2, SampleOfNextRow DEF Store, SamplesRight, Own
  <2>4. Sampled(run)' = [k \in Fd |-> IF k \in avail THEN Own(run) ELSE {}]
    BY <2>1, <2>3 DEF Sampled
  <2>5. \A i \in Iteration \ {run} : Sampled(i)' = Sampled(i)
    BY <1>3 DEF Store, Sampled
  <2>6. sample' = [sample EXCEPT ![done] =
                     [k \in Fd |-> IF k \in avail THEN Own(done) ELSE {}]]
    <3>0. run' = run
      BY <1>3 DEF Store
    <3>1. sample' = [sample EXCEPT ![run] = Sampled(run)']
      BY <2>2, <2>5, <3>0
    <3>2. sample' = [sample EXCEPT ![run] =
                       [k \in Fd |-> IF k \in avail THEN Own(run) ELSE {}]]
      BY <3>1, <2>4
    <3>3. QED
      BY <3>2, <2>1
  <2>7. Own(done) \in Promise!Shares(done)
    <3>1. Own(run) \in SUBSET Inference(run)
      BY DEF Own
    <3>2. Alone(run) \subseteq Own(run)
      BY AloneIsOwn
    <3>3. QED
      BY <2>1, <3>1, <3>2 DEF Promise!Shares
  <2>9. Promise!Measure
    <3>1. UNCHANGED <<ready, avail>>
      BY <1>3, <2>1 DEF Store
    <3>2. \E share \in Promise!Shares(done) :
            sample' = [sample EXCEPT
              ![done] = [k \in Fd |-> IF k \in avail THEN share ELSE {}]]
      <4> USE <2>7
      <4> WITNESS Own(done) \in Promise!Shares(done)
      <4> QED
        BY <2>6
    <3>3. QED
      BY <2>1, <3>1, <3>2 DEF Promise!Measure
  <2>8. QED
    BY <2>9 DEF Promise!Next
<1>4. CASE Close
  <2>1. Promise!Release
    BY <1>1, <1>4 DEF Close, Promise!Release
  <2>2. QED
    BY <2>1 DEF Promise!Next
<1>5. CASE Warmup \/ OpenFd \/ Prepare \/ Reset \/ Enable \/ SkipEnable
  BY <1>1, <1>5 DEF Warmup, OpenFd, Prepare, Reset, Enable, SkipEnable,
     Promise!vars
<1>6. CASE \/ StartTimer \/ Infer \/ InferByWorkers \/ StopTimer
           \/ Disable \/ Read \/ SkipRead
  BY <1>1, <1>6 DEF StartTimer, Infer, InferByWorkers, StopTimer, Disable,
     Read, SkipRead, Promise!vars
<1>7. CASE Score \/ Tick \/ Preempt \/ UNCHANGED vars
  BY <1>1, <1>7 DEF Score, Tick, Preempt, vars, Promise!vars
<1>8. QED
  BY <1>2, <1>3, <1>4, <1>5, <1>6, <1>7 DEF Next, Thread, Terminated

\* Where the PMU can host all the events, every behaviour of the loop is one
\* of Measurement: N_RUNS samples, each of one inference and nothing else,
\* the same share of it for all counters, and the whole where no worker
\* threads take part; over the same counters throughout.
THEOREM Implements ==
  ASSUME EnoughRoom
  PROVE  Spec => KeepsPromise
<1>1. CompleteInv /\ CompleteInv' /\ [Next]_vars => [Promise!Next]_Promise!vars
  BY RefineStep
<1>2. QED
  BY <1>1, RefineInit, CompleteInvariant, PTL DEF Spec, KeepsPromise,
     Promise!Spec

-----------------------------------------------------------------------------
(* The latency column, on any PMU.                                         *)

Noise == {"tick", "other"}
Timed == {u \in timer : u.by \notin Noise}

TimerInv ==
  /\ TypeInv
  /\ pc = "infer" => Timed = {Did("infer", run, p) : p \in 0 .. idx - 1}
  /\ pc \in {"disable", "read"} =>
       {u \in latencies[run] : u.by \notin Noise} = Inference(run)
  /\ LatencyExact

\* Every step keeps TimerInv.
LEMMA TimerStep == TimerInv /\ [Next]_vars => TimerInv'
<1> SUFFICES ASSUME TimerInv, [Next]_vars PROVE TimerInv'
  OBVIOUS
<1> USE DEF TimerInv, TypeInv, TypeOK, Located, counters, results, thread
<1>a. TypeInv'
  BY TypeInvStep
<1> USE DEF LatencyExact, Stored, Noise, Timed
<1>1. CASE StartTimer
  BY <1>a, <1>1 DEF StartTimer
<1>2. CASE Infer \/ InferByWorkers
  <2> DEFINE Parts(j) == {Did("infer", run, p) : p \in 0 .. j - 1}
  <2>1. \A p \in Int :
          p \in 0 .. (idx + 1) - 1 <=> (p \in 0 .. idx - 1 \/ p = idx)
    <3>1. idx \in Nat
      OBVIOUS
    <3>2. QED
      BY ONLY <3>1
  <2>2. Parts(idx + 1) = Parts(idx) \union {Did("infer", run, idx)}
    BY <2>1
  <2>3. Timed' = Timed \union {Did("infer", run, idx)}
    BY <1>2 DEF Infer, InferByWorkers, Did
  <2>4. pc = "infer" /\ run' = run /\ idx' = idx + 1
    BY <1>2 DEF Infer, InferByWorkers
  <2>5. Timed' = {Did("infer", run, p) : p \in 0 .. idx' - 1}
    BY <2>2, <2>3, <2>4
  <2>6. QED
    BY <1>a, <1>2, <2>4, <2>5 DEF Infer, InferByWorkers
<1>3. CASE StopTimer
  <2>1. Timed = Inference(run)
    BY <1>3 DEF StopTimer, Inference
  <2>2. run \in Iteration /\ latencies' = [latencies EXCEPT ![run] = timer]
    BY <1>3 DEF StopTimer, Iteration
  <2>3. {u \in latencies'[run] : u.by \notin Noise} = Inference(run)
    BY <2>1, <2>2
  <2>4. LatencyExact'
    BY <1>3, <2>2 DEF StopTimer
  <2>5. QED
    BY <1>a, <1>3, <2>3, <2>4 DEF StopTimer
<1>4. CASE Tick
  <2>1. Timed' = Timed
    BY <1>4 DEF Tick, Did
  <2>2. QED
    BY <1>a, <1>4, <2>1 DEF Tick
<1>5. CASE Preempt
  <2>1. Timed' = Timed
    BY <1>5 DEF Preempt, Did
  <2>2. QED
    BY <1>a, <1>5, <2>1 DEF Preempt
<1>6. CASE Store
  BY <1>a, <1>6 DEF Store
<1>7. CASE Score
  <2>1. Stored' = Stored
    BY <1>7 DEF Score, Iteration
  <2>2. QED
    BY <1>a, <1>7, <2>1 DEF Score
<1>8. CASE \/ Warmup \/ OpenFd \/ OpenedAll \/ Prepare \/ Reset \/ Enable
           \/ SkipEnable
  BY <1>a, <1>8
     DEF Warmup, OpenFd, OpenedAll, Prepare, Reset, Enable, SkipEnable
<1>9. CASE Disable \/ Read \/ SkipRead
  BY <1>a, <1>9 DEF Disable, Read, SkipRead
<1>10. CASE Close
  BY <1>a, <1>10 DEF Close
<1>11. CASE UNCHANGED vars
  BY <1>a, <1>11 DEF vars
<1>12. QED
  BY <1>1, <1>2, <1>3, <1>4, <1>5, <1>6, <1>7, <1>8, <1>9, <1>10, <1>11
     DEF Next, Thread, Terminated

\* Whatever interrupts the thread, the steps of the harness that the latency
\* of an iteration times are the parts of its inference, all of them.
THEOREM LatencyCorrect == Spec => []LatencyExact
<1>1. Init => TimerInv
  BY PureInit DEF Init, PureInv, TimerInv, LatencyExact, Stored, Iteration
<1>2. TimerInv => LatencyExact
  BY DEF TimerInv
<1>3. QED
  BY <1>1, <1>2, TimerStep, PTL DEF Spec

\* The arrays are filled in order, and no later step touches a stored row.
THEOREM Final == Spec => RowsFinal
<1>1. TypeInv /\ [Next]_vars =>
        [\A i \in Stored : pmc'[i] = pmc[i] /\ latencies'[i] = latencies[i]]_vars
  <2> SUFFICES ASSUME TypeInv, [Next]_vars, NEW i \in Stored
               PROVE  pmc'[i] = pmc[i] /\ latencies'[i] = latencies[i]
    OBVIOUS
  <2> USE DEF TypeInv, TypeOK, Located, Stored, results
  <2>1. CASE StopTimer
    BY <2>1 DEF StopTimer
  <2>2. CASE Store
    BY <2>2 DEF Store
  <2>3. CASE ~StopTimer /\ ~Store
    BY <2>3 DEF Next, Thread, Terminated, vars, Warmup, OpenFd, OpenedAll,
       Prepare, Reset, Enable, SkipEnable, StartTimer, Infer,
       InferByWorkers, Disable, Read, SkipRead, Score, Close, Tick, Preempt
  <2>4. QED
    BY <2>1, <2>2, <2>3
<1>2. Init => TypeInv
  BY PureInit DEF PureInv
<1>3. QED
  BY <1>1, <1>2, TypeInvStep, PTL DEF Spec, RowsFinal
=============================================================================
