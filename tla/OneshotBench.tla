---------------------------- MODULE OneshotBench ----------------------------
(***************************************************************************)
(* The one-shot benchmarks of a run: their registration (OneshotMaker),    *)
(* then OneshotBench::runAndPrintInner for one benchmark after the other.  *)
(* A benchmark takes its samples with time_one, then subtracts from each   *)
(* the overhead of an empty run.  The overhead of the default calibration  *)
(* is measured when the first benchmark asks for it and kept in a static   *)
(* for all later ones; a raw benchmark measures its own each time.  The    *)
(* argument of a benchmark is made before its samples and freed after      *)
(* them, as in DeltaBench, where it is modelled.                           *)
(***************************************************************************)
EXTENDS OneshotMaker

CONSTANTS
  samples,                 \* OneshotMaker::samples
  ONESHOT_OVERHEAD_WARMUP,
  ONESHOT_OVERHEAD_REAL,
  dummy_bench,
  raw_overhead,            \* the calibration method of the raw benchmarks
  Unset,                   \* a static that has not been initialised
  UnsignedAggr,            \* whether TIMER::aggr_value is unsigned
  Bits                     \* the width of a delta

ONESHOT_OVERHEAD_TOTAL == ONESHOT_OVERHEAD_WARMUP + ONESHOT_OVERHEAD_REAL

ASSUME OneshotAssumption ==
  /\ samples \in Nat \ {0}
  /\ ONESHOT_OVERHEAD_WARMUP \in Nat
  /\ ONESHOT_OVERHEAD_REAL \in Nat /\ ONESHOT_OVERHEAD_REAL % 2 = 1
  /\ {dummy_bench, raw_overhead} \subseteq Method
  /\ Unset \notin Int
  /\ UnsignedAggr \in BOOLEAN /\ Bits \in Nat

VARIABLES
  pc,        \* what runAndPrintInner does next
  b,         \* the position in benches
  raw,       \* the samples of the benchmark
  overhead,  \* the static of benchToOverhead_
  current,   \* what overhead_func returned
  median,    \* the median that is printed
  spoiled,   \* history: the disturbed samples of the benchmark
  sound,     \* history: the calibrations with a quiet majority, by kind
  used       \* history: the overheads subtracted after a default calibration

process == <<pc, b, raw, overhead, current, median, spoiled, sound, used>>
measuring == <<timing, process>>
vars == <<measuring, registration>>

Bench == benches[b]
Sample == 1 .. samples

TypeOK ==
  /\ TimingOK /\ MakerOK
  /\ pc \in {"register", "run", "measure", "overhead", "calibrate", "subtract", "print", "next", "done"}
  /\ b \in 1 .. Len(benches) \/ (pc = "register" /\ b = 1)
  /\ raw \in [Sample -> Int]
  /\ overhead \in Int \union {Unset}
  /\ current \in Int
  /\ median \in Int
  /\ spoiled \in SUBSET Sample
  /\ sound \in SUBSET {"default", "raw"}
  /\ used \subseteq Int

-----------------------------------------------------------------------------
(* Statistics on deltas. *)

(* TIMER::aggr_value: what the comparisons of TimerHelper look at. *)
aggr_value(delta) == IF UnsignedAggr THEN delta % 2 ^ Bits ELSE delta

less(x, y) == aggr_value(x) < aggr_value(y)

(* TimerHelper::median with medianf: the element with this rank in the     *)
(* order of less, over the deltas with an index in S.                      *)
medianf(deltas, S) ==
  LET rank == (Cardinality(S) - 1) \div 2
  IN CHOOSE m \in {deltas[n] : n \in S} :
       /\ Cardinality({n \in S : less(deltas[n], m)}) <= rank
       /\ Cardinality({n \in S : ~less(m, deltas[n])}) > rank

(* rawToOverhead skips the first samples. *)
Calibrating == ONESHOT_OVERHEAD_WARMUP + 1 .. ONESHOT_OVERHEAD_TOTAL

-----------------------------------------------------------------------------

BenchJob ==
  [samples |-> samples, method |-> Bench.method, warm_once |-> Bench.warm_once,
   warm_every |-> Bench.warm_every, loop_count |-> Bench.loop_count]

CalibrationMethod(kind) == IF kind = "default" THEN dummy_bench ELSE raw_overhead

(* A calibration runs without iterations and without an argument. *)
OverheadJob(kind) ==
  [samples |-> ONESHOT_OVERHEAD_TOTAL, method |-> CalibrationMethod(kind),
   warm_once |-> inlined_empty, warm_every |-> inlined_empty, loop_count |-> 0]

Init ==
  /\ b = 1
  /\ job = OverheadJob("default") /\ TimingInit
  /\ MakerInit
  /\ pc = "register"
  /\ raw = [n \in Sample |-> 0]
  /\ overhead = Unset /\ current = 0 /\ median = 0
  /\ spoiled = {} /\ sound = {} /\ used = {}

(* The benchmarks are registered before the first of them runs. *)
StartRun ==
  /\ pc = "register" /\ Registered
  /\ pc' = "run"
  /\ UNCHANGED <<timing, b, raw, overhead, current, median, spoiled, sound, used>>

Run ==
  /\ pc = "run"
  /\ Call(BenchJob)
  /\ pc' = "measure"
  /\ UNCHANGED <<clock, events, b, raw, overhead, current, median, spoiled, sound, used>>

Measured ==
  /\ pc = "measure" /\ step = "returned"
  /\ raw' = result
  /\ spoiled' = disturbed
  /\ pc' = "overhead"
  /\ UNCHANGED <<timing, b, overhead, current, median, sound, used>>

(* overhead_func of a default benchmark once the static has its value. *)
ReuseOverhead ==
  /\ pc = "overhead" /\ Bench.calibration = "default" /\ overhead # Unset
  /\ current' = overhead
  /\ pc' = "subtract"
  /\ UNCHANGED <<timing, b, raw, overhead, median, spoiled, sound, used>>

(* An overhead that is not a static. *)
Mut_Calibrate_EachTime ==
  /\ pc = "overhead"
  /\ Call(OverheadJob(Bench.calibration))
  /\ pc' = "calibrate"
  /\ UNCHANGED <<clock, events, b, raw, overhead, current, median, spoiled, sound, used>>

(* The static's initialisation, and the raw calibration, which has none. *)
Calibrate ==
  /\ pc = "overhead"
  /\ Bench.calibration = "default" => overhead = Unset
  /\ Call(OverheadJob(Bench.calibration))
  /\ pc' = "calibrate"
  /\ UNCHANGED <<clock, events, b, raw, overhead, current, median, spoiled, sound, used>>

(* rawToOverhead: the median of the calibration. *)
Calibrated ==
  LET kind == Bench.calibration
      quiet == Cardinality(disturbed \cap Calibrating) <= ONESHOT_OVERHEAD_REAL \div 2
  IN /\ pc = "calibrate" /\ step = "returned"
     /\ current' = medianf(result, Calibrating)
     /\ overhead' = IF kind = "default" THEN current' ELSE overhead
     /\ sound' = IF quiet THEN sound \union {kind} ELSE sound \ {kind}
     /\ pc' = "subtract"
     /\ UNCHANGED <<timing, b, raw, median, spoiled, used>>

(* An overhead that is subtracted twice. *)
Mut_RemoveOverhead_Twice ==
  /\ pc = "subtract"
  /\ raw' = [n \in Sample |-> raw[n] - 2 * current]
  /\ used' = IF Bench.calibration = "default" THEN used \union {current} ELSE used
  /\ pc' = "print"
  /\ UNCHANGED <<timing, b, overhead, current, median, spoiled, sound>>

RemoveOverhead ==
  /\ pc = "subtract"
  /\ raw' = [n \in Sample |-> raw[n] - current]
  /\ used' = IF Bench.calibration = "default" THEN used \union {current} ELSE used
  /\ pc' = "print"
  /\ UNCHANGED <<timing, b, overhead, current, median, spoiled, sound>>

(* A median that is the first sample. *)
Mut_PrintSamples_First ==
  /\ pc = "print"
  /\ median' = raw[1]
  /\ pc' = "next"
  /\ UNCHANGED <<timing, b, raw, overhead, current, spoiled, sound, used>>

(* The samples are printed in order, then their median. *)
PrintSamples ==
  /\ pc = "print"
  /\ median' = medianf(raw, Sample)
  /\ pc' = "next"
  /\ UNCHANGED <<timing, b, raw, overhead, current, spoiled, sound, used>>

NextBench ==
  /\ pc = "next"
  /\ IF b < Len(benches) THEN b' = b + 1 /\ pc' = "run" ELSE b' = b /\ pc' = "done"
  /\ UNCHANGED <<timing, raw, overhead, current, median, spoiled, sound, used>>

TimingStep ==
  (LoopStep \/ Disturb) /\ pc \in {"measure", "calibrate"} /\ UNCHANGED process

Measure ==
  \/ StartRun \/ Run \/ Measured \/ ReuseOverhead \/ Calibrate \/ Calibrated
  \/ RemoveOverhead \/ PrintSamples \/ NextBench
  \/ TimingStep

Next ==
  \/ Register /\ UNCHANGED measuring
  \/ Measure /\ UNCHANGED registration

Spec == Init /\ [][Next]_vars

-----------------------------------------------------------------------------
(* Properties. *)

Kind == Bench.calibration

(* What one sample should show: METHOD itself, cold calls included, less   *)
(* the call of the calibration method.                                     *)
TrueSample(n) ==
  Cost(Bench.method, Bench.loop_count) + Cold(n) - Cost(CalibrationMethod(Kind), 0)

(* removeOverhead (oneshot.hpp:175-187) and the median of 11 calibration   *)
(* samples (63-80) leave exactly METHOD in an undisturbed sample, the      *)
(* first one too, as long as most of the calibration was undisturbed; and  *)
(* no sample is then less than that ("a overhead-removed benchmark of      *)
(* dummy_bench showed up as -1 cycles, not 0", timer-info.hpp:116-120).    *)
SamplesExact ==
  pc = "next" /\ Kind \in sound /\ ColdCalls <= ONESHOT_OVERHEAD_WARMUP =>
    \A n \in Sample :
      /\ raw[n] >= TrueSample(n)
      /\ n \notin spoiled => raw[n] = TrueSample(n)

(* "calculate the overhead once across the entire process"                 *)
(* (oneshot.hpp:157-158): whatever disturbs a calibration, all benchmarks  *)
(* with the default one have the same number subtracted.                   *)
SameOverhead == Cardinality(used) <= 1

(* "include median" (oneshot.hpp:150): at least half of the samples that   *)
(* are printed are not above the median that is printed, and at least half *)
(* of them are not below it.                                               *)
MedianRight ==
  pc = "next" =>
    /\ \E n \in Sample : raw[n] = median
    /\ 2 * Cardinality({n \in Sample : raw[n] <= median}) >= samples
    /\ 2 * Cardinality({n \in Sample : raw[n] >= median}) >= samples
=============================================================================
