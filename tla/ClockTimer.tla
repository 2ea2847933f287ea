----------------------------- MODULE ClockTimer -----------------------------
(***************************************************************************)
(* The clock timer: getGHz measures the frequency of the processor once,   *)
(* with a loop that takes one cycle per iteration, and to_result converts  *)
(* nanoseconds to cycles with it.                                          *)
(*                                                                         *)
(* The processor is external: a cycle takes Period, twice that until the   *)
(* first SlowRuns runs of the loop have warmed it up, and at any moment    *)
(* something else may take time.                                           *)
(***************************************************************************)
EXTENDS Integers, FiniteSets

CONSTANTS
  ITERS,             \* the iterations of the short run of the loop
  TRIES, WARMUP,     \* the samples of a round, and the rounds not used
  Period, SlowRuns,
  Call,              \* the time of a call of CAL_FN, without its iterations
  MHz,               \* the values of UARCH_BENCH_CLOCK_MHZ considered
  NotSet,            \* the value of a variable that is not in the environment
  Disturbances,      \* the lengths of the disturbances considered
  MaxDisturbances    \* their number (a bound for TLC)

ConstantsOK ==
  /\ ITERS \in Nat /\ ITERS > 0 /\ ITERS % 4 = 0
  /\ TRIES \in Nat \ {0} /\ WARMUP \in Nat
  /\ Period \in Nat \ {0} /\ SlowRuns \in Nat /\ Call \in Nat
  /\ MHz \subseteq Nat /\ NotSet \notin Nat
  /\ Disturbances \subseteq Nat \ {0} /\ MaxDisturbances \in Nat

VARIABLES
  clock_mhz,   \* getenv("UARCH_BENCH_CLOCK_MHZ")
  portable,    \* whether CAL_FN is portable_add_chain
  pc,          \* what CalcCpuFreq does next
  nanos,       \* CLOCK::nanos()
  runs,        \* how often CAL_FN has run
  w, r,        \* the loop variables
  t0, t1,      \* two readings of the clock
  sample,      \* results
  ghz,         \* getGHz's static, as a fraction
  disturbed,   \* history: the samples of the round something interrupted
  events       \* history: how many disturbances there were

machine == <<clock_mhz, portable>>
vars == <<machine, pc, nanos, runs, w, r, t0, t1, sample, ghz, disturbed, events>>

Try == 0 .. TRIES - 1

TypeOK ==
  /\ clock_mhz \in MHz \union {NotSet} /\ portable \in BOOLEAN
  /\ pc \in {"getenv", "t0", "once", "t1", "twice", "t2", "stats", "done"}
  /\ nanos \in Nat /\ runs \in Nat
  /\ w \in 0..WARMUP + 1 /\ r \in Try
  /\ {t0, t1} \subseteq 0..nanos
  /\ sample \in [Try -> Int]
  /\ ghz \in Int \X Int
  /\ disturbed \subseteq Try /\ events \in 0..MaxDisturbances

-----------------------------------------------------------------------------

(* add_calibration_x86 takes two iterations off per pass and ends below    *)
(* zero, portable_add_chain four and ends at zero.                         *)
LoopCycles(iters) == IF portable THEN 4 * (iters \div 4) ELSE 2 * (iters \div 2 + 1)

(* A run of CAL_FN. *)
Cal(iters) ==
  /\ runs' = runs + 1
  /\ nanos' = nanos + Call + LoopCycles(iters) * (IF runs < SlowRuns THEN 2 * Period ELSE Period)

Quotient(x, y) == IF x < 0 THEN -((-x) \div y) ELSE x \div y

(* The element that has this rank when the results are sorted. *)
ranked(results, rank) ==
  CHOOSE time \in {results[k] : k \in Try} :
    /\ Cardinality({k \in Try : results[k] < time}) <= rank
    /\ Cardinality({k \in Try : results[k] <= time}) > rank

(* Stats::median: the middle one of an odd number, the mean of the two in  *)
(* the middle of an even number, rounded to zero.                          *)
median(results) ==
  LET half == TRIES \div 2
  IN IF TRIES % 2 = 1 THEN ranked(results, half)
     ELSE Quotient(ranked(results, half - 1) + ranked(results, half), 2)

-----------------------------------------------------------------------------

Init ==
  /\ clock_mhz \in MHz \union {NotSet} /\ portable \in BOOLEAN
  /\ pc = "getenv" /\ nanos = 0 /\ runs = 0 /\ w = 0 /\ r = 0 /\ t0 = 0 /\ t1 = 0
  /\ sample = [k \in Try |-> 0]
  /\ ghz = <<0, 1>> /\ disturbed = {} /\ events = 0

GetEnv ==
  /\ pc = "getenv"
  /\ IF clock_mhz # NotSet THEN ghz' = <<clock_mhz, 1000>> /\ pc' = "done"
     ELSE pc' = "t0" /\ UNCHANGED ghz
  /\ UNCHANGED <<machine, nanos, runs, w, r, t0, t1, sample, disturbed, events>>

ReadT0 ==
  /\ pc = "t0"
  /\ t0' = nanos /\ pc' = "once"
  /\ disturbed' = IF r = 0 THEN {} ELSE disturbed
  /\ UNCHANGED <<machine, nanos, runs, w, r, t1, sample, ghz, events>>

CalOnce ==
  /\ pc = "once" /\ Cal(ITERS) /\ pc' = "t1"
  /\ UNCHANGED <<machine, w, r, t0, t1, sample, ghz, disturbed, events>>

ReadT1 ==
  /\ pc = "t1"
  /\ t1' = nanos /\ pc' = "twice"
  /\ UNCHANGED <<machine, nanos, runs, w, r, t0, sample, ghz, disturbed, events>>

CalTwice ==
  /\ pc = "twice" /\ Cal(ITERS * 2) /\ pc' = "t2"
  /\ UNCHANGED <<machine, w, r, t0, t1, sample, ghz, disturbed, events>>

NextSample ==
  IF r < TRIES - 1 THEN r' = r + 1 /\ pc' = "t0" /\ UNCHANGED w
  ELSE r' = 0 /\ w' = w + 1 /\ pc' = IF w < WARMUP THEN "t0" ELSE "stats"

(* A sample that does not take the call off. *)
Mut_ReadT2_NoDelta ==
  /\ pc = "t2"
  /\ sample' = [sample EXCEPT ![r] = Quotient(nanos - t1, 2)]
  /\ NextSample
  /\ UNCHANGED <<machine, nanos, runs, t0, t1, ghz, disturbed, events>>

ReadT2 ==
  /\ pc = "t2"
  /\ sample' = [sample EXCEPT ![r] = (nanos - t1) - (t1 - t0)]
  /\ NextSample
  /\ UNCHANGED <<machine, nanos, runs, t0, t1, ghz, disturbed, events>>

SetGHz ==
  /\ pc = "stats"
  /\ ghz' = <<ITERS, median(sample)>> /\ pc' = "done"
  /\ UNCHANGED <<machine, nanos, runs, w, r, t0, t1, sample, disturbed, events>>

(* External: something takes time between two readings. *)
Disturb ==
  /\ pc \in {"once", "t1", "twice", "t2"} /\ events < MaxDisturbances
  /\ \E time \in Disturbances : nanos' = nanos + time
  /\ events' = events + 1 /\ disturbed' = disturbed \union {r}
  /\ UNCHANGED <<machine, pc, runs, w, r, t0, t1, sample, ghz>>

Next ==
  \/ GetEnv \/ ReadT0 \/ CalOnce \/ ReadT1 \/ CalTwice \/ ReadT2 \/ SetGHz
  \/ Disturb

(* to_result: so many nanoseconds are ghz times as many cycles, a fraction  *)
(* as ghz is one (the code has doubles).                                   *)
to_result(time) == <<time * ghz[1], ghz[2]>>

-----------------------------------------------------------------------------
(* Properties. *)

(* "run twice, once with ITERS iterations and once with 2*ITERS, and a     *)
(* delta is used to remove measurement overhead" (timers.cpp:36-38), after *)
(* rounds that warm the processor up: when fewer than half of the samples  *)
(* of the last round were interrupted, the frequency is exact, for either  *)
(* loop: a Period is converted to one cycle, ghz[1] * Period = ghz[2], and *)
(* with it every time to as many cycles as Periods it lasted.              *)
FrequencyRight ==
  /\ pc = "done" /\ clock_mhz = NotSet
  /\ SlowRuns <= 2 * TRIES * WARMUP
  /\ 2 * (Cardinality(disturbed) + 1) <= TRIES
  => LET cycles == to_result(Period) IN cycles[2] > 0 /\ cycles[1] = cycles[2]
=============================================================================
