----------------------------- MODULE DeltaBench -----------------------------
(***************************************************************************)
(* A benchmark made by DeltaMaker, from the calls that configure the maker *)
(* to one BenchTemplate::run with DeltaAlgo.  Two jobs of time_one are     *)
(* measured, a base and a bench; the minimum of each, without its warm-up  *)
(* samples, is taken and the difference of the two minima is reported per  *)
(* operation.                                                              *)
(***************************************************************************)
EXTENDS TimeOne, FiniteSetsExt

CONSTANTS
  total_samples,
  warmup_samples,
  default_loop_count,
  LoopCounts,      \* the arguments of setLoopCount considered
  ops_per_loop,    \* BenchArgs::ops_per_loop
  BENCH_METHOD,
  BASE_METHOD,
  inlined_empty    \* the warm-up method that does nothing

ASSUME DeltaAssumption ==
  /\ total_samples \in Nat /\ warmup_samples \in Nat
  /\ warmup_samples < total_samples  \* the static_assert
  /\ default_loop_count \in Nat \ {0} /\ LoopCounts \subseteq Nat \ {0}
  /\ ops_per_loop \in Nat \ {0}
  /\ {BENCH_METHOD, BASE_METHOD, inlined_empty} \subseteq Method

VARIABLES
  maker,           \* the maker at the end of the chain of calls so far: its
                   \* loop_count and the template parameter use_loop_delta;
                   \* after make, the benchmark's loop_count and raw function
  asked,           \* history: useLoopDelta was called
  has_deleter,     \* whether the arg provider has a deleter
  pc,              \* what the run does next
  arg,             \* the argument: not made yet, live or freed
  raw,             \* DeltaRaw: the deltas of the base and of the bench
  spoiled,         \* history: the disturbed samples of each
  answer,          \* the aggregated difference
  per              \* the number of operations it is divided by

bench == <<maker, asked, has_deleter>>
run == <<pc, arg, raw, spoiled, answer, per>>
vars == <<timing, bench, run>>

Side == {"base", "bench"}
Sample == 1 .. total_samples

(* The second job of delta_loop_bench without the factor of two. *)
Mut_SideLoops_Same(s) == maker.loop_count

(* What each side measures: the same method with loop_count and twice as   *)
(* many iterations, or two methods with loop_count.                        *)
SideMethod(s) == IF maker.use_loop_delta \/ s = "bench" THEN BENCH_METHOD ELSE BASE_METHOD
SideLoops(s) ==
  IF maker.use_loop_delta /\ s = "bench" THEN maker.loop_count * 2 ELSE maker.loop_count

SideJob(s) ==
  [samples |-> total_samples, method |-> SideMethod(s), warm_once |-> inlined_empty,
   warm_every |-> inlined_empty, loop_count |-> SideLoops(s)]

(* aggregate_one skips the first samples. *)
Used == warmup_samples + 1 .. total_samples

(* An aggregation by the slowest sample. *)
Mut_aggregate_one_Max(deltas) == Max({deltas[n] : n \in Used})

aggregate_one(deltas) == Min({deltas[n] : n \in Used})

TypeOK ==
  /\ TimingOK
  /\ job.samples = total_samples
  /\ maker \in [use_loop_delta : BOOLEAN, loop_count : LoopCounts \union {default_loop_count}]
  /\ asked \in BOOLEAN /\ has_deleter \in BOOLEAN
  /\ pc \in {"maker", "make", "free", "handle", "done"} \union Side
  /\ arg \in {"none", "live", "freed"}
  /\ raw \in [Side -> [Sample -> Int]]
  /\ spoiled \in [Side -> SUBSET Sample]
  /\ answer \in Int
  /\ per \in Nat

-----------------------------------------------------------------------------

Init ==
  /\ maker = [use_loop_delta |-> FALSE, loop_count |-> default_loop_count]
  /\ asked = FALSE /\ has_deleter \in BOOLEAN
  /\ job = SideJob("base") /\ TimingInit
  /\ pc = "maker" /\ arg = "none"
  /\ raw = [s \in Side |-> [n \in Sample |-> 0]]
  /\ spoiled = [s \in Side |-> {}]
  /\ answer = 0 /\ per = 0

(* setLoopCount.  What it returns is a DeltaMaker<TIMER>: a copy, but one   *)
(* with the default use_loop_delta, whatever it was called on.             *)
SetLoopCount ==
  /\ pc = "maker"
  /\ \E loops \in LoopCounts :
       maker' = [use_loop_delta |-> FALSE, loop_count |-> loops]
  /\ UNCHANGED <<timing, asked, has_deleter, run>>

(* setTags, setFeatures and the assignment to a DeltaMaker<TIMER>, which do *)
(* the same to use_loop_delta.                                             *)
CopyMaker ==
  /\ pc = "maker"
  /\ maker' = [maker EXCEPT !.use_loop_delta = FALSE]
  /\ UNCHANGED <<timing, asked, has_deleter, run>>

UseLoopDelta ==
  /\ pc = "maker"
  /\ maker' = [maker EXCEPT !.use_loop_delta = TRUE]
  /\ asked' = TRUE
  /\ UNCHANGED <<timing, has_deleter, run>>

(* make_only: the maker's parameters become the benchmark's. *)
MakeBench ==
  /\ pc = "maker"
  /\ pc' = "make"
  /\ UNCHANGED <<timing, bench, arg, raw, spoiled, answer, per>>

(* get_raw: the argument is made before the measurement. *)
MakeArg ==
  /\ pc = "make"
  /\ arg' = "live"
  /\ Call(SideJob("base"))
  /\ pc' = "base"
  /\ UNCHANGED <<clock, events, bench, raw, spoiled, answer, per>>

Keep(s) ==
  /\ raw' = [raw EXCEPT ![s] = result]
  /\ spoiled' = [spoiled EXCEPT ![s] = disturbed]

(* A deleter that runs before the second job. *)
Mut_BaseDone_FreeEarly ==
  /\ pc = "base" /\ step = "returned"
  /\ Keep("base")
  /\ Call(SideJob("bench"))
  /\ arg' = IF has_deleter THEN "freed" ELSE arg
  /\ pc' = "bench"
  /\ UNCHANGED <<clock, events, bench, answer, per>>

BaseDone ==
  /\ pc = "base" /\ step = "returned"
  /\ Keep("base")
  /\ Call(SideJob("bench"))
  /\ pc' = "bench"
  /\ UNCHANGED <<clock, events, bench, arg, answer, per>>

BenchDone ==
  /\ pc = "bench" /\ step = "returned"
  /\ Keep("bench")
  /\ pc' = "free"
  /\ UNCHANGED <<timing, bench, arg, answer, per>>

(* A free that calls an empty deleter. *)
Mut_FreeArg_NeedsDeleter ==
  /\ pc = "free" /\ has_deleter
  /\ arg' = "freed"
  /\ pc' = "handle"
  /\ UNCHANGED <<timing, bench, raw, spoiled, answer, per>>

(* arg_provider_t::free does nothing without a deleter. *)
FreeArg ==
  /\ pc = "free"
  /\ arg' = IF has_deleter THEN "freed" ELSE arg
  /\ pc' = "handle"
  /\ UNCHANGED <<timing, bench, raw, spoiled, answer, per>>

(* handle_raw: DeltaAlgo::aggregate and normalize. *)
HandleRaw ==
  /\ pc = "handle"
  /\ answer' = aggregate_one(raw["bench"]) - aggregate_one(raw["base"])
  /\ per' = maker.loop_count * ops_per_loop
  /\ pc' = "done"
  /\ UNCHANGED <<timing, bench, arg, raw, spoiled>>

TimingStep == (LoopStep \/ Disturb) /\ pc \in Side /\ UNCHANGED <<bench, run>>

Next ==
  \/ SetLoopCount \/ CopyMaker \/ UseLoopDelta \/ MakeBench
  \/ MakeArg \/ BaseDone \/ BenchDone \/ FreeArg \/ HandleRaw \/ TimingStep

Spec == Init /\ [][Next]_vars

(* The program itself keeps running; nothing makes a disturbance come. *)
Progress ==
  MakeArg \/ BaseDone \/ BenchDone \/ FreeArg \/ HandleRaw
  \/ (LoopStep /\ pc \in Side /\ UNCHANGED <<bench, run>>)

FairSpec == Spec /\ WF_vars(Progress)

-----------------------------------------------------------------------------
(* Properties. *)

SideCost(s) == Cost(SideMethod(s), SideLoops(s))
Truth == SideCost("bench") - SideCost("base")

(* A side is clean when one of the samples it uses ran undisturbed. *)
Clean(s) == \E n \in Used : n \notin spoiled[s]

(* The cold calls are all among the warm-up samples. *)
WarmEnough == ColdCalls <= warmup_samples

(* benchmark.hpp:378-387 takes the minimum because "there will be slower   *)
(* deviations from the true speed, but no negative deviations": one        *)
(* undisturbed sample of the bench makes the answer at most the true       *)
(* difference, one of the base makes it at least that, and with both the   *)
(* overhead of the timer and of the call cancels out exactly.              *)
DeltaBracketed ==
  pc = "done" /\ WarmEnough =>
    /\ Clean("bench") => answer <= Truth
    /\ Clean("base") => answer >= Truth

(* With use_loop_delta what is reported (benchmark.hpp:363-368, 515-518)   *)
(* is the time of one iteration, divided by the operations in it: nothing  *)
(* of the call itself is left in it.                                       *)
LoopDeltaExact ==
  pc = "done" /\ WarmEnough /\ maker.use_loop_delta /\ Clean("bench") /\ Clean("base") =>
    answer * ops_per_loop = PerLoop[BENCH_METHOD] * per

(* "If useLoopDelta is set to true, the benchmark results are calculated   *)
(* by running the benchmark twice" (benchmark.hpp:515-517), and the other  *)
(* setters return "a COPY of this object with" one option changed          *)
(* (423-448): whatever else was set, a benchmark whose maker was asked to  *)
(* use the loop delta reports the time of one iteration.                   *)
LoopDeltaAsked ==
  pc = "done" /\ WarmEnough /\ asked /\ Clean("bench") /\ Clean("base") =>
    answer * ops_per_loop = PerLoop[BENCH_METHOD] * per

(* get_raw (benchmark.hpp:289-294): every call of the loop gets an         *)
(* argument that has been made and not been freed yet, and a provider with *)
(* a deleter gets its argument back.                                       *)
ArgOutlivesUse ==
  /\ pc \in Side => arg = "live"
  /\ pc = "done" /\ has_deleter => arg = "freed"

(* A measurement ends, whatever interrupts it (benchmark.hpp:333-347). *)
Finishes == pc = "make" ~> pc = "done"
=============================================================================
