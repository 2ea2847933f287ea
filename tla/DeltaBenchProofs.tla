-------------------------- MODULE DeltaBenchProofs --------------------------
(* Theorems about DeltaBench for every timing of the methods, every number *)
(* of samples and of loops, and any number of disturbances.                *)
EXTENDS DeltaBench, TimeOneProofs, WellFoundedInduction

(* The job of time_one is the one of the side that is being measured. *)
JobOK == pc \in Side => job = SideJob(pc)

(* What is kept of a side, as SamplesSound has it while time_one runs. *)
KeptSound(s) ==
  \A n \in Sample :
    /\ raw[s][n] >= Overhead + SideCost(s) + Cold(n)
    /\ n \notin spoiled[s] => raw[s][n] = Overhead + SideCost(s) + Cold(n)

KeptOK ==
  /\ pc \in {"bench", "free", "handle", "done"} => KeptSound("base")
  /\ pc \in {"free", "handle", "done"} => KeptSound("bench")

AnswerOK ==
  pc = "done" => /\ answer = aggregate_one(raw["bench"]) - aggregate_one(raw["base"])
                 /\ per = maker.loop_count * ops_per_loop

ArgOK ==
  /\ pc \in Side \union {"free"} => arg = "live"
  /\ pc \in {"handle", "done"} /\ has_deleter => arg = "freed"

IInv ==
  TypeOK /\ SamplesSound /\ ReadingOK /\ JobOK /\ KeptOK /\ AnswerOK /\ ArgOK

-----------------------------------------------------------------------------
(* Minima. *)

LEMMA MinNat ==
  ASSUME NEW S, S \subseteq Nat, S # {}
  PROVE  Min(S) \in S /\ \A y \in S : Min(S) <= y
<1>1. PICK x \in S : \A y \in S : ~ (<<y, x>> \in OpToRel(<, Nat))
  BY NatLessThanWellFounded, WFMin
<1>2. \A y \in S : ~ (y < x)
  BY <1>1 DEF OpToRel
<1>3. \A y \in S : x <= y
  BY <1>2
<1> QED BY <1>3 DEF Min

LEMMA SideJobType ==
  ASSUME TypeOK, NEW s \in Side
  PROVE  /\ SideJob(s) \in Job
         /\ SideJob(s).samples = total_samples
         /\ SideMethod(s) \in Method /\ SideLoops(s) \in Nat
<1>1. maker.loop_count \in Nat
  BY DeltaAssumption DEF TypeOK
<1>2. SideMethod(s) \in Method /\ SideLoops(s) \in Nat
  BY <1>1, DeltaAssumption DEF SideMethod, SideLoops
<1>3. total_samples \in Nat \ {0} /\ inlined_empty \in Method
  BY DeltaAssumption
<1> QED BY <1>2, <1>3 DEF SideJob, Job

-----------------------------------------------------------------------------
(* The type invariant.  The aggregated values are integers because what is *)
(* kept of a side is bounded from below, so that there is a minimum.       *)

LEMMA AggregateType ==
  ASSUME TypeOK, NEW s \in Side, KeptSound(s)
  PROVE  /\ aggregate_one(raw[s]) \in Nat
         /\ \A n \in Used : aggregate_one(raw[s]) <= raw[s][n]
         /\ \E n \in Used : aggregate_one(raw[s]) = raw[s][n]
<1> DEFINE S == {raw[s][n] : n \in Used}
<1>1. Used \subseteq Sample /\ Used # {}
  <2>1. total_samples \in Used
    BY DeltaAssumption DEF Used
  <2>2. \A n \in Used : n \in Sample
    BY DeltaAssumption DEF Used, Sample
  <2> QED BY <2>1, <2>2
<1>2. SideCost(s) \in Nat
  BY SideJobType, CostType DEF SideCost
<1>3. \A n \in Sample : raw[s][n] \in Nat
  <2>1. Overhead \in Nat
    BY TimingAssumption
  <2>2. raw \in [Side -> [Sample -> Int]]
    BY DEF TypeOK
  <2>3. \A n \in Sample : raw[s][n] >= Overhead + SideCost(s) + Cold(n)
    BY DEF KeptSound
  <2>4. SUFFICES ASSUME NEW n \in Sample PROVE raw[s][n] \in Nat
    OBVIOUS
  <2>5. raw[s][n] \in Int /\ Cold(n) \in Nat
    BY <2>2, ColdType
  <2> HIDE DEF S
  <2> QED BY <1>2, <2>1, <2>3, <2>5
<1>4. S \subseteq Nat /\ S # {}
  BY <1>1, <1>3
<1>5. Min(S) \in S /\ \A y \in S : Min(S) <= y
  BY <1>4, MinNat
<1> QED BY <1>4, <1>5 DEF aggregate_one

LEMMA InitIInv == Init => IInv
<1> SUFFICES ASSUME Init PROVE IInv
  OBVIOUS
<1>1. /\ maker = [use_loop_delta |-> FALSE, loop_count |-> default_loop_count]
      /\ asked = FALSE /\ has_deleter \in BOOLEAN
      /\ job = SideJob("base") /\ TimingInit
      /\ pc = "maker" /\ arg = "none"
      /\ raw = [s \in Side |-> [n \in Sample |-> 0]]
      /\ spoiled = [s \in Side |-> {}]
      /\ answer = 0 /\ per = 0
  BY DEF Init
<1>2. job \in Job /\ job.samples = total_samples
  BY <1>1, DeltaAssumption DEF SideJob, Job, SideMethod, SideLoops
<1>3. TimingOK
  BY <1>1, <1>2, DeltaAssumption, TimingAssumption DEF TimingInit, TimingOK, Loop
<1>4. TypeOK
  <2>1. maker \in [use_loop_delta : BOOLEAN, loop_count : LoopCounts \union {default_loop_count}]
    BY <1>1
  <2>2. raw \in [Side -> [Sample -> Int]] /\ spoiled \in [Side -> SUBSET Sample]
    BY <1>1
  <2>3. asked \in BOOLEAN /\ has_deleter \in BOOLEAN
    BY <1>1
  <2>4. /\ pc \in {"maker", "make", "free", "handle", "done"} \union Side
        /\ arg \in {"none", "live", "freed"} /\ answer \in Int /\ per \in Nat
    BY <1>1
  <2> QED BY <1>2, <1>3, <2>1, <2>2, <2>3, <2>4 DEF TypeOK
<1>5. SamplesSound /\ ReadingOK
  BY <1>1 DEF TimingInit, SamplesSound, ReadingOK, Taken, Loop
<1>6. JobOK /\ KeptOK /\ AnswerOK /\ ArgOK
  BY <1>1 DEF JobOK, KeptOK, AnswerOK, ArgOK, Side
<1> QED BY <1>4, <1>5, <1>6 DEF IInv

-----------------------------------------------------------------------------
(* The steps of the benchmark. *)

(* What is kept stays as sound as it was. *)
LEMMA KeptStays ==
  ASSUME NEW s \in Side, KeptSound(s), UNCHANGED maker,
         raw'[s] = raw[s], spoiled'[s] = spoiled[s]
  PROVE  KeptSound(s)'
BY DEF KeptSound, SideCost, SideMethod, SideLoops

(* The calls that configure the maker. *)
LEMMA MakerStep ==
  ASSUME IInv, SetLoopCount \/ CopyMaker \/ UseLoopDelta \/ MakeBench
  PROVE  IInv'
<1>1. /\ UNCHANGED <<timing, has_deleter, arg, raw, spoiled, answer, per>>
      /\ pc = "maker" /\ pc' \in {"maker", "make"}
  BY DEF SetLoopCount, CopyMaker, UseLoopDelta, MakeBench, run, bench
<1>2. TimingOK' /\ SamplesSound' /\ ReadingOK'
  BY <1>1, TimingStays DEF IInv, TypeOK
<1>3. maker' \in [use_loop_delta : BOOLEAN, loop_count : LoopCounts \union {default_loop_count}]
  <2>1. CASE SetLoopCount
    BY <2>1 DEF SetLoopCount
  <2>2. CASE CopyMaker \/ UseLoopDelta
    BY <2>2 DEF CopyMaker, UseLoopDelta, IInv, TypeOK
  <2>3. CASE MakeBench
    BY <2>3 DEF MakeBench, bench, IInv, TypeOK
  <2> QED BY <2>1, <2>2, <2>3
<1>4. asked' \in BOOLEAN
  BY DEF SetLoopCount, CopyMaker, UseLoopDelta, MakeBench, bench, IInv, TypeOK
<1>5. TypeOK'
  BY <1>1, <1>2, <1>3, <1>4 DEF IInv, TypeOK, timing
<1>6. JobOK' /\ KeptOK' /\ AnswerOK' /\ ArgOK'
  BY <1>1 DEF JobOK, KeptOK, AnswerOK, ArgOK, Side
<1> QED BY <1>2, <1>5, <1>6 DEF IInv

LEMMA MakeArgStep ==
  ASSUME IInv, MakeArg
  PROVE  IInv'
<1>1. /\ UNCHANGED <<clock, events, bench, raw, spoiled, answer, per>>
      /\ pc' = "base" /\ arg' = "live" /\ Call(SideJob("base"))
  BY DEF MakeArg
<1>2. SideJob("base") \in Job /\ SideJob("base").samples = total_samples
  BY SideJobType DEF IInv, Side
<1>3. TimingOK' /\ SamplesSound' /\ ReadingOK'
  BY <1>1, <1>2, CallStep DEF IInv, TypeOK
<1>4. job' = SideJob("base") /\ SideJob("base")' = SideJob("base")
  BY <1>1 DEF Call, SideJob, SideMethod, SideLoops, bench
<1>5. TypeOK'
  BY <1>1, <1>2, <1>3, <1>4 DEF IInv, TypeOK, bench, Side
<1>6. JobOK' /\ KeptOK' /\ AnswerOK' /\ ArgOK'
  BY <1>1, <1>4 DEF JobOK, KeptOK, AnswerOK, ArgOK, Side
<1> QED BY <1>3, <1>5, <1>6 DEF IInv

(* What Keep leaves of a side that is done. *)
LEMMA KeepStep ==
  ASSUME IInv, NEW s \in Side, pc = s, step = "returned", Keep(s), UNCHANGED maker
  PROVE  /\ KeptSound(s)'
         /\ raw' \in [Side -> [Sample -> Int]]
         /\ spoiled' \in [Side -> SUBSET Sample]
         /\ \A r \in Side \ {s} : raw'[r] = raw[r] /\ spoiled'[r] = spoiled[r]
<1>1. job = SideJob(s) /\ job.samples = total_samples
  BY DEF IInv, TypeOK, JobOK
<1>2. result \in [Sample -> Int] /\ disturbed \in SUBSET Sample
  BY <1>1 DEF IInv, TypeOK, TimingOK, Sample
<1>3. \A n \in Sample : Undisturbed(n) = Overhead + SideCost(s) + Cold(n)
  BY <1>1 DEF Undisturbed, SideCost, SideJob
<1>4. \A n \in Sample : /\ result[n] >= Undisturbed(n)
                        /\ n \notin disturbed => result[n] = Undisturbed(n)
  BY <1>1 DEF IInv, SamplesSound, Taken, Sample
<1>5. raw'[s] = result /\ spoiled'[s] = disturbed
  BY DEF Keep, IInv, TypeOK
<1>6. SideCost(s)' = SideCost(s)
  BY DEF SideCost, SideMethod, SideLoops
<1>7. KeptSound(s)'
  BY <1>3, <1>4, <1>5, <1>6 DEF KeptSound
<1> QED BY <1>2, <1>7 DEF Keep, IInv, TypeOK

LEMMA BaseDoneStep ==
  ASSUME IInv, BaseDone
  PROVE  IInv'
<1>1. /\ UNCHANGED <<clock, events, bench, arg, answer, per>>
      /\ pc = "base" /\ step = "returned" /\ pc' = "bench"
      /\ Keep("base") /\ Call(SideJob("bench"))
  BY DEF BaseDone
<1>2. SideJob("bench") \in Job /\ SideJob("bench").samples = total_samples
  BY SideJobType DEF IInv, Side
<1>3. TimingOK' /\ SamplesSound' /\ ReadingOK'
  BY <1>1, <1>2, CallStep DEF IInv, TypeOK
<1>4. job' = SideJob("bench") /\ SideJob("bench")' = SideJob("bench")
  BY <1>1 DEF Call, SideJob, SideMethod, SideLoops, bench
<1>5. /\ KeptSound("base")'
      /\ raw' \in [Side -> [Sample -> Int]]
      /\ spoiled' \in [Side -> SUBSET Sample]
  BY <1>1, KeepStep DEF bench, Side
<1>6. TypeOK'
  BY <1>1, <1>2, <1>3, <1>4, <1>5 DEF IInv, TypeOK, bench, Side
<1>7. JobOK' /\ KeptOK' /\ AnswerOK' /\ ArgOK'
  BY <1>1, <1>4, <1>5 DEF IInv, JobOK, KeptOK, AnswerOK, ArgOK, Side
<1> QED BY <1>3, <1>6, <1>7 DEF IInv

LEMMA BenchDoneStep ==
  ASSUME IInv, BenchDone
  PROVE  IInv'
<1>1. /\ UNCHANGED <<timing, bench, arg, answer, per>>
      /\ pc = "bench" /\ step = "returned" /\ pc' = "free" /\ Keep("bench")
  BY DEF BenchDone
<1>2. TimingOK' /\ SamplesSound' /\ ReadingOK'
  BY <1>1, TimingStays DEF IInv, TypeOK
<1>3. /\ KeptSound("bench")'
      /\ raw' \in [Side -> [Sample -> Int]]
      /\ spoiled' \in [Side -> SUBSET Sample]
      /\ raw'["base"] = raw["base"] /\ spoiled'["base"] = spoiled["base"]
  BY <1>1, KeepStep DEF bench, Side
<1>4. KeptSound("base")'
  BY <1>1, <1>3, KeptStays DEF bench, Side, IInv, KeptOK
<1>5. TypeOK'
  BY <1>1, <1>2, <1>3 DEF IInv, TypeOK, bench, timing
<1>6. JobOK' /\ KeptOK' /\ AnswerOK' /\ ArgOK'
  BY <1>1, <1>3, <1>4 DEF IInv, JobOK, KeptOK, AnswerOK, ArgOK, Side
<1> QED BY <1>2, <1>5, <1>6 DEF IInv

LEMMA FreeArgStep ==
  ASSUME IInv, FreeArg
  PROVE  IInv'
<1>1. /\ UNCHANGED <<timing, bench, raw, spoiled, answer, per>>
      /\ pc = "free" /\ pc' = "handle"
      /\ arg' = IF has_deleter THEN "freed" ELSE arg
  BY DEF FreeArg
<1>2. TimingOK' /\ SamplesSound' /\ ReadingOK'
  BY <1>1, TimingStays DEF IInv, TypeOK
<1>3. KeptSound("base")' /\ KeptSound("bench")'
  BY <1>1, KeptStays DEF bench, Side, IInv, KeptOK
<1>4. TypeOK'
  BY <1>1, <1>2 DEF IInv, TypeOK, bench, timing
<1>5. JobOK' /\ KeptOK' /\ AnswerOK' /\ ArgOK'
  BY <1>1, <1>3 DEF bench, JobOK, KeptOK, AnswerOK, ArgOK, Side
<1> QED BY <1>2, <1>4, <1>5 DEF IInv

LEMMA HandleRawStep ==
  ASSUME IInv, HandleRaw
  PROVE  IInv'
<1>1. /\ UNCHANGED <<timing, bench, arg, raw, spoiled>>
      /\ pc = "handle" /\ pc' = "done"
      /\ answer' = aggregate_one(raw["bench"]) - aggregate_one(raw["base"])
      /\ per' = maker.loop_count * ops_per_loop
  BY DEF HandleRaw
<1>2. TimingOK' /\ SamplesSound' /\ ReadingOK'
  BY <1>1, TimingStays DEF IInv, TypeOK
<1>3. KeptSound("base")' /\ KeptSound("bench")'
  BY <1>1, KeptStays DEF bench, Side, IInv, KeptOK
<1>4. answer' \in Int
  <2>1. KeptSound("base") /\ KeptSound("bench")
    BY <1>1 DEF IInv, KeptOK
  <2>2. aggregate_one(raw["bench"]) \in Nat /\ aggregate_one(raw["base"]) \in Nat
    BY <2>1, AggregateType DEF IInv, Side
  <2> QED BY <1>1, <2>2
<1>5. per' \in Nat
  <2>1. maker.loop_count \in Nat /\ ops_per_loop \in Nat
    BY DeltaAssumption DEF IInv, TypeOK
  <2>2. \A a, b \in Nat : a * b \in Nat
    OBVIOUS
  <2> QED BY <1>1, <2>1, <2>2
<1>6. TypeOK'
  BY <1>1, <1>2, <1>4, <1>5 DEF IInv, TypeOK, bench, timing
<1>7. AnswerOK'
  BY <1>1 DEF AnswerOK, aggregate_one, bench
<1>8. JobOK' /\ KeptOK' /\ ArgOK'
  BY <1>1, <1>3 DEF IInv, bench, JobOK, KeptOK, ArgOK, Side
<1> QED BY <1>2, <1>6, <1>7, <1>8 DEF IInv

LEMMA TimingStepStep ==
  ASSUME IInv, TimingStep
  PROVE  IInv'
<1>1. LoopStep \/ Disturb
  BY DEF TimingStep
<1>2. pc \in Side /\ UNCHANGED <<bench, run>>
  BY DEF TimingStep
<1>3. TimingOK' /\ SamplesSound' /\ ReadingOK'
  BY <1>1, WarmStep, CallMethodStep, ReadT1Step, DisturbStep DEF IInv, TypeOK, LoopStep
<1>4. job' = job
  BY <1>1 DEF LoopStep, WarmOnce, WarmEvery, ReadT0, CallMethod, ReadT1, Disturb
<1>5. TypeOK'
  BY <1>2, <1>3, <1>4 DEF IInv, TypeOK, bench, run
<1>6. JobOK' /\ ArgOK' /\ AnswerOK'
  BY <1>2, <1>4 DEF IInv, JobOK, ArgOK, AnswerOK, Side, SideJob, SideMethod, SideLoops,
     bench, run
<1>7. KeptOK'
  <2>1. pc = "bench" => KeptSound("base")'
    BY <1>2, KeptStays DEF IInv, KeptOK, Side, bench, run
  <2> QED BY <1>2, <2>1 DEF KeptOK, Side, run
<1> QED BY <1>3, <1>5, <1>6, <1>7 DEF IInv

LEMMA NextIInv == IInv /\ [Next]_vars => IInv'
<1> SUFFICES ASSUME IInv, [Next]_vars PROVE IInv'
  OBVIOUS
<1>1. CASE SetLoopCount \/ CopyMaker \/ UseLoopDelta \/ MakeBench
  BY <1>1, MakerStep
<1>2. CASE MakeArg
  BY <1>2, MakeArgStep
<1>3. CASE BaseDone
  BY <1>3, BaseDoneStep
<1>4. CASE BenchDone
  BY <1>4, BenchDoneStep
<1>5. CASE FreeArg
  BY <1>5, FreeArgStep
<1>6. CASE HandleRaw
  BY <1>6, HandleRawStep
<1>7. CASE TimingStep
  BY <1>7, TimingStepStep
<1>8. CASE UNCHANGED vars
  <2>1. UNCHANGED timing /\ UNCHANGED <<bench, run>>
    BY <1>8 DEF vars
  <2>2. TimingOK' /\ SamplesSound' /\ ReadingOK'
    BY <2>1, TimingStays DEF IInv, TypeOK
  <2>3. TypeOK'
    BY <2>1, <2>2 DEF IInv, TypeOK, bench, run, timing
  <2>4. JobOK' /\ ArgOK' /\ AnswerOK'
    BY <2>1 DEF IInv, JobOK, ArgOK, AnswerOK, Side, SideJob, SideMethod, SideLoops,
       bench, run, timing, aggregate_one
  <2>5. KeptOK'
    BY <2>1, KeptStays DEF IInv, KeptOK, Side, bench, run
  <2> QED BY <2>2, <2>3, <2>4, <2>5 DEF IInv
<1> QED BY <1>1, <1>2, <1>3, <1>4, <1>5, <1>6, <1>7, <1>8 DEF Next

(* The strengthening all theorems below rest on: what each sample is made  *)
(* of between the readings of time_one, and what get_raw has kept of it    *)
(* (benchmark.hpp:333-347, 286-297).                                       *)
THEOREM IInvInvariant == Spec => []IInv
BY InitIInv, NextIInv, PTL DEF Spec

-----------------------------------------------------------------------------

(* Every variable of a measurement keeps its type, the answer included:    *)
(* the samples aggregate_one takes the minimum of (benchmark.hpp:374-387)  *)
(* are never none and are bounded from below.                              *)
THEOREM TypeCorrect == Spec => []TypeOK
<1>1. IInv => TypeOK
  BY DEF IInv
<1> QED BY <1>1, IInvInvariant, PTL

(* No sample of time_one (benchmark.hpp:333-347) is shorter than METHOD    *)
(* and one pair of readings, or longer unless something interrupted it     *)
(* there: no warm-up call is timed, for any number of samples.             *)
THEOREM SamplesAlwaysSound == Spec => []SamplesSound
<1>1. IInv => SamplesSound
  BY DEF IInv
<1> QED BY <1>1, IInvInvariant, PTL

(* The argument of get_raw (benchmark.hpp:286-297) is live whenever one of *)
(* the two jobs runs and is given back at the end.                         *)
THEOREM ArgAlwaysOutlivesUse == Spec => []ArgOutlivesUse
<1>1. IInv => ArgOutlivesUse
  BY DEF IInv, ArgOK, ArgOutlivesUse
<1> QED BY <1>1, IInvInvariant, PTL

(* The minimum of a side is at least what its method takes, and is that    *)
(* when one of the samples it uses ran undisturbed.                        *)
LEMMA MinimumOfSide ==
  ASSUME TypeOK, WarmEnough, NEW s \in Side, KeptSound(s)
  PROVE  /\ aggregate_one(raw[s]) \in Nat /\ SideCost(s) \in Nat
         /\ aggregate_one(raw[s]) >= Overhead + SideCost(s)
         /\ Clean(s) => aggregate_one(raw[s]) = Overhead + SideCost(s)
<1>1. SideCost(s) \in Nat /\ Overhead \in Nat
  BY SideJobType, CostType, TimingAssumption DEF SideCost
<1>2. \A n \in Used : n \in Sample /\ Cold(n) = 0
  BY DeltaAssumption, TimingAssumption DEF Used, Sample, Cold, WarmEnough
<1>3. \A n \in Used : /\ raw[s][n] >= Overhead + SideCost(s)
                      /\ n \notin spoiled[s] => raw[s][n] = Overhead + SideCost(s)
  BY <1>1, <1>2 DEF KeptSound
<1>4. /\ aggregate_one(raw[s]) \in Nat
      /\ \A n \in Used : aggregate_one(raw[s]) <= raw[s][n]
      /\ \E n \in Used : aggregate_one(raw[s]) = raw[s][n]
  BY AggregateType
<1>5. aggregate_one(raw[s]) >= Overhead + SideCost(s)
  BY <1>3, <1>4
<1>6. ASSUME Clean(s) PROVE aggregate_one(raw[s]) = Overhead + SideCost(s)
  <2>1. PICK n \in Used : n \notin spoiled[s]
    BY <1>6 DEF Clean
  <2>2. aggregate_one(raw[s]) <= Overhead + SideCost(s)
    BY <1>3, <1>4, <2>1
  <2> QED BY <1>1, <1>4, <1>5, <2>2
<1> QED BY <1>1, <1>4, <1>5, <1>6

LEMMA BothMinima ==
  ASSUME IInv, pc = "done", WarmEnough
  PROVE  /\ answer \in Int /\ Truth \in Int
         /\ Clean("bench") => answer <= Truth
         /\ Clean("base") => answer >= Truth
<1> DEFINE B == aggregate_one(raw["bench"])
           A == aggregate_one(raw["base"])
<1>1. answer = B - A /\ Overhead \in Nat
  BY TimingAssumption DEF IInv, AnswerOK
<1>2. /\ B \in Nat /\ SideCost("bench") \in Nat
      /\ B >= Overhead + SideCost("bench")
      /\ Clean("bench") => B = Overhead + SideCost("bench")
  BY MinimumOfSide DEF IInv, KeptOK, Side
<1>3. /\ A \in Nat /\ SideCost("base") \in Nat
      /\ A >= Overhead + SideCost("base")
      /\ Clean("base") => A = Overhead + SideCost("base")
  BY MinimumOfSide DEF IInv, KeptOK, Side
<1> HIDE DEF A, B
<1> QED BY <1>1, <1>2, <1>3 DEF Truth

(* The claim of benchmark.hpp:378-387 for taking the minimum: one          *)
(* undisturbed sample on a side bounds the answer by the true difference,  *)
(* and one on both makes it exact, however many disturbances there were.   *)
THEOREM MinimumBrackets == Spec => []DeltaBracketed
<1>1. IInv => DeltaBracketed
  BY BothMinima DEF DeltaBracketed
<1> QED BY <1>1, IInvInvariant, PTL

(* Twice the iterations minus once the iterations (benchmark.hpp:363-368)  *)
(* leaves the iterations alone: the fixed time of the call cancels for     *)
(* every loop count and every method.                                      *)
THEOREM LoopDeltaAlwaysExact == Spec => []LoopDeltaExact
<1>1. IInv => LoopDeltaExact
  <2> SUFFICES ASSUME IInv, pc = "done", WarmEnough, maker.use_loop_delta,
                      Clean("bench"), Clean("base")
               PROVE  answer * ops_per_loop = PerLoop[BENCH_METHOD] * per
    BY DEF LoopDeltaExact
  <2> DEFINE P == PerLoop[BENCH_METHOD]
             F == Fixed[BENCH_METHOD]
             L == maker.loop_count
  <2>1. P \in Nat /\ F \in Nat /\ L \in Nat /\ ops_per_loop \in Nat
    BY TimingAssumption, DeltaAssumption DEF IInv, TypeOK
  <2>2. Truth = (F + P * (L * 2)) - (F + P * L)
    BY DEF Truth, SideCost, SideMethod, SideLoops, Cost
  <2>3. answer = Truth
    BY BothMinima
  <2>4. per = L * ops_per_loop
    BY DEF IInv, AnswerOK
  <2> HIDE DEF P, F, L
  <2>5. \A p, f, l \in Nat : (f + p * (l * 2)) - (f + p * l) = p * l
    OBVIOUS
  <2>6. answer = P * L
    BY <2>1, <2>2, <2>3, <2>5
  <2>7. \A p, l, o \in Nat : (p * l) * o = p * (l * o)
    OBVIOUS
  <2>8. answer * ops_per_loop = P * per
    BY <2>1, <2>4, <2>6, <2>7
  <2> QED BY <2>8 DEF P
<1> QED BY <1>1, IInvInvariant, PTL

=============================================================================
