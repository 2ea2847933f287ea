--------------------------- MODULE TimeOneProofs ---------------------------
(* Lemmas about the loop of time_one, for every job it is called with,     *)
(* every timing of the methods and any number of disturbances: what        *)
(* DeltaBenchProofs and OneshotBenchProofs build on.                       *)
EXTENDS TimeOne, TLAPS

(* Where the sample being taken stands between its two readings. *)
ReadingOK ==
  /\ step = "method" => /\ clock >= t0
                        /\ i \notin disturbed => clock = t0
  /\ step = "t1" => /\ clock >= t0 + Undisturbed(i)
                    /\ i \notin disturbed => clock = t0 + Undisturbed(i)

-----------------------------------------------------------------------------
(* How long a call takes is a number. *)

LEMMA CostType ==
  ASSUME NEW m \in Method, NEW loops \in Nat
  PROVE  Cost(m, loops) \in Nat
<1>1. PerLoop[m] \in Nat /\ Fixed[m] \in Nat
  BY TimingAssumption
<1>2. \A a, b \in Nat : a * b \in Nat
  OBVIOUS
<1> QED BY <1>1, <1>2 DEF Cost

LEMMA ColdType ==
  ASSUME NEW n
  PROVE  Cold(n) \in Nat
BY TimingAssumption DEF Cold

-----------------------------------------------------------------------------
(* The loop of time_one, whatever job it runs. *)

LEMMA UndisturbedType ==
  ASSUME TimingOK, NEW n
  PROVE  Undisturbed(n) \in Nat
<1>1. job.method \in Method /\ job.loop_count \in Nat
  BY DEF TimingOK, Job
<1>2. Cost(job.method, job.loop_count) \in Nat
  BY <1>1, CostType
<1>3. Overhead \in Nat /\ Cold(n) \in Nat
  BY TimingAssumption, ColdType
<1> QED BY <1>2, <1>3 DEF Undisturbed

LEMMA JobTypes ==
  ASSUME TimingOK
  PROVE  /\ job.samples \in Nat \ {0}
         /\ Cost(job.method, job.loop_count) \in Nat
         /\ Cost(job.warm_once, job.loop_count) \in Nat
         /\ Cost(job.warm_every, job.loop_count) \in Nat
<1>1. /\ job.samples \in Nat \ {0} /\ job.loop_count \in Nat
      /\ {job.method, job.warm_once, job.warm_every} \subseteq Method
  BY DEF TimingOK, Job
<1> QED BY <1>1, CostType

(* A step that takes no reading changes what no sample is made of. *)
LEMMA WarmStep ==
  ASSUME TimingOK, SamplesSound, WarmOnce \/ WarmEvery \/ ReadT0
  PROVE  TimingOK' /\ SamplesSound' /\ ReadingOK'
<1>1. /\ UNCHANGED <<job, i, result, disturbed, events>>
      /\ step \in Loop /\ step' \in {"warm_every", "t0", "method"}
      /\ step' = "method" => clock' = t0'
  BY DEF WarmOnce, WarmEvery, ReadT0, Loop
<1>2. clock' \in Nat /\ t0' \in Nat
  BY JobTypes DEF WarmOnce, WarmEvery, ReadT0, TimingOK
<1>3. TimingOK'
  BY <1>1, <1>2 DEF TimingOK, Loop
<1>4. SamplesSound'
  BY <1>1 DEF SamplesSound, Taken, Undisturbed, Loop
<1>5. ReadingOK'
  BY <1>1, <1>2 DEF ReadingOK
<1> QED BY <1>3, <1>4, <1>5

LEMMA CallMethodStep ==
  ASSUME TimingOK, SamplesSound, ReadingOK, CallMethod
  PROVE  TimingOK' /\ SamplesSound' /\ ReadingOK'
<1>1. /\ UNCHANGED <<job, i, t0, result, disturbed, events>>
      /\ step = "method" /\ step' = "t1"
      /\ clock' = clock + Undisturbed(i)
  <2>1. Overhead \in Nat /\ Cold(i) \in Nat /\ clock \in Nat
    BY TimingAssumption, ColdType DEF TimingOK
  <2> QED BY <2>1, JobTypes DEF CallMethod, Undisturbed
<1>2. Undisturbed(i)' = Undisturbed(i) /\ Undisturbed(i) \in Nat
  BY <1>1, UndisturbedType DEF Undisturbed
<1>3. TimingOK'
  BY <1>1, <1>2 DEF TimingOK, Loop
<1>4. SamplesSound'
  BY <1>1 DEF SamplesSound, Taken, Undisturbed, Loop
<1>5. ReadingOK'
  <2>1. clock \in Nat /\ t0 \in Nat
    BY DEF TimingOK
  <2>2. /\ clock >= t0
        /\ i \notin disturbed => clock = t0
    BY <1>1 DEF ReadingOK
  <2>3. /\ clock' >= t0 + Undisturbed(i)
        /\ i \notin disturbed => clock' = t0 + Undisturbed(i)
    BY <1>1, <1>2, <2>1, <2>2
  <2> QED BY <1>1, <1>2, <2>3 DEF ReadingOK
<1> QED BY <1>3, <1>4, <1>5

LEMMA ReadT1Step ==
  ASSUME TimingOK, SamplesSound, ReadingOK, ReadT1
  PROVE  TimingOK' /\ SamplesSound' /\ ReadingOK'
<1>1. /\ UNCHANGED <<clock, job, t0, disturbed, events>>
      /\ step = "t1" /\ result' = [result EXCEPT ![i] = clock - t0]
      /\ IF i < job.samples
         THEN i' = i + 1 /\ step' = "warm_every"
         ELSE i' = i /\ step' = "returned"
  BY DEF ReadT1
<1>2. i \in 1 .. job.samples /\ clock \in Nat /\ t0 \in Nat /\ job.samples \in Nat
  BY JobTypes DEF TimingOK
<1>3. TimingOK'
  <2>1. result' \in [1 .. job.samples -> Int]
    BY <1>1, <1>2 DEF TimingOK
  <2>2. i' \in 1 .. job.samples /\ step' \in Loop \union {"returned"}
    BY <1>1, <1>2 DEF Loop
  <2> QED BY <1>1, <2>1, <2>2 DEF TimingOK
<1>4. SamplesSound'
  <2>1. \A n \in Taken' : n = i \/ n \in Taken
    BY <1>1, <1>2 DEF Taken, Loop
  <2>2. /\ result'[i] >= Undisturbed(i)
        /\ i \notin disturbed => result'[i] = Undisturbed(i)
    <3>1. /\ clock >= t0 + Undisturbed(i)
          /\ i \notin disturbed => clock = t0 + Undisturbed(i)
      BY <1>1 DEF ReadingOK
    <3>2. result'[i] = clock - t0
      BY <1>1, <1>2 DEF TimingOK
    <3> QED BY <1>2, <3>1, <3>2, UndisturbedType
  <2>3. \A n \in Taken \ {i} : result'[n] = result[n]
    BY <1>1 DEF TimingOK, Taken
  <2>4. \A n : Undisturbed(n)' = Undisturbed(n)
    BY <1>1 DEF Undisturbed
  <2> QED BY <1>1, <2>1, <2>2, <2>3, <2>4 DEF SamplesSound
<1>5. ReadingOK'
  BY <1>1 DEF ReadingOK
<1> QED BY <1>3, <1>4, <1>5

LEMMA DisturbStep ==
  ASSUME TimingOK, SamplesSound, ReadingOK, Disturb
  PROVE  TimingOK' /\ SamplesSound' /\ ReadingOK'
<1>1. PICK d \in Disturbances : clock' = clock + d
  BY DEF Disturb
<1>2. /\ UNCHANGED <<job, step, i, t0, result>> /\ step \in Loop
      /\ events < MaxDisturbances /\ events' = events + 1
      /\ disturbed' = IF step \in {"method", "t1"} THEN disturbed \union {i} ELSE disturbed
  BY DEF Disturb
<1>3. d \in Nat /\ clock \in Nat /\ t0 \in Nat /\ i \in 1 .. job.samples
  BY TimingAssumption DEF TimingOK
<1>4. TimingOK'
  <2>1. clock' \in Nat
    BY <1>1, <1>3
  <2>2. events' \in 0 .. MaxDisturbances
    BY <1>2, TimingAssumption DEF TimingOK
  <2>3. disturbed' \in SUBSET (1 .. job.samples)
    BY <1>2, <1>3 DEF TimingOK
  <2> QED BY <1>2, <2>1, <2>2, <2>3 DEF TimingOK
<1>5. SamplesSound'
  <2>1. Taken' = Taken /\ disturbed \subseteq disturbed'
    BY <1>2 DEF Taken
  <2>2. \A n : Undisturbed(n)' = Undisturbed(n)
    BY <1>2 DEF Undisturbed
  <2> QED BY <1>2, <2>1, <2>2 DEF SamplesSound
<1>6. ReadingOK'
  <2>1. Undisturbed(i)' = Undisturbed(i) /\ Undisturbed(i) \in Nat
    BY <1>2, UndisturbedType DEF Undisturbed
  <2>2. step = "method" => clock' >= t0 /\ i \in disturbed'
    BY <1>1, <1>2, <1>3 DEF ReadingOK
  <2>3. step = "t1" => clock' >= t0 + Undisturbed(i) /\ i \in disturbed'
    BY <1>1, <1>2, <1>3, <2>1 DEF ReadingOK
  <2> QED BY <1>2, <2>1, <2>2, <2>3 DEF ReadingOK
<1> QED BY <1>4, <1>5, <1>6

LEMMA CallStep ==
  ASSUME TimingOK, NEW j \in Job, Call(j), UNCHANGED <<clock, events>>
  PROVE  TimingOK' /\ SamplesSound' /\ ReadingOK'
<1>1. j.samples \in Nat \ {0}
  BY DEF Job
<1>2. TimingOK'
  BY <1>1 DEF Call, TimingOK, Loop
<1>3. SamplesSound'
  BY <1>1 DEF Call, SamplesSound, Taken, Loop
<1>4. ReadingOK'
  BY DEF Call, ReadingOK
<1> QED BY <1>2, <1>3, <1>4

LEMMA TimingStays ==
  ASSUME TimingOK, SamplesSound, ReadingOK, UNCHANGED timing
  PROVE  TimingOK' /\ SamplesSound' /\ ReadingOK'
BY DEF timing, TimingOK, SamplesSound, ReadingOK, Taken, Undisturbed

(* One iteration of time_one after the other (benchmark.hpp:333-347): no   *)
(* step of the loop and nothing that interrupts it makes a recorded sample *)
(* wrong, whatever job it runs.                                            *)
THEOREM LoopKeepsSamplesSound ==
  ASSUME TimingOK, SamplesSound, ReadingOK, LoopStep \/ Disturb
  PROVE  TimingOK' /\ SamplesSound' /\ ReadingOK' /\ UNCHANGED job
<1>1. UNCHANGED job
  BY DEF LoopStep, WarmOnce, WarmEvery, ReadT0, CallMethod, ReadT1, Disturb
<1> QED BY <1>1, WarmStep, CallMethodStep, ReadT1Step, DisturbStep DEF LoopStep

=============================================================================
