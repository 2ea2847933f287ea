------------------------------ MODULE TimeOne ------------------------------
(***************************************************************************)
(* time_one, the loop every measurement of the program comes from: it runs *)
(* METHOD a number of times between two readings of the timer, with        *)
(* untimed warm-up calls around them.  DeltaBench and OneshotBench call it *)
(* and say, through `job`, with what.                                      *)
(*                                                                         *)
(* The processor is external: a call takes the time of the Calls of its    *)
(* method, more on the first ColdCalls calls, a pair of readings takes     *)
(* Overhead, and at any moment something else (an interrupt, a migration,  *)
(* another hyperthread) may take time.  The clock only moves forward.      *)
(***************************************************************************)
EXTENDS Integers

CONSTANTS
  Method,           \* the functions that can be measured or warm up
  PerLoop,          \* per method, the time of one iteration
  Fixed,            \* per method, the time of a call without iterations
  Overhead,         \* the time from one reading of the timer to the next
  ColdCalls,        \* the calls at the start of a job that run cold
  ColdCost,         \* what a cold call takes in addition
  Disturbances,     \* the lengths of the disturbances considered
  MaxDisturbances   \* their number (a bound for TLC)

ASSUME TimingAssumption ==
  /\ PerLoop \in [Method -> Nat]
  /\ Fixed \in [Method -> Nat]
  /\ Overhead \in Nat /\ ColdCalls \in Nat /\ ColdCost \in Nat
  /\ Disturbances \subseteq Nat \ {0}
  /\ MaxDisturbances \in Nat

VARIABLES
  clock,      \* what TIMER::now() returns when it is called
  job,        \* the template parameters and arguments of the running time_one
  step,       \* what the loop does next; "idle" before a call, "returned" after
  i,          \* the sample, counted from 1
  t0,         \* the first reading of the sample
  result,     \* the deltas recorded so far, by sample
  disturbed,  \* history: the samples something interrupted
  events      \* history: how many disturbances there were

timing == <<clock, job, step, i, t0, result, disturbed, events>>

Job == [samples : Nat \ {0}, method : Method, warm_once : Method,
        warm_every : Method, loop_count : Nat]

Loop == {"warm_once", "warm_every", "t0", "method", "t1"}

(* The state of the loop keeps its types. *)
TimingOK ==
  /\ clock \in Nat
  /\ job \in Job
  /\ step \in Loop \union {"idle", "returned"}
  /\ i \in 1 .. job.samples
  /\ t0 \in Nat
  /\ result \in [1 .. job.samples -> Int]
  /\ disturbed \in SUBSET (1 .. job.samples)
  /\ events \in 0 .. MaxDisturbances

-----------------------------------------------------------------------------
(* How long a call takes. *)

Cost(m, loops) == Fixed[m] + PerLoop[m] * loops

Cold(n) == IF n <= ColdCalls THEN ColdCost ELSE 0

-----------------------------------------------------------------------------

(* A call of time_one with the parameters j. *)
Call(j) ==
  /\ job' = j
  /\ step' = "warm_once"
  /\ i' = 1 /\ t0' = 0
  /\ result' = [n \in 1 .. j.samples |-> 0]
  /\ disturbed' = {}

(* The caller says what job is before its first call. *)
TimingInit ==
  /\ clock = 0
  /\ step = "idle"
  /\ i = 1 /\ t0 = 0
  /\ result = [n \in 1 .. job.samples |-> 0]
  /\ disturbed = {}
  /\ events = 0

WarmOnce ==
  /\ step = "warm_once"
  /\ clock' = clock + Cost(job.warm_once, job.loop_count)
  /\ step' = "warm_every"
  /\ UNCHANGED <<job, i, t0, result, disturbed, events>>

WarmEvery ==
  /\ step = "warm_every"
  /\ clock' = clock + Cost(job.warm_every, job.loop_count)
  /\ step' = "t0"
  /\ UNCHANGED <<job, i, t0, result, disturbed, events>>

(* One first reading for all samples. *)
Mut_ReadT0_Once ==
  /\ step = "t0"
  /\ t0' = IF i = 1 THEN clock ELSE t0
  /\ step' = "method"
  /\ UNCHANGED <<clock, job, i, result, disturbed, events>>

ReadT0 ==
  /\ step = "t0"
  /\ t0' = clock
  /\ step' = "method"
  /\ UNCHANGED <<clock, job, i, result, disturbed, events>>

(* The two readings and METHOD between them. *)
CallMethod ==
  /\ step = "method"
  /\ clock' = clock + Overhead + Cost(job.method, job.loop_count) + Cold(i)
  /\ step' = "t1"
  /\ UNCHANGED <<job, i, t0, result, disturbed, events>>

(* A loop that takes one sample too many. *)
Mut_ReadT1_OneMore ==
  /\ step = "t1"
  /\ result' = [result EXCEPT ![i] = clock - t0]
  /\ IF i <= job.samples
     THEN i' = i + 1 /\ step' = "warm_every"
     ELSE i' = i /\ step' = "returned"
  /\ UNCHANGED <<clock, job, t0, disturbed, events>>

(* The loop ends after the last sample; the caller takes over at "returned". *)
ReadT1 ==
  /\ step = "t1"
  /\ result' = [result EXCEPT ![i] = clock - t0]
  /\ IF i < job.samples
     THEN i' = i + 1 /\ step' = "warm_every"
     ELSE i' = i /\ step' = "returned"
  /\ UNCHANGED <<clock, job, t0, disturbed, events>>

LoopStep == WarmOnce \/ WarmEvery \/ ReadT0 \/ CallMethod \/ ReadT1

(* Something else runs on the processor. *)
Disturb ==
  /\ events < MaxDisturbances
  /\ step \in Loop
  /\ \E d \in Disturbances : clock' = clock + d
  /\ events' = events + 1
  /\ disturbed' = IF step \in {"method", "t1"} THEN disturbed \union {i} ELSE disturbed
  /\ UNCHANGED <<job, step, i, t0, result>>

-----------------------------------------------------------------------------
(* What a sample is. *)

Undisturbed(n) == Overhead + Cost(job.method, job.loop_count) + Cold(n)

Taken == {n \in 1 .. job.samples : (step \in Loop /\ n < i) \/ step = "returned"}

(* A recorded sample is never shorter than METHOD and one pair of readings *)
(* ("no negative deviations", benchmark.hpp:379-381), and longer only when *)
(* something interrupted it between the readings: no warm-up call is ever  *)
(* timed.                                                                  *)
SamplesSound ==
  \A n \in Taken :
    /\ result[n] >= Undisturbed(n)
    /\ n \notin disturbed => result[n] = Undisturbed(n)
=============================================================================
