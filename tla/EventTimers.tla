---------------------------- MODULE EventTimers ----------------------------
(***************************************************************************)
(* A process has one object of each timer, and uses the one that --timer   *)
(* names: it alone is initialised and read.  The perf timer's variables    *)
(* are those of PerfTimer; the libpfc timer's are here with an l, the      *)
(* clock timer's with a c.                                                 *)
(***************************************************************************)
EXTENDS PerfTimer

CONSTANTS
  Name, Code, LCycles, FIXED_COUNTERS, GP_COUNTERS, CLK_UNHALTED, Off,
  LRequests, Resolutions, LMaxCount, Empty   \* the constants of LibpfcTimer

CONSTANTS
  ITERS, TRIES, WARMUP, Period, SlowRuns, CallTime, MHz, NotSet,
  Disturbances, MaxDisturbances              \* the constants of ClockTimer

VARIABLES
  timer_name,  \* Context::getTimerName
  largs, lcodes, lbroken, lpfmIsInit, lpc, ln, lextra_events, lall_events,
  lmetric_names, lcfg, lerrors, lcount, lt0, lt1, lstart, lresults,
  clock_mhz, portable, cpc, nanos, runs, cw, cr, ct0, ct1, csample, ghz, disturbed, events

Libpfc == INSTANCE LibpfcTimer WITH
  Cycles <- LCycles, Requests <- LRequests, MaxCount <- LMaxCount,
  args <- largs, codes <- lcodes, broken <- lbroken, pfmIsInit <- lpfmIsInit,
  pc <- lpc, n <- ln, extra_events <- lextra_events, all_events <- lall_events,
  metric_names <- lmetric_names, cfg <- lcfg, errors <- lerrors, count <- lcount,
  t0 <- lt0, t1 <- lt1, start <- lstart, results <- lresults

Clock == INSTANCE ClockTimer WITH
  Call <- CallTime, pc <- cpc, w <- cw, r <- cr, t0 <- ct0, t1 <- ct1, sample <- csample

ASSUME LibpfcAssumption == Libpfc!ConstantsOK
ASSUME ClockAssumption == Clock!ConstantsOK

perf_vars == vars
libpfc_vars ==
  <<largs, lcodes, lbroken, lpfmIsInit, lpc, ln, lextra_events, lall_events,
    lmetric_names, lcfg, lerrors, lcount, lt0, lt1, lstart, lresults>>
clock_vars ==
  <<clock_mhz, portable, cpc, nanos, runs, cw, cr, ct0, ct1, csample, ghz, disturbed, events>>
all_vars == <<timer_name, perf_vars, libpfc_vars, clock_vars>>

(* What the machine makes of the events of a timer that is never used does *)
(* not matter: one choice stands for all.                                  *)
PerfUnused ==
  /\ pmu = [e \in Event \ {Cycles} |-> "programmed"] /\ paranoid = "all"
  /\ extra_events = CHOOSE r \in Requests : TRUE

LibpfcUnused ==
  /\ lcodes = CHOOSE c \in Resolutions : TRUE
  /\ lbroken = {}
  /\ largs = CHOOSE r \in LRequests : TRUE

TimersInit ==
  /\ timer_name \in {"perf", "libpfc", "clock"}
  /\ Init /\ Libpfc!Init /\ Clock!Init
  /\ timer_name # "perf" => PerfUnused
  /\ timer_name # "libpfc" => LibpfcUnused
  /\ timer_name # "clock" => clock_mhz = NotSet /\ ~portable

TimersNext ==
  \/ timer_name = "perf" /\ Next /\ UNCHANGED <<timer_name, libpfc_vars, clock_vars>>
  \/ timer_name = "libpfc" /\ Libpfc!Next /\ UNCHANGED <<timer_name, perf_vars, clock_vars>>
  \/ timer_name = "clock" /\ Clock!Next /\ UNCHANGED <<timer_name, perf_vars, libpfc_vars>>

TimersSpec == TimersInit /\ [][TimersNext]_all_vars

-----------------------------------------------------------------------------
(* The properties of LibpfcTimer and of ClockTimer, and of all. *)

(* The variables of the timers keep their types (perf-timer.cpp:204-276,  *)
(* libpfc-timer.cpp:49-89, timers.cpp:42-76).                              *)
TimersTypeOK ==
  timer_name \in {"perf", "libpfc", "clock"} /\ TypeOK /\ Libpfc!TypeOK /\ Clock!TypeOK

(* "a delta is used to remove measurement overhead" (timers.cpp:36-38):    *)
(* see ClockTimer!FrequencyRight.                                          *)
FrequencyRight == Clock!FrequencyRight

(* "assign slots consecutively starting after FIXED_COUNTERS slots"        *)
(* (libpfc-timer.cpp:65): see LibpfcTimer!SlotsDisjoint.                   *)
SlotsDisjoint == Libpfc!SlotsDisjoint

(* Either timer keeps the promise of a timer with extra events             *)
(* (perf-timer.cpp:130-146, 204-276, libpfc-timer.cpp:29-89).              *)
ImplementTable == ImplementsTable /\ Libpfc!ImplementsTable
=============================================================================
