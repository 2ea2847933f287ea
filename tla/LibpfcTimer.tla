---------------------------- MODULE LibpfcTimer ----------------------------
(***************************************************************************)
(* The libpfc timer: parseExtraEvents resolves the requested events to     *)
(* codes, init gives each code a programmable counter and programs them,   *)
(* now reads all counters and to_result picks, for each event, the counter *)
(* of its slot.                                                            *)
(*                                                                         *)
(* libpfc and libpfm4 are external: `codes` says to how many codes each    *)
(* event resolves (none when it is unknown or not supported), and counter  *)
(* s counts the event whose code is in its configuration.                  *)
(***************************************************************************)
EXTENDS Integers, Sequences, FiniteSets

CONSTANTS
  Name,             \* the names that can be requested
  Code,             \* what a counter can be made to count, Cycles among them
  Cycles,
  Empty,            \* the empty token of a list
  FIXED_COUNTERS,
  GP_COUNTERS,
  CLK_UNHALTED,     \* PFC_FIXEDCNT_CPU_CLK_UNHALTED, a fixed counter
  Off,              \* a counter that is not programmed
  Requests,         \* the lists of extra events considered
  Resolutions,      \* what libpfm4 may know: per name, a sequence of codes
  MaxCount          \* bound on how often an event happens (for TLC)

TOTAL_COUNTERS == FIXED_COUNTERS + GP_COUNTERS
Slot == 0 .. TOTAL_COUNTERS - 1

(* What the constants must be; EventTimers assumes it. *)
ConstantsOK ==
  /\ Cycles \in Code /\ Off \notin Code
  /\ Empty \notin Name /\ Name \cap Code = {}
  /\ FIXED_COUNTERS \in Nat /\ GP_COUNTERS \in Nat
  /\ CLK_UNHALTED \in 0 .. FIXED_COUNTERS - 1
  /\ Requests \subseteq Seq(Name \union {Empty})
  /\ Resolutions \subseteq [Name -> Seq(Code)]
  /\ MaxCount \in Nat

VARIABLES
  args,          \* args.extra_events, split on commas
  codes,         \* what libpfm4 makes of each name
  broken,        \* the calls of libpfc and libpfm4 that fail
  pfmIsInit,     \* the static of libpfm4-support.cpp
  pc,            \* what the timer does next
  n,             \* the position in args
  extra_events,  \* all_codes, then init's local: the codes to be given counters
  all_events,    \* LibpfcTimer::all_events: code and slot of each
  metric_names,  \* TimerInfo::metric_names_, as codes
  cfg,           \* the configuration written to the counters
  errors,        \* the events a message was printed about
  count,         \* history: how often each event has happened
  t0, t1,        \* two values of now()
  start,         \* history: the counts at t0
  results        \* the last result of to_result

machine == <<args, codes, broken>>
reading == <<t0, t1, start, results>>
vars == <<machine, pfmIsInit, pc, n, extra_events, all_events, metric_names, cfg, errors,
          count, reading>>

Call == {"pfcInit", "pfm_initialize", "pfcWrCfgs"}

TypeOK ==
  /\ args \in Requests /\ codes \in Resolutions /\ broken \in SUBSET Call
  /\ pfmIsInit \in BOOLEAN
  /\ pc \in {"pfcInit", "pfm_initialize", "parse", "program", "ready", "begun", "ended", "failed"}
  /\ n \in 1 .. Len(args) + 1
  /\ extra_events \in Seq(Code)
  /\ all_events \in Seq([code : Code, slot : Slot])
  /\ metric_names \in Seq(Code)
  /\ cfg \in [Slot -> Code \union {Off}]
  /\ errors \in Seq(Name \union Code)
  /\ count \in [Code -> 0 .. MaxCount]
  /\ {t0, t1} \subseteq [Slot -> Int]
  /\ start \in [Code -> 0 .. MaxCount]
  /\ results \in Seq(Int)

-----------------------------------------------------------------------------

Init ==
  /\ args \in Requests /\ codes \in Resolutions /\ broken \in SUBSET Call
  /\ pfmIsInit = FALSE /\ pc = "pfcInit" /\ n = 1
  /\ extra_events = <<>> /\ all_events = <<>> /\ metric_names = <<>>
  /\ cfg = [s \in Slot |-> Off] /\ errors = <<>>
  /\ count = [e \in Code |-> 0] /\ start = count
  /\ t0 = [s \in Slot |-> 0] /\ t1 = t0
  /\ results = <<>>

Continue(call, next) == pc' = IF call \in broken THEN "failed" ELSE next

PfcInit ==
  /\ pc = "pfcInit"
  /\ Continue("pfcInit", "pfm_initialize")
  /\ all_events' = IF "pfcInit" \in broken THEN all_events
                   ELSE <<[code |-> Cycles, slot |-> CLK_UNHALTED]>>
  /\ UNCHANGED <<machine, pfmIsInit, n, extra_events, metric_names, cfg, errors, count, reading>>

(* parseExtraEvents initialises libpfm4, and asks it about every token.    *)
InitPfm ==
  /\ pc = "pfm_initialize"
  /\ Continue("pfm_initialize", "parse")
  /\ pfmIsInit' = ("pfm_initialize" \notin broken)
  /\ UNCHANGED <<machine, n, extra_events, all_events, metric_names, cfg, errors, count, reading>>

Parsing == pc = "parse" /\ n <= Len(args)

PassToken ==
  /\ n' = n + 1
  /\ UNCHANGED <<machine, pfmIsInit, pc, all_events, metric_names, cfg, count, reading>>

(* Nothing is said of an empty token. *)
SkipEmpty ==
  /\ Parsing /\ args[n] = Empty
  /\ PassToken
  /\ UNCHANGED <<extra_events, errors>>

RejectEvent ==
  /\ Parsing /\ args[n] # Empty /\ codes[args[n]] = <<>>
  /\ errors' = Append(errors, args[n])
  /\ PassToken
  /\ UNCHANGED extra_events

ResolveEvent ==
  /\ Parsing /\ args[n] # Empty /\ codes[args[n]] # <<>>
  /\ extra_events' = extra_events \o codes[args[n]]
  /\ PassToken
  /\ UNCHANGED errors

(* A counter of events that is never incremented. *)
Mut_Slotted_Same(ecount) == FIXED_COUNTERS

(* Slots counted from the number of events so far, the cycles included. *)
Mut_Slotted_OffByOne(ecount) == FIXED_COUNTERS + ecount + 1

(* Slots are given out in order after the fixed counters. *)
Slotted(ecount) == FIXED_COUNTERS + ecount

(* The loop over the extra events, and the one that names the metrics. *)
AssignSlots ==
  LET kept == IF Len(extra_events) < GP_COUNTERS THEN Len(extra_events) ELSE GP_COUNTERS
      given == [k \in 1 .. kept |->
                  [code |-> extra_events[k], slot |-> Slotted(k - 1)]]
  IN /\ pc = "parse" /\ n > Len(args)
     /\ all_events' = all_events \o given
     /\ metric_names' = metric_names \o [k \in DOMAIN all_events' |-> all_events'[k].code]
     /\ errors' = errors \o SubSeq(extra_events, kept + 1, Len(extra_events))
     /\ pc' = "program"
     /\ UNCHANGED <<machine, pfmIsInit, n, extra_events, cfg, count, reading>>

(* The event whose code is left in the slot: the last one that has it.     *)
InSlot(s) ==
  CHOOSE k \in DOMAIN all_events :
    /\ all_events[k].slot = s
    /\ \A l \in k + 1 .. Len(all_events) : all_events[l].slot # s

(* cfg and pfcWrCfgs; a counter keeps its configuration until then. *)
ProgramCounters ==
  /\ pc = "program"
  /\ Continue("pfcWrCfgs", "ready")
  /\ cfg' = IF "pfcWrCfgs" \in broken THEN cfg
            ELSE [s \in Slot |->
                    IF \E k \in DOMAIN all_events : all_events[k].slot = s
                    THEN all_events[InSlot(s)].code
                    ELSE Off]
  /\ UNCHANGED <<machine, pfmIsInit, n, extra_events, all_events, metric_names, errors, count,
                 reading>>

(* now: every counter. *)
now == [s \in Slot |-> IF cfg[s] = Off THEN 0 ELSE count[cfg[s]]]

Begin ==
  /\ pc \in {"ready", "ended"}
  /\ t0' = now
  /\ start' = count
  /\ pc' = "begun"
  /\ UNCHANGED <<machine, pfmIsInit, n, extra_events, all_events, metric_names, cfg, errors,
                 count, t1, results>>

delta(x, y) == [s \in Slot |-> x[s] - y[s]]

(* A result read from the first counters. *)
Mut_to_result_InOrder(d) == [k \in DOMAIN all_events |-> d[k - 1]]

to_result(d) == [k \in DOMAIN all_events |-> d[all_events[k].slot]]

End ==
  /\ pc = "begun"
  /\ t1' = now
  /\ results' = to_result(delta(t1', t0))
  /\ pc' = "ended"
  /\ UNCHANGED <<machine, pfmIsInit, n, extra_events, all_events, metric_names, cfg, errors,
                 count, t0, start>>

(* External: an event happens. *)
Happen ==
  /\ \E e \in Code : count[e] < MaxCount /\ count' = [count EXCEPT ![e] = @ + 1]
  /\ pc \in {"ready", "begun", "ended"}
  /\ UNCHANGED <<machine, pfmIsInit, pc, n, extra_events, all_events, metric_names, cfg,
                 errors, reading>>

Next ==
  \/ PfcInit \/ InitPfm \/ SkipEmpty \/ RejectEvent \/ ResolveEvent
  \/ AssignSlots \/ ProgramCounters
  \/ Begin \/ End
  \/ Happen

Spec == Init /\ [][Next]_vars

-----------------------------------------------------------------------------
(* Properties. *)

Assigned == pc \in {"program", "ready", "begun", "ended"}

(* "assign slots consecutively starting after FIXED_COUNTERS slots"        *)
(* (libpfc-timer.cpp:65) and "assert(event.slot < TOTAL_COUNTERS)" (79):   *)
(* every event has a counter of its own, an extra event never one of the   *)
(* fixed ones, every code is either counted or reported, and from init on  *)
(* the counter a column reads is one that was programmed with its code     *)
(* (39-47, 76-89).                                                         *)
SlotsDisjoint ==
  Assigned =>
    /\ \A k, l \in DOMAIN all_events : all_events[k].slot = all_events[l].slot => k = l
    /\ \A k \in DOMAIN all_events :
         /\ all_events[k].slot < TOTAL_COUNTERS
         /\ k > 1 => all_events[k].slot >= FIXED_COUNTERS
    /\ Len(all_events) - 1 + Cardinality({k \in DOMAIN errors : errors[k] \in Code})
         = Len(extra_events)
    /\ pc # "program" =>
         \A k \in DOMAIN all_events :
           all_events[k].code = metric_names[k] /\ cfg[all_events[k].slot] = metric_names[k]

(* The timer keeps the promise of every timer with extra events            *)
(* (libpfc-timer.cpp:29-89): the header of a column names the event that   *)
(* is counted under it.                                                    *)
Table == INSTANCE MetricTable WITH
           Event <- Code, columns <- metric_names, row <- results
ImplementsTable == Table!Spec
=============================================================================
