----------------------------- MODULE PerfTimer -----------------------------
(***************************************************************************)
(* The perf timer: init programs the cycles event and the extra events     *)
(* that a string asks for, now reads the programmed ones, and delta and    *)
(* to_result turn two readings into a row.  Strings are sequences of       *)
(* symbols, as in Matchers.                                                *)
(*                                                                         *)
(* The kernel and libpfm are external: `pmu` says what becomes of each     *)
(* event, and a counter that runs counts its event.                        *)
(***************************************************************************)
EXTENDS Matchers, Integers

CONSTANTS
  Event,             \* the names of events, Cycles among them
  Cycles,            \* the cycles event, which no string names
  UserEvents,        \* the events that resolve_event restricts to user mode
  HeaderWidth,       \* the symbols of a name that make its header
  MAX_EXTRA_EVENTS,
  Garbage,           \* an element of readings that now does not write
  Requests,          \* the strings of extra events considered
  MaxCount           \* bound on how often an event happens (for TLC)

READING_COUNT == MAX_EXTRA_EVENTS + 1

ASSUME PerfAssumption ==
  /\ Cycles \in Event /\ <<>> \notin Event
  /\ UserEvents \subseteq Event \ {Cycles}
  /\ \A r \in Requests : Len(r) \in Nat /\ r = [k \in 1..Len(r) |-> r[k]]
  /\ HeaderWidth \in Nat \ {0}
  /\ MAX_EXTRA_EVENTS \in Nat
  /\ Garbage \notin Int
  /\ MaxCount \in Nat

(* What resolve_event and rdpmc_open_attr do with an event: the index of   *)
(* an opened event is 0 when rdpmc cannot read it.                         *)
Fate == {"programmed", "unresolved", "unopened", "no_index"}

VARIABLES
  pmu,             \* per event of a string, its fate
  paranoid,        \* which cycles event may be opened: "all", "user", "none"
  extra_events,    \* TimerArgs::extra_events
  inslash,         \* parsePerfEvents' local of this name
  current_event,   \* and this one
  args,            \* parsePerfEvents' events, then the vector init loops over
  pc,              \* what the timer does next
  n,               \* the position in extra_events, then in args
  user_only,       \* init's local of this name
  running_events,  \* the static vector: name, header and exclude_kernel of each
  metric_names,    \* TimerInfo::metric_names_
  fds,             \* the number of open perf_event file descriptors
  errors,          \* the events a message was printed about
  count,           \* history: how often each event has happened
  t0, t1,          \* two values of now()
  start,           \* history: the counts at t0
  results          \* the last result of to_result

machine == <<pmu, paranoid, extra_events>>
reading == <<t0, t1, start, results>>
parser == <<inslash, current_event>>
vars == <<machine, parser, args, pc, n, user_only, running_events, metric_names, fds, errors,
          count, reading>>

Reading == 1 .. READING_COUNT
Names(events) == [k \in DOMAIN events |-> events[k].name]
Headers(events) == [k \in DOMAIN events |-> events[k].header]

TypeOK ==
  /\ pmu \in [Event \ {Cycles} -> Fate]
  /\ paranoid \in {"all", "user", "none"}
  /\ extra_events \in Requests
  /\ inslash \in BOOLEAN
  /\ \A k \in DOMAIN args : DOMAIN args[k] = {"name", "header"}
  /\ pc \in {"init", "parse", "extra", "names", "ready", "begun", "ended", "failed"}
  /\ n \in Nat \ {0}
  /\ pc \in {"init", "parse"} => n <= Len(extra_events) + 1
  /\ pc \notin {"init", "parse", "failed"} => n <= Len(args) + 1
  /\ user_only \in BOOLEAN
  /\ \A k \in DOMAIN running_events :
       running_events[k].name \in Event /\ running_events[k].exclude_kernel \in BOOLEAN
  /\ Len(metric_names) <= READING_COUNT
  /\ fds \in Nat
  /\ Len(errors) <= Len(args)
  /\ count \in [Event -> 0 .. MaxCount]
  /\ {t0, t1} \subseteq [Reading -> Nat \union {Garbage}]
  /\ start \in [Event -> 0 .. MaxCount]
  /\ results \in Seq(Int \union {Garbage})

-----------------------------------------------------------------------------
(* Strings of events. *)

(* Every comma separates. *)
Mut_Separates_EveryComma(c) == c = ","

(* A comma between slashes is part of a name. *)
Separates(c) == c = "," /\ ~inslash

make_header(name) ==
  SubSeq(name, 1, IF Len(name) < HeaderWidth THEN Len(name) ELSE HeaderWidth)

(* A token is a name, or a name and its header. *)
WrongLooking(token) == Len(split_on_string(token, "#")) > 2

NamedEvent(token) ==
  LET components == split_on_string(token, "#")
  IN IF Len(components) = 1 THEN [name |-> token, header |-> make_header(token)]
     ELSE [name |-> components[1], header |-> components[2]]

(* What becomes of a name: resolve_event knows the events only. *)
fate(name) == IF name \in DOMAIN pmu THEN pmu[name] ELSE "unresolved"

-----------------------------------------------------------------------------

Init ==
  /\ pmu \in [Event \ {Cycles} -> Fate] /\ paranoid \in {"all", "user", "none"}
  /\ extra_events \in Requests
  /\ inslash = FALSE /\ current_event = <<>> /\ args = <<>>
  /\ pc = "init" /\ n = 1 /\ user_only = FALSE
  /\ running_events = <<>> /\ metric_names = <<>> /\ fds = 0 /\ errors = <<>>
  /\ count = [e \in Event |-> 0] /\ start = count
  /\ t0 = [k \in Reading |-> Garbage] /\ t1 = t0
  /\ results = <<>>

(* The cycles event is tried with the kernel first and without it second. *)
InitCycles ==
  /\ pc = "init"
  /\ IF paranoid = "none"
     THEN pc' = "failed" /\ UNCHANGED <<user_only, running_events, fds>>
     ELSE /\ user_only' = (paranoid = "user")
          /\ running_events' =
               <<[name |-> Cycles, header |-> make_header(Cycles),
                  exclude_kernel |-> paranoid = "user"]>>
          /\ fds' = fds + 1
          /\ pc' = "parse"
  /\ UNCHANGED <<machine, parser, args, n, metric_names, errors, count, reading>>

(* parsePerfEvents, symbol by symbol. *)
Parsing == pc = "parse" /\ n <= Len(extra_events)
ParseOnly ==
  UNCHANGED <<machine, user_only, running_events, metric_names, fds, errors, count, reading>>

ReadSymbol ==
  LET c == extra_events[n]
  IN /\ Parsing /\ ~Separates(c)
     /\ inslash' = IF c = "/" THEN ~inslash ELSE inslash
     /\ current_event' = Append(current_event, c)
     /\ n' = n + 1
     /\ ParseOnly /\ UNCHANGED <<args, pc>>

(* A token with a second # throws. *)
add_event(next) ==
  IF WrongLooking(current_event)
  THEN pc' = "failed" /\ UNCHANGED <<args, current_event>>
  ELSE /\ pc' = next
       /\ args' = Append(args, NamedEvent(current_event))
       /\ current_event' = <<>>

EndToken ==
  /\ Parsing /\ Separates(extra_events[n])
  /\ add_event("parse")
  /\ n' = n + 1
  /\ ParseOnly /\ UNCHANGED inslash

EndString ==
  /\ pc = "parse" /\ n > Len(extra_events)
  /\ add_event("extra")
  /\ n' = 1
  /\ ParseOnly /\ UNCHANGED inslash

Programming == pc = "extra" /\ n <= Len(args)
Full == Len(running_events) = READING_COUNT

Pass ==
  /\ n' = n + 1
  /\ UNCHANGED <<machine, parser, args, pc, user_only, metric_names, count, reading>>

SkipEmpty ==
  /\ Programming /\ args[n].name = <<>>
  /\ Pass
  /\ UNCHANGED <<running_events, fds, errors>>

(* Too many events, or one that cannot be resolved or opened. *)
RejectEvent ==
  /\ Programming /\ args[n].name # <<>>
  /\ Full \/ fate(args[n].name) \in {"unresolved", "unopened"}
  /\ errors' = Append(errors, args[n].name)
  /\ Pass
  /\ UNCHANGED <<running_events, fds>>

(* A descriptor that is left open. *)
Mut_CloseEvent_Leak ==
  /\ Programming /\ args[n].name # <<>> /\ ~Full /\ fate(args[n].name) = "no_index"
  /\ fds' = fds + 1
  /\ errors' = Append(errors, args[n].name)
  /\ Pass
  /\ UNCHANGED running_events

(* An event rdpmc cannot read is closed again. *)
CloseEvent ==
  /\ Programming /\ args[n].name # <<>> /\ ~Full /\ fate(args[n].name) = "no_index"
  /\ fds' = (fds + 1) - 1
  /\ errors' = Append(errors, args[n].name)
  /\ Pass
  /\ UNCHANGED running_events

(* fixup_event excludes the kernel when the cycles event had to, and leaves *)
(* alone what resolve_event has excluded.                                  *)
Running(event, excluded) ==
  [name |-> event.name, header |-> event.header,
   exclude_kernel |-> excluded \/ event.name \in UserEvents]

(* An event that keeps counting the kernel. *)
Mut_AddEvent_NoFixup ==
  /\ Programming /\ args[n].name # <<>> /\ ~Full /\ fate(args[n].name) = "programmed"
  /\ fds' = fds + 1
  /\ running_events' = Append(running_events, Running(args[n], FALSE))
  /\ Pass
  /\ UNCHANGED errors

AddEvent ==
  /\ Programming /\ args[n].name # <<>> /\ ~Full /\ fate(args[n].name) = "programmed"
  /\ fds' = fds + 1
  /\ running_events' = Append(running_events, Running(args[n], user_only))
  /\ Pass
  /\ UNCHANGED errors

(* The metric names, in the order of the programmed events. *)
NameMetrics ==
  /\ pc = "extra" /\ n > Len(args)
  /\ metric_names' = metric_names \o Headers(running_events)
  /\ pc' = "ready"
  /\ UNCHANGED <<machine, parser, args, n, user_only, running_events, fds, errors, count, reading>>

(* now: the elements after the last programmed event stay as they are. *)
now ==
  [k \in Reading |-> IF k <= Len(running_events)
                     THEN count[running_events[k].name] ELSE Garbage]

Begin ==
  /\ pc \in {"ready", "ended"}
  /\ t0' = now
  /\ start' = count
  /\ pc' = "begun"
  /\ UNCHANGED <<machine, parser, args, n, user_only, running_events, metric_names, fds, errors,
                 count, t1, results>>

delta(x, y) ==
  [k \in Reading |-> IF Garbage \in {x[k], y[k]} THEN Garbage ELSE x[k] - y[k]]

(* A result with every reading. *)
Mut_to_result_All(d) == [k \in Reading |-> d[k]]

(* to_result takes as many readings as there are events. *)
to_result(d) == [k \in DOMAIN running_events |-> d[k]]

End ==
  /\ pc = "begun"
  /\ t1' = now
  /\ results' = to_result(delta(t1', t0))
  /\ pc' = "ended"
  /\ UNCHANGED <<machine, parser, args, n, user_only, running_events, metric_names, fds, errors,
                 count, t0, start>>

(* External: an event happens. *)
Happen ==
  /\ \E e \in Event : count[e] < MaxCount /\ count' = [count EXCEPT ![e] = @ + 1]
  /\ pc \in {"ready", "begun", "ended"}
  /\ UNCHANGED <<machine, parser, args, pc, n, user_only, running_events, metric_names, fds, errors, reading>>

Next ==
  \/ InitCycles \/ ReadSymbol \/ EndToken \/ EndString
  \/ SkipEmpty \/ RejectEvent \/ CloseEvent \/ AddEvent \/ NameMetrics
  \/ Begin \/ End
  \/ Happen

Spec == Init /\ [][Next]_vars

-----------------------------------------------------------------------------
(* Properties. *)

Initialised == pc \in {"ready", "begun", "ended"}

(* The k-th of a set of numbers, and the members of a sequence at a set of *)
(* places.                                                                 *)
Nth(S, k) == CHOOSE m \in S : Cardinality({l \in S : l < m}) = k - 1
Members(s, places) == [k \in 1..Cardinality(places) |-> s[Nth(places, k)]]

(* What the string asks for: it is cut at the commas with an even number   *)
(* of slashes before them, a token at its #.                               *)
Cut(text, places) ==
  LET marks == places \union {0, Len(text) + 1}
  IN [k \in 1..Cardinality(marks) - 1 |-> SubSeq(text, Nth(marks, k) + 1, Nth(marks, k + 1) - 1)]
At(text, c) == {k \in DOMAIN text : text[k] = c}
Outside(text) ==
  {k \in At(text, ",") : Cardinality(At(SubSeq(text, 1, k), "/")) % 2 = 0}
AskedTokens == Cut(extra_events, Outside(extra_events))
AskedName(token) == Cut(token, At(token, "#"))[1]
AskedHeader(token) ==
  IF At(token, "#") # {} THEN Cut(token, At(token, "#"))[2]
  ELSE [k \in 1 .. (IF Len(token) < HeaderWidth THEN Len(token) ELSE HeaderWidth) |-> token[k]]

AskedAt ==
  LET tokens == AskedTokens IN {k \in DOMAIN tokens : AskedName(tokens[k]) # <<>>}
UsableAt ==
  LET tokens == AskedTokens
      usable == {name \in DOMAIN pmu : pmu[name] = "programmed"}
  IN {k \in AskedAt : AskedName(tokens[k]) \in usable}
Usable == Members(AskedTokens, UsableAt)
Shown == SubSeq(Usable, 1, IF Len(Usable) < MAX_EXTRA_EVENTS THEN Len(Usable) ELSE MAX_EXTRA_EVENTS)

(* "Basically split events on commas, but commas in-between / characters   *)
(* are ignored for splitting" (perf-timer.hpp:77-78), and the loop of      *)
(* perf-timer.cpp:239-269: the columns are the cycles and the first events *)
(* of the string that can be programmed, in its order and under the        *)
(* headers it gives, as many as there is room for (an event that fails     *)
(* leaves its place to a later one), and the user is told of every other   *)
(* event.  A row compares like with like: when the cycles could only be    *)
(* counted in user mode (221-231) so is every other event of it, and no    *)
(* event but one that asks for it is when the cycles are not.              *)
EventsAccounted ==
  Initialised =>
    LET shown == Shown
    IN /\ \A k \in DOMAIN running_events :
            running_events[k].exclude_kernel =
              (running_events[1].exclude_kernel \/ running_events[k].name \in UserEvents)
       /\ Names(running_events) = <<Cycles>> \o [k \in DOMAIN shown |-> AskedName(shown[k])]
       /\ Tail(metric_names) = [k \in DOMAIN shown |-> AskedHeader(shown[k])]
       /\ Len(errors) + Len(running_events) = Cardinality(AskedAt) + 1

(* Every open descriptor belongs to a programmed event, also after the     *)
(* failures of perf-timer.cpp:255-266.                                     *)
DescriptorsOwned == fds = Len(running_events)

(* printAlignedMetrics asserts that a row has as many values as there are  *)
(* names (benchmark.hpp:122); and no value is one now did not write        *)
(* (perf-timer.cpp:305-315).                                               *)
RowsComplete ==
  pc = "ended" =>
    /\ Len(results) = Len(metric_names)
    /\ \A k \in DOMAIN results : results[k] # Garbage

(* The timer keeps the promise of every timer with extra events            *)
(* (perf-timer.cpp:130-146, 204-276, 305-315): under each column stands    *)
(* what its event counted.  Two columns may have the same header, so the   *)
(* columns of the table are the events and EventsAccounted is about the    *)
(* headers.                                                                *)
Table == INSTANCE MetricTable WITH
  columns <- IF metric_names = <<>> THEN <<>> ELSE Names(running_events), row <- results
ImplementsTable == Table!Spec
=============================================================================
