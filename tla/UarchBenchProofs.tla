-------------------------- MODULE UarchBenchProofs --------------------------
(* Theorems about one run of the uarch-bench process, for every set of     *)
(* benchmarks, timers, groups, patterns and machines.                      *)
EXTENDS UarchBench, SequenceTheorems, WellFoundedInduction, TLAPS

Running == {"groups", "group"}

ArgsOK ==
  /\ machine \in Machines
  /\ args.flags \in FlagSets
  /\ args.pincpu \in CPU \union {None}
  /\ args.test_name \in NamePatterns \union {None}
  /\ args.test_tag \in TagPatterns \union {None}

(* What has been decided on the way to pc. *)
StageOK ==
  /\ pc \in {"parse", "run", "listtimers", "list", "pin", "lookup", "timer", "exited"}
       \union Running
  /\ pc \notin {"parse", "exited"} => args.parse = "ok"
  /\ pc = "listtimers" => "list-timers" \in args.flags
  /\ pc = "list" => "list-timers" \notin args.flags /\ "list" \in args.flags
  /\ pc \in {"pin", "lookup", "timer"} \union Running => args.flags \subseteq {"list-events"}
  /\ pc \in Running => args.flags = {}

Target == IF args.pincpu = None THEN getFirstAvailableCpu ELSE args.pincpu

PinOK ==
  pc \in {"lookup", "timer"} \union Running =>
    args.pincpu \in machine.online \union {None} /\ pinned = Target

(* TimeredList::all_ holds the timers that could be registered. *)
ListOK ==
  /\ all \in 0..Len(Timers)
  /\ \A k \in 1..all : Timers[k] \notin machine.clash

TimerOK ==
  /\ pc \in {"timer"} \union Running =>
       timer_info = getTimerName /\ getTimerName \in Timer /\ all = Len(Timers)
  /\ pc \in Running => timer_info \notin machine.init_fails /\ inited = {timer_info}
  /\ pc \notin Running \union {"exited"} => inited = {} /\ out = <<>>

(* A group with a benchmark in a list is where a pattern that the build    *)
(* cannot match fails the run: the loop never gets past its first one.     *)
Compared(g) == ~g.grid /\ g.benches # <<>>

BadNameOK ==
  /\ gi \in Nat \ {0} /\ bi \in Nat \ {0}
  /\ pc \notin Running \union {"exited"} => gi = 1
  /\ pc = "group" => gi <= Len(groups)
  /\ pc \in Running /\ BadName =>
       \A n \in DOMAIN groups : Compared(groups[n]) =>
         gi <= n /\ (pc = "group" /\ gi = n => bi = 1)

IInv ==
  /\ ArgsOK /\ StageOK /\ PinOK /\ ListOK /\ TimerOK /\ BadNameOK
  /\ MeasuresReady /\ ExitStatusRight


-----------------------------------------------------------------------------
(* The machine and the patterns. *)

LEMMA MachineFacts ==
  ASSUME ArgsOK
  PROVE  /\ machine.regex \in BOOLEAN /\ machine.clash \subseteq Timer
         /\ machine.affinity # {} /\ machine.affinity \subseteq machine.online
         /\ machine.online \subseteq CPU /\ CPU \subseteq Nat /\ None \notin CPU
BY ConstantsAssumption DEF ArgsOK, Machine

LEMMA LeastNat ==
  ASSUME NEW S, S \subseteq Nat, S # {}
  PROVE  \E x \in S : \A y \in S : x <= y
<1>1. PICK x \in S : \A y \in S : ~ (<<y, x>> \in OpToRel(<, Nat))
  BY NatLessThanWellFounded, WFMin
<1>2. \A y \in S : ~ (y < x)
  BY <1>1 DEF OpToRel
<1>3. \A y \in S : x <= y
  BY <1>2
<1> QED BY <1>3

LEMMA AvailableCpuOnline ==
  ASSUME ArgsOK
  PROVE  getFirstAvailableCpu \in machine.online
<1>1. machine.affinity \subseteq Nat /\ machine.affinity # {}
  BY MachineFacts
<1>2. \E cpu \in machine.affinity : \A other \in machine.affinity : cpu <= other
  BY <1>1, LeastNat
<1>3. getFirstAvailableCpu \in machine.affinity
  BY <1>2 DEF getFirstAvailableCpu
<1> QED BY <1>3, MachineFacts

LEMMA BadNameThrows ==
  ASSUME ArgsOK, BadName, NEW b
  PROVE  pred(b) = "throws"
<1> DEFINE pattern == args.test_name
           stars == {p \in DOMAIN pattern : pattern[p] = "*"}
<1>1. pattern \in NamePatterns /\ pattern # None /\ ~machine.regex
  BY DEF ArgsOK, BadName
<1>2. Len(pattern) \in Nat /\ DOMAIN pattern = 1..Len(pattern)
  BY <1>1, ConstantsAssumption
<1>3. PICK p \in 1..Len(pattern) - 1 : pattern[p] = "*"
  BY DEF BadName, NeedsRegex
<1>4. p \in stars /\ p # Len(pattern)
  BY <1>2, <1>3
<1>5. stars # {} /\ stars # {Len(pattern)}
  BY <1>4
<1>6. wildcard_match(machine.regex, Path[b], pattern) = "throws"
  BY <1>1, <1>5 DEF wildcard_match, BasicMatch
<1> QED BY <1>1, <1>6 DEF pred

LEMMA OnlyBadPatternsThrow ==
  ASSUME ArgsOK, NEW b \in Bench, pred(b) = "throws"
  PROVE  BadName \/ BadTag
<1>1. machine.regex \in BOOLEAN
  BY MachineFacts
<1>2. CASE args.test_name # None /\ wildcard_match(machine.regex, Path[b], args.test_name) = "throws"
  <2> DEFINE pattern == args.test_name
             stars == {p \in DOMAIN pattern : pattern[p] = "*"}
  <2>1. Len(pattern) \in Nat /\ DOMAIN pattern = 1..Len(pattern)
    BY <1>2, ConstantsAssumption DEF ArgsOK
  <2>2. ~machine.regex /\ BasicMatch(Path[b], pattern) = "throws"
    BY <1>1, <1>2 DEF wildcard_match, Of
  <2>3. stars # {} /\ stars # {Len(pattern)}
    BY <2>2 DEF BasicMatch, Of
  <2>4. PICK p \in stars : p # Len(pattern)
    BY <2>3
  <2>5. p \in 1..Len(pattern) - 1 /\ pattern[p] = "*"
    BY <2>1, <2>4
  <2> QED BY <1>2, <2>2, <2>5 DEF BadName, NeedsRegex
<1>3. CASE args.test_tag # None /\ TagMatch(machine.regex, args.test_tag, Tags[b]) = "throws"
  <2>1. args.test_tag \in TagPatterns
    BY <1>3 DEF ArgsOK
  <2>2. ~machine.regex /\ NeedsRegex(args.test_tag)
    BY <1>1, <1>3, <2>1, TagAssumption
  <2> QED BY <1>3, <2>2 DEF BadTag
<1>4. CASE TagMatch(machine.regex, <<"default">>, Tags[b]) = "throws"
  <2>1. NeedsRegex(<<"default">>)
    BY <1>1, <1>4, TagAssumption
  <2> QED BY <2>1 DEF NeedsRegex
<1>5. \/ args.test_name # None /\ wildcard_match(machine.regex, Path[b], args.test_name) = "throws"
      \/ args.test_tag # None /\ TagMatch(machine.regex, args.test_tag, Tags[b]) = "throws"
      \/ TagMatch(machine.regex, <<"default">>, Tags[b]) = "throws"
  BY DEF pred
<1> QED BY <1>2, <1>3, <1>4, <1>5

LEMMA GroupFacts ==
  ASSUME timer_info \in Timer
  PROVE  /\ groups \in Seq(Group) /\ DOMAIN groups = 1..Len(groups) /\ Len(groups) \in Nat
         /\ \E n \in DOMAIN groups : Compared(groups[n])
         /\ \A n \in DOMAIN groups :
              /\ groups[n].fake \in Bench /\ groups[n].benches \in Seq(Bench)
              /\ groups[n].grid => Len(groups[n].benches) >= 2
<1>1. groups \in Seq(Group)
  BY ConstantsAssumption DEF groups
<1>2. \A n \in DOMAIN groups : groups[n] \in Group
  BY <1>1
<1> QED BY <1>1, <1>2, ConstantsAssumption DEF groups, Group, Compared

LEMMA AllRegistered ==
  ASSUME ArgsOK, ListOK, all = Len(Timers)
  PROVE  Registered
<1>1. machine.clash \subseteq Timer
  BY MachineFacts
<1>2. \A t \in Timer : \E k \in 1..Len(Timers) : t = Timers[k]
  BY ConstantsAssumption DEF Timer, ToSet
<1> QED BY <1>1, <1>2 DEF ListOK, Registered

-----------------------------------------------------------------------------
(* The steps up to the groups. *)

LEMMA SucceedsCases ==
  /\ args.parse # "ok" => (Succeeds <=> args.parse = "help")
  /\ args.parse = "ok" /\ "list-timers" \in args.flags => (Succeeds <=> Registered)
  /\ args.parse = "ok" /\ "list-timers" \notin args.flags /\ "list" \in args.flags
       => (Succeeds <=> Registered /\ getTimerName \in Timer)
  /\ args.parse = "ok" /\ args.flags \cap {"list-timers", "list"} = {}
       => ("clock-overhead" \in args.flags \/ "internal-dump-timer" \in args.flags => Succeeds)
  /\ args.parse = "ok" /\ args.flags \subseteq {"list-events"}
       => (Succeeds <=> /\ args.pincpu \in machine.online \union {None}
                        /\ Registered
                        /\ getTimerName \in Timer
                        /\ getTimerName \notin FailingTimers)
<1>1. args.parse # "ok" => (Succeeds <=> args.parse = "help")
  BY DEF Succeeds
<1>2. args.parse = "ok" /\ "list-timers" \in args.flags => (Succeeds <=> Registered)
  BY DEF Succeeds
<1>3. args.parse = "ok" /\ "list-timers" \notin args.flags /\ "list" \in args.flags
        => (Succeeds <=> Registered /\ getTimerName \in Timer)
  BY DEF Succeeds
<1>4. ASSUME args.parse = "ok", args.flags \cap {"list-timers", "list"} = {},
             "clock-overhead" \in args.flags \/ "internal-dump-timer" \in args.flags
      PROVE  Succeeds
  <2>1. /\ "list-timers" \notin args.flags /\ "list" \notin args.flags
        /\ args.flags \cap {"clock-overhead", "internal-dump-timer"} # {}
    BY <1>4
  <2> QED BY <1>4, <2>1 DEF Succeeds
<1>5. ASSUME args.parse = "ok", args.flags \subseteq {"list-events"}
      PROVE  Succeeds <=> /\ args.pincpu \in machine.online \union {None}
                          /\ Registered
                          /\ getTimerName \in Timer
                          /\ getTimerName \notin FailingTimers
  <2>1. /\ "list-timers" \notin args.flags /\ "list" \notin args.flags
        /\ args.flags \cap {"clock-overhead", "internal-dump-timer"} = {}
    BY <1>5
  <2> QED BY <1>5, <2>1 DEF Succeeds
<1>6. args.parse = "ok" /\ args.flags \cap {"list-timers", "list"} = {}
        => ("clock-overhead" \in args.flags \/ "internal-dump-timer" \in args.flags => Succeeds)
  BY <1>4, Zenon
<1>7. args.parse = "ok" /\ args.flags \subseteq {"list-events"}
        => (Succeeds <=> /\ args.pincpu \in machine.online \union {None}
                         /\ Registered
                         /\ getTimerName \in Timer
                         /\ getTimerName \notin FailingTimers)
  BY <1>5, Zenon
<1> QED BY <1>1, <1>2, <1>3, <1>6, <1>7, Zenon

(* The verdict on an exit is one on the arguments and the machine. *)
LEMMA SameVerdict ==
  ASSUME UNCHANGED options
  PROVE  /\ Succeeds' = Succeeds /\ Measuring' = Measuring
         /\ BadName' = BadName /\ BadTag' = BadTag
BY DEF options, Succeeds, Measuring, BadName, BadTag, Registered, getTimerName, FailingTimers

(* What is left to show of an exit. *)
LEMMA ExitVerdict ==
  ASSUME UNCHANGED options,
         \/ code' = EXIT_SUCCESS /\ Succeeds /\ ~(Measuring /\ BadName)
         \/ code' = EXIT_FAILURE /\ ~Succeeds
         \/ code' = EXIT_FAILURE /\ Measuring /\ (BadName \/ BadTag)
  PROVE  ExitStatusRight'
<1> /\ Succeeds' = Succeeds /\ Measuring' = Measuring
    /\ BadName' = BadName /\ BadTag' = BadTag
  BY SameVerdict
<1>1. CASE code' = EXIT_SUCCESS /\ Succeeds /\ ~(Measuring /\ BadName)
  BY <1>1 DEF ExitStatusRight, EXIT_SUCCESS
<1>2. CASE code' = EXIT_FAILURE /\ ~Succeeds
  BY <1>2 DEF ExitStatusRight, EXIT_FAILURE
<1>3. CASE code' = EXIT_FAILURE /\ Measuring /\ (BadName \/ BadTag)
  BY <1>3 DEF ExitStatusRight, EXIT_FAILURE
<1> QED BY <1>1, <1>2, <1>3

LEMMA InitIInv == Init => IInv
<1> SUFFICES ASSUME Init PROVE IInv
  OBVIOUS
<1>1. ArgsOK
  BY DEF Init, ArgsOK
<1>2. pc = "parse" /\ all = 0 /\ inited = {} /\ gi = 1 /\ bi = 1 /\ out = <<>>
  BY DEF Init
<1>3. ListOK
  BY <1>2, ConstantsAssumption DEF ListOK
<1> QED BY <1>1, <1>2, <1>3 DEF IInv, StageOK, PinOK, TimerOK, Running, BadNameOK,
          MeasuresReady, ExitStatusRight

LEMMA ParseStep ==
  ASSUME IInv, ParseCLI PROVE IInv'
<1>1. UNCHANGED <<options, all, pinned, timer_info, inited, gi, bi, header, out>> /\ pc = "parse"
  BY DEF ParseCLI
<1>2. inited = {} /\ out = <<>>
  BY <1>1 DEF IInv, TimerOK, Running
<1>3. ArgsOK' /\ ListOK' /\ MeasuresReady'
  BY <1>1, <1>2 DEF IInv, options, ArgsOK, ListOK, MeasuresReady
<1>4. CASE pc' = "exited" /\ code' = EXIT_SUCCESS /\ args.parse = "help"
  <2>1. ExitStatusRight'
    <3>1. Succeeds /\ ~Measuring
      BY <1>4, SucceedsCases DEF Measuring
    <3> QED BY <1>1, <1>4, <3>1, ExitVerdict
  <2> QED BY <1>1, <1>3, <1>4, <2>1 DEF IInv, StageOK, PinOK, TimerOK, BadNameOK, Running
<1>5. CASE pc' = "exited" /\ code' = EXIT_FAILURE /\ args.parse = "error"
  <2>1. ExitStatusRight'
    <3>1. ~Succeeds
      BY <1>5, SucceedsCases
    <3> QED BY <1>1, <1>5, <3>1, ExitVerdict
  <2> QED BY <1>1, <1>3, <1>5, <2>1 DEF IInv, StageOK, PinOK, TimerOK, BadNameOK, Running
<1>6. CASE pc' = "run" /\ args.parse = "ok"
  BY <1>1, <1>2, <1>3, <1>6 DEF IInv, StageOK, PinOK, TimerOK, BadNameOK, Running,
     ExitStatusRight, options
<1> QED BY <1>4, <1>5, <1>6 DEF ParseCLI, Exit

(* A step that only chooses what to do next. *)
LEMMA ChoiceStep ==
  ASSUME IInv, UNCHANGED <<options, all, pinned, timer_info, inited, gi, bi, header, out, code>>,
         \/ pc = "run" /\ pc' = "listtimers" /\ "list-timers" \in args.flags
         \/ /\ pc = "run" /\ pc' = "list"
            /\ "list-timers" \notin args.flags /\ "list" \in args.flags
         \/ pc = "run" /\ pc' = "pin" /\ args.flags \subseteq {"list-events"}
  PROVE  IInv'
<1>1. ArgsOK' /\ ListOK' /\ MeasuresReady'
  BY DEF IInv, options, ArgsOK, ListOK, MeasuresReady, Target, getFirstAvailableCpu, Measuring, getTimerName
<1> QED BY <1>1 DEF IInv, StageOK, PinOK, TimerOK, BadNameOK, Running, ExitStatusRight, options

(* A step that exits before anything is measured. *)
LEMMA ExitStep ==
  ASSUME IInv, pc \notin Running \union {"exited"}, pc' = "exited",
         UNCHANGED <<options, pinned, timer_info, inited, gi, bi>>,
         ListOK', ~Measuring \/ out' = out, ExitStatusRight'
  PROVE  IInv'
<1>1. inited = {} /\ out = <<>>
  BY DEF IInv, TimerOK
<1>2. ArgsOK' /\ MeasuresReady'
  BY <1>1 DEF IInv, options, ArgsOK, MeasuresReady, Measuring
<1> QED BY <1>2 DEF IInv, StageOK, PinOK, TimerOK, BadNameOK, Running, options

LEMMA OverheadStep ==
  ASSUME IInv, RunClockOverhead \/ RunDumpTimer PROVE IInv'
<1>1. /\ pc = "run" /\ pc' = "exited" /\ code' = EXIT_SUCCESS
      /\ args.flags \cap {"list-timers", "list"} = {}
      /\ "clock-overhead" \in args.flags \/ "internal-dump-timer" \in args.flags
      /\ UNCHANGED <<options, all, pinned, timer_info, inited, gi, bi, header>>
  BY DEF RunClockOverhead, RunDumpTimer, Exit
<1>2. args.parse = "ok"
  BY <1>1 DEF IInv, StageOK
<1>3. Succeeds /\ ~Measuring
  BY <1>1, <1>2, SucceedsCases DEF Measuring
<1>4. ListOK' /\ ExitStatusRight'
  BY <1>1, <1>3, ExitVerdict DEF IInv, ListOK, options
<1> QED BY <1>1, <1>3, <1>4, ExitStep DEF Running

LEMMA CreateListStep ==
  ASSUME IInv, CreateList PROVE IInv'
<1>1. /\ pc \in {"listtimers", "list", "lookup"} /\ all < Len(Timers)
      /\ UNCHANGED <<options, pinned, timer_info, inited, gi, bi, header, out>>
  BY DEF CreateList
<1>2. all \in Nat /\ Len(Timers) \in Nat /\ Timers[all + 1] \in Timer
  BY <1>1, ConstantsAssumption DEF IInv, ListOK, Timer, ToSet
<1>3. CASE Timers[all + 1] \in machine.clash
  <2>1. pc' = "exited" /\ code' = EXIT_FAILURE /\ all' = all
    BY <1>3 DEF CreateList, Exit
  <2>2. args.parse = "ok" /\ ~Registered
    BY <1>1, <1>3 DEF IInv, StageOK, Registered
  <2>3. ~Succeeds
    BY <1>1, <2>2, SucceedsCases DEF IInv, StageOK, Running
  <2>4. ListOK' /\ ExitStatusRight'
    BY <1>1, <2>1, <2>3, ExitVerdict DEF IInv, ListOK, options
  <2> QED BY <1>1, <2>1, <2>4, ExitStep DEF Running
<1>4. CASE Timers[all + 1] \notin machine.clash
  <2>1. all' = all + 1 /\ UNCHANGED <<pc, code>>
    BY <1>4 DEF CreateList
  <2>2. ListOK'
    BY <1>1, <1>2, <1>4, <2>1 DEF IInv, ListOK, options
  <2>3. ArgsOK' /\ MeasuresReady' /\ inited = {} /\ out = <<>>
    BY <1>1 DEF IInv, TimerOK, Running, options, ArgsOK, MeasuresReady, Measuring
  <2> QED BY <1>1, <2>1, <2>2, <2>3 DEF IInv, StageOK, PinOK, TimerOK, BadNameOK, Running,
         ExitStatusRight, options, Target, getFirstAvailableCpu
<1> QED BY <1>3, <1>4

LEMMA ListStep ==
  ASSUME IInv, ListTimers \/ ListBenches PROVE IInv'
<1>1. /\ pc \in {"listtimers", "list"} /\ all = Len(Timers) /\ pc' = "exited"
      /\ UNCHANGED <<options, all, pinned, timer_info, inited, gi, bi, header>>
  BY DEF ListTimers, ListBenches, Exit
<1>2. args.parse = "ok" /\ Registered /\ ~Measuring
  BY <1>1, AllRegistered DEF IInv, StageOK, Measuring
<1>3. \/ code' = EXIT_SUCCESS /\ Succeeds
      \/ code' = EXIT_FAILURE /\ ~Succeeds
  <2>1. CASE ListTimers
    BY <1>2, <2>1, SucceedsCases DEF ListTimers, Exit, IInv, StageOK
  <2>2. CASE ListBenches
    BY <1>2, <2>2, SucceedsCases DEF ListBenches, Exit, IInv, StageOK
  <2> QED BY <2>1, <2>2
<1>4. ListOK' /\ ExitStatusRight'
  BY <1>1, <1>2, <1>3, ExitVerdict DEF IInv, ListOK, options
<1> QED BY <1>1, <1>2, <1>4, ExitStep DEF Running

LEMMA PinStep ==
  ASSUME IInv, PinToThread PROVE IInv'
<1>1. /\ pc = "pin" /\ args.parse = "ok" /\ args.flags \subseteq {"list-events"}
      /\ UNCHANGED <<options, all, timer_info, inited, gi, bi, header, out>>
  BY DEF PinToThread, IInv, StageOK
<1>2. ListOK' /\ inited = {} /\ out = <<>>
  BY <1>1 DEF IInv, ListOK, TimerOK, Running, options
<1>3. CASE Target \in machine.online
  <2>1. pinned' = Target /\ pc' = "lookup" /\ code' = code
    BY <1>3 DEF PinToThread, Target
  <2>2. args.pincpu \in machine.online \union {None}
    BY <1>3 DEF Target
  <2>3. ArgsOK' /\ MeasuresReady' /\ Target' = Target
    BY <1>1, <1>2 DEF IInv, options, ArgsOK, MeasuresReady, Target, getFirstAvailableCpu
  <2> QED BY <1>1, <1>2, <2>1, <2>2, <2>3 DEF IInv, StageOK, PinOK, TimerOK, BadNameOK,
         Running, ExitStatusRight, options
<1>4. CASE Target \notin machine.online
  <2>1. pc' = "exited" /\ code' = EXIT_FAILURE /\ pinned' = pinned
    BY <1>4 DEF PinToThread, Target, Exit
  <2>2. args.pincpu \notin machine.online \union {None}
    BY <1>4, AvailableCpuOnline DEF IInv, Target
  <2>3. ~Succeeds
    BY <1>1, <2>2, SucceedsCases
  <2>4. ExitStatusRight'
    BY <1>1, <2>1, <2>3, ExitVerdict
  <2> QED BY <1>1, <1>2, <2>1, <2>4, ExitStep DEF Running
<1> QED BY <1>3, <1>4

LEMMA LookupStep ==
  ASSUME IInv, GetForTimer PROVE IInv'
<1>1. /\ pc = "lookup" /\ all = Len(Timers)
      /\ UNCHANGED <<options, all, pinned, inited, gi, bi, header, out>>
  BY DEF GetForTimer
<1>2. args.parse = "ok" /\ args.flags \subseteq {"list-events"} /\ Registered
  BY <1>1, AllRegistered DEF IInv, StageOK, Running
<1>3. ListOK' /\ inited = {} /\ out = <<>>
  BY <1>1 DEF IInv, ListOK, TimerOK, Running, options
<1>4. CASE getTimerName \in Timer
  <2>1. timer_info' = getTimerName /\ pc' = "timer" /\ code' = code
    BY <1>4 DEF GetForTimer
  <2>2. ArgsOK' /\ MeasuresReady' /\ Target' = Target /\ getTimerName' = getTimerName
    BY <1>1, <1>3 DEF IInv, options, ArgsOK, MeasuresReady, Target, getFirstAvailableCpu,
       getTimerName
  <2> QED BY <1>1, <1>3, <1>4, <2>1, <2>2 DEF IInv, StageOK, PinOK, TimerOK, BadNameOK,
         Running, ExitStatusRight, options
<1>5. CASE getTimerName \notin Timer
  <2>1. pc' = "exited" /\ code' = EXIT_FAILURE /\ timer_info' = timer_info
    BY <1>5 DEF GetForTimer, Exit
  <2>2. ~Succeeds
    BY <1>2, <1>5, SucceedsCases
  <2>3. ExitStatusRight'
    BY <1>1, <2>1, <2>2, ExitVerdict
  <2> QED BY <1>1, <1>3, <2>1, <2>3, ExitStep DEF Running
<1> QED BY <1>4, <1>5

LEMMA TimerStage ==
  ASSUME IInv, pc = "timer"
  PROVE  /\ args.parse = "ok" /\ args.flags \subseteq {"list-events"}
         /\ Succeeds <=> timer_info \notin FailingTimers
         /\ inited = {} /\ out = <<>> /\ pinned = Target
         /\ timer_info = getTimerName /\ timer_info \in Timer /\ ListOK
<1>1. args.parse = "ok" /\ args.flags \subseteq {"list-events"}
  BY DEF IInv, StageOK
<1>2. /\ timer_info = getTimerName /\ getTimerName \in Timer /\ Registered
      /\ inited = {} /\ out = <<>>
  BY AllRegistered DEF IInv, TimerOK, Running
<1>3. args.pincpu \in machine.online \union {None} /\ pinned = Target
  BY DEF IInv, PinOK
<1>4. Succeeds <=> timer_info \notin FailingTimers
  BY <1>1, <1>2, <1>3, SucceedsCases
<1> QED BY <1>1, <1>2, <1>3, <1>4 DEF IInv

LEMMA ListEventsStep ==
  ASSUME IInv, ListEvents PROVE IInv'
<1>1. /\ pc = "timer" /\ "list-events" \in args.flags /\ pc' = "exited"
      /\ UNCHANGED <<options, all, pinned, timer_info, inited, gi, bi, header>>
  BY DEF ListEvents, Exit
<1>2. ~Measuring /\ FailingTimers = machine.list_fails
  BY <1>1 DEF Measuring, FailingTimers
<1>3. \/ code' = EXIT_SUCCESS /\ Succeeds
      \/ code' = EXIT_FAILURE /\ ~Succeeds
  BY <1>1, <1>2, TimerStage DEF ListEvents, Exit
<1>4. ListOK' /\ ExitStatusRight'
  BY <1>1, <1>2, <1>3, ExitVerdict DEF IInv, ListOK, options
<1> QED BY <1>1, <1>2, <1>4, ExitStep DEF Running

LEMMA InitTimerStep ==
  ASSUME IInv, InitTimer PROVE IInv'
<1>1. /\ pc = "timer" /\ "list-events" \notin args.flags
      /\ UNCHANGED <<options, all, pinned, timer_info, gi, bi, header, out>>
  BY DEF InitTimer
<1>2. /\ args.parse = "ok" /\ args.flags = {} /\ inited = {} /\ out = <<>>
      /\ pinned = Target /\ timer_info = getTimerName /\ timer_info \in Timer
      /\ Succeeds <=> timer_info \notin machine.init_fails
  BY <1>1, TimerStage DEF FailingTimers
<1>3. ListOK'
  BY <1>1 DEF IInv, ListOK, options
<1>4. CASE timer_info \in machine.init_fails
  <2>1. pc' = "exited" /\ code' = EXIT_FAILURE /\ inited' = inited
    BY <1>4 DEF InitTimer, Exit
  <2>2. ExitStatusRight'
    BY <1>1, <1>2, <1>4, <2>1, ExitVerdict
  <2> QED BY <1>1, <1>3, <2>1, <2>2, ExitStep DEF Running
<1>5. CASE timer_info \notin machine.init_fails
  <2>1. inited' = {timer_info} /\ pc' = "groups" /\ code' = code
    BY <1>2, <1>5 DEF InitTimer
  <2>2. ArgsOK' /\ Target' = Target /\ getTimerName' = getTimerName
    BY <1>1 DEF IInv, options, ArgsOK, Target, getFirstAvailableCpu, getTimerName
  <2>3. MeasuresReady'
    BY <1>1, <1>2, <2>1, <2>2 DEF MeasuresReady, Target
  <2>4. BadNameOK'
    <3>1. gi = 1
      BY <1>1 DEF IInv, BadNameOK, Running
    <3>2. DOMAIN groups = 1..Len(groups) /\ Len(groups) \in Nat
      BY <1>2, GroupFacts
    <3>3. pc' = "groups" /\ gi' = 1 /\ bi' \in Nat \ {0} /\ DOMAIN groups' = DOMAIN groups
      BY <1>1, <2>1, <3>1 DEF IInv, BadNameOK, groups
    <3> QED BY <3>2, <3>3 DEF BadNameOK, Running
  <2> QED BY <1>1, <1>2, <1>3, <1>5, <2>1, <2>2, <2>3, <2>4 DEF IInv, StageOK, PinOK, TimerOK,
         Running, ExitStatusRight, options
<1> QED BY <1>4, <1>5

-----------------------------------------------------------------------------
(* The loops over the groups and the benchmarks. *)

LEMMA LoopFacts ==
  ASSUME IInv, pc \in Running, UNCHANGED <<options, all, pinned, timer_info, inited>>
  PROVE  /\ Measuring /\ Succeeds /\ timer_info \in Timer
         /\ ArgsOK' /\ ListOK' /\ MeasuresReady'
         /\ Target' = Target /\ getTimerName' = getTimerName
<1>1. args.parse = "ok" /\ args.flags = {}
  BY DEF IInv, StageOK, Running
<1>2. /\ timer_info = getTimerName /\ getTimerName \in Timer /\ Registered
      /\ timer_info \notin machine.init_fails /\ inited = {timer_info}
  BY AllRegistered DEF IInv, TimerOK, Running
<1>3. args.pincpu \in machine.online \union {None} /\ pinned = Target
  BY DEF IInv, PinOK
<1>4. Succeeds
  BY <1>1, <1>2, <1>3, SucceedsCases DEF FailingTimers
<1>5. ArgsOK' /\ ListOK' /\ Target' = Target /\ getTimerName' = getTimerName
  BY DEF IInv, options, ArgsOK, ListOK, Target, getFirstAvailableCpu, getTimerName
<1>6. MeasuresReady'
  BY <1>2, <1>3, <1>5 DEF MeasuresReady, Target
<1> QED BY <1>1, <1>2, <1>4, <1>5, <1>6 DEF Measuring

LEMMA LoopStays ==
  ASSUME IInv, pc \in Running, pc' \in Running, BadNameOK',
         UNCHANGED <<options, all, pinned, timer_info, inited>>
  PROVE  IInv'
<1>1. ArgsOK' /\ ListOK' /\ MeasuresReady' /\ Target' = Target /\ getTimerName' = getTimerName
  BY LoopFacts
<1>2. StageOK' /\ PinOK' /\ TimerOK' /\ ExitStatusRight'
  BY <1>1 DEF IInv, StageOK, PinOK, TimerOK, Running, ExitStatusRight, options
<1> QED BY <1>1, <1>2 DEF IInv

LEMMA LoopExits ==
  ASSUME IInv, pc \in Running, pc' = "exited",
         UNCHANGED <<options, all, pinned, timer_info, inited, gi, bi>>,
         \/ code' = EXIT_SUCCESS /\ ~BadName
         \/ code' = EXIT_FAILURE /\ (BadName \/ BadTag)
  PROVE  IInv'
<1>1. ArgsOK' /\ ListOK' /\ MeasuresReady' /\ Measuring /\ Succeeds
  BY LoopFacts
<1>2. ExitStatusRight'
  BY <1>1, ExitVerdict
<1> QED BY <1>1, <1>2 DEF IInv, StageOK, PinOK, TimerOK, BadNameOK, Running

LEMMA NextGroupStep ==
  ASSUME IInv, NextGroup PROVE IInv'
<1>1. /\ pc = "groups" /\ gi <= Len(groups) /\ pc' = "group" /\ bi' = 1
      /\ UNCHANGED <<options, all, pinned, timer_info, inited, gi, out, code>>
  BY DEF NextGroup
<1>2. BadNameOK'
  BY <1>1, SameVerdict DEF IInv, BadNameOK, Running, groups, Compared
<1> QED BY <1>1, <1>2, LoopStays DEF Running

LEMMA EndRunStep ==
  ASSUME IInv, EndRun PROVE IInv'
<1>1. /\ pc = "groups" /\ gi > Len(groups) /\ pc' = "exited" /\ code' = EXIT_SUCCESS
      /\ UNCHANGED <<options, all, pinned, timer_info, inited, gi, bi, header, out>>
  BY DEF EndRun, Exit
<1>2. timer_info \in Timer
  BY <1>1, LoopFacts DEF Running
<1>3. ~BadName
  <2> SUFFICES ASSUME BadName PROVE FALSE
    OBVIOUS
  <2>1. PICK n \in DOMAIN groups : Compared(groups[n])
    BY <1>2, GroupFacts
  <2>2. gi <= n /\ gi \in Nat
    BY <1>1, <2>1 DEF IInv, BadNameOK, Running
  <2>3. n \in 1..Len(groups) /\ Len(groups) \in Nat
    BY <1>2, <2>1, GroupFacts
  <2> QED BY <1>1, <2>2, <2>3
<1> QED BY <1>1, <1>3, LoopExits DEF Running

LEMMA BenchStep ==
  ASSUME IInv, SkipBench \/ RunBench PROVE IInv'
<1>1. /\ pc = "group" /\ pc' = pc /\ bi' = bi + 1 /\ pred(candidate) \in {"yes", "no"}
      /\ UNCHANGED <<options, all, pinned, timer_info, inited, gi>>
  BY DEF SkipBench, RunBench, Looking, Deciding
<1>2. ~BadName /\ ~BadName'
  BY <1>1, BadNameThrows, SameVerdict DEF IInv
<1>3. BadNameOK'
  BY <1>1, <1>2 DEF IInv, BadNameOK, Running, groups
<1> QED BY <1>1, <1>3, LoopStays DEF Running

LEMMA PredThrowsStep ==
  ASSUME IInv, PredThrows PROVE IInv'
<1>1. /\ pc = "group" /\ pred(candidate) = "throws" /\ Deciding
      /\ pc' = "exited" /\ code' = EXIT_FAILURE
      /\ UNCHANGED <<options, all, pinned, timer_info, inited, gi, bi, header, out>>
  BY DEF PredThrows, Deciding, Exit
<1>2. timer_info \in Timer
  BY <1>1, LoopFacts DEF Running
<1>3. gi \in DOMAIN groups /\ bi \in Nat \ {0}
  BY <1>1, <1>2, GroupFacts DEF IInv, BadNameOK
<1>4. candidate \in Bench
  <2>1. groups[gi].fake \in Bench /\ groups[gi].benches \in Seq(Bench)
    BY <1>2, <1>3, GroupFacts
  <2>2. ~grid => bi \in 1..Len(groups[gi].benches)
    BY <1>1, <1>3, <2>1 DEF Deciding, benches
  <2> QED BY <2>1, <2>2 DEF candidate, grid, benches
<1>5. BadName \/ BadTag
  BY <1>1, <1>4, OnlyBadPatternsThrow DEF IInv
<1> QED BY <1>1, <1>5, LoopExits DEF Running

(* To leave a group is to leave one in which nothing was compared, or one  *)
(* of a run without a bad name.                                            *)
LEMMA LeaveGroupStep ==
  ASSUME IInv, FinishGroup \/ RunGrid \/ SkipGrid PROVE IInv'
<1>1. /\ pc = "group" /\ pc' = "groups" /\ gi' = gi + 1
      /\ grid \/ bi > Len(benches)
      /\ UNCHANGED <<options, all, pinned, timer_info, inited, bi>>
  BY DEF FinishGroup, RunGrid, SkipGrid, Deciding
<1>2. timer_info \in Timer /\ groups' = groups /\ BadName' = BadName
  BY <1>1, LoopFacts, SameVerdict DEF Running, groups
<1>3. gi \in DOMAIN groups /\ gi \in Nat \ {0} /\ bi \in Nat \ {0}
  BY <1>1, <1>2, GroupFacts DEF IInv, BadNameOK
<1>4. ASSUME BadName, NEW n \in DOMAIN groups, Compared(groups[n])
      PROVE  gi + 1 <= n
  <2>1. gi <= n /\ (gi = n => bi = 1) /\ n \in Nat
    BY <1>1, <1>2, <1>4, GroupFacts DEF IInv, BadNameOK, Running
  <2>2. gi # n
    <3> SUFFICES ASSUME gi = n PROVE FALSE
      OBVIOUS
    <3>1. ~grid /\ benches # <<>> /\ benches \in Seq(Bench)
      BY <1>2, <1>3, <1>4, GroupFacts DEF Compared, grid, benches
    <3>2. Len(benches) \in Nat /\ Len(benches) > 0
      BY <3>1
    <3> QED BY <1>1, <2>1, <3>1, <3>2
  <2> QED BY <1>3, <2>1, <2>2
<1>5. BadNameOK'
  BY <1>1, <1>2, <1>3, <1>4 DEF BadNameOK, Running
<1> QED BY <1>1, <1>5, LoopStays DEF Running

-----------------------------------------------------------------------------

LEMMA NextIInv ==
  ASSUME IInv, [Next]_vars PROVE IInv'
<1>1. CASE ParseCLI
  BY <1>1, ParseStep
<1>2. CASE RunListTimers \/ RunListBenches \/ RunBenches
  BY <1>2, ChoiceStep DEF RunListTimers, RunListBenches, RunBenches
<1>3. CASE RunClockOverhead \/ RunDumpTimer
  BY <1>3, OverheadStep
<1>4. CASE CreateList
  BY <1>4, CreateListStep
<1>5. CASE ListTimers \/ ListBenches
  BY <1>5, ListStep
<1>6. CASE PinToThread
  BY <1>6, PinStep
<1>7. CASE GetForTimer
  BY <1>7, LookupStep
<1>8. CASE ListEvents \/ InitTimer
  BY <1>8, ListEventsStep, InitTimerStep
<1>9. CASE NextGroup \/ EndRun
  BY <1>9, NextGroupStep, EndRunStep
<1>10. CASE SkipBench \/ RunBench \/ PredThrows
  BY <1>10, BenchStep, PredThrowsStep
<1>11. CASE FinishGroup \/ RunGrid \/ SkipGrid
  BY <1>11, LeaveGroupStep
<1>12. CASE UNCHANGED vars
  BY <1>12, SameVerdict DEF vars, options, IInv, ArgsOK, StageOK, PinOK, ListOK, TimerOK,
     BadNameOK, Target, getFirstAvailableCpu, getTimerName, groups, Measuring, MeasuresReady,
     ExitStatusRight
<1> QED BY <1>1, <1>2, <1>3, <1>4, <1>5, <1>6, <1>7, <1>8, <1>9, <1>10, <1>11, <1>12 DEF Next

(* The invariant the two theorems follow from: what main, Context::run and *)
(* the loops of context.cpp:88-102 and benchmark-group.cpp:15-31 have      *)
(* decided at every point, and that a pattern the build cannot match never *)
(* gets past the first group it is compared in.                            *)
THEOREM IInvInvariant == Spec => []IInv
<1>1. Init => IInv
  BY InitIInv
<1>2. IInv /\ [Next]_vars => IInv'
  BY NextIInv
<1> QED BY <1>1, <1>2, PTL DEF Spec

(* Whatever the command line and the machine, the status main.cpp:46-62    *)
(* returns is a failure exactly when the run did not do what it was asked, *)
(* or has a pattern the build cannot match.                                *)
THEOREM ExitStatusAlwaysRight == Spec => []ExitStatusRight
<1>1. IInv => ExitStatusRight
  BY DEF IInv
<1> QED BY <1>1, IInvInvariant, PTL

(* Whatever the options, a timer is initialised on the processor asked for *)
(* (context.cpp:213), and no benchmark is measured before its timer is     *)
(* known and ready.                                                        *)
THEOREM AlwaysMeasuresReady == Spec => []MeasuresReady
<1>1. IInv => MeasuresReady
  BY DEF IInv
<1> QED BY <1>1, IInvInvariant, PTL


-----------------------------------------------------------------------------
(* FlattenSeq, without its recursion: the sums of a sequence of sequences  *)
(* are what it has put together after each of them.                        *)

Sums(f, X, s) ==
  /\ f \in [0..Len(s) -> Seq(X)] /\ f[0] = <<>>
  /\ \A i \in 1..Len(s) : f[i] = f[i - 1] \o s[i]

LEMMA SumsFacts ==
  ASSUME NEW X, NEW s \in Seq(Seq(X)), NEW f, Sums(f, X, s), NEW N, N = Len(s)
  PROVE  /\ N \in Nat /\ f[0] = <<>>
         /\ \A i \in 0..N : f[i] \in Seq(X)
         /\ \A i \in 1..N : f[i] = f[i - 1] \o s[i]
         /\ \A i \in 1..N : s[i] \in Seq(X)
<1>1. N \in Nat /\ s \in [1..N -> Seq(X)]
  BY LenProperties
<1>2. /\ f \in [0..N -> Seq(X)] /\ f[0] = <<>>
      /\ \A i \in 1..N : f[i] = f[i - 1] \o s[i]
  BY DEF Sums
<1>3. \A i \in 0..N : f[i] \in Seq(X)
  BY <1>2
<1>4. \A i \in 1..N : s[i] \in Seq(X)
  BY <1>1
<1> QED BY <1>1, <1>2, <1>3, <1>4

LEMMA SumsExist ==
  ASSUME NEW X, NEW s \in Seq(Seq(X))
  PROVE  \E f : Sums(f, X, s)
<1> DEFINE N == Len(s)
           Partial(n, f) == /\ f \in [0..n -> Seq(X)] /\ f[0] = <<>>
                            /\ \A i \in 1..n : f[i] = f[i - 1] \o s[i]
           Bad == {n \in 0..N : ~\E f : Partial(n, f)}
<1>1. N \in Nat /\ \A i \in 1..N : s[i] \in Seq(X)
  OBVIOUS
<1>2. Bad = {}
  <2> SUFFICES ASSUME Bad # {} PROVE FALSE
    OBVIOUS
  <2>1. Bad \subseteq Nat
    <3> HIDE DEF Partial, N
    <3> QED BY <1>1
  <2>2. PICK n \in Bad : \A m \in Bad : n <= m
    BY <2>1, LeastNat
  <2>3. n # 0
    <3>1. Partial(0, [i \in 0..0 |-> <<>>])
      OBVIOUS
    <3> HIDE DEF Partial
    <3> QED BY <2>2, <3>1
  <2>4. n \in 1..N /\ n - 1 \in 0..N /\ n - 1 \notin Bad
    <3>1. n \in 1..N /\ n - 1 \in 0..N /\ ~(n <= n - 1)
      BY <1>1, <2>2, <2>3
    <3> HIDE DEF Bad
    <3> QED BY <2>2, <3>1
  <2>5. PICK f : Partial(n - 1, f)
    <3> HIDE DEF Partial
    <3> QED BY <2>4
  <2> DEFINE g == [i \in 0..n |-> IF i = n THEN f[n - 1] \o s[n] ELSE f[i]]
  <2>6. n - 1 \in 0..n - 1 /\ f[n - 1] \in Seq(X) /\ s[n] \in Seq(X)
    BY <1>1, <2>4, <2>5
  <2>7. f[n - 1] \o s[n] \in Seq(X)
    BY <2>6, ConcatProperties
  <2>8. \A i \in 0..n : i # n => i \in 0..n - 1
    BY <2>4
  <2>9. g \in [0..n -> Seq(X)]
    BY <2>5, <2>7, <2>8
  <2>10. g[0] = <<>> /\ g[n] = f[n - 1] \o s[n] /\ \A i \in 0..n - 1 : g[i] = f[i]
    <3>1. n \in Nat /\ n > 0 /\ 0 \in 0..n /\ n \in 0..n /\ f[0] = <<>>
      BY <2>4, <2>5
    <3>2. \A i \in 0..n - 1 : i \in 0..n /\ i # n
      BY <3>1
    <3> HIDE DEF Partial, N, Bad
    <3>3. g[0] = <<>>
      <4>1. 0 # n /\ 0 \in 0..n
        BY <3>1
      <4> QED BY <3>1, <4>1
    <3>4. g[n] = f[n - 1] \o s[n]
      BY <3>1
    <3>5. \A i \in 0..n - 1 : g[i] = f[i]
      BY <3>2
    <3> QED BY <3>3, <3>4, <3>5
  <2> HIDE DEF g
  <2>11. \A i \in 1..n : g[i] = g[i - 1] \o s[i]
    <3> SUFFICES ASSUME NEW i \in 1..n PROVE g[i] = g[i - 1] \o s[i]
      OBVIOUS
    <3>1. CASE i = n
      BY <2>6, <2>10, <3>1
    <3>2. CASE i # n
      <4>1. i \in 1..n - 1 /\ i \in 0..n - 1 /\ i - 1 \in 0..n - 1
        BY <2>4, <3>2
      <4> QED BY <2>5, <2>10, <4>1
    <3> QED BY <3>1, <3>2
  <2>12. Partial(n, g)
    BY <2>9, <2>10, <2>11
  <2> HIDE DEF Partial
  <2> QED BY <2>2, <2>12
<1>3. \E f : Partial(N, f)
  <2> HIDE DEF Partial
  <2> QED BY <1>1, <1>2
<1> QED BY <1>3 DEF Sums

LEMMA FlattenIsSum ==
  ASSUME NEW X, NEW s \in Seq(Seq(X)), NEW f, Sums(f, X, s)
  PROVE  FlattenSeq(s) = f[Len(s)] /\ FlattenSeq(s) \in Seq(X)
<1> DEFINE N == Len(s)
           Solves(h) == h = [i \in 1..Len(s) |-> IF i = 1 THEN s[i] ELSE h[i - 1] \o s[i]]
           W == [i \in 1..N |-> f[i]]
           flatten == CHOOSE h : Solves(h)
<1>1. /\ N \in Nat /\ f[0] = <<>> /\ f[N] \in Seq(X)
      /\ \A i \in 1..N : f[i] = f[i - 1] \o s[i]
      /\ \A i \in 1..N : s[i] \in Seq(X)
  <2> HIDE DEF N
  <2>1. /\ N \in Nat /\ f[0] = <<>>
        /\ \A i \in 0..N : f[i] \in Seq(X)
        /\ \A i \in 1..N : f[i] = f[i - 1] \o s[i]
        /\ \A i \in 1..N : s[i] \in Seq(X)
    BY SumsFacts DEF N
  <2>2. N \in 0..N
    BY <2>1
  <2> QED BY <2>1, <2>2
<1>2. CASE N = 0
  <2>1. s = <<>> /\ FlattenSeq(s) = s
    BY <1>2 DEF FlattenSeq
  <2> QED BY <1>1, <1>2, <2>1
<1>3. CASE N # 0
  <2>1. FlattenSeq(s) = flatten[N]
    BY <1>3 DEF FlattenSeq
  <2>2. Solves(W)
    <3>1. \A i \in 1..N : W[i] = IF i = 1 THEN s[i] ELSE W[i - 1] \o s[i]
      <4> SUFFICES ASSUME NEW i \in 1..N PROVE W[i] = IF i = 1 THEN s[i] ELSE W[i - 1] \o s[i]
        OBVIOUS
      <4>1. CASE i = 1
        <5>1. f[1] = <<>> \o s[1] /\ s[1] \in Seq(X)
          <6>1. 1 \in 1..N /\ 1 - 1 = 0
            BY <4>1
          <6> HIDE DEF N
          <6> QED BY <1>1, <6>1
        <5>2. f[1] = s[1]
          BY <5>1, ConcatEmptySeq
        <5> QED BY <4>1, <5>2
      <4>2. CASE i # 1
        <5>1. i - 1 \in 1..N /\ f[i] = f[i - 1] \o s[i]
          <6> HIDE DEF N, W
          <6>1. N \in Nat /\ i \in 1..N
            BY <1>1
          <6>2. i - 1 \in 1..N
            BY <4>2, <6>1
          <6>3. f[i] = f[i - 1] \o s[i]
            BY <1>1, <6>1, Zenon
          <6> QED BY <6>2, <6>3
        <5>2. W[i] = f[i] /\ W[i - 1] = f[i - 1]
          BY <5>1
        <5> QED BY <4>2, <5>1, <5>2
      <4> QED BY <4>1, <4>2
    <3>2. W = [i \in 1..N |-> W[i]]
      OBVIOUS
    <3> HIDE DEF W
    <3> QED BY <3>1, <3>2
  <2>3. Solves(flatten)
    <3> HIDE DEF Solves, W
    <3> QED BY <2>2
  <2> HIDE DEF flatten
  <2>4. \A i \in 1..N : flatten[i] = IF i = 1 THEN s[i] ELSE flatten[i - 1] \o s[i]
    <3>1. \A h : Solves(h) => \A i \in 1..N : h[i] = IF i = 1 THEN s[i] ELSE h[i - 1] \o s[i]
      OBVIOUS
    <3> HIDE DEF Solves
    <3> QED BY <2>3, <3>1
  <2>5. \A i \in 1..N : W[i] = IF i = 1 THEN s[i] ELSE W[i - 1] \o s[i]
    <3>1. \A h : Solves(h) => \A i \in 1..N : h[i] = IF i = 1 THEN s[i] ELSE h[i - 1] \o s[i]
      OBVIOUS
    <3> HIDE DEF Solves, W
    <3> QED BY <2>2, <3>1
  <2> DEFINE Wrong == {i \in 1..N : flatten[i] # W[i]}
  <2>6. Wrong = {}
    <3> SUFFICES ASSUME Wrong # {} PROVE FALSE
      OBVIOUS
    <3>0. Wrong \subseteq Nat
      <4> HIDE DEF N, W
      <4> QED BY <1>1
    <3>1. PICK n \in Wrong : \A m \in Wrong : n <= m
      BY <3>0, LeastNat
    <3> HIDE DEF W
    <3>2. n # 1
      BY <2>4, <2>5, <3>1
    <3>3. n \in 1..N /\ n - 1 \in 1..N /\ n - 1 \notin Wrong
      BY <1>1, <3>1, <3>2
    <3>4. flatten[n - 1] = W[n - 1]
      BY <3>3
    <3>5. flatten[n] = flatten[n - 1] \o s[n] /\ W[n] = W[n - 1] \o s[n] /\ flatten[n] # W[n]
      BY <2>4, <2>5, <3>1, <3>2, <3>3
    <3> QED BY <3>4, <3>5
  <2>7. N \in 1..N /\ flatten[N] = W[N]
    <3>1. N \in 1..N
      BY <1>1, <1>3
    <3> HIDE DEF W
    <3> QED BY <2>6, <3>1
  <2> QED BY <1>1, <2>1, <2>7
<1> QED BY <1>2, <1>3

(* What has been put together is a part of what will be. *)
Extends(f, X, s, i) == \E rest \in Seq(X) : f[Len(s)] = f[i] \o rest

LEMMA SumExtends ==
  ASSUME NEW X, NEW s \in Seq(Seq(X)), NEW f, Sums(f, X, s), NEW i \in 0..Len(s)
  PROVE  Extends(f, X, s, i)
<1> DEFINE N == Len(s)
           Bad == {d \in 0..N : ~\E rest \in Seq(X) : f[N] = f[N - d] \o rest}
<1> HIDE DEF N
<1>1. /\ N \in Nat /\ f[0] = <<>>
      /\ \A k \in 0..N : f[k] \in Seq(X)
      /\ \A k \in 1..N : f[k] = f[k - 1] \o s[k]
      /\ \A k \in 1..N : s[k] \in Seq(X)
  BY SumsFacts DEF N
<1>2. Bad = {}
  <2> SUFFICES ASSUME Bad # {} PROVE FALSE
    OBVIOUS
  <2>0. Bad \subseteq Nat
    BY <1>1
  <2>1. PICK d \in Bad : \A m \in Bad : d <= m
    BY <2>0, LeastNat
  <2>2. d # 0
    <3>1. f[N] \in Seq(X) /\ <<>> \in Seq(X) /\ N - 0 = N
      BY <1>1
    <3>2. f[N] = f[N - 0] \o <<>>
      BY <3>1, ConcatEmptySeq
    <3> QED BY <2>1, <3>1, <3>2
  <2>3. d \in 1..N /\ d - 1 \in 0..N /\ d - 1 \notin Bad
    <3>1. d \in 1..N /\ d - 1 \in 0..N /\ ~(d <= d - 1)
      BY <1>1, <2>1, <2>2
    <3> HIDE DEF Bad
    <3> QED BY <2>1, <3>1
  <2>4. PICK rest \in Seq(X) : f[N] = f[N - (d - 1)] \o rest
    BY <2>3
  <2> DEFINE k == N - (d - 1)
  <2>5. k \in 1..N /\ k - 1 = N - d /\ k - 1 \in 0..N
    BY <1>1, <2>3
  <2> HIDE DEF k
  <2>6. f[N] = (f[k - 1] \o s[k]) \o rest /\ f[k - 1] \in Seq(X) /\ s[k] \in Seq(X)
    BY <1>1, <2>4, <2>5 DEF k
  <2>7. f[N] = f[k - 1] \o (s[k] \o rest) /\ s[k] \o rest \in Seq(X)
    <3> DEFINE a == f[k - 1]
               b == s[k]
    <3>1. a \in Seq(X) /\ b \in Seq(X) /\ f[N] = (a \o b) \o rest
      BY <2>6
    <3> HIDE DEF a, b
    <3>2. (a \o b) \o rest = a \o (b \o rest)
      BY <3>1, ConcatAssociative
    <3>3. b \o rest \in Seq(X)
      BY <3>1, ConcatProperties
    <3> QED BY <3>1, <3>2, <3>3 DEF a, b
  <2>8. \E r \in Seq(X) : f[N] = f[N - d] \o r
    BY <2>5, <2>7
  <2> QED BY <2>1, <2>8
<1>3. i \in 0..N /\ N - i \in 0..N /\ N - (N - i) = i
  BY <1>1 DEF N
<1>4. \E rest \in Seq(X) : f[N] = f[N - (N - i)] \o rest
  BY <1>2, <1>3
<1> QED BY <1>3, <1>4 DEF N, Extends

LEMMA PrefixOfConcat ==
  ASSUME NEW X, NEW s \in Seq(X), NEW t \in Seq(X)
  PROVE  IsPrefix(s, s \o t)
<1>1. /\ Len(s) \in Nat /\ Len(t) \in Nat /\ Len(s \o t) = Len(s) + Len(t)
      /\ s \o t \in Seq(X)
  BY ConcatProperties, LenProperties
<1>2. SubSeq(s, 1, Len(s)) = s
  BY SubSeqFull
<1>3. SubSeq(s \o t, 1, Len(s)) = s
  BY SubSeqOfConcat1, SubSeqFull, <1>1, <1>2
<1> QED BY <1>1, <1>2, <1>3 DEF IsPrefix

-----------------------------------------------------------------------------
(* The report. *)

LEMMA ConcatLines ==
  \A a, b, c \in Seq(Line) : (a \o b) \o c = a \o (b \o c)
<1> SUFFICES ASSUME NEW a \in Seq(Line), NEW b \in Seq(Line), NEW c \in Seq(Line)
             PROVE  (a \o b) \o c = a \o (b \o c)
  OBVIOUS
<1> QED BY ConcatAssociative

LEMMA PredDecides ==
  ASSUME MatchersRight, ArgsOK, NEW b \in Bench
  PROVE  /\ pred(b) = "yes" => Wanted(b)
         /\ pred(b) = "no" => ~Wanted(b)
<1> DEFINE by_name == IF args.test_name = None THEN "yes"
                      ELSE wildcard_match(machine.regex, Path[b], args.test_name)
           by_tag == IF args.test_tag # None
                     THEN TagMatch(machine.regex, args.test_tag, Tags[b])
                     ELSE IF args.test_name # None THEN "yes"
                     ELSE TagMatch(machine.regex, <<"default">>, Tags[b])
           name_wanted == args.test_name # None => Glob(Path[b], args.test_name)
           tag_wanted == IF args.test_name = None /\ args.test_tag = None
                         THEN \E n \in DOMAIN Tags[b] : Tags[b][n] = <<"default">>
                         ELSE args.test_tag # None => TagsWanted(args.test_tag, Tags[b])
<1>1. machine.regex \in BOOLEAN
  BY MachineFacts
<1>2. pred(b) = (IF by_name = "yes" THEN by_tag ELSE by_name)
  BY DEF pred
<1>3. Wanted(b) <=> name_wanted /\ tag_wanted
  BY DEF Wanted
<1>4. (by_name = "yes" => name_wanted) /\ (by_name = "no" => ~name_wanted)
  <2>1. CASE args.test_name = None
    BY <2>1
  <2>2. CASE args.test_name # None
    <3>1. args.test_name \in NamePatterns
      BY <2>2 DEF ArgsOK
    <3>2. by_name \in {Of(Glob(Path[b], args.test_name)), "throws"}
      BY <1>1, <2>2, <3>1 DEF MatchersRight
    <3> QED BY <2>2, <3>2 DEF Of
  <2> QED BY <2>1, <2>2
<1>5. (by_tag = "yes" => tag_wanted) /\ (by_tag = "no" => ~tag_wanted)
  <2>1. CASE args.test_tag # None
    <3>1. args.test_tag \in TagPatterns
      BY <2>1 DEF ArgsOK
    <3>2. by_tag \in {Of(TagsWanted(args.test_tag, Tags[b])), "throws"}
      BY <1>1, <2>1, <3>1 DEF MatchersRight
    <3> QED BY <2>1, <3>2 DEF Of
  <2>2. CASE args.test_tag = None /\ args.test_name # None
    BY <2>2
  <2>3. CASE args.test_tag = None /\ args.test_name = None
    <3>1. by_tag \in {Of(\E n \in DOMAIN Tags[b] : Tags[b][n] = <<"default">>), "throws"}
      BY <1>1, <2>3 DEF MatchersRight
    <3> QED BY <2>3, <3>1 DEF Of
  <2> QED BY <2>1, <2>2, <2>3
<1> HIDE DEF by_name, by_tag, name_wanted, tag_wanted
<1>6. pred(b) = "yes" => by_name = "yes" /\ by_tag = "yes"
  BY <1>2
<1>7. pred(b) = "no" => by_name = "no" \/ by_tag = "no"
  BY <1>2
<1> QED BY <1>3, <1>4, <1>5, <1>6, <1>7

LEMMA GroupTypes ==
  ASSUME NEW g \in Group
  PROVE  /\ WantedRows(g) \in Seq(Seq(Line)) /\ Len(WantedRows(g)) = Len(g.benches)
         /\ GridRows(g) \in Seq(Line) /\ FlattenSeq(WantedRows(g)) \in Seq(Line)
         /\ \A kind \in {"group", "grid", "finished"} :
              <<[kind |-> kind, what |-> g.id]>> \in Seq(Line)
         /\ GroupReport(g) \in Seq(Line)
<1>1. g.benches \in Seq(Bench) /\ g.id \in STRING
  BY DEF Group
<1>2. DOMAIN g.benches = 1..Len(g.benches) /\ Len(g.benches) \in Nat
      /\ \A n \in 1..Len(g.benches) : g.benches[n] \in Bench
  BY <1>1
<1>3. \A b \in Bench : Row(b) \in Line /\ [kind |-> "result", what |-> b] \in Line
  BY DEF Row, Line
<1>4. \A b \in Bench : <<Row(b)>> \in Seq(Line)
  <2>1. \A x \in Line : <<x>> \in Seq(Line)
    OBVIOUS
  <2> QED BY <1>3, <2>1
<1> DEFINE w == WantedRows(g)
<1>5. w \in [1..Len(g.benches) -> Seq(Line)]
  BY <1>2, <1>4 DEF WantedRows
<1>6. w \in Seq(Seq(Line)) /\ Len(w) = Len(g.benches)
  <2> HIDE DEF w
  <2> QED BY <1>2, <1>5
<1>7. GridRows(g) \in Seq(Line)
  <2>1. GridRows(g) \in [1..Len(g.benches) -> Line]
    BY <1>2, <1>3 DEF GridRows
  <2> DEFINE r == GridRows(g)
  <2> HIDE DEF r
  <2>2. r \in [1..Len(g.benches) -> Line]
    BY <2>1 DEF r
  <2>3. r \in Seq(Line)
    BY <1>2, <2>2
  <2> QED BY <2>3 DEF r
<1>8. FlattenSeq(w) \in Seq(Line)
  <2> HIDE DEF w
  <2> QED BY <1>6, SumsExist, FlattenIsSum
<1>9. \A kind \in {"group", "grid", "finished"} : <<[kind |-> kind, what |-> g.id]>> \in Seq(Line)
  <2>1. \A kind \in {"group", "grid", "finished"} : [kind |-> kind, what |-> g.id] \in Line
    BY <1>1 DEF Line
  <2> QED BY <2>1
<1>10. GroupReport(g) \in Seq(Line)
  <2> DEFINE a == <<[kind |-> "group", what |-> g.id]>>
             z == <<[kind |-> "finished", what |-> g.id]>>
             h == <<[kind |-> "grid", what |-> g.id]>>
             rows == FlattenSeq(w)
  <2>1. a \in Seq(Line) /\ z \in Seq(Line) /\ h \in Seq(Line) /\ rows \in Seq(Line)
    BY <1>8, <1>9
  <2>2. GroupReport(g) \in {h \o GridRows(g), <<>>, a \o rows \o z}
    BY DEF GroupReport
  <2> HIDE DEF a, z, h, rows
  <2>3. h \o GridRows(g) \in Seq(Line) /\ a \o rows \in Seq(Line)
    BY <1>7, <2>1, ConcatProperties
  <2>4. a \o rows \o z \in Seq(Line)
    BY <2>1, <2>3, ConcatProperties
  <2>5. <<>> \in Seq(Line)
    OBVIOUS
  <2> QED BY <2>2, <2>3, <2>4, <2>5
<1> QED BY <1>6, <1>7, <1>8, <1>9, <1>10

LEMMA ReportTypes ==
  ASSUME NEW t \in Timer
  PROVE  /\ GroupReports(t) \in Seq(Seq(Line)) /\ Len(GroupReports(t)) = Len(Groups[t])
         /\ Report(t) \in Seq(Line)
         /\ \A n \in 1..Len(Groups[t]) : GroupReports(t)[n] = GroupReport(Groups[t][n])
<1>1. Groups[t] \in Seq(Group)
  BY ConstantsAssumption
<1>2. DOMAIN Groups[t] = 1..Len(Groups[t]) /\ Len(Groups[t]) \in Nat
      /\ \A n \in 1..Len(Groups[t]) : Groups[t][n] \in Group
  BY <1>1
<1> DEFINE r == GroupReports(t)
<1>3. r = [n \in 1..Len(Groups[t]) |-> GroupReport(Groups[t][n])]
  BY <1>2 DEF GroupReports
<1>4. \A n \in 1..Len(Groups[t]) : GroupReport(Groups[t][n]) \in Seq(Line)
  BY <1>2, GroupTypes
<1> HIDE DEF r
<1>5. r \in [1..Len(Groups[t]) -> Seq(Line)]
  BY <1>3, <1>4
<1>6. r \in Seq(Seq(Line)) /\ Len(r) = Len(Groups[t])
  BY <1>2, <1>5
<1>7. FlattenSeq(r) \in Seq(Line)
  BY <1>6, SumsExist, FlattenIsSum
<1> QED BY <1>3, <1>6, <1>7 DEF r, Report

(* What should be reported does not change. *)
LEMMA SameReport ==
  ASSUME UNCHANGED options
  PROVE  /\ \A b : Wanted(b)' = Wanted(b)
         /\ \A g : WantedRows(g)' = WantedRows(g)
         /\ \A g : GroupReport(g)' = GroupReport(g)
         /\ \A t : GroupReports(t)' = GroupReports(t)
         /\ \A t : Report(t)' = Report(t)
         /\ Measuring' = Measuring /\ getTimerName' = getTimerName
<1>1. machine' = machine /\ args' = args
  BY DEF options
<1>2. \A b : Wanted(b)' = Wanted(b) /\ Row(b)' = Row(b)
  BY <1>1 DEF Wanted, Row
<1>3. \A g : WantedRows(g)' = WantedRows(g)
  BY <1>2 DEF WantedRows
<1>4. \A g : GroupReport(g)' = GroupReport(g)
  BY <1>1, <1>2, <1>3 DEF GroupReport, GridRows
<1>5. \A t : GroupReports(t)' = GroupReports(t)
  BY <1>4 DEF GroupReports
<1>6. \A t : Report(t)' = Report(t)
  BY <1>5 DEF Report
<1> QED BY <1>1, <1>2, <1>3, <1>4, <1>5, <1>6 DEF Measuring, getTimerName

(* What a list group shows after it has found the rows r. *)
Shown(g, r) == IF r = <<>> THEN <<>> ELSE <<[kind |-> "group", what |-> g.id]>> \o r

(* The report is complete up to the group at gi.                           *)
CumOK(cum) ==
  /\ gi \in 1..Len(groups) + 1
  /\ Sums(cum, Line, GroupReports(timer_info))
  /\ pc = "groups" \/ grid => out = cum[gi - 1]

(* Within a list group, up to the benchmark at bi. *)
RowsOK(cum, rows) ==
  pc = "group" /\ ~grid =>
    /\ bi \in 1..Len(benches) + 1
    /\ Sums(rows, Line, WantedRows(groups[gi]))
    /\ out = cum[gi - 1] \o Shown(groups[gi], rows[bi - 1])
    /\ header <=> rows[bi - 1] # <<>>

CodeOK ==
  /\ code \in {None, EXIT_SUCCESS, EXIT_FAILURE}
  /\ pc # "exited" => code = None

RInv ==
  /\ CodeOK
  /\ pc \in Running => \E cum, rows : CumOK(cum) /\ RowsOK(cum, rows)
  /\ pc = "exited" => ReportInOrder

LEMMA CodesDiffer == None # EXIT_SUCCESS /\ None # EXIT_FAILURE /\ EXIT_SUCCESS # EXIT_FAILURE
BY ConstantsAssumption DEF EXIT_SUCCESS, EXIT_FAILURE

LEMMA RunningFacts ==
  ASSUME IInv, pc \in Running
  PROVE  /\ timer_info \in Timer /\ timer_info = getTimerName
         /\ groups = Groups[timer_info]
         /\ groups \in Seq(Group) /\ Len(groups) \in Nat
         /\ \A n \in 1..Len(groups) : groups[n] \in Group
         /\ pc = "group" => gi \in 1..Len(groups)
<1>1. timer_info \in Timer /\ timer_info = getTimerName
  BY DEF IInv, TimerOK
<1>2. groups \in Seq(Group) /\ Len(groups) \in Nat
  BY <1>1, GroupFacts
<1>3. \A n \in 1..Len(groups) : groups[n] \in Group
  BY <1>2
<1>4. pc = "group" => gi \in 1..Len(groups)
  BY <1>2 DEF IInv, BadNameOK
<1> QED BY <1>1, <1>2, <1>3, <1>4 DEF groups

LEMMA CumFacts ==
  ASSUME IInv, pc \in Running, NEW cum, CumOK(cum)
  PROVE  /\ \A k \in 0..Len(groups) : cum[k] \in Seq(Line)
         /\ \A k \in 1..Len(groups) : cum[k] = cum[k - 1] \o GroupReport(groups[k])
         /\ Report(timer_info) = cum[Len(groups)]
         /\ cum[0] = <<>>
<1> DEFINE s == GroupReports(timer_info)
           N == Len(groups)
<1>1. /\ timer_info \in Timer /\ groups = Groups[timer_info] /\ N \in Nat
  BY RunningFacts
<1>2. /\ s \in Seq(Seq(Line)) /\ Len(s) = N
      /\ \A n \in 1..N : s[n] = GroupReport(groups[n])
  BY <1>1, ReportTypes
<1>3. Sums(cum, Line, s)
  BY DEF CumOK
<1>4. Report(timer_info) = FlattenSeq(s)
  BY DEF Report
<1> HIDE DEF s, N
<1>5. /\ \A k \in 0..N : cum[k] \in Seq(Line)
      /\ \A k \in 1..N : cum[k] = cum[k - 1] \o s[k]
      /\ cum[0] = <<>>
  BY <1>2, <1>3 DEF Sums
<1>6. FlattenSeq(s) = cum[N]
  BY <1>2, <1>3, FlattenIsSum
<1>7. \A k \in 1..N : cum[k] = cum[k - 1] \o GroupReport(groups[k])
  BY <1>2, <1>5
<1> QED BY <1>4, <1>5, <1>6, <1>7 DEF N

(* A sum up to a group is a beginning of the report. *)
LEMMA CumPrefix ==
  ASSUME IInv, pc \in Running, NEW cum, CumOK(cum), NEW k \in 0..Len(groups),
         NEW a \in Seq(Line), NEW b \in Seq(Line), cum[k] = a \o b
  PROVE  IsPrefix(a, Report(timer_info))
<1> DEFINE s == GroupReports(timer_info)
           N == Len(groups)
<1>1. timer_info \in Timer /\ groups = Groups[timer_info]
  BY RunningFacts
<1>2. s \in Seq(Seq(Line)) /\ Len(s) = N
  BY <1>1, ReportTypes
<1>3. Sums(cum, Line, s)
  BY DEF CumOK
<1>4. Report(timer_info) = cum[N]
  BY CumFacts
<1>5. k \in 0..N
  OBVIOUS
<1> HIDE DEF s, N
<1>6. PICK rest \in Seq(Line) : cum[N] = cum[k] \o rest
  <2>1. k \in 0..Len(s)
    BY <1>2, <1>5
  <2>2. Extends(cum, Line, s, k)
    BY <1>2, <1>3, <2>1, SumExtends
  <2> QED BY <1>2, <2>2 DEF Extends
<1>7. cum[N] = (a \o b) \o rest
  BY <1>6
<1>8. (a \o b) \o rest = a \o (b \o rest)
  BY <1>6, ConcatLines
<1>9. b \o rest \in Seq(Line)
  BY <1>6, ConcatProperties
<1>10. IsPrefix(a, a \o (b \o rest))
  BY <1>9, PrefixOfConcat
<1> QED BY <1>4, <1>7, <1>8, <1>10

LEMMA EmptyPrefix ==
  ASSUME NEW t \in Timer
  PROVE  IsPrefix(<<>>, Report(t))
<1> DEFINE r == Report(t)
<1>1. r \in Seq(Line)
  BY ReportTypes
<1> HIDE DEF r
<1>2. <<>> \in Seq(Line) /\ <<>> \o r = r
  BY <1>1, ConcatEmptySeq
<1>3. IsPrefix(<<>>, <<>> \o r)
  BY <1>1, <1>2, PrefixOfConcat
<1> QED BY <1>2, <1>3 DEF r

(* The rows of a list group, and what they are a part of. *)
LEMMA RowFacts ==
  ASSUME NEW g \in Group, NEW rows, Sums(rows, Line, WantedRows(g))
  PROVE  /\ \A i \in 0..Len(g.benches) : rows[i] \in Seq(Line)
         /\ \A i \in 1..Len(g.benches) :
              rows[i] = rows[i - 1] \o (IF Wanted(g.benches[i]) THEN <<Row(g.benches[i])>> ELSE <<>>)
         /\ FlattenSeq(WantedRows(g)) = rows[Len(g.benches)]
         /\ \A i \in 0..Len(g.benches) :
              \E rest \in Seq(Line) : rows[Len(g.benches)] = rows[i] \o rest
         /\ rows[0] = <<>> /\ Len(g.benches) \in Nat
<1> DEFINE s == WantedRows(g)
           N == Len(g.benches)
           W(i) == IF Wanted(g.benches[i]) THEN <<Row(g.benches[i])>> ELSE <<>>
<1>1. s \in Seq(Seq(Line)) /\ Len(s) = N
  BY GroupTypes
<1>2. DOMAIN g.benches = 1..N /\ N \in Nat
  BY DEF Group
<1>3. \A i \in 1..N : s[i] = W(i)
  BY <1>2 DEF WantedRows
<1>4. Sums(rows, Line, s)
  OBVIOUS
<1> HIDE DEF s, N, W
<1>5. /\ \A k \in 0..N : rows[k] \in Seq(Line)
      /\ \A k \in 1..N : rows[k] = rows[k - 1] \o s[k]
      /\ rows[0] = <<>>
  BY <1>1, <1>4 DEF Sums
<1>6. FlattenSeq(s) = rows[N]
  BY <1>1, <1>4, FlattenIsSum
<1>7. \A i \in 0..N : \E rest \in Seq(Line) : rows[N] = rows[i] \o rest
  <2> SUFFICES ASSUME NEW i \in 0..N
               PROVE  \E rest \in Seq(Line) : rows[N] = rows[i] \o rest
    OBVIOUS
  <2>1. i \in 0..Len(s)
    BY <1>1
  <2>2. Extends(rows, Line, s, i)
    BY <1>1, <1>4, <2>1, SumExtends
  <2> QED BY <1>1, <2>2 DEF Extends
<1>8. \A k \in 1..N : rows[k] = rows[k - 1] \o W(k)
  BY <1>3, <1>5
<1> QED BY <1>2, <1>5, <1>6, <1>7, <1>8 DEF s, N, W

(* What a list group has shown is the beginning of its report. *)
LEMMA ShownInReport ==
  ASSUME NEW g \in Group, ~g.grid, NEW rows, Sums(rows, Line, WantedRows(g)),
         NEW i \in 0..Len(g.benches)
  PROVE  /\ Shown(g, rows[i]) \in Seq(Line)
         /\ \E rest \in Seq(Line) : GroupReport(g) = Shown(g, rows[i]) \o rest
<1> DEFINE h == <<[kind |-> "group", what |-> g.id]>>
           z == <<[kind |-> "finished", what |-> g.id]>>
           N == Len(g.benches)
           all_rows == rows[N]
           r == rows[i]
           sh == Shown(g, r)
<1>1. h \in Seq(Line) /\ z \in Seq(Line) /\ GroupReport(g) \in Seq(Line)
  BY GroupTypes
<1>2. r \in Seq(Line) /\ \E rest \in Seq(Line) : all_rows = r \o rest
  BY RowFacts
<1>3. GroupReport(g) = IF all_rows = <<>> THEN <<>> ELSE h \o all_rows \o z
  BY RowFacts DEF GroupReport
<1>4. sh = IF r = <<>> THEN <<>> ELSE h \o r
  BY DEF Shown
<1> DEFINE whole == GroupReport(g)
<1> HIDE DEF h, z, N, all_rows, r, sh, whole
<1>5. CASE r = <<>>
  <2>1. sh = <<>> /\ sh \in Seq(Line) /\ <<>> \o whole = whole
    BY <1>1, <1>4, <1>5, ConcatEmptySeq DEF whole
  <2> QED BY <1>1, <2>1 DEF sh, r, whole
<1>6. CASE r # <<>>
  <2>1. PICK rest \in Seq(Line) : all_rows = r \o rest
    BY <1>2
  <2>2. all_rows # <<>>
    BY <1>2, <1>6, <2>1, ConcatProperties, EmptySeq
  <2>3. sh = h \o r /\ whole = h \o all_rows \o z
    BY <1>3, <1>4, <1>6, <2>2 DEF whole
  <2>4. h \o all_rows = (h \o r) \o rest
    <3>0. h \in Seq(Line) /\ r \in Seq(Line) /\ rest \in Seq(Line)
      BY <1>1, <1>2
    <3>1. (h \o r) \o rest = h \o (r \o rest)
      BY <3>0, ConcatLines
    <3> QED BY <2>1, <3>1
  <2>5. h \o r \in Seq(Line) /\ rest \o z \in Seq(Line)
    BY <1>1, <1>2, <2>1, ConcatProperties
  <2>6. ((h \o r) \o rest) \o z = (h \o r) \o (rest \o z)
    <3> DEFINE a == h \o r
    <3>1. a \in Seq(Line)
      BY <2>5
    <3> HIDE DEF a
    <3>2. (a \o rest) \o z = a \o (rest \o z)
      BY <1>1, <3>1, ConcatLines
    <3> QED BY <3>2 DEF a
  <2>7. whole = sh \o (rest \o z) /\ sh \in Seq(Line)
    BY <2>3, <2>4, <2>5, <2>6
  <2> QED BY <2>5, <2>7 DEF sh, r, whole
<1> QED BY <1>5, <1>6

LEMMA RunningReport ==
  ASSUME IInv, pc \in Running, NEW cum, NEW rows, CumOK(cum), RowsOK(cum, rows)
  PROVE  IsPrefix(out, Report(timer_info))
<1> DEFINE N == Len(groups)
<1>1. N \in Nat /\ gi \in 1..N + 1 /\ gi - 1 \in 0..N
  BY RunningFacts DEF CumOK
<1>2. cum[gi - 1] \in Seq(Line)
  BY <1>1, CumFacts
<1>3. CASE pc = "groups" \/ grid
  <2>1. out = cum[gi - 1]
    BY <1>3 DEF CumOK
  <2>2. cum[gi - 1] = out \o <<>> /\ <<>> \in Seq(Line) /\ out \in Seq(Line)
    BY <1>2, <2>1, ConcatEmptySeq
  <2> QED BY <1>1, <2>2, CumPrefix
<1>4. CASE pc = "group" /\ ~grid
  <2> DEFINE g == groups[gi]
             c == cum[gi - 1]
             sh == Shown(g, rows[bi - 1])
             whole == GroupReport(g)
  <2>1. gi \in 1..N /\ gi \in 0..N /\ g \in Group /\ ~g.grid
    BY <1>1, <1>4, RunningFacts DEF grid
  <2>2. /\ bi - 1 \in 0..Len(g.benches)
        /\ Sums(rows, Line, WantedRows(g))
        /\ out = c \o sh
    <3>1. Len(benches) \in Nat
      BY <2>1 DEF Group, benches
    <3>2. /\ bi \in 1..Len(benches) + 1
          /\ Sums(rows, Line, WantedRows(groups[gi]))
          /\ out = cum[gi - 1] \o Shown(groups[gi], rows[bi - 1])
      BY <1>4 DEF RowsOK
    <3>3. bi - 1 \in 0..Len(benches)
      BY <3>1, <3>2
    <3> QED BY <3>2, <3>3 DEF benches
  <2>3. sh \in Seq(Line) /\ \E rest \in Seq(Line) : whole = sh \o rest
    <3> HIDE DEF g
    <3> QED BY <2>1, <2>2, ShownInReport
  <2>4. cum[gi] = c \o whole
    BY <2>1, CumFacts
  <2>5. c \in Seq(Line)
    BY <1>2
  <2> HIDE DEF N, g, c, sh, whole
  <2>6. PICK rest \in Seq(Line) : whole = sh \o rest
    BY <2>3
  <2>7. (c \o sh) \o rest = c \o (sh \o rest) /\ c \o sh \in Seq(Line)
    BY <2>3, <2>5, <2>6, ConcatLines, ConcatProperties
  <2>8. cum[gi] = out \o rest /\ out \in Seq(Line)
    BY <2>2, <2>4, <2>6, <2>7
  <2>9. gi \in 0..Len(groups)
    BY <2>1 DEF N
  <2> QED BY <2>6, <2>8, <2>9, CumPrefix
<1> QED BY <1>3, <1>4 DEF Running

(* The invariant implies the property. *)
LEMMA RInvReports == IInv /\ RInv => ReportInOrder
<1> SUFFICES ASSUME IInv, RInv PROVE ReportInOrder
  OBVIOUS
<1>1. CASE pc = "exited"
  BY <1>1 DEF RInv
<1>2. CASE pc # "exited"
  <2>1. code # EXIT_SUCCESS
    BY <1>2, CodesDiffer DEF RInv, CodeOK
  <2>2. ASSUME getTimerName \in Timer PROVE IsPrefix(out, Report(getTimerName))
    <3>1. CASE pc \in Running
      <4>1. PICK cum, rows : CumOK(cum) /\ RowsOK(cum, rows)
        BY <3>1 DEF RInv
      <4> QED BY <3>1, <4>1, RunningReport, RunningFacts
    <3>2. CASE pc \notin Running
      <4>1. out = <<>>
        BY <1>2, <3>2 DEF IInv, TimerOK
      <4> QED BY <2>2, <4>1, EmptyPrefix
    <3> QED BY <3>1, <3>2
  <2> QED BY <2>1, <2>2 DEF ReportInOrder
<1> QED BY <1>1, <1>2

-----------------------------------------------------------------------------
(* The steps of the report. *)

LEMMA ExitReports ==
  ASSUME UNCHANGED options, pc' = "exited", code' \in {EXIT_SUCCESS, EXIT_FAILURE},
         Measuring /\ getTimerName \in Timer =>
           /\ IsPrefix(out', Report(getTimerName))
           /\ code' = EXIT_SUCCESS => out' = Report(getTimerName)
  PROVE  RInv'
<1>1. CodeOK'
  BY DEF CodeOK
<1>2. Measuring' = Measuring /\ getTimerName' = getTimerName
      /\ Report(getTimerName)' = Report(getTimerName)
  BY SameReport
<1>3. ReportInOrder'
  BY <1>2 DEF ReportInOrder
<1> QED BY <1>1, <1>3 DEF RInv, Running

LEMMA EarlyReports ==
  ASSUME IInv, RInv, pc \notin Running \union {"exited"}, Next, ~InitTimer
  PROVE  RInv'
<1>1. code = None /\ out = <<>>
  BY DEF IInv, TimerOK, RInv, CodeOK
<1>2. UNCHANGED options
  BY DEF Next, ParseCLI, RunListTimers, RunListBenches, RunClockOverhead, RunDumpTimer, RunBenches,
     CreateList, ListTimers, ListBenches, PinToThread, GetForTimer, ListEvents,
     NextGroup, EndRun, SkipBench, RunBench, PredThrows, FinishGroup, RunGrid, SkipGrid,
     Looking, Deciding, Running
<1>3. \/ pc' \notin Running \union {"exited"} /\ code' = None
      \/ pc' = "exited" /\ code' \in {EXIT_SUCCESS, EXIT_FAILURE} /\ ~Measuring
      \/ pc' = "exited" /\ code' = EXIT_FAILURE /\ out' = <<>>
  <2>1. CASE ParseCLI
    BY <1>1, <2>1 DEF ParseCLI, Exit, Measuring, Running
  <2>2. CASE RunListTimers \/ RunListBenches \/ RunBenches
    BY <1>1, <2>2 DEF RunListTimers, RunListBenches, RunBenches, Running
  <2>3. CASE RunClockOverhead \/ RunDumpTimer
    BY <2>3 DEF RunClockOverhead, RunDumpTimer, Exit, Measuring
  <2>4. CASE CreateList
    BY <1>1, <2>4 DEF CreateList, Exit, Running
  <2>5. CASE ListTimers \/ ListBenches
    BY <2>5 DEF ListTimers, ListBenches, Exit, Measuring, IInv, StageOK
  <2>6. CASE PinToThread
    BY <1>1, <2>6 DEF PinToThread, Exit, Running
  <2>7. CASE GetForTimer
    BY <1>1, <2>7 DEF GetForTimer, Exit, Running
  <2>8. CASE ListEvents
    BY <2>8 DEF ListEvents, Exit, Measuring
  <2>9. pc \notin {"groups", "group"}
    BY DEF Running
  <2> QED BY <2>1, <2>2, <2>3, <2>4, <2>5, <2>6, <2>7, <2>8, <2>9 DEF Next, NextGroup, EndRun,
         SkipBench, RunBench, PredThrows, FinishGroup, RunGrid, SkipGrid, Looking, Deciding
<1>4. CASE pc' \notin Running \union {"exited"} /\ code' = None
  BY <1>4 DEF RInv, CodeOK
<1>5. CASE pc' = "exited" /\ code' \in {EXIT_SUCCESS, EXIT_FAILURE} /\ ~Measuring
  BY <1>2, <1>5, ExitReports
<1>6. CASE pc' = "exited" /\ code' = EXIT_FAILURE /\ out' = <<>>
  BY <1>2, <1>6, ExitReports, EmptyPrefix, CodesDiffer
<1> QED BY <1>3, <1>4, <1>5, <1>6

LEMMA InitTimerReports ==
  ASSUME IInv, RInv, InitTimer
  PROVE  RInv'
<1>1. /\ pc = "timer" /\ code = None /\ out = <<>> /\ gi = 1
      /\ timer_info \in Timer
      /\ UNCHANGED <<options, timer_info, gi, out>>
  BY TimerStage DEF InitTimer, RInv, CodeOK, IInv, BadNameOK, Running
<1>2. CASE pc' = "exited" /\ code' = EXIT_FAILURE
  BY <1>1, <1>2, ExitReports, EmptyPrefix, CodesDiffer
<1>3. CASE pc' = "groups" /\ code' = code
  <2>1. PICK cum : Sums(cum, Line, GroupReports(timer_info))
    BY <1>1, ReportTypes, SumsExist
  <2>2. cum[0] = <<>> /\ Len(groups) \in Nat
    BY <1>1, <2>1, GroupFacts DEF Sums
  <2>3. Len(groups)' = Len(groups) /\ GroupReports(timer_info)' = GroupReports(timer_info)
    BY <1>1, SameReport DEF groups
  <2>4. CumOK(cum)'
    BY <1>1, <2>1, <2>2, <2>3 DEF CumOK
  <2>5. RowsOK(cum, cum)'
    BY <1>3 DEF RowsOK
  <2>6. CodeOK'
    BY <1>1, <1>3 DEF CodeOK
  <2> QED BY <1>3, <2>4, <2>5, <2>6 DEF RInv
<1> QED BY <1>2, <1>3 DEF InitTimer, Exit

(* What is the same after a step of the loops. *)
LEMMA LoopSame ==
  ASSUME IInv, RInv, pc \in Running, UNCHANGED <<options, timer_info>>
  PROVE  /\ code = None
         /\ groups' = groups /\ GroupReports(timer_info)' = GroupReports(timer_info)
         /\ Report(timer_info)' = Report(timer_info)
         /\ \A g : WantedRows(g)' = WantedRows(g)
<1>1. groups' = groups /\ code = None
  BY DEF groups, RInv, CodeOK, Running
<1>2. GroupReports(timer_info)' = GroupReports(timer_info)
      /\ Report(timer_info)' = Report(timer_info)
  BY SameReport
<1> QED BY <1>1, <1>2, SameReport

LEMMA CumStays ==
  ASSUME IInv, RInv, pc \in Running, UNCHANGED <<options, timer_info>>,
         NEW cum, CumOK(cum), gi' \in 1..Len(groups) + 1,
         pc' = "groups" \/ groups[gi'].grid => out' = cum[gi' - 1]
  PROVE  CumOK(cum)'
<1>1. groups' = groups /\ GroupReports(timer_info)' = GroupReports(timer_info)
  BY LoopSame
<1> QED BY <1>1 DEF CumOK, grid

LEMMA KeepsReporting ==
  ASSUME IInv, RInv, pc \in Running, pc' \in Running, UNCHANGED <<options, timer_info, code>>,
         NEW cum, NEW rows, CumOK(cum)', RowsOK(cum, rows)'
  PROVE  RInv'
<1>1. CodeOK'
  BY DEF RInv, CodeOK, Running
<1> QED BY <1>1 DEF RInv, Running

(* A step past the group at gi. *)
LEMMA PastGroup ==
  ASSUME IInv, RInv, pc = "group", pc' = "groups", gi' = gi + 1,
         UNCHANGED <<options, timer_info, code>>,
         NEW cum, CumOK(cum), out' = cum[gi - 1] \o GroupReport(groups[gi])
  PROVE  RInv'
<1>1. gi \in 1..Len(groups) /\ Len(groups) \in Nat
  BY RunningFacts DEF Running
<1>2. out' = cum[gi]
  BY <1>1, CumFacts DEF Running
<1>3. gi' \in 1..Len(groups) + 1 /\ out' = cum[gi' - 1]
  BY <1>1, <1>2
<1>4. CumOK(cum)'
  BY <1>3, CumStays DEF Running
<1>5. RowsOK(cum, cum)'
  BY DEF RowsOK
<1> QED BY <1>4, <1>5, KeepsReporting DEF Running

LEMMA NextGroupReports ==
  ASSUME IInv, RInv, NextGroup
  PROVE  RInv'
<1>1. /\ pc = "groups" /\ pc' = "group" /\ bi' = 1 /\ header' = FALSE
      /\ UNCHANGED <<options, timer_info, gi, out, code>> /\ gi <= Len(groups)
  BY DEF NextGroup
<1>2. PICK cum, r0 : CumOK(cum) /\ RowsOK(cum, r0)
  BY <1>1 DEF RInv, Running
<1>3. gi \in 1..Len(groups) /\ Len(groups) \in Nat /\ groups[gi] \in Group
  BY <1>1, <1>2, RunningFacts DEF CumOK, Running
<1>4. out = cum[gi - 1] /\ cum[gi - 1] \in Seq(Line)
  <2>1. out = cum[gi - 1] /\ gi - 1 \in 0..Len(groups)
    BY <1>1, <1>2, <1>3 DEF CumOK
  <2>2. \A k \in 0..Len(groups) : cum[k] \in Seq(Line)
    BY <1>1, <1>2, CumFacts DEF Running
  <2> QED BY <2>1, <2>2
<1>5. CumOK(cum)'
  BY <1>1, <1>2, <1>3, <1>4, CumStays DEF Running
<1> DEFINE g == groups[gi]
<1>6. PICK rows : Sums(rows, Line, WantedRows(g))
  <2> HIDE DEF g
  <2>1. WantedRows(g) \in Seq(Seq(Line))
    BY <1>3, GroupTypes DEF g
  <2> DEFINE w == WantedRows(g)
  <2> HIDE DEF w
  <2>2. \E rows : Sums(rows, Line, w)
    BY <2>1, SumsExist DEF w
  <2> QED BY <2>2 DEF w
<1>7. rows[0] = <<>> /\ Len(g.benches) \in Nat
  <2>1. g.benches \in Seq(Bench)
    BY <1>3 DEF Group
  <2> QED BY <1>6, <2>1 DEF Sums
<1>8. RowsOK(cum, rows)'
  <2>1. groups' = groups /\ WantedRows(g)' = WantedRows(g)
    BY <1>1, LoopSame DEF Running
  <2>2. g' = g /\ benches' = benches /\ gi' = gi
    BY <1>1, <2>1 DEF benches
  <2>3. 1 \in 1..Len(benches) + 1 /\ Len(benches)' = Len(benches)
    BY <1>7, <2>2 DEF benches
  <2>4. rows[bi' - 1] = <<>>
    BY <1>1, <1>7
  <2>5. out' = cum[gi - 1] \o <<>>
    BY <1>1, <1>4, ConcatEmptySeq
  <2>6. Shown(g, rows[bi - 1])' = <<>>
    BY <2>4 DEF Shown
  <2>7. Sums(rows, Line, WantedRows(groups[gi]))'
    BY <1>6, <2>1, <2>2
  <2> QED BY <1>1, <2>2, <2>3, <2>4, <2>5, <2>6, <2>7 DEF RowsOK
<1> QED BY <1>1, <1>5, <1>8, KeepsReporting DEF Running

LEMMA EndRunReports ==
  ASSUME IInv, RInv, EndRun
  PROVE  RInv'
<1>1. /\ pc = "groups" /\ gi > Len(groups) /\ pc' = "exited" /\ code' = EXIT_SUCCESS
      /\ UNCHANGED <<options, timer_info, out>>
  BY DEF EndRun, Exit
<1>2. PICK cum, r0 : CumOK(cum) /\ RowsOK(cum, r0)
  BY <1>1 DEF RInv, Running
<1>3. Len(groups) \in Nat /\ timer_info \in Timer /\ timer_info = getTimerName
  BY <1>1, RunningFacts DEF Running
<1>4. gi - 1 = Len(groups) /\ out = cum[gi - 1]
  BY <1>1, <1>2, <1>3 DEF CumOK
<1>5. out = Report(timer_info)
  BY <1>1, <1>2, <1>4, CumFacts DEF Running
<1>6. IsPrefix(out, Report(timer_info))
  BY <1>1, <1>2, RunningReport DEF Running
<1> QED BY <1>1, <1>3, <1>5, <1>6, ExitReports

LEMMA PredThrowsReports ==
  ASSUME IInv, RInv, PredThrows
  PROVE  RInv'
<1>1. /\ pc = "group" /\ pc' = "exited" /\ code' = EXIT_FAILURE
      /\ UNCHANGED <<options, timer_info, out>>
  BY DEF PredThrows, Deciding, Exit
<1>2. PICK cum, rows : CumOK(cum) /\ RowsOK(cum, rows)
  BY <1>1 DEF RInv, Running
<1>3. timer_info = getTimerName /\ IsPrefix(out, Report(timer_info))
  BY <1>1, <1>2, RunningReport, RunningFacts DEF Running
<1> QED BY <1>1, <1>3, ExitReports, CodesDiffer

-----------------------------------------------------------------------------
(* The benchmarks of a list group. *)

LEMMA ListGroup ==
  ASSUME IInv, RInv, pc = "group", ~grid, NEW cum, NEW rows, CumOK(cum), RowsOK(cum, rows)
  PROVE  /\ gi \in 1..Len(groups) /\ groups[gi] \in Group /\ ~groups[gi].grid
         /\ benches = groups[gi].benches /\ Len(benches) \in Nat
         /\ bi \in 1..Len(benches) + 1 /\ bi - 1 \in 0..Len(benches)
         /\ cum[gi - 1] \in Seq(Line) /\ rows[bi - 1] \in Seq(Line)
         /\ Sums(rows, Line, WantedRows(groups[gi]))
         /\ out = cum[gi - 1] \o Shown(groups[gi], rows[bi - 1])
         /\ header <=> rows[bi - 1] # <<>>
<1>1. gi \in 1..Len(groups) /\ Len(groups) \in Nat /\ groups[gi] \in Group
  BY RunningFacts DEF Running
<1>2. benches = groups[gi].benches /\ Len(benches) \in Nat /\ ~groups[gi].grid
  BY <1>1 DEF benches, Group, grid
<1>3. /\ bi \in 1..Len(benches) + 1
      /\ Sums(rows, Line, WantedRows(groups[gi]))
      /\ out = cum[gi - 1] \o Shown(groups[gi], rows[bi - 1])
      /\ header <=> rows[bi - 1] # <<>>
  BY DEF RowsOK
<1>4. bi - 1 \in 0..Len(benches) /\ gi - 1 \in 0..Len(groups)
  BY <1>1, <1>2, <1>3
<1>5. cum[gi - 1] \in Seq(Line)
  BY <1>4, CumFacts DEF Running
<1>6. rows[bi - 1] \in Seq(Line)
  <2> DEFINE g == groups[gi]
  <2>1. g \in Group /\ Sums(rows, Line, WantedRows(g)) /\ bi - 1 \in 0..Len(g.benches)
    BY <1>1, <1>2, <1>3, <1>4
  <2> HIDE DEF g
  <2> QED BY <2>1, RowFacts
<1> QED BY <1>1, <1>2, <1>3, <1>4, <1>5, <1>6

(* A step from one benchmark of a list group to the next. *)
LEMMA NextBench ==
  ASSUME IInv, RInv, Looking, bi' = bi + 1, UNCHANGED <<options, pc, timer_info, gi, code>>,
         NEW cum, NEW rows, CumOK(cum), RowsOK(cum, rows),
         out' = cum[gi - 1] \o Shown(groups[gi], rows[bi]),
         header' <=> rows[bi] # <<>>
  PROVE  RInv'
<1>1. pc = "group" /\ ~grid /\ bi <= Len(benches)
  BY DEF Looking, Deciding
<1>2. /\ gi \in 1..Len(groups) /\ Len(benches) \in Nat /\ bi \in 1..Len(benches) + 1
      /\ Sums(rows, Line, WantedRows(groups[gi])) /\ ~groups[gi].grid
  BY <1>1, ListGroup
<1>3. bi' \in 1..Len(benches) + 1 /\ bi' - 1 = bi
  BY <1>1, <1>2
<1>4. groups' = groups /\ WantedRows(groups[gi])' = WantedRows(groups[gi])
  <2>1. groups' = groups /\ \A g : WantedRows(g)' = WantedRows(g)
    BY <1>1, LoopSame DEF Running
  <2> QED BY <2>1
<1>5. CumOK(cum)'
  <2>1. gi' \in 1..Len(groups) + 1
    BY <1>2 DEF CumOK
  <2> QED BY <1>1, <1>2, <2>1, CumStays DEF Running
<1>6. RowsOK(cum, rows)'
  <2>1. benches' = benches
    BY <1>4 DEF benches
  <2>2. Shown(groups[gi], rows[bi - 1])' = Shown(groups[gi], rows[bi])
    BY <1>3, <1>4 DEF Shown
  <2> QED BY <1>2, <1>3, <1>4, <2>1, <2>2 DEF RowsOK
<1> QED BY <1>1, <1>5, <1>6, KeepsReporting DEF Running

LEMMA NextRow ==
  ASSUME NEW g \in Group, NEW rows, Sums(rows, Line, WantedRows(g)), NEW i \in 1..Len(g.benches)
  PROVE  /\ rows[i - 1] \in Seq(Line) /\ g.benches[i] \in Bench
         /\ Wanted(g.benches[i]) => rows[i] = rows[i - 1] \o <<Row(g.benches[i])>>
         /\ ~Wanted(g.benches[i]) => rows[i] = rows[i - 1]
<1>1. g.benches \in Seq(Bench) /\ Len(g.benches) \in Nat
  BY DEF Group
<1>2. g.benches[i] \in Bench /\ i - 1 \in 0..Len(g.benches)
  BY <1>1
<1> DEFINE N == Len(g.benches)
           W(k) == IF Wanted(g.benches[k]) THEN <<Row(g.benches[k])>> ELSE <<>>
<1>3. /\ \A k \in 0..N : rows[k] \in Seq(Line)
      /\ \A k \in 1..N : rows[k] = rows[k - 1] \o W(k)
  BY RowFacts
<1>4. i \in 1..N /\ i - 1 \in 0..N
  BY <1>2
<1> HIDE DEF N, W
<1>5. rows[i - 1] \in Seq(Line) /\ rows[i] = rows[i - 1] \o W(i)
  BY <1>3, <1>4
<1>6. Wanted(g.benches[i]) => W(i) = <<Row(g.benches[i])>>
  BY DEF W
<1>7. ~Wanted(g.benches[i]) => W(i) = <<>>
  BY DEF W
<1>8. rows[i - 1] \o <<>> = rows[i - 1]
  BY <1>5, ConcatEmptySeq
<1> QED BY <1>2, <1>5, <1>6, <1>7, <1>8

LEMMA SkipBenchReports ==
  ASSUME MatchersRight, IInv, RInv, SkipBench
  PROVE  RInv'
<1>1. /\ Looking /\ pred(candidate) = "no" /\ bi' = bi + 1 /\ header' = header /\ out' = out
      /\ UNCHANGED <<options, pc, timer_info, gi, code>> /\ pc = "group" /\ ~grid
      /\ bi <= Len(benches)
  BY DEF SkipBench, Looking, Deciding
<1>2. PICK cum, rows : CumOK(cum) /\ RowsOK(cum, rows)
  BY <1>1 DEF RInv, Running
<1> DEFINE g == groups[gi]
<1>3. /\ g \in Group /\ benches = g.benches /\ bi \in 1..Len(benches) + 1 /\ Len(benches) \in Nat
      /\ Sums(rows, Line, WantedRows(g))
      /\ out = cum[gi - 1] \o Shown(g, rows[bi - 1])
      /\ header <=> rows[bi - 1] # <<>>
  BY <1>1, <1>2, ListGroup
<1>4. bi \in 1..Len(g.benches) /\ candidate = g.benches[bi]
  BY <1>1, <1>3 DEF candidate
<1> HIDE DEF g
<1>5. g.benches[bi] \in Bench /\ (~Wanted(g.benches[bi]) => rows[bi] = rows[bi - 1])
  BY <1>3, <1>4, NextRow
<1>6. ~Wanted(candidate)
  BY <1>1, <1>4, <1>5, PredDecides DEF IInv
<1>7. rows[bi] = rows[bi - 1]
  BY <1>4, <1>5, <1>6
<1> QED BY <1>1, <1>2, <1>3, <1>7, NextBench DEF g

LEMMA RunBenchReports ==
  ASSUME MatchersRight, IInv, RInv, RunBench
  PROVE  RInv'
<1> DEFINE g == groups[gi]
           h == <<GroupLine("group")>>
           w == <<Row(benches[bi])>>
<1>1. /\ Looking /\ pred(candidate) = "yes" /\ bi' = bi + 1 /\ header' = TRUE
      /\ out' = (IF header THEN out ELSE Append(out, GroupLine("group"))) \o w
      /\ UNCHANGED <<options, pc, timer_info, gi, code>> /\ pc = "group" /\ ~grid
      /\ bi <= Len(benches)
  BY DEF RunBench, Looking, Deciding
<1>2. PICK cum, rows : CumOK(cum) /\ RowsOK(cum, rows)
  BY <1>1 DEF RInv, Running
<1> DEFINE c == cum[gi - 1]
           r == rows[bi - 1]
           r1 == rows[bi]
<1>3. /\ g \in Group /\ benches = g.benches /\ bi \in 1..Len(benches) + 1 /\ Len(benches) \in Nat
      /\ Sums(rows, Line, WantedRows(g)) /\ c \in Seq(Line) /\ r \in Seq(Line)
      /\ out = c \o Shown(g, r)
      /\ header <=> r # <<>>
  BY <1>1, <1>2, ListGroup
<1>4. bi \in 1..Len(g.benches) /\ candidate = g.benches[bi]
  BY <1>1, <1>3 DEF candidate
<1>5. h \in Seq(Line) /\ Shown(g, r) = (IF r = <<>> THEN <<>> ELSE h \o r)
      /\ Shown(g, r1) = (IF r1 = <<>> THEN <<>> ELSE h \o r1)
  <2>1. h = <<[kind |-> "group", what |-> g.id]>>
    BY DEF GroupLine
  <2> HIDE DEF g, h, r, r1
  <2> QED BY <1>3, <2>1, GroupTypes DEF Shown
<1>6. Append(out, GroupLine("group")) = out \o h /\ out \in Seq(Line) /\ GroupLine("group") \in Line
  <2>1. GroupLine("group") \in Line
    <3>1. g.id \in STRING
      BY <1>3 DEF Group
    <3> QED BY <3>1 DEF GroupLine, Line
  <2>2. Shown(g, r) \in Seq(Line)
    <3> HIDE DEF g, h, r
    <3> QED BY <1>3, <1>5, ConcatProperties
  <2>3. out \in Seq(Line)
    <3> HIDE DEF c, g, r
    <3> QED BY <1>3, <2>2, ConcatProperties
  <2> DEFINE l == GroupLine("group")
  <2> HIDE DEF l
  <2>4. Append(out, l) = out \o <<l>>
    BY <2>1, <2>3, AppendIsConcat DEF l
  <2> QED BY <2>1, <2>3, <2>4 DEF l
<1>7. /\ g.benches[bi] \in Bench
      /\ Wanted(g.benches[bi]) => r1 = r \o <<Row(g.benches[bi])>>
  <2> HIDE DEF g
  <2> QED BY <1>3, <1>4, NextRow
<1>8. Wanted(candidate)
  BY <1>1, <1>4, <1>7, PredDecides DEF IInv
<1>9. r1 = r \o w
  BY <1>3, <1>4, <1>7, <1>8
<1>10. w \in Seq(Line) /\ w # <<>>
  <2>1. Row(benches[bi]) \in Line
    <3>1. benches[bi] \in Bench
      BY <1>3, <1>7
    <3> QED BY <3>1 DEF Row, Line
  <2> DEFINE l == Row(benches[bi])
  <2> HIDE DEF l
  <2> QED BY <2>1 DEF l
<1>11. out' = (IF header THEN out ELSE out \o h) \o w
  BY <1>1, <1>6
<1> HIDE DEF g, h, w, c, r, r1
<1>12. r1 # <<>> /\ r1 \in Seq(Line)
  BY <1>3, <1>9, <1>10, ConcatProperties, EmptySeq
<1>13. out' = c \o Shown(g, r1)
  <2>1. Shown(g, r1) = h \o r1
    BY <1>5, <1>12
  <2>2. CASE header
    <3>1. out' = (c \o (h \o r)) \o w
      BY <1>3, <1>5, <1>11, <2>2
    <3>2. c \in Seq(Line) /\ h \in Seq(Line) /\ r \in Seq(Line) /\ w \in Seq(Line)
      BY <1>3, <1>5, <1>10
    <3> DEFINE a == h \o r
    <3>3. a \in Seq(Line)
      BY <3>2, ConcatProperties
    <3>4. (h \o r) \o w = h \o (r \o w)
      BY <3>2, ConcatLines
    <3>5. (c \o a) \o w = c \o (a \o w)
      <4> HIDE DEF a
      <4>1. c \in Seq(Line) /\ a \in Seq(Line) /\ w \in Seq(Line)
        BY <3>2, <3>3
      <4> QED BY <4>1, ConcatLines
    <3> QED BY <1>9, <2>1, <3>1, <3>4, <3>5
  <2>3. CASE ~header
    <3>1. r = <<>> /\ out = c \o <<>>
      BY <1>3, <1>5, <2>3
    <3>2. out = c
      BY <1>3, <3>1, ConcatEmptySeq
    <3>3. out' = (c \o h) \o w
      BY <1>11, <2>3, <3>2
    <3>4. r1 = w
      BY <1>9, <1>10, <3>1, ConcatEmptySeq
    <3>5. (c \o h) \o w = c \o (h \o w)
      BY <1>3, <1>5, <1>10, ConcatLines
    <3> QED BY <2>1, <3>3, <3>4, <3>5
  <2> QED BY <2>2, <2>3
<1> QED BY <1>1, <1>2, <1>12, <1>13, NextBench DEF g, c, r1

LEMMA FinishGroupReports ==
  ASSUME IInv, RInv, FinishGroup
  PROVE  RInv'
<1> DEFINE g == groups[gi]
           h == <<[kind |-> "group", what |-> g.id]>>
           z == <<[kind |-> "finished", what |-> g.id]>>
<1>1. /\ pc = "group" /\ ~grid /\ bi > Len(benches) /\ gi' = gi + 1 /\ pc' = "groups"
      /\ out' = IF header THEN Append(out, GroupLine("finished")) ELSE out
      /\ UNCHANGED <<options, timer_info, code>>
  BY DEF FinishGroup
<1>2. PICK cum, rows : CumOK(cum) /\ RowsOK(cum, rows)
  BY <1>1 DEF RInv, Running
<1> DEFINE c == cum[gi - 1]
           r == rows[bi - 1]
           whole == GroupReport(g)
<1>3. /\ g \in Group /\ benches = g.benches /\ bi \in 1..Len(benches) + 1 /\ Len(benches) \in Nat
      /\ Sums(rows, Line, WantedRows(g)) /\ c \in Seq(Line) /\ r \in Seq(Line)
      /\ out = c \o Shown(g, r) /\ ~g.grid
      /\ header <=> r # <<>>
  BY <1>1, <1>2, ListGroup
<1>4. bi - 1 = Len(g.benches)
  BY <1>1, <1>3
<1>5. h \in Seq(Line) /\ z \in Seq(Line)
  <2> HIDE DEF h, z, g
  <2> QED BY <1>3, GroupTypes DEF h, z
<1>6. whole = IF r = <<>> THEN <<>> ELSE h \o r \o z
  <2>1. FlattenSeq(WantedRows(g)) = r
    <3>1. FlattenSeq(WantedRows(g)) = rows[Len(g.benches)]
      <4> HIDE DEF g
      <4> QED BY <1>3, RowFacts
    <3> QED BY <1>4, <3>1
  <2> QED BY <1>3, <2>1 DEF GroupReport
<1>7. Shown(g, r) = IF r = <<>> THEN <<>> ELSE h \o r
  BY DEF Shown
<1>8. out \in Seq(Line)
  <2>1. Shown(g, r) \in Seq(Line)
    <3> HIDE DEF g, h, r
    <3> QED BY <1>3, <1>5, <1>7, ConcatProperties
  <2> HIDE DEF g, c, r
  <2> QED BY <1>3, <2>1, ConcatProperties
<1>9. Append(out, GroupLine("finished")) = out \o z
  <2>1. GroupLine("finished") \in Line
    <3>1. g.id \in STRING
      BY <1>3 DEF Group
    <3> QED BY <3>1 DEF GroupLine, Line
  <2>2. z = <<GroupLine("finished")>>
    BY DEF GroupLine
  <2> DEFINE l == GroupLine("finished")
  <2> HIDE DEF l, z
  <2> QED BY <1>8, <2>1, <2>2, AppendIsConcat DEF l
<1> HIDE DEF g, h, z, c, r, whole
<1>10. out' = c \o whole
  <2>1. CASE r = <<>>
    BY <1>1, <1>3, <1>6, <1>7, <2>1
  <2>2. CASE r # <<>>
    <3>1. out' = (c \o (h \o r)) \o z
      BY <1>1, <1>3, <1>7, <1>9, <2>2
    <3>2. c \in Seq(Line) /\ h \in Seq(Line) /\ r \in Seq(Line) /\ z \in Seq(Line)
      BY <1>3, <1>5
    <3>3. whole = (h \o r) \o z
      BY <1>6, <2>2
    <3> DEFINE a == h \o r
    <3>4. a \in Seq(Line)
      BY <3>2, ConcatProperties
    <3>5. (c \o a) \o z = c \o (a \o z)
      <4> HIDE DEF a
      <4> QED BY <3>2, <3>4, ConcatLines
    <3> QED BY <3>1, <3>3, <3>5
  <2> QED BY <2>1, <2>2
<1> QED BY <1>1, <1>2, <1>10, PastGroup DEF g, c, whole

LEMMA GridFacts ==
  ASSUME IInv, RInv, pc = "group", grid, NEW cum, CumOK(cum)
  PROVE  /\ groups[gi] \in Group /\ groups[gi].grid /\ groups[gi].fake \in Bench
         /\ candidate = groups[gi].fake /\ benches = groups[gi].benches
         /\ out = cum[gi - 1] /\ out \in Seq(Line)
<1>1. gi \in 1..Len(groups) /\ Len(groups) \in Nat /\ groups[gi] \in Group
  BY RunningFacts DEF Running
<1>2. out = cum[gi - 1] /\ gi - 1 \in 0..Len(groups)
  BY <1>1 DEF CumOK
<1>3. cum[gi - 1] \in Seq(Line)
  BY <1>2, CumFacts DEF Running
<1> QED BY <1>1, <1>2, <1>3 DEF grid, candidate, benches, Group

LEMMA RunGridReports ==
  ASSUME MatchersRight, IInv, RInv, RunGrid
  PROVE  RInv'
<1> DEFINE g == groups[gi]
           h == <<[kind |-> "grid", what |-> g.id]>>
           rows == GridRows(g)
           l == GroupLine("grid")
<1>1. /\ pc = "group" /\ grid /\ benches[1] \in machine.supported /\ pred(candidate) = "yes"
      /\ gi' = gi + 1 /\ pc' = "groups" /\ out' = Append(out, l) \o rows
      /\ UNCHANGED <<options, timer_info, code>>
  BY DEF RunGrid, Deciding
<1>2. PICK cum, r0 : CumOK(cum) /\ RowsOK(cum, r0)
  BY <1>1 DEF RInv, Running
<1> DEFINE c == cum[gi - 1]
           whole == GroupReport(g)
<1>3. /\ g \in Group /\ g.grid /\ g.fake \in Bench /\ candidate = g.fake /\ benches = g.benches
      /\ out = c /\ c \in Seq(Line)
  BY <1>1, <1>2, GridFacts
<1>4. Wanted(g.fake)
  BY <1>1, <1>3, PredDecides DEF IInv
<1>5. whole = h \o rows
  BY <1>1, <1>3, <1>4 DEF GroupReport
<1>6. l \in Line /\ h = <<l>>
  <2>1. g.id \in STRING
    BY <1>3 DEF Group
  <2> QED BY <2>1 DEF GroupLine, Line
<1>7. h \in Seq(Line) /\ rows \in Seq(Line)
  <2> HIDE DEF h, g
  <2> QED BY <1>3, GroupTypes DEF h
<1> HIDE DEF g, h, rows, l, c, whole
<1>8. out' = c \o whole
  <2>1. Append(c, l) = c \o h
    BY <1>3, <1>6, AppendIsConcat
  <2>2. (c \o h) \o rows = c \o (h \o rows)
    BY <1>3, <1>7, ConcatLines
  <2> QED BY <1>1, <1>3, <1>5, <2>1, <2>2
<1> QED BY <1>1, <1>2, <1>8, PastGroup DEF g, c, whole

LEMMA SkipGridReports ==
  ASSUME MatchersRight, IInv, RInv, SkipGrid
  PROVE  RInv'
<1> DEFINE g == groups[gi]
<1>1. /\ pc = "group" /\ grid /\ (benches[1] \in machine.supported => pred(candidate) = "no")
      /\ gi' = gi + 1 /\ pc' = "groups" /\ UNCHANGED <<options, timer_info, out, code>>
  BY DEF SkipGrid, Deciding
<1>2. PICK cum, r0 : CumOK(cum) /\ RowsOK(cum, r0)
  BY <1>1 DEF RInv, Running
<1> DEFINE c == cum[gi - 1]
           whole == GroupReport(g)
<1>3. /\ g \in Group /\ g.grid /\ g.fake \in Bench /\ candidate = g.fake /\ benches = g.benches
      /\ out = c /\ c \in Seq(Line)
  BY <1>1, <1>2, GridFacts
<1>4. benches[1] \in machine.supported => ~Wanted(g.fake)
  BY <1>1, <1>3, PredDecides DEF IInv
<1>5. whole = <<>>
  BY <1>3, <1>4 DEF GroupReport
<1> HIDE DEF g, c, whole
<1>6. out' = c \o whole
  BY <1>1, <1>3, <1>5, ConcatEmptySeq
<1> QED BY <1>1, <1>2, <1>6, PastGroup DEF g, c, whole

-----------------------------------------------------------------------------

LEMMA NextRInv ==
  ASSUME MatchersRight, IInv, RInv, [Next]_vars
  PROVE  RInv'
<1>1. CASE Next /\ pc \notin Running \union {"exited"}
  BY <1>1, EarlyReports, InitTimerReports
<1>2. CASE Next /\ pc \in Running
  <2>1. NextGroup \/ EndRun \/ SkipBench \/ RunBench \/ PredThrows \/ FinishGroup
        \/ RunGrid \/ SkipGrid
    BY <1>2 DEF Running, Next, ParseCLI, RunListTimers, RunListBenches, RunClockOverhead,
       RunDumpTimer, RunBenches, CreateList, ListTimers, ListBenches, PinToThread, GetForTimer,
       ListEvents, InitTimer
  <2> QED BY <2>1, NextGroupReports, EndRunReports, SkipBenchReports, RunBenchReports,
         PredThrowsReports, FinishGroupReports, RunGridReports, SkipGridReports
<1>3. CASE Next /\ pc = "exited"
  BY <1>3 DEF Next, ParseCLI, RunListTimers, RunListBenches, RunClockOverhead,
     RunDumpTimer, RunBenches, CreateList, ListTimers, ListBenches, PinToThread, GetForTimer,
     ListEvents, InitTimer, NextGroup, EndRun, SkipBench, RunBench, PredThrows, FinishGroup,
     RunGrid, SkipGrid, Looking, Deciding
<1>4. CASE UNCHANGED vars
  <2>1. /\ UNCHANGED <<options, machine, args, pc, timer_info, gi, bi, header, out, code>>
    BY <1>4 DEF vars, options
  <2>2. CodeOK' /\ (pc' = "exited" => ReportInOrder')
    BY <2>1, SameReport DEF RInv, CodeOK, ReportInOrder
  <2>3. CASE pc \in Running
    <3>1. PICK cum, rows : CumOK(cum) /\ RowsOK(cum, rows)
      BY <2>3 DEF RInv
    <3>2. groups' = groups /\ GroupReports(timer_info)' = GroupReports(timer_info)
          /\ \A g : WantedRows(g)' = WantedRows(g)
      BY <2>1, <2>3, LoopSame
    <3>3. CumOK(cum)'
      BY <2>1, <3>1, <3>2 DEF CumOK, grid
    <3>4. RowsOK(cum, rows)'
      <4>1. WantedRows(groups[gi])' = WantedRows(groups[gi])
        BY <2>1, <3>2
      <4>2. Shown(groups[gi], rows[bi - 1])' = Shown(groups[gi], rows[bi - 1])
        BY <2>1, <3>2 DEF Shown
      <4> QED BY <2>1, <3>1, <3>2, <4>1, <4>2 DEF RowsOK, grid, benches
    <3> QED BY <2>2, <3>3, <3>4 DEF RInv
  <2>4. CASE pc \notin Running
    BY <2>1, <2>2, <2>4 DEF RInv, Running
  <2> QED BY <2>3, <2>4
<1> QED BY <1>1, <1>2, <1>3, <1>4

(* If the matchers decide as the patterns say, then what the loops of      *)
(* context.cpp:97-102, benchmark-group.cpp:15-31 and                       *)
(* loadstore-benches.cpp:73-107 print is at every moment a beginning of    *)
(* the report that the arguments call for, and all of it when the run      *)
(* succeeds, whatever the groups, their benchmarks and the patterns.       *)
THEOREM ReportAlwaysInOrder ==
  ASSUME MatchersRight
  PROVE  Spec => []ReportInOrder
<1>1. Init => RInv
  BY DEF Init, RInv, CodeOK, Running
<1>2. IInv /\ RInv /\ [Next]_vars => RInv'
  BY NextRInv
<1>3. IInv /\ RInv => ReportInOrder
  BY RInvReports
<1> QED BY <1>1, <1>2, <1>3, IInvInvariant, PTL DEF Spec

-----------------------------------------------------------------------------
(* The types of the variables: what IInv says of them, and the two below.  *)

OutOK == out \in Seq(Line)

RestOK ==
  /\ args.parse \in Parse /\ args.timer \in Timer \union {Unknown, None}
  /\ pinned \in CPU \union {None} /\ timer_info \in Timer \union {None}
  /\ inited \in SUBSET Timer /\ header \in BOOLEAN
  /\ code \in {None, EXIT_SUCCESS, EXIT_FAILURE}

LEMMA ListingTypes ==
  ASSUME NEW t \in Timer
  PROVE  Listing(t) \in Seq(Line)
<1>1. /\ DOMAIN Groups[t] = 1..Len(Groups[t]) /\ Len(Groups[t]) \in Nat
      /\ \A n \in 1..Len(Groups[t]) :
           /\ Groups[t][n] \in Group
           /\ Groups[t][n].grid => Len(Groups[t][n].benches) >= 2
  BY ConstantsAssumption
<1>2. ASSUME NEW g \in Group, g.grid => Len(g.benches) >= 2
      PROVE  printBenches(g) \in Seq(Line)
  <2> DEFINE shown == IF g.grid THEN <<g.benches[1], g.benches[2], Last(g.benches)>> ELSE g.benches
  <2>1. shown \in Seq(Bench)
    <3>1. g.benches \in Seq(Bench) /\ Len(g.benches) \in Nat
      BY DEF Group
    <3>2. CASE g.grid
      <4>1. g.benches[1] \in Bench /\ g.benches[2] \in Bench /\ Last(g.benches) \in Bench
        BY <1>2, <3>1, <3>2 DEF Last
      <4> QED BY <3>2, <4>1
    <3> QED BY <3>1, <3>2
  <2>2. printBenches(g) = [n \in DOMAIN shown |-> [kind |-> "bench", what |-> shown[n]]]
    BY DEF printBenches
  <2> HIDE DEF shown
  <2>3. \A b \in Bench : [kind |-> "bench", what |-> b] \in Line
    BY DEF Line
  <2>4. DOMAIN shown = 1..Len(shown) /\ Len(shown) \in Nat
        /\ \A n \in 1..Len(shown) : shown[n] \in Bench
    BY <2>1
  <2> DEFINE p == printBenches(g)
  <2>5. p \in [1..Len(shown) -> Line]
    BY <2>2, <2>3, <2>4
  <2> HIDE DEF p
  <2>6. p \in Seq(Line)
    BY <2>4, <2>5
  <2> QED BY <2>6 DEF p
<1> DEFINE s == [n \in 1..Len(Groups[t]) |-> printBenches(Groups[t][n])]
           N == Len(Groups[t])
<1>3. Listing(t) = FlattenSeq(s) /\ N \in Nat
  BY <1>1 DEF Listing
<1>4. \A n \in 1..N : printBenches(Groups[t][n]) \in Seq(Line)
  BY <1>1, <1>2
<1>5. s \in [1..N -> Seq(Line)]
  BY <1>4
<1> HIDE DEF s, N
<1>6. s \in Seq(Seq(Line))
  BY <1>3, <1>5
<1>7. FlattenSeq(s) \in Seq(Line)
  BY <1>6, SumsExist, FlattenIsSum
<1> QED BY <1>3, <1>7

LEMMA SayTypes ==
  ASSUME OutOK, NEW l \in Line
  PROVE  Append(out, l) \in Seq(Line)
BY DEF OutOK

LEMMA LineTypes ==
  /\ [kind |-> "overheads", what |-> None] \in Line
  /\ RestOK => [kind |-> "name", what |-> getTimerName] \in Line
  /\ \A t \in Timer : /\ [kind |-> "events", what |-> t] \in Line
                     /\ [kind |-> "timer", what |-> t] \in Line
<1>1. [kind |-> "overheads", what |-> None] \in Line
  BY DEF Line
<1>2. ASSUME RestOK PROVE [kind |-> "name", what |-> getTimerName] \in Line
  <2>1. getTimerName \in Timer \union {Unknown}
    <3>1. "clock" \in Timer
      BY ConstantsAssumption DEF Timer, ToSet
    <3> QED BY <1>2, <3>1 DEF RestOK, getTimerName
  <2> HIDE DEF getTimerName
  <2> QED BY <2>1 DEF Line
<1>3. \A t \in Timer : [kind |-> "events", what |-> t] \in Line
  BY DEF Line
<1>4. \A t \in Timer : [kind |-> "timer", what |-> t] \in Line
  BY DEF Line
<1> QED BY <1>1, <1>2, <1>3, <1>4

LEMMA TypedOut ==
  ASSUME IInv, OutOK, RestOK, [Next]_vars
  PROVE  OutOK'
<1>1. CASE UNCHANGED out
  BY <1>1 DEF OutOK
<1>2. CASE RunClockOverhead \/ RunDumpTimer \/ ListEvents
  <2>1. PICK l \in Line : out' = Append(out, l) \/ out' = out
    <3>1. ListEvents => timer_info \in Timer
      BY TimerStage DEF ListEvents
    <3> QED BY <1>2, <3>1, LineTypes DEF RunClockOverhead, RunDumpTimer, ListEvents, Say
  <2> QED BY <2>1, SayTypes DEF OutOK
<1>3. CASE ListTimers
  <2> DEFINE s == [n \in 1..Len(Timers) |-> [kind |-> "timer", what |-> Timers[n]]]
             N == Len(Timers)
  <2>1. out' = s /\ N \in Nat
    BY <1>3 DEF ListTimers, IInv, ListOK
  <2>2. \A n \in 1..N : Timers[n] \in Timer
    BY <2>1 DEF IInv, ListOK, Timer, ToSet
  <2>3. \A n \in 1..N : [kind |-> "timer", what |-> Timers[n]] \in Line
    BY <2>2, LineTypes
  <2>4. s \in [1..N -> Line]
    BY <2>3
  <2> HIDE DEF s, N
  <2>5. s \in Seq(Line)
    BY <2>1, <2>4
  <2> QED BY <2>1, <2>5 DEF OutOK
<1>4. CASE ListBenches
  BY <1>1, <1>4, ListingTypes DEF ListBenches, OutOK
<1>5. CASE RunBench \/ FinishGroup \/ RunGrid
  <2>1. pc = "group"
    BY <1>5 DEF RunBench, FinishGroup, RunGrid, Looking, Deciding
  <2>2. gi \in 1..Len(groups) /\ groups[gi] \in Group
    BY <2>1, RunningFacts DEF Running
  <2>3. \A kind \in {"group", "grid", "finished"} : GroupLine(kind) \in Line
    <3>1. groups[gi].id \in STRING
      BY <2>2 DEF Group
    <3> QED BY <3>1 DEF GroupLine, Line
  <2>4. \A kind \in {"group", "grid", "finished"} : Append(out, GroupLine(kind)) \in Seq(Line)
    BY <2>3, SayTypes
  <2>5. CASE RunBench
    <3>1. Row(benches[bi]) \in Line
      <4>1. bi \in 1..Len(benches)
        BY <2>2, <2>5 DEF RunBench, Looking, Deciding, IInv, BadNameOK, Group, benches
      <4>2. benches \in Seq(Bench)
        BY <2>2 DEF Group, benches
      <4>3. benches[bi] \in Bench
        BY <4>1, <4>2
      <4> QED BY <4>3 DEF Row, Line
    <3> DEFINE a == IF header THEN out ELSE Append(out, GroupLine("group"))
               w == <<Row(benches[bi])>>
    <3>2. a \in Seq(Line)
      BY <2>4 DEF OutOK
    <3>3. w \in Seq(Line)
      <4> DEFINE l == Row(benches[bi])
      <4> HIDE DEF l
      <4> QED BY <3>1 DEF l
    <3>4. out' = a \o w
      BY <2>5 DEF RunBench
    <3> HIDE DEF a, w
    <3> QED BY <3>2, <3>3, <3>4, ConcatProperties DEF OutOK
  <2>6. CASE FinishGroup
    BY <2>4, <2>6 DEF FinishGroup, OutOK
  <2>7. CASE RunGrid
    <3> DEFINE a == Append(out, GroupLine("grid"))
               w == GridRows(groups[gi])
    <3>1. a \in Seq(Line) /\ w \in Seq(Line)
      BY <2>2, <2>4, GroupTypes
    <3>2. out' = a \o w
      BY <2>7 DEF RunGrid
    <3> HIDE DEF a, w
    <3> QED BY <3>1, <3>2, ConcatProperties DEF OutOK
  <2> QED BY <1>5, <2>5, <2>6, <2>7
<1>6. UNCHANGED out \/ RunClockOverhead \/ RunDumpTimer \/ ListEvents \/ ListTimers \/ ListBenches
      \/ RunBench \/ FinishGroup \/ RunGrid
  BY DEF Next, ParseCLI, RunListTimers, RunListBenches, RunBenches, CreateList, PinToThread,
     GetForTimer, InitTimer, NextGroup, EndRun, SkipBench, PredThrows, SkipGrid, vars
<1> QED BY <1>1, <1>2, <1>3, <1>4, <1>5, <1>6

LEMMA TypedRest ==
  ASSUME IInv, RestOK, [Next]_vars
  PROVE  RestOK'
<1>1. machine.online \subseteq CPU
  BY MachineFacts DEF IInv
<1>2. CASE PinToThread
  BY <1>1, <1>2 DEF PinToThread, RestOK, Exit, options
<1>3. CASE GetForTimer
  BY <1>3 DEF GetForTimer, RestOK, Exit, options
<1>4. CASE InitTimer
  <2>1. timer_info \in Timer
    BY <1>4, TimerStage DEF InitTimer
  <2> QED BY <1>4, <2>1 DEF InitTimer, RestOK, Exit, options
<1>5. CASE NextGroup \/ RunBench
  BY <1>5 DEF NextGroup, RunBench, RestOK, options
<1>6. CASE /\ UNCHANGED <<options, pinned, timer_info, inited, header>>
           /\ code' = code \/ code' \in {EXIT_SUCCESS, EXIT_FAILURE}
  BY <1>6 DEF RestOK, options
<1>7. CASE ParseCLI \/ RunListTimers \/ RunListBenches \/ RunClockOverhead \/ RunDumpTimer
           \/ RunBenches
  BY <1>6, <1>7 DEF ParseCLI, RunListTimers, RunListBenches, RunClockOverhead, RunDumpTimer,
     RunBenches, Exit
<1>8. CASE CreateList \/ ListTimers \/ ListBenches \/ ListEvents \/ EndRun \/ UNCHANGED vars
  BY <1>6, <1>8 DEF CreateList, ListTimers, ListBenches, ListEvents, EndRun, Exit, vars, options
<1>9. CASE SkipBench \/ PredThrows \/ FinishGroup \/ RunGrid \/ SkipGrid
  BY <1>6, <1>9 DEF SkipBench, PredThrows, FinishGroup, RunGrid, SkipGrid, Exit
<1> QED BY <1>2, <1>3, <1>4, <1>5, <1>7, <1>8, <1>9 DEF Next

(* The variables of the process keep their types; every line that is       *)
(* printed, by a listing (context.cpp:138-165) or by a run, names a timer, *)
(* a benchmark or a group that there is.                                   *)
THEOREM ProcessTypeCorrect == Spec => []TypeOK
<1>1. Init => OutOK /\ RestOK
  <2>1. <<>> \in Seq(Line)
    OBVIOUS
  <2> QED BY <2>1 DEF Init, OutOK, RestOK
<1>2. IInv /\ (OutOK /\ RestOK) /\ [Next]_vars => (OutOK /\ RestOK)'
  BY TypedOut, TypedRest
<1>3. IInv /\ (OutOK /\ RestOK) => TypeOK
  <2> SUFFICES ASSUME IInv, OutOK, RestOK PROVE TypeOK
    OBVIOUS
  <2>1. \A n \in DOMAIN out : out[n] \in Line
    BY DEF OutOK
  <2>2. /\ all \in 0..Len(Timers) /\ gi \in Nat \ {0} /\ bi \in Nat \ {0}
        /\ pc \in {"parse", "run", "create", "listtimers", "list", "pin", "lookup",
                   "timer", "groups", "group", "exited"}
    BY DEF IInv, ListOK, BadNameOK, StageOK, Running
  <2> QED BY <2>1, <2>2 DEF TypeOK, RestOK, IInv, ArgsOK
<1> QED BY <1>1, <1>2, <1>3, IInvInvariant, PTL DEF Spec
=============================================================================
