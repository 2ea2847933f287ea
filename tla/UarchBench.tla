----------------------------- MODULE UarchBench -----------------------------
(***************************************************************************)
(* One run of the uarch-bench process: main, the parsing of the arguments  *)
(* in Context's constructor, Context::run and the loops over the timers,   *)
(* the groups and the benchmarks that it drives.                           *)
(*                                                                         *)
(* A benchmark is a value; what it measures is in DeltaBench and           *)
(* OneshotBench.  Matchers says which benchmarks a pattern of the user     *)
(* matches.  The machine (which processors are online, which features it   *)
(* has, which timers fail, how the program was built) is chosen once, in   *)
(* Init, so every run has one right outcome and the properties say which.  *)
(***************************************************************************)
EXTENDS Matchers

CONSTANTS
  Bench,         \* all benchmarks
  Timers,        \* the names of the compiled-in timers, in the order of getAll
  Unknown,       \* a name no timer has
  Groups,        \* per timer, the groups its make_benches registers, in order
  CPU,           \* the processors, a set of numbers
  None,          \* an option that is not given
  Path, Tags,    \* per benchmark, its path and the list of its tags
  NamePatterns,  \* what --test-name may be
  TagPatterns,   \* what --test-tag may be
  FlagSets,      \* the combinations of flags considered
  Machines       \* the machines considered

Timer == ToSet(Timers)

Flag == {"list-timers", "list", "clock-overhead", "internal-dump-timer", "list-events"}

Machine ==
  [regex : BOOLEAN,            \* whether the build has std::regex
   online : SUBSET CPU,        \* the processors that can be pinned to
   affinity : SUBSET CPU,      \* the affinity mask the process starts with
   supported : SUBSET Bench,   \* the benchmarks whose features the CPU has
   clash : SUBSET Timer,       \* timers whose registration repeats an ID
   init_fails : SUBSET Timer,  \* timers whose init throws
   list_fails : SUBSET Timer]  \* timers whose listEvents throws

(* A grid is a LoadStoreGroup, and fake the benchmark its runIf makes up.  *)
Group == [id : STRING, benches : Seq(Bench), grid : BOOLEAN, fake : Bench]

(* The clock timer is in every build, and the first one (context.cpp:112). *)
ASSUME ConstantsAssumption ==
  /\ Unknown \notin Timer
  /\ None \notin Nat
  /\ Len(Timers) > 0 /\ Timers[1] = "clock"
  /\ CPU \subseteq Nat
  /\ \A t \in Timer : Groups[t] \in Seq(Group)
  /\ \A t \in Timer : \A n \in DOMAIN Groups[t] :
       LET g == Groups[t][n] IN g.grid => Len(g.benches) >= 2 /\ Tags[g.fake] = <<>>
  /\ \A t \in Timer : \E n \in DOMAIN Groups[t] : ~Groups[t][n].grid /\ Groups[t][n].benches # <<>>
  /\ \A p \in NamePatterns : Len(p) \in Nat /\ DOMAIN p = 1..Len(p)
  /\ FlagSets \subseteq SUBSET Flag
  /\ \A m \in Machines :
       /\ m \in Machine
       /\ m.affinity # {}
       /\ m.affinity \subseteq m.online

(* No comparison of a tag throws but with a pattern that needs std::regex. *)
ASSUME TagAssumption ==
  \A regex \in BOOLEAN, b \in Bench, list \in TagPatterns \union {<<"default">>} :
    TagMatch(regex, list, Tags[b]) = "throws" => ~regex /\ NeedsRegex(list)

VARIABLES
  machine,     \* where the process runs
  args,        \* the parsed command line
  pc,          \* what the process does next
  all,         \* TimeredList::all_: how many timers have been created
  pinned,      \* the processor the thread is pinned to
  timer_info,  \* Context::timer_info_; None while it is uninitialised
  inited,      \* the timers whose init has returned
  gi,          \* the position in the groups of the timer
  bi,          \* the position in the benchmarks of the group
  header,      \* BenchmarkGroup::runIf's local of this name
  out,         \* the lines of the report
  code         \* the exit status, None while the process runs

options == <<machine, args>>
vars == <<machine, args, pc, all, pinned, timer_info, inited, gi, bi, header, out, code>>

EXIT_SUCCESS == 0
EXIT_FAILURE == 1

Parse == {"ok", "help", "error"}

Line == [kind : {"timer", "bench", "overheads", "name", "events", "group", "grid",
                 "result", "skipped", "finished"},
         what : Timer \union Bench \union STRING \union {Unknown, None}]

TypeOK ==
  /\ machine \in Machines
  /\ args.parse \in Parse
  /\ args.flags \in FlagSets
  /\ args.timer \in Timer \union {Unknown, None}
  /\ args.pincpu \in CPU \union {None}
  /\ args.test_name \in NamePatterns \union {None}
  /\ args.test_tag \in TagPatterns \union {None}
  /\ pc \in {"parse", "run", "create", "listtimers", "list", "pin", "lookup",
             "timer", "groups", "group", "exited"}
  /\ all \in 0..Len(Timers)
  /\ pinned \in CPU \union {None}
  /\ timer_info \in Timer \union {None}
  /\ inited \in SUBSET Timer
  /\ gi \in Nat \ {0}
  /\ bi \in Nat \ {0}
  /\ header \in BOOLEAN
  /\ \A n \in DOMAIN out : out[n] \in Line
  /\ code \in {None, EXIT_SUCCESS, EXIT_FAILURE}

-----------------------------------------------------------------------------
(* Helpers. *)

(* Context::getTimerName. *)
getTimerName == IF args.timer = None THEN "clock" ELSE args.timer

(* getFirstAvailableCpu: the first bit of the affinity mask. *)
getFirstAvailableCpu ==
  CHOOSE cpu \in machine.affinity : \A other \in machine.affinity : cpu <= other

(* The predicate of Context::run.  pred_and looks at the tags only if the  *)
(* name matches.                                                           *)
pred(b) ==
  LET by_name == IF args.test_name = None THEN "yes"
                 ELSE wildcard_match(machine.regex, Path[b], args.test_name)
      by_tag == IF args.test_tag # None THEN TagMatch(machine.regex, args.test_tag, Tags[b])
                ELSE IF args.test_name # None THEN "yes"
                ELSE TagMatch(machine.regex, <<"default">>, Tags[b])
  IN IF by_name = "yes" THEN by_tag ELSE by_name

groups == Groups[timer_info]
benches == groups[gi].benches

Say(kind, what) == out' = Append(out, [kind |-> kind, what |-> what])

(* main: the process ends with status c. *)
Exit(c) == pc' = "exited" /\ code' = c

-----------------------------------------------------------------------------
(* Initial states and actions. *)

Init ==
  /\ machine \in Machines
  /\ args \in [parse : Parse, flags : FlagSets, timer : Timer \union {Unknown, None},
               pincpu : CPU \union {None}, test_name : NamePatterns \union {None},
               test_tag : TagPatterns \union {None}]
  /\ pc = "parse" /\ all = 0 /\ pinned = None /\ timer_info = None /\ inited = {}
  /\ gi = 1 /\ bi = 1 /\ header = FALSE /\ out = <<>> /\ code = None

(* Context's constructor: help is a silent success, an error a failure. *)
ParseCLI ==
  /\ pc = "parse"
  /\ \/ args.parse = "help" /\ Exit(EXIT_SUCCESS)
     \/ args.parse = "error" /\ Exit(EXIT_FAILURE)
     \/ args.parse = "ok" /\ pc' = "run" /\ UNCHANGED code
  /\ UNCHANGED <<options, all, pinned, timer_info, inited, gi, bi, header, out>>

(* Context::run: the flags are tested in this order.  The handlers called  *)
(* first, TIMER::customRunHandler, are empty for every timer.              *)
RunListTimers ==
  /\ pc = "run" /\ "list-timers" \in args.flags
  /\ pc' = "listtimers"
  /\ UNCHANGED <<options, all, pinned, timer_info, inited, gi, bi, header, out, code>>

RunListBenches ==
  /\ pc = "run" /\ "list-timers" \notin args.flags /\ "list" \in args.flags
  /\ pc' = "list"
  /\ UNCHANGED <<options, all, pinned, timer_info, inited, gi, bi, header, out, code>>

RunClockOverhead ==
  /\ pc = "run" /\ args.flags \cap {"list-timers", "list"} = {}
  /\ "clock-overhead" \in args.flags
  /\ Say("overheads", None)
  /\ Exit(EXIT_SUCCESS)
  /\ UNCHANGED <<options, all, pinned, timer_info, inited, gi, bi, header>>

(* The name is printed whether or not a timer has it. *)
RunDumpTimer ==
  /\ pc = "run" /\ args.flags \cap {"list-timers", "list", "clock-overhead"} = {}
  /\ "internal-dump-timer" \in args.flags
  /\ Say("name", getTimerName)
  /\ Exit(EXIT_SUCCESS)
  /\ UNCHANGED <<options, all, pinned, timer_info, inited, gi, bi, header>>

(* A run that looks for the timer before it pins the thread. *)
Mut_RunBenches_Unpinned ==
  /\ pc = "run" /\ args.flags \subseteq {"list-events"}
  /\ pc' = "lookup"
  /\ UNCHANGED <<options, all, pinned, timer_info, inited, gi, bi, header, out, code>>

RunBenches ==
  /\ pc = "run" /\ args.flags \subseteq {"list-events"}
  /\ pc' = "pin"
  /\ UNCHANGED <<options, all, pinned, timer_info, inited, gi, bi, header, out, code>>

(* TimeredList::getAll, on its first call: one timer and its benchmarks.   *)
(* BenchmarkGroup::add throws on a repeated ID.                            *)
CreateList ==
  /\ pc \in {"listtimers", "list", "lookup"} /\ all < Len(Timers)
  /\ IF Timers[all + 1] \in machine.clash
     THEN Exit(EXIT_FAILURE) /\ UNCHANGED all
     ELSE all' = all + 1 /\ UNCHANGED <<pc, code>>
  /\ UNCHANGED <<options, pinned, timer_info, inited, gi, bi, header, out>>

ListTimers ==
  /\ pc = "listtimers" /\ all = Len(Timers)
  /\ out' = [n \in 1..Len(Timers) |-> [kind |-> "timer", what |-> Timers[n]]]
  /\ Exit(EXIT_SUCCESS)
  /\ UNCHANGED <<options, all, pinned, timer_info, inited, gi, bi, header>>

(* listBenches: printBenches of every group of the timer; a grid shows its *)
(* first two benchmarks and its last one.                                  *)
printBenches(g) ==
  LET shown == IF g.grid THEN <<g.benches[1], g.benches[2], Last(g.benches)>> ELSE g.benches
  IN [n \in DOMAIN shown |-> [kind |-> "bench", what |-> shown[n]]]

Listing(t) == FlattenSeq([n \in DOMAIN Groups[t] |-> printBenches(Groups[t][n])])

ListBenches ==
  /\ pc = "list" /\ all = Len(Timers)
  /\ IF getTimerName \in Timer
     THEN out' = Listing(getTimerName) /\ Exit(EXIT_SUCCESS)
     ELSE Exit(EXIT_FAILURE) /\ UNCHANGED out
  /\ UNCHANGED <<options, all, pinned, timer_info, inited, gi, bi, header>>

PinToThread ==
  LET cpu == IF args.pincpu = None THEN getFirstAvailableCpu ELSE args.pincpu
  IN /\ pc = "pin"
     /\ IF cpu \in machine.online
        THEN pinned' = cpu /\ pc' = "lookup" /\ UNCHANGED code
        ELSE Exit(EXIT_FAILURE) /\ UNCHANGED pinned
     /\ UNCHANGED <<options, all, timer_info, inited, gi, bi, header, out>>

(* A lookup that falls through its loop. *)
Mut_GetForTimer_FallThrough ==
  /\ pc = "lookup" /\ all = Len(Timers)
  /\ timer_info' = getTimerName /\ pc' = "timer"
  /\ UNCHANGED <<options, all, pinned, inited, gi, bi, header, out, code>>

(* getForTimer throws a UsageError when no timer has the name. *)
GetForTimer ==
  /\ pc = "lookup" /\ all = Len(Timers)
  /\ IF getTimerName \in Timer
     THEN timer_info' = getTimerName /\ pc' = "timer" /\ UNCHANGED code
     ELSE Exit(EXIT_FAILURE) /\ UNCHANGED timer_info
  /\ UNCHANGED <<options, all, pinned, inited, gi, bi, header, out>>

ListEvents ==
  /\ pc = "timer" /\ "list-events" \in args.flags
  /\ IF timer_info \in machine.list_fails
     THEN Exit(EXIT_FAILURE) /\ UNCHANGED out
     ELSE Say("events", timer_info) /\ Exit(EXIT_SUCCESS)
  /\ UNCHANGED <<options, all, pinned, timer_info, inited, gi, bi, header>>

(* A failing init that does not end the run. *)
Mut_InitTimer_Ignore ==
  /\ pc = "timer" /\ "list-events" \notin args.flags
  /\ inited' = inited \union ({timer_info} \ machine.init_fails)
  /\ pc' = "groups"
  /\ UNCHANGED <<options, all, pinned, timer_info, gi, bi, header, out, code>>

InitTimer ==
  /\ pc = "timer" /\ "list-events" \notin args.flags
  /\ IF timer_info \in machine.init_fails
     THEN Exit(EXIT_FAILURE) /\ UNCHANGED inited
     ELSE inited' = inited \union {timer_info} /\ pc' = "groups" /\ UNCHANGED code
  /\ UNCHANGED <<options, all, pinned, timer_info, gi, bi, header, out>>

(* TimeredList::runIf: the next group, and the end of the run after the    *)
(* last one.                                                               *)
NextGroup ==
  /\ pc = "groups" /\ gi <= Len(groups)
  /\ pc' = "group" /\ bi' = 1 /\ header' = FALSE
  /\ UNCHANGED <<options, all, pinned, timer_info, inited, gi, out, code>>

EndRun ==
  /\ pc = "groups" /\ gi > Len(groups)
  /\ Exit(EXIT_SUCCESS)
  /\ UNCHANGED <<options, all, pinned, timer_info, inited, gi, bi, header, out>>

(* The benchmark the predicate is called with, and when it is.  A grid     *)
(* without CPU support is passed over before.                              *)
grid == groups[gi].grid
candidate == IF grid THEN groups[gi].fake ELSE benches[bi]
Deciding == /\ pc = "group"
            /\ IF grid THEN benches[1] \in machine.supported ELSE bi <= Len(benches)

(* BenchmarkGroup::runIf: the loop over the benchmarks of a group. *)
Looking == Deciding /\ ~grid

SkipBench ==
  /\ Looking /\ pred(candidate) = "no"
  /\ bi' = bi + 1
  /\ UNCHANGED <<options, pc, all, pinned, timer_info, inited, gi, header, out, code>>

(* BenchmarkBase::runAndPrint: a benchmark the CPU lacks a feature for is  *)
(* skipped, another one is measured.                                       *)
Row(b) == [kind |-> IF b \in machine.supported THEN "result" ELSE "skipped", what |-> b]

GroupLine(kind) == [kind |-> kind, what |-> groups[gi].id]

(* A loop that forgets that it printed the header. *)
Mut_RunBench_HeaderAgain ==
  /\ Looking /\ pred(candidate) = "yes"
  /\ out' = out \o <<GroupLine("group"), Row(benches[bi])>>
  /\ header' = TRUE
  /\ bi' = bi + 1
  /\ UNCHANGED <<options, pc, all, pinned, timer_info, inited, gi, code>>

RunBench ==
  /\ Looking /\ pred(candidate) = "yes"
  /\ out' = (IF header THEN out ELSE Append(out, GroupLine("group"))) \o <<Row(benches[bi])>>
  /\ header' = TRUE
  /\ bi' = bi + 1
  /\ UNCHANGED <<options, pc, all, pinned, timer_info, inited, gi, code>>

(* The predicate throws, with the rows before it printed. *)
PredThrows ==
  /\ Deciding /\ pred(candidate) = "throws"
  /\ Exit(EXIT_FAILURE)
  /\ UNCHANGED <<options, all, pinned, timer_info, inited, gi, bi, header, out>>

(* A group that does not move on to the next one. *)
Mut_FinishGroup_Again ==
  /\ pc = "group" /\ ~grid /\ bi > Len(benches)
  /\ out' = out
  /\ gi' = gi /\ pc' = "groups"
  /\ UNCHANGED <<options, all, pinned, timer_info, inited, bi, header, code>>

FinishGroup ==
  /\ pc = "group" /\ ~grid /\ bi > Len(benches)
  /\ out' = IF header THEN Append(out, GroupLine("finished")) ELSE out
  /\ gi' = gi + 1 /\ pc' = "groups"
  /\ UNCHANGED <<options, all, pinned, timer_info, inited, bi, header, code>>

GridRows(g) == [n \in DOMAIN g.benches |-> [kind |-> "result", what |-> g.benches[n]]]

(* LoadStoreGroup::runIf: the predicate decides on a benchmark made up for *)
(* the whole group, all of which is measured and shown in one grid.        *)
RunGrid ==
  /\ Deciding /\ grid /\ pred(candidate) = "yes"
  /\ out' = Append(out, GroupLine("grid")) \o GridRows(groups[gi])
  /\ gi' = gi + 1 /\ pc' = "groups"
  /\ UNCHANGED <<options, all, pinned, timer_info, inited, bi, header, code>>

SkipGrid ==
  /\ pc = "group" /\ grid /\ (Deciding => pred(candidate) = "no")
  /\ gi' = gi + 1 /\ pc' = "groups"
  /\ UNCHANGED <<options, all, pinned, timer_info, inited, bi, header, out, code>>

Next ==
  \/ ParseCLI
  \/ RunListTimers \/ RunListBenches \/ RunClockOverhead \/ RunDumpTimer \/ RunBenches
  \/ CreateList \/ ListTimers \/ ListBenches
  \/ PinToThread \/ GetForTimer \/ ListEvents \/ InitTimer
  \/ NextGroup \/ EndRun
  \/ SkipBench \/ RunBench \/ PredThrows \/ FinishGroup \/ RunGrid \/ SkipGrid

Spec == Init /\ [][Next]_vars

(* The process runs until it exits; nothing in it waits. *)
FairSpec == Spec /\ WF_vars(Next)

-----------------------------------------------------------------------------
(* Properties. *)

(* The benchmarks the arguments ask for ("Run only tests with name         *)
(* matching the given pattern", "a tag matching the given pattern",        *)
(* context.hpp:90-91); those with the tag default if they do not say.      *)
(* (The comment of context.cpp:227 has tag=* as the default instead, which *)
(* would be every benchmark with a tag; the code looks for the tag that    *)
(* the makers of default-benches.cpp:75 and mem-benches.cpp:195 set, and   *)
(* so does this property.)                                                 *)
Wanted(b) ==
  IF args.test_name = None /\ args.test_tag = None
  THEN \E n \in DOMAIN Tags[b] : Tags[b][n] = <<"default">>
  ELSE /\ args.test_name # None => Glob(Path[b], args.test_name)
       /\ args.test_tag # None => TagsWanted(args.test_tag, Tags[b])

(* The matchers answer what the patterns mean, if they answer: the         *)
(* hypothesis under which the report is right for all constants.           *)
MatchersRight ==
  /\ \A regex \in BOOLEAN, b \in Bench, pattern \in NamePatterns :
       wildcard_match(regex, Path[b], pattern) \in {Of(Glob(Path[b], pattern)), "throws"}
  /\ \A regex \in BOOLEAN, b \in Bench, list \in TagPatterns :
       TagMatch(regex, list, Tags[b]) \in {Of(TagsWanted(list, Tags[b])), "throws"}
  /\ \A regex \in BOOLEAN, b \in Bench :
       TagMatch(regex, <<"default">>, Tags[b])
         \in {Of(\E n \in DOMAIN Tags[b] : Tags[b][n] = <<"default">>), "throws"}

(* What a run with the arguments and the machine of this behaviour should  *)
(* report: for each group of the timer, in order, the wanted benchmarks    *)
(* between a header and a footer, and nothing for a group without one; for *)
(* a grid, all of them or none.                                            *)
WantedRows(g) ==
  [n \in DOMAIN g.benches |-> IF Wanted(g.benches[n]) THEN <<Row(g.benches[n])>> ELSE <<>>]

GroupReport(g) ==
  LET rows == FlattenSeq(WantedRows(g))
  IN IF g.grid
     THEN IF Wanted(g.fake) /\ g.benches[1] \in machine.supported
          THEN <<[kind |-> "grid", what |-> g.id]>> \o GridRows(g)
          ELSE <<>>
     ELSE IF rows = <<>> THEN <<>>
     ELSE <<[kind |-> "group", what |-> g.id]>> \o rows \o <<[kind |-> "finished", what |-> g.id]>>

GroupReports(t) == [n \in DOMAIN Groups[t] |-> GroupReport(Groups[t][n])]

Report(t) == FlattenSeq(GroupReports(t))

Measuring == args.parse = "ok" /\ args.flags = {}

(* The predicates of context.cpp:225-240 and the loops of                  *)
(* benchmark-group.cpp:15-31, loadstore-benches.cpp:73-107 and             *)
(* context.cpp:97-102 print, at every moment, the beginning of the report  *)
(* the arguments call for, and the whole of it when the run succeeds: no   *)
(* group without its footer, no header without a row, no benchmark twice,  *)
(* out of order or that no pattern matches.                                *)
ReportInOrder ==
  Measuring /\ getTimerName \in Timer =>
    /\ IsPrefix(out, Report(getTimerName))
    /\ code = EXIT_SUCCESS => out = Report(getTimerName)

(* "pinning should happen early since some timers rely on it in their init *)
(* phase" (context.cpp:213), and timer_info_ is only initialised at        *)
(* context.cpp:217: a timer is initialised on the processor asked for, and *)
(* no row is printed before the timer of the rows is known and ready.      *)
MeasuresReady ==
  /\ inited # {} =>
       /\ pinned = IF args.pincpu = None THEN getFirstAvailableCpu ELSE args.pincpu
       /\ inited = {timer_info}
  /\ Measuring /\ (\E n \in DOMAIN out : out[n].kind \in {"result", "skipped"})
       => timer_info = getTimerName /\ timer_info \in inited

(* What main.cpp:46-62 should return: a failure exactly when the run could *)
(* not do what it was asked.  The wrapper script ends without restoring    *)
(* the machine on one, so a failure must be a real one.                    *)
Registered == machine.clash = {}
FailingTimers == IF "list-events" \in args.flags THEN machine.list_fails ELSE machine.init_fails
Succeeds ==
  IF args.parse # "ok" THEN args.parse = "help"
  ELSE IF "list-timers" \in args.flags THEN Registered
  ELSE IF "list" \in args.flags THEN Registered /\ getTimerName \in Timer
  ELSE IF args.flags \cap {"clock-overhead", "internal-dump-timer"} # {} THEN TRUE
  ELSE /\ args.pincpu \in machine.online \union {None}
       /\ Registered
       /\ getTimerName \in Timer
       /\ getTimerName \notin FailingTimers

(* A pattern that the build cannot match. *)
BadName == ~machine.regex /\ args.test_name # None /\ NeedsRegex(args.test_name)
BadTag == ~machine.regex /\ args.test_tag # None /\ NeedsRegex(args.test_tag)

(* A bad name fails a run that measures; a bad tag may find nothing to be  *)
(* compared with.                                                          *)
ExitStatusRight ==
  pc = "exited" =>
    \/ code = EXIT_SUCCESS /\ Succeeds /\ ~(Measuring /\ BadName)
    \/ code = EXIT_FAILURE /\ ~Succeeds
    \/ code = EXIT_FAILURE /\ Measuring /\ (BadName \/ BadTag)

(* Every run ends (main.cpp:46-62): the loops of the run move on. *)
Terminates == <>(pc = "exited")
=============================================================================
