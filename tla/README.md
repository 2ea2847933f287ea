# uarch-bench in TLA+

uarch-bench measures very short pieces of code.  A shell script prepares the
machine, a process picks benchmarks and a timer, a measuring loop calls a
kernel between two readings of the timer, and a little arithmetic turns the
readings into the numbers that are printed.  A wrong number looks like a right
one, so what is stated here is mostly of two kinds: *the number printed is the
number it is said to be*, and *the machine is left as it was found*.

1. [The system](#1-the-system)
2. [The modules](#2-the-modules)
3. [The runs](#3-the-runs)
4. [Bounds, fairness, deadlock](#4-bounds-fairness-deadlock)
5. [What is proved](#5-what-is-proved)
6. [Where code and text disagree](#6-where-code-and-text-disagree)
7. [What is not modelled](#7-what-is-not-modelled)
8. [Plan](#8-plan)

To repeat a check: `tlc -config script_overlap.cfg MCUarchBenchScript`, and so
on with the table of section 3; `tlapm DeltaBenchProofs.tla`.

## 1. The system

| part | source | state it keeps | operations | talks to |
|---|---|---|---|---|
| wrapper script | `uarch-bench.sh` | shell variables: the governor and the turbo state it found | one command after the other under `set -e` | sysfs, MSRs, the pfc kernel module, other runs of itself; starts the process |
| process and run loops | `main.cpp`, `context.*`, `benchmark-group.cpp`, `benchmark.cpp` | parsed options, `timer_info_`, the processor it is pinned to, the report | parse, list, pin, find and initialise a timer, run groups | timers, benchmarks; its exit status goes to the script |
| measuring loop | `benchmark.hpp` `time_one` | the sample, the first reading | warm up, read, call, read | a timer, a kernel |
| delta benchmarks | `benchmark.hpp` `DeltaMaker`, `BenchTemplate`, `DeltaAlgo` | a maker's options; base and bench samples; the argument of the kernel | configure, make, run two jobs, aggregate | the measuring loop twice |
| one-shot benchmarks | `oneshot.hpp`, `stats.hpp` | a maker's options; samples; a *static* overhead shared by all benchmarks of the process | configure, make, measure, calibrate or reuse, subtract, print with the median | the measuring loop |
| registrations and kernels | `*-benches*.cpp`, `cpp-bench-register.cpp`, `*.asm` | a loop counter, a position in memory | register (kernel, operations per loop, memory), run n loops, return | the makers; the storage; called by the measuring loop |
| clock timer | `timers.cpp`, `timers.hpp` | the frequency, measured once | calibrate, now, to_result | the wall clock; every row of this timer |
| perf timer | `perf-timer.*` | programmed events, file descriptors, column names | parse the list of events, init, now, delta, to_result | kernel, libpfm (jevents) |
| libpfc timer | `libpfc-timer.*`, `libpfm4-support.*` | events with counter slots, column names | parse, init, now, delta, to_result | libpfc, libpfm4 |
| patterns | `matchers.hpp`, `util.cpp` | none | split, wildcard match, tag match | the run loops, the perf timer |
| shared storage | `util.cpp`, `page-info.c` | storages allocated once and lent again and again; flush buffers | aligned, misaligned and 4k pointers, shuffled regions, flushing, a report on the pages | the allocator, madvise, /proc; every memory benchmark |
| the rest | see section 7 | | | |

What is hard about it, part by part (PROJECT.json has the list with lines):

* **Script.**  Two runs may overlap and nothing locks; a run may be killed, or
  end at any failing command, and no trap restores anything.  What makes it
  right: once all runs have ended and none died in debt, governor and turbo are
  the ones from before; nothing is scaled while a run measures unless another
  run interfered; what was changed is eventually changed back.
* **Process.**  Pinning, the lookup of the timer, its initialisation and the
  measuring have one right order; failures come from anywhere and the exit
  status must be a failure exactly when the request was not done, since the
  script leaves the machine changed after a failure.
* **Measuring.**  Interrupts come at any time; the first calls are cold.
  Aggregation and subtraction must give the time of the kernel anyway, or err
  in a known direction.  Options set on a maker must survive the chain of calls.
* **One-shot.**  One static calibration serves all benchmarks, whichever came
  first; differences may be negative in unsigned types.
* **Kernels.**  A kernel is written in assembly or C++, its registration somewhere
  else: the operations per loop, the way the counter steps, the size of the memory
  that is lent and the walk over it must fit, or a wrong number is printed.
* **Patterns.**  Negative patterns, empty ones, untagged benchmarks, and builds
  without `std::regex` in which a pattern can throw in the middle of a report.
* **Event timers.**  Events fail in the middle of a list and there are more
  events than counters.  Names are collected apart from the events, and rows by
  position: name and number must stay in step.  The clock timer has one number
  every row is multiplied with, taken from a processor that is not warm yet.
* **Storage.**  Storages are shared by all callers, with hand-made alignment
  arithmetic; a region's chain of pointers must be one cycle, and flushing must
  read every line also when an old larger buffer is reused.

## 2. The modules

```
SettingLease <-- UarchBenchScript <-- UarchBenchScriptProofs
                       ^-- MCUarchBenchScript
Matchers <-- UarchBench <-- UarchBenchProofs
   ^             ^-- MCUarchBench
   +------- PerfTimer <-- EventTimers <-- EventTimersProofs
                               ^-- MCEventTimers
MetricTable <-- PerfTimer, LibpfcTimer     (INSTANCE, implemented by both)
LibpfcTimer, ClockTimer <-- EventTimers    (INSTANCE, two of the three timers)
TimeOne <-- DeltaBench <-- DeltaBenchProofs (and TimeOneProofs)
   ^             ^-- MCDeltaBench
   +------- OneshotMaker <-- OneshotBench <-- OneshotBenchProofs (and TimeOneProofs)
                                  ^-- MCOneshotBench
AsmKernels <-- CppKernels <-- Registrations <-- Kernels <-- KernelsProofs
PageInfo <-- SharedStorage <-- SharedStorageProofs
                   ^-- MCSharedStorage
TimeOne <-- TimeOneProofs
```

Definitions have the names of the functions they model; PROJECT.json maps each
to its lines.  In the modules that give values to constants there is nothing
else.  An operator whose name starts with `Mut_` is a plausible mistake in the
definition below it; no specification uses it.

**UarchBenchScript.**  A run of the script is a process and its `pc` the next
command that touches the machine; a command is an action.  `Start` is
everything up to the first such command, the reading of the governor included,
so that the moment between reading (`Start`) and writing (`SetGovernor`) is
there for other runs to step into.  `Exit1` is `set -e`.  `Abort` lets any
command fail and any run be killed.  `disturbed` records the runs under
which another one handed back a setting they rely on, `reloaded` those under which
another one loaded or removed the kernel module between their look at it and their use
of it, and `lost` the settings, the MSRs among them, a run died without restoring.  The outcome of the vendor test, virtualisation, the
presence of intel_pstate and of the MSR tools are the `host`.

**SettingLease** is what the script promises about one setting: borrow, return,
or default.  The script is shown to implement it twice, for the governor and
for no_turbo, with `owed` mapped to the runs that still have something to put
back.

**UarchBench** is one run of the process from the command line to the exit
status.  `pc` follows `main` and `Context::run`; a thrown exception is the
action's other outcome.  The machine (online processors, supported benchmarks,
timers that fail, a repeated benchmark ID, a build without `std::regex`) is
chosen in `Init`, so each behaviour has one right report and one right status to be
compared with.  A group is a list or a grid (`LoadStoreGroup`); a grid is asked for
through one benchmark that it makes up, and shown whole.  `Report` is what the
arguments call for, group by group; `MatchersRight` says that the matchers answer what
the patterns mean if they answer at all, and TLC evaluates it for the patterns of
`bench_process`.

**Matchers** has the functions that choose: a pattern is compared as the code
compares it (a regular expression, or a literal with a star at its end), a list of
tags as `TagMatcher` does.  A string is a sequence of symbols, and a match can
throw.  What a pattern *means* is defined apart from that (`Glob`: something can be
put in the place of each star; `TagsWanted`), and the report is judged by it.

**TimeOne** is `time_one`, with `job` for its template parameters.  `clock` is
what `TIMER::now()` would return.  A call takes `Fixed + PerLoop * loop_count`,
the first `ColdCalls` of them `ColdCost` more, a pair of readings `Overhead`,
and `Disturb` may advance the clock between any two steps.  Time is only
bounded from below by what the kernel needs; this is all the code relies on.

**DeltaBench** adds the maker before it (`SetLoopCount`, `CopyMaker`,
`UseLoopDelta`, where the type of what a setter returns decides what is kept)
and, after it, `get_raw` and `handle_raw`: the argument is made, two jobs run,
the argument is freed, the minima are subtracted.

**OneshotMaker** executes the statements of a registration, one setter a step.
Each setter's result has the fields and the base that the code copies, and an
assignment takes what its type lets it take; `make` and `make_raw` then make a
benchmark of it.  `MeasuredAsAsked` compares what is made with what the statements
read in order ask for: `AsAsked` looks each option up where the statement set it last.  **OneshotBench** then runs the benchmarks after each other
over one static `overhead`.  The unsigned comparison of the perf timer is arithmetic
modulo `2^Bits`, chosen by `UnsignedAggr`.

**AsmKernels**, **CppKernels**, **Registrations**, **Kernels**.  A kernel is a
record of what its number depends on: how its loop counts, how many operations and
which bytes one pass has, how it walks.  Kernels that differ in instructions only
are one definition, with all its places in "map".  A registration is a kernel with
the operations per loop, the loop count and the memory it is given.  `Kernels` takes
any registration, accepts or refuses it as `make_mem_bench` does, and runs the kernel
pass by pass, twice for a loop delta.  This is the only place where the two
languages and the tables are seen together.

**PerfTimer**, **LibpfcTimer**: one action per event that is programmed, with
one action per way to fail; then pairs of readings while events happen.  PerfTimer
first takes the string of extra events apart, a token and a symbol a step, with commas
inside `/.../`, headers after `#` and the tokens that look wrong.  Both are shown to implement
**MetricTable**: a table whose columns are named once and whose rows hold, under
each name, how often *that* event happened between the two readings.
**ClockTimer** is the calibration: rounds of a short and a long loop between three
readings of a clock, on a processor that starts slow and is interrupted; the median
of a round is the sample of the middle rank.
**EventTimers** is a process that has the three timers and uses one.

**PageInfo** is what `get_info_for_range` and `get_flag_count` make of the kernel's
answers; **SharedStorage** calls it where `new_huge_ptr` does.

**SharedStorage**: memory is a function from addresses to cells; blocks are
placed by the allocator wherever `Places` allows.  Each exported function is
one action; `BenchStores` is a benchmark that overwrites what it was lent.
`flush_caches` flushes twice and is two actions.

## 3. The runs

| run | module | states | asks |
|---|---|---|---|
| `script_overlap` | MCUarchBenchScript | 695,377 | Two overlapping runs on every kind of machine, any of them killed anywhere: are the settings restored unless someone died in debt, is nothing scaled while measuring, are both settings leases? |
| `script_live` | MCUarchBenchScript | 321,902 | When no command fails by itself: does a run fail only because another one loaded or removed the kernel module under it, and is every changed setting changed back? |
| `bench_process` | MCUarchBench | 176,841 | Is the report the one the arguments call for at every moment, is everything ready before anything is measured, is the exit status right, does the process end? |
| `delta_bench` | MCDeltaBench | 258,384 | With cold starts and three disturbances of two lengths anywhere: are samples sound, is the answer on the right side of the truth or exact, does the argument outlive its uses, does it finish? |
| `oneshot` | MCOneshotBench | 51,684 | Is each benchmark made as its registration says?  Default, warmed and raw benchmarks in one process, disturbed calibrations: is what is printed the kernel, is the same overhead used throughout, is the median one? |
| `event_timers` | MCEventTimers | 235,942 | Strings and lists that are too long, repeated, partly empty or failing: is every event counted or reported, every descriptor owned, every number under its name, no slot used twice or left with another code?  Is the frequency of the clock timer right unless most of its samples were disturbed? |
| `shared_storage` | MCSharedStorage | 339,750 | Calls in any order: does what is lent lie in allocated memory, also in front of the storage, does a region stay one cycle, does flushing read all lines and nothing else, are the pages reported those of the storage? |
| `kernels` | Kernels | 288,064 | Every registered benchmark: does its kernel do the promised operations, stay in its memory, go over all of its region, return? |

Four more runs each show one statement of the repository to be untrue of the
code (section 6): `script_msr`, `delta_maker`, `oneshot_perf`, `kernels_260`.

Each property of a passing run is listed in PROJECT.json with a mutant of the
code that breaks it, under the same configuration.

## 4. Bounds, fairness, deadlock

* **Script**: 2 runs, each of which can be in any command while the other is in
  any other; governors "performance" and one other; 2 cores.  All hazards are
  between two runs (one that changes, one that reads), and the theorems cover any
  number of runs.
* **Process**: 2 timers with 3 groups each, lists of one and two benchmarks and a
  grid, 4 machines of which each has another failure, 2 of them without
  `std::regex`; 4 name patterns and 4 lists of tags, so that groups are selected
  wholly, in part, from the middle and not at all, and patterns throw before and
  after something was printed; at most 2 flags at a time.  Each run is one path, the
  57,600 initial states are the inputs.
* **Delta**: 4 samples of which 2 are warm-up (the code: 35 and 2, `benchmark.hpp`
  351-352), 2 cold calls, 3 disturbances (`MaxDisturbances`): one side can have
  every used sample disturbed and the other be clean.  The theorems have no
  such bounds.
* **One-shot**: four statements that use each setter before and after one that could
  undo it; 3 samples, 3 calibration samples after 1 warm-up, 3 disturbances: a
  majority of a calibration can be disturbed, and a sample can get below the
  calibrated overhead.
* **Event timers**: room for 2 extra events (the code: 8) and strings that ask for
  up to 4; headers of 2 symbols for 6; one event that resolves to user mode by itself; 2 programmable counters and up to 4 codes;
  `MaxCount` = 2, as a counter only has to be distinguishable from another.  The clock
  timer: rounds of 4 samples, one of them warm-up, a processor that is slow for its
  first 3 loops, 2 interruptions, of a length that a median of 4 could show.
* **Kernels**: every registration is there, only numbers are bounded.  Loop counts are
  shortened to so many passes as show the whole of a walk (`Passes`), with the
  remainder of the real count (`LoopCount`); regions up to 64 KiB are walked, of larger
  ones only the registration is checked (`MinSize`, `MaxSize`); the 32 MiB of the
  missing accesses are 16 KiB.  Steps and wraps are independent of the size beyond a
  few passes, except for the parallel walk, whose exception is `kernels_260`.
* **Storage**: lines and pages of 2 bytes, huge pages of two, storages of 4 lines,
  a region of three lines and one of two lines at the offset -1, the two offsets the
  callers use (the theorems are about any number of lines and any offset that reaches
  no further back than the shift of `new_huge_ptr`); two working sets, one that is and one that is not a whole number of lines or pages; blocks at
  each alignment the allocator may pick up to a skew of 1; a process that may ask
  for the flags of a page and one that may not.

Fairness.  `FairSpec` of the script is weak fairness of each run's next
command: a command that was started returns, and the kernel schedules every
process.  Nothing is assumed about starting runs or failing.  The process, the delta
measurement and the kernels are sequential programs that wait for nothing: weak
fairness of their own steps.  A disturbance is never assumed to come or to stop
coming, it is bounded in number for TLC.  The other modules have no liveness
property.

`CHECK_DEADLOCK FALSE` is set in all configurations: every one of these programs
ends, and its last state has no successor.  That they end rather than get stuck
is `Terminates`, `Finishes`, `Returns` and, for the script, its liveness property.

## 5. What is proved

Every safety invariant and type invariant the passing runs check, and both
refinements, for every value of the constants; the exceptions are at the end of
this section.  The theorems hold for any constants that satisfy the
assumptions the modules name (`ConstantsAssumption` of two modules,
`TagAssumption`, `TimingAssumption`, `DeltaAssumption`, `MakerAssumption`,
`OneshotAssumption`, `PerfAssumption`, `LibpfcAssumption`, `ClockAssumption`,
`PageAssumption`, `StorageAssumption`, `RegistrationAssumption`, `KernelsAssumption`; TLC evaluates each of them).  What some
theorems need beyond them is a hypothesis in their statement:

| hypothesis | of | why it is needed |
|---|---|---|
| `VendorTestRight` | `NoTurboAlwaysRestored`, `SettingsAlwaysLeased` | `restore_no_turbo` cannot tell the default of `original_no_turbo` from a value it read (section 6); without it both are false |
| `MsrsLeftAlone`, `~MayAbort` | `AlwaysFailsOnlyIfReloaded` | the loop that restores the MSRs always ends in a failure (section 6), and a run that is killed has failed with no other run at fault |
| `~UnsignedAggr` | `SamplesAlwaysExact`, `MedianAlwaysRight` | with an unsigned comparison the median is another sample, which is what `oneshot_perf` shows |
| `MatchersRight` | `ReportAlwaysInOrder` | the matching of strings is recursive; `MCUarchBench` assumes the same formula of the constants of `bench_process`, and TLC evaluates it there |
| `Enough` | `RegionAlwaysWhole` | it excepts two walks.  Whether the parallel one (`"wrap"`) meets every line depends on what divides the size, and at 260 KiB it does not (`kernels_260`); and a masked walk takes no more steps than it has loops, which for two registrations are fewer than the lines of the region (section 6) |

Every proof has an inductive invariant of which the property is a consequence.

* `UarchBenchScriptProofs`, for any number of runs on any machines
  * `TypeCorrect`.  The loops over the cores read by index, so the invariant
    (`TInv`) needs `LoopOK`: a loop is only entered with cores set and stays below
    their number.
  * `GovernorAlwaysRestored`.  `GovernorRestored` only speaks of the end.
    `GovernorInv` says at every moment whose debt the governor is: it is either the
    original or "performance" while someone owes it (or died owing it), and no run
    that owes it remembers another value than the original one: a run that reads
    "performance" from another run takes no debt (`KeepGovernor`).
  * `NoTurboAlwaysRestored`, from `NoTurboInv`: the same for the switch, where the
    debt is a remembered 0, so that a run that keeps a 0 must have found the
    original there.
  * `SettingsAlwaysLeased`: the script implements `SettingLease` for the governor
    (`GovernorLeased`) and for the switch (`NoTurboLeased`).  Each step borrows,
    returns, defaults or leaves the lease alone; what a run owes is read off `pc` and
    its shell variables.
  * `AlwaysMeasuresUnscaled`, from `UnscaledInv`: from the command that sets a
    setting on, the machine is as the run left it, unless a step of another run that
    undid it is on record.  `OthersUnscaled` shows that any other step of another run
    can only help.
  * `AlwaysFailsOnlyIfReloaded`, from `PfcInv`: what `lsmod` said still holds between
    the commands that rely on it, unless another run's `insmod` or `rmmod` is on record;
    that another run restored a setting is no excuse.
* `TimeOneProofs`: `LoopKeepsSamplesSound`, one step of the loop of `time_one` for any
  job.  `ReadingOK` says where the clock is relative to the first reading.  Both makers
  build on it.
* `DeltaBenchProofs`, for every timing, number of samples and of disturbances.
  `IInv` adds `JobOK` (which job is running), `KeptOK` (what a sample says after
  `get_raw` has kept it), `AnswerOK` and `ArgOK`.
  * `TypeCorrect`.  Not obvious in one place: the answer is an integer only if
    the minimum of the used samples exists (`MinNat`, from the well-foundedness of
    the naturals; `AggregateType`, from the bound below that `KeptOK` gives).
  * `SamplesAlwaysSound`, `ArgAlwaysOutlivesUse`.
  * `MinimumBrackets`.  A minimum is at least what the kernel takes
    (`MinimumOfSide`), and equal to it as soon as one used sample ran undisturbed; the
    overhead is on both sides and cancels.
  * `LoopDeltaAlwaysExact`, with it the arithmetic of the doubled loop count.
* `OneshotBenchProofs`, for every program that registers benchmarks, every timing and
  any disturbances
  * `AlwaysMeasuredAsAsked`, from `RegInv`: in the middle of a statement the temporary
    is what the calls so far say, the maker is what the last assignment left
    (`Says`), and what is registered was asked for by the statement that made it
    (`RegisteredOK`).
  * `TypeCorrect` and `AlwaysSameOverhead`, from `IInv` with `UsedOK`: what has been
    subtracted under the default calibration is the static, and nothing else.
  * `SamplesAlwaysExact` and `MedianAlwaysRight`, from `SignedInv`: a calibration
    less than half of which was disturbed has the undisturbed time as its median
    (`CalibrationExact`), and subtracting it leaves METHOD (`ExactOK`).
  * That there is a median at all is `ElementOfRank`: among finitely many integers there
    is one of every rank.
* `UarchBenchProofs`, for any timers, groups, patterns and machines
  * `ExitStatusAlwaysRight` and `AlwaysMeasuresReady`.  `IInv` says what is settled at
    each `pc`: which flags lead there (`StageOK`), that the processor is the one asked
    for (`PinOK`), that all timers up to `all` were registered (`ListOK`), that the
    timer exists and is ready (`TimerOK`).  One part looks ahead: a run with a name
    pattern that the build cannot match must fail, so it never gets past the first group
    in which something is compared (`BadNameOK`).  `AvailableCpuOnline` needs that a
    set of processors has a least one.
  * `ProcessTypeCorrect`: every line printed names something that exists.
  * `ReportAlwaysInOrder`.  `RInv` says that what has been printed is the reports of the
    groups before `gi`, the header of the current group once a benchmark of it was
    wanted, and the rows up to `bi`.  The report is a concatenation over the groups,
    a recursive function; the proofs know it by what it is at 0 and at n + 1 (`Sums`).
* `EventTimersProofs`, for every list of requested events, whatever each resolves to, any
  numbers of counters, and readings of any size
  * `TimersTypeCorrect`.
  * `SlotsAlwaysDisjoint`, from `LInv`: the position of an extra event among those that
    resolved and its slot determine each other, and a slot that a column reads was
    programmed with the code of that column.
  * `DescriptorsAlwaysOwned` and `RowsAlwaysComplete`, from `PInv`: what is open is what
    runs or is being opened, and headers, events and readings have the same positions.
  * `EventsAlwaysAccounted`.  The property says which columns a *string* asks for, the
    code reads it symbol by symbol, cuts tokens at `#` and then loops over the names.
    `Parsed` says what has been read up to a symbol: the tokens are the pieces of what
    is before it, cut at the commas outside slashes, and names and headers are those of
    the tokens, in step.  `Counted` says what the loop has made of the first names:
    the events that can be programmed run, as many as fit, and there is a message about
    each of the others.  `split_on_string` is a fold; `SplitIsCut` shows that it returns
    the pieces between the separators (`IsCut`) from a solution of the fold's recursion
    (`SolutionExists`), got from a least position without one, as there is no induction
    on data to cite.
  * `TimersImplementTable`: both timers implement `MetricTable`, step by step.
  * `FrequencyAlwaysRight`, from `CInv`: the runs of the loop so far are counted, so
    that after the warm-up the speed is constant; then one sample of twice the
    iterations minus one of the iterations is `ITERS * Period`, and the median of
    samples most of which are undisturbed is that value (`MajorityRank`).  The result
    of `to_result` is a quotient, kept as one: the property is that a Period is exactly one
    cycle, without rounding.
* `SharedStorageProofs`, for every size of a line, a page and the storages, every set of
  calls and every placement of the blocks.  `SInv` is the invariant of all of them.
  * `StorageTypeCorrect`, `LentAlwaysInBlock`: each storage is a block of the size its
    pointer stands for, aligned as asked (`StoragesOK`).  The regions have the whole
    block (`BlockOf`), because with a negative offset one begins in the part that
    `new_huge_ptr` skips.
  * `RegionAlwaysIntact`: the chain in memory is the walk in the order that was drawn
    (`RegionOK`); a new block lies apart from all others (`BlocksOK`), so that no write to
    one breaks the chain, and a walk through a permutation is one cycle (`ChainIsCycle`).
  * `FlushAlwaysCovers`: after 2n reads each buffer has been read up to n lines
    (`ReadCovers`).
  * `PagesAlwaysReported`: from lemmas about division, that the loop over the pages
    visits each page of the region once.
* `KernelsProofs`, for regions of every size; each registration has its real numbers, and
  loop counts are those of `LoopCount` (section 4)
  * `RegisteredFits` goes through the tables: every registration is of one of seven kinds,
    and its kind says what the kernel relies on.  `MaskFits`, for one, says that the
    region is a whole number of lines, that the stride is one of two numbers of lines, and
    that the accesses of a pass stay within a line or within the room behind the region.
    This is where a wrong size, step or number of operations of a registration would show.
  * `OpsAlwaysAsReported`.  The work done is tied to the loop counter in every state:
    `PassesWork` for kernels without an inner loop (a pass does `Rate` operations for each
    of the `by` it counts), `LinearWork` and `CycleWork` in the middle of an inner loop;
    `CallsWork` keeps what the first call of a loop delta did.  `Ended` says how far below
    zero a counter is that is tested at the end of its loop.
  * `AlwaysInsideMemory`, from `Placed` and `Reached`: a masked walk and a chase stand at a
    line of the region, a wrapping one so far from the end that its 92 lines still fit, a
    linear one where its inner counter says; from there `PassWithin` shows the same for
    all accesses of the pass, and `Reached` keeps it for all that were touched.
  * `RegionAlwaysWhole`.  What of a region is seen is tied to the loop counter too:
    `InnerSeen` (the lines before the position, and all of them after one pass),
    `ChaseSeen` (as many lines as were linked through), `StridedSeen` and `TurnsSeen`
    (the places the steps of a masked walk have added up to, modulo the region).
    `LongEnough` is what the size check of `make_load_bench` is for: a chase it lets go
    has a loop for every line.  That 67 and 199 lines at a time come round to each line
    of a region of 2 ^ k lines is `TurnsMeetAll`: both have an inverse modulo 2 ^ 24,
    and with it each line names the step that meets it.
  * `KernelsTypeCorrect`.

Three facts that TLC had from the values of the constants became assumptions when
proofs needed them: in `UarchBench` `None \notin Nat`, and that the first timer is the
clock (context.cpp:112); in `Registrations` that the buffer of the missing accesses is a
power of two, as it is masked with its size minus one (x86-methods.asm:3136-3153).

Only model-checked:

* all liveness properties, as liveness under fairness and `ENABLED` are beyond the prover;
* of `WholeRegion` the part of the parallel walk, which depends on the divisors of the
  region's size; TLC goes through it for every registered size up to its bound;
* `MatchersRight`, as above.

## 6. Where code and text disagree

| run, property | what the code does | what is said |
|---|---|---|
| `script_msr`, TurboBack | `original_state` is computed before `cores` is set (uarch-bench.sh:42, 97), so it is empty and no core is written back, and `((i++))` with i = 0 (line 69) ends the script under `set -e`: after a benchmark that succeeded on a machine without intel_pstate, turbo stays disabled.  A run that dies before it comes to the restore is excused (`lost`) | uarch-bench.sh:142 "restore no turbo mode" |
| `delta_maker`, LoopDeltaAsked | the setters of `DeltaMaker<TIMER, true>` return a `DeltaMaker<TIMER>`, which has forgotten useLoopDelta | benchmark.hpp:515-517, 436 "returns a COPY of this object" |
| `oneshot_perf`, MedianRight | the perf timer compares signed deltas as `uint64_t`, so a negative sample is the largest and the median is another sample | perf-timer.hpp:21-24, oneshot.hpp:150 "include median" |
| `kernels_260`, Footprint | 266,240 bytes are 40 passes of 6,656, so the parallel walk over 260 KiB wraps to its own start and stays on 320 of the 4,160 lines | x86-methods.asm:1525-1529, "effective footprint somewhat smaler than requested by something like UF * 0.5 * STRIDE" |

Known, and not shown by a run of its own:

* A run that fails ends under `set -e` with the governor changed (uarch-bench.sh:140;
  README.md:83 "restoring your previous setting after it completes").  `script_overlap`
  calls this a debt a run died with (`lost`).
* `original_no_turbo` starts as the value `restore_no_turbo` takes for one it has read
  (uarch-bench.sh:43), so a run whose vendor test fails on an Intel machine would write
  0.  The machines of the runs are those whose vendor test is right, and the theorems
  on `no_turbo` assume it by name (`VendorTestRight`).
* The tlb-fencing benchmarks of 128 and 256 MiB are registered with 1,500,000 loops
  (mem-benches.cpp:396-398), fewer than the 2,097,152 and 4,194,304 lines of
  which each loop takes one, so that a call does not go over the region they are named
  for.  The bound of `kernels` leaves them unwalked; `Enough` names them in the theorem.
* Without arguments the benchmarks with the tag `default` are run; the comment of
  context.cpp:227 says "use tag=* as default predicate", which would be every benchmark
  that has a tag.  `ReportInOrder` judges by the tag `default`.
* The comment of perf-timer.hpp:79-80 has `cpu/123,456` for one of the tokens that
  its example is cut into, without the closing slash that the code and its unit test keep;
  `EventsAccounted` keeps it.
* The offset of `shuffled_region` is a `size_t` and one caller passes -1
  (mem-benches.cpp:287), so the region begins one byte in front of what `new_huge_ptr`
  returned.  It is in the block because of the shift by `TWO_MB`, which a build without
  `UARCH_BENCH_USE_HUGEPAGES` (util.cpp:24-30) does not have: there it would begin in
  front of the block.  `SharedStorage` is the build with it.
* The 4k storage is allocated without advice against huge pages (util.cpp:166,
  util.hpp:76-78).
* A page that is swapped out has a swap offset where page-info.c:109 reads a frame
  number ("if present", page-info.h:18); what new_huge_ptr looks up has just been
  written.
* `mul_by_bench` does 4,095 of the 4,096 operations it is registered with
  (cpp-benches.cpp:499); `OpsAsReported` makes an exception of it.
* The second store of the two-location benchmark is at `61 - offset`, its comment says
  64 (cpp-benches.cpp:390-403); `fusion_better_fused` and `_unfused` read past the
  8,000 bytes they ask for, `gatherdd_lat_ymm` past its stack frame.  `InsideMemory`
  lists these (`Overrunning`); the storage and the stack are large enough.
* The walk of the bandwidth kernels touches up to one step of lines after the
  region in each pass, and the operations they do are up to that many more than
  reported.
* `withTouch`, `withWarm` and `withOverhead` drop the tags and features set before them
  (oneshot.hpp:220-228), and `make_raw` ignores the warm-up methods of the maker
  (257-265): `MeasuredAsAsked` says what is kept, and one benchmark loses its tag.
* Two events whose names begin with the same six symbols get the same header.

## 7. What is not modelled

* `get_stats` (minimum, maximum and average for one line of `--clock-overhead`) and
  `SimpleTimer` (the seconds in a footer): folds whose results are printed and thrown
  away.  The medians that decide a number are in `OneshotBench` and `ClockTimer`.
* Listing of events, report layout, CPU feature detection, compiler support
  macros: no state, or none that a property speaks of.  UarchBench takes the
  supported benchmarks as part of the machine.
* Kernels no registration uses, and what the instructions of a kernel cost: its time is
  a parameter of `TimeOne`.
* The ends by `err` of page-info.c:274-283 and 309-310: a pagemap that cannot be opened,
  sought or read in full, or a kpageflags that was opened and then cannot, ends the
  process before anything is reported or lent.
* Floating point: the super-load sizes are taken in whole percents, which gives the
  sizes of the `double` of mem-benches.cpp:297-306 for each power of two from 16 KiB to
  400 MiB; quotients are kept as pairs.
* What `rdpmc_read` returns for index 0, and that events happen between two
  counters of one reading: the first is in a submodule that is not in the
  repository, the second is the same for all samples and is `Overhead` in `TimeOne`.
* The exact instruction a benchmark stands at when a run is killed: the script's
  commands are the grain, as the process itself changes nothing outside.
* Vendored libraries (fmt, args.hxx, boost, hedley, catch, by far the larger part of
  the repository); where the program relies on one it is an external action or
  operator, marked so in PROJECT.json.  Of the program's own 11,000 lines, about
  7,500 are mapped; what is left are the printing, comments, the build, the tests and
  the kernels without a registration.

## 8. Plan

Modelled first was what can harm the machine or falsify every number: the script,
then the loop all measurements come from, then what feeds and uses it, then the
makers, the patterns, the kernels with their registrations, and the clock timer.
What is left, in this order:

1. *Proofs*: for which sizes the parallel walk sees all of its region.
2. *Composition* of script and process: the exit status of `UarchBench` as what
   makes `RunBench` of the script fail.
