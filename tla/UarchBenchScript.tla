-------------------------- MODULE UarchBenchScript --------------------------
(***************************************************************************)
(* uarch-bench.sh: the wrapper that disables frequency scaling, loads the  *)
(* libpfc kernel module, runs ./uarch-bench and puts the settings back.    *)
(*                                                                         *)
(* Every run of the script is a process; the processes share the machine:  *)
(* sysfs, the MSRs and the kernel module.  The script takes no lock and    *)
(* installs no trap, and it runs under "set -e": the first command that    *)
(* fails, or a signal, ends it where it stands.  One action is one command *)
(* that reads or writes the machine.                                       *)
(***************************************************************************)
EXTENDS Naturals, Sequences

CONSTANTS
  Instance,      \* the invocations of uarch-bench.sh
  Governor,      \* the names of the cpufreq governors of this kernel
  Performance,   \* the governor called "performance"
  None,          \* an empty shell variable
  NCores,        \* the number of processors of /proc/cpuinfo
  Hosts,         \* the machines considered
  MayAbort       \* TRUE: any command may fail and any run may be killed

(* A machine, as far as the script looks at it: in_vm is non-empty under a *)
(* hypervisor, intel is the outcome of the vendor test of line 129, pstate *)
(* says whether NO_TURBO_FILE exists, msrtools whether rdmsr is installed. *)
Host == [in_vm : BOOLEAN, intel : BOOLEAN, pstate : BOOLEAN, msrtools : BOOLEAN]

ASSUME ConstantsAssumption ==
  /\ Performance \in Governor
  /\ None \notin Governor
  /\ NCores \in Nat \ {0}
  /\ Hosts \subseteq Host
  /\ MayAbort \in BOOLEAN

VARIABLES
  host,              \* the machine of this behaviour; never changes
  governor,          \* /sys/.../cpu0/cpufreq/scaling_governor
  no_turbo,          \* /sys/.../intel_pstate/no_turbo
  msr,               \* per core, bit 38 of MSR 0x1a0: turbo disabled
  rdpmc,             \* /sys/bus/event_source/devices/cpu/rdpmc
  pfc,               \* TRUE when pfc.ko is loaded
  pc,                \* per instance, the command it runs next
  timer,             \* per instance, the --timer argument
  SCALING_GOVERNOR,  \* per instance, the shell variables of these names
  original_governor,
  original_no_turbo,
  original_state,    \* the words of $original_state
  cores,             \* the number of words of $cores
  i,                 \* the position in a loop over the cores
  initial,           \* history: the settings before the first run
  lost,              \* history: the settings a run died without restoring
  disturbed,         \* history: the runs under which another run handed a setting back
  reloaded           \* history: the runs whose pfc.ko another run loaded or removed

machine == <<host, governor, no_turbo, msr, rdpmc, pfc>>
shell == <<timer, SCALING_GOVERNOR, original_governor, original_no_turbo,
           original_state, cores, i>>
history == <<initial, lost, disturbed, reloaded>>
vars == <<machine, pc, shell, history>>

(* What --timer names: "unknown" stands for a name no timer has. *)
Timer == {"clock", "libpfc", "unknown"}
Ended == {"idle", "done", "failed"}
Measuring == {"rdpmc", "lsmod", "rmmod", "insmod", "start", "measure"}
Commands == {"governor", "turbo", "write_turbo", "wrmsr", "timer",
             "restore_turbo", "restore_msr", "restore_governor"} \union Measuring
Words == {"0", "1", "core"}
Setting == {"governor", "no_turbo", "msr"}

(* check_no_turbo and restore_no_turbo return early inside a hypervisor.   *)
UsesPstate == ~host.in_vm /\ host.pstate
UsesMsr == ~host.in_vm /\ ~host.pstate

MachineOK ==
  /\ host \in Hosts
  /\ governor \in Governor
  /\ no_turbo \in {0, 1}
  /\ msr \in [1 .. NCores -> {0, 1}]
  /\ rdpmc \in 0 .. 2
  /\ pfc \in BOOLEAN

ShellOK ==
  /\ timer \in [Instance -> Timer]
  /\ SCALING_GOVERNOR \in [Instance -> Governor \union {None}]
  /\ original_governor \in [Instance -> Governor \union {None}]
  /\ original_no_turbo \in [Instance -> {0, 1}]
  /\ original_state \in [Instance -> Seq(Words)]
  /\ cores \in [Instance -> {0, NCores}]
  /\ i \in [Instance -> 0 .. NCores]

HistoryOK ==
  /\ initial \in [governor : Governor, no_turbo : {0, 1}, msr : [1 .. NCores -> {0, 1}]]
  /\ lost \subseteq Setting
  /\ disturbed \subseteq Instance
  /\ reloaded \subseteq Instance

(* What the script's commands can leave in its variables and on the machine. *)
TypeOK ==
  /\ MachineOK
  /\ pc \in [Instance -> Ended \union Commands]
  /\ ShellOK
  /\ HistoryOK

Init ==
  /\ host \in Hosts
  /\ governor \in Governor
  /\ no_turbo \in IF UsesPstate THEN {0, 1} ELSE {0}
  /\ msr = [c \in 1 .. NCores |-> 0]
  /\ rdpmc = 1
  /\ pfc \in BOOLEAN
  /\ pc = [p \in Instance |-> "idle"]
  /\ timer = [p \in Instance |-> "clock"]
  /\ SCALING_GOVERNOR = [p \in Instance |-> None]
  /\ original_governor = [p \in Instance |-> None]
  /\ original_no_turbo = [p \in Instance |-> 0]
  /\ original_state = [p \in Instance |-> << >>]
  /\ cores = [p \in Instance |-> 0]
  /\ i = [p \in Instance |-> 0]
  /\ initial = [governor |-> governor, no_turbo |-> no_turbo, msr |-> msr]
  /\ lost = {}
  /\ disturbed = {}
  /\ reloaded = {}

-----------------------------------------------------------------------------
(* What a run still has to put back.                                       *)

OwesGovernor(p) == pc[p] \in Commands /\ original_governor[p] # None

OwesNoTurbo(p) ==
  /\ UsesPstate /\ host.intel
  /\ pc[p] \in Measuring \union {"timer", "restore_turbo"}
  /\ original_no_turbo[p] = 0

(* The cores whose turbo was disabled, until the loop that is to restore    *)
(* them: a run that ends in that loop was asked to hand them back and is    *)
(* not excused.                                                             *)
OwesMsr(p) ==
  /\ UsesMsr /\ host.intel
  /\ pc[p] \in Measuring \union {"wrmsr", "timer", "restore_turbo"}

Debts(p) == {s \in Setting :
               \/ s = "governor" /\ OwesGovernor(p)
               \/ s = "no_turbo" /\ OwesNoTurbo(p)
               \/ s = "msr" /\ OwesMsr(p)}

-----------------------------------------------------------------------------
(* Control flow of the script.                                             *)

At(p, command) == pc[p] = command
Goto(p, command) == pc' = [pc EXCEPT ![p] = command] /\ UNCHANGED lost

(* set -e: the run ends here, and what it owed stays changed. *)
Exit1(p) ==
  /\ pc' = [pc EXCEPT ![p] = "failed"]
  /\ lost' = lost \union Debts(p)

(* The step of p hands a setting back under every other run in progress. *)
Disturb(p) ==
  disturbed' = disturbed \union {q \in Instance \ {p} : pc[q] \in Commands}

(* A run between the lsmod that looks for pfc.ko and its benchmark. *)
ReliesOnPfc(p) == pc[p] \in {"rmmod", "insmod", "start"} /\ timer[p] = "libpfc"

(* The step of p loads or removes pfc.ko under the runs that rely on it. *)
Reload(p) ==
  reloaded' = reloaded \union {q \in Instance \ {p} : ReliesOnPfc(q)}

(* The words get_turbo_state_string prints for the first n cores.  The      *)
(* stray word after the closing quote sticks to the next core's bit, so     *)
(* only the first word is a bare bit; with no cores the string is empty.    *)
get_turbo_state_string(n) ==
  IF n = 0 THEN << >>
  ELSE [k \in 1 .. n + 1 |->
          IF k > 1 THEN "core" ELSE IF msr[1] = 0 THEN "0" ELSE "1"]

(* Lines 9-20 and 42-43.  original_state is computed here, before cores is  *)
(* assigned anywhere.                                                       *)
Start(p) ==
  /\ pc[p] \in Ended
  /\ \E t \in Timer : timer' = [timer EXCEPT ![p] = t]
  /\ SCALING_GOVERNOR' =
       [SCALING_GOVERNOR EXCEPT ![p] = IF host.in_vm THEN None ELSE governor]
  /\ original_governor' = [original_governor EXCEPT ![p] = None]
  /\ original_state' = [original_state EXCEPT ![p] = get_turbo_state_string(0)]
  /\ original_no_turbo' = [original_no_turbo EXCEPT ![p] = 0]
  /\ cores' = [cores EXCEPT ![p] = 0]
  /\ i' = [i EXCEPT ![p] = 0]
  /\ Goto(p, "governor")
  /\ disturbed' = disturbed \ {p}
  /\ reloaded' = reloaded \ {p}
  /\ UNCHANGED <<machine, initial>>

(* Mutant: the governor to restore is read again just before the change. *)
Mut_SetGovernor_Reread(p) ==
  /\ At(p, "governor")
  /\ SCALING_GOVERNOR[p] \notin {None, Performance}
  /\ original_governor' = [original_governor EXCEPT ![p] = governor]
  /\ governor' = Performance
  /\ Goto(p, "turbo")
  /\ UNCHANGED <<host, no_turbo, msr, rdpmc, pfc, timer, SCALING_GOVERNOR,
                 original_no_turbo, original_state, cores, i, initial, disturbed, reloaded>>

SetGovernor(p) ==
  /\ At(p, "governor")
  /\ SCALING_GOVERNOR[p] \notin {None, Performance}
  /\ original_governor' = [original_governor EXCEPT ![p] = SCALING_GOVERNOR[p]]
  /\ governor' = Performance
  /\ Goto(p, "turbo")
  /\ UNCHANGED <<host, no_turbo, msr, rdpmc, pfc, timer, SCALING_GOVERNOR,
                 original_no_turbo, original_state, cores, i, initial, disturbed, reloaded>>

KeepGovernor(p) ==
  /\ At(p, "governor")
  /\ SCALING_GOVERNOR[p] \in {None, Performance}
  /\ Goto(p, "turbo")
  /\ UNCHANGED <<machine, shell, initial, disturbed, reloaded>>

-----------------------------------------------------------------------------
(* check_no_turbo                                                          *)

(* Mutant: turbo is left alone when the governor already was performance. *)
Mut_SkipTurbo_GovernorOnly(p) ==
  /\ At(p, "turbo")
  /\ ~host.intel \/ host.in_vm \/ SCALING_GOVERNOR[p] = Performance
  /\ Goto(p, "timer")
  /\ UNCHANGED <<machine, shell, initial, disturbed, reloaded>>

SkipTurbo(p) ==
  /\ At(p, "turbo")
  /\ ~host.intel \/ host.in_vm
  /\ Goto(p, "timer")
  /\ UNCHANGED <<machine, shell, initial, disturbed, reloaded>>

(* Mutant: the value read is compared but not kept for the restore. *)
Mut_ReadNoTurbo_Forget(p) ==
  /\ At(p, "turbo")
  /\ host.intel /\ UsesPstate
  /\ Goto(p, IF no_turbo # 1 THEN "write_turbo" ELSE "timer")
  /\ UNCHANGED <<machine, shell, initial, disturbed, reloaded>>

ReadNoTurbo(p) ==
  /\ At(p, "turbo")
  /\ host.intel /\ UsesPstate
  /\ original_no_turbo' = [original_no_turbo EXCEPT ![p] = no_turbo]
  /\ Goto(p, IF no_turbo # 1 THEN "write_turbo" ELSE "timer")
  /\ UNCHANGED <<machine, timer, SCALING_GOVERNOR, original_governor,
                 original_state, cores, i, initial, disturbed, reloaded>>

WriteNoTurbo(p) ==
  /\ At(p, "write_turbo")
  /\ no_turbo' = 1
  /\ Goto(p, "timer")
  /\ UNCHANGED <<host, governor, msr, rdpmc, pfc, shell, initial, disturbed, reloaded>>

FindCores(p) ==
  /\ At(p, "turbo")
  /\ host.intel /\ UsesMsr /\ host.msrtools
  /\ cores' = [cores EXCEPT ![p] = NCores]
  /\ Goto(p, "wrmsr")
  /\ UNCHANGED <<machine, timer, SCALING_GOVERNOR, original_governor,
                 original_no_turbo, original_state, i, initial, disturbed, reloaded>>

(* check_msrtools_installed: exit 1, with the governor already changed. *)
MsrToolsMissing(p) ==
  /\ At(p, "turbo")
  /\ host.intel /\ UsesMsr /\ ~host.msrtools
  /\ Exit1(p)
  /\ UNCHANGED <<machine, shell, initial, disturbed, reloaded>>

DisableCore(p) ==
  /\ At(p, "wrmsr")
  /\ msr' = [msr EXCEPT ![i[p] + 1] = 1]
  /\ IF i[p] + 1 < cores[p]
       THEN i' = [i EXCEPT ![p] = @ + 1] /\ UNCHANGED <<pc, lost>>
       ELSE i' = [i EXCEPT ![p] = 0] /\ Goto(p, "timer")
  /\ UNCHANGED <<host, governor, no_turbo, rdpmc, pfc, timer, SCALING_GOVERNOR,
                 original_governor, original_no_turbo, original_state, cores,
                 initial, disturbed, reloaded>>

-----------------------------------------------------------------------------
(* The timer, the kernel module and the benchmark itself                   *)

DumpTimer(p) ==
  /\ At(p, "timer")
  /\ Goto(p, IF timer[p] = "libpfc" THEN "rdpmc" ELSE "start")
  /\ UNCHANGED <<machine, shell, initial, disturbed, reloaded>>

(* The pipe into tail hides the failure of --internal-dump-timer: the name  *)
(* is empty and the run goes on without loading the module.                 *)
DumpTimerFails(p) ==
  /\ MayAbort
  /\ At(p, "timer")
  /\ Goto(p, "start")
  /\ UNCHANGED <<machine, shell, initial, disturbed, reloaded>>

EnableRdpmc(p) ==
  /\ At(p, "rdpmc")
  /\ rdpmc' = 2
  /\ Goto(p, "lsmod")
  /\ UNCHANGED <<host, governor, no_turbo, msr, pfc, shell, initial, disturbed, reloaded>>

(* Mutant: the module is removed without looking whether it is loaded. *)
Mut_FindPfc_Always(p) ==
  /\ At(p, "lsmod")
  /\ Goto(p, "rmmod")
  /\ UNCHANGED <<machine, shell, initial, disturbed, reloaded>>

FindPfc(p) ==
  /\ At(p, "lsmod")
  /\ Goto(p, IF pfc THEN "rmmod" ELSE "insmod")
  /\ UNCHANGED <<machine, shell, initial, disturbed, reloaded>>

(* rmmod fails when another run has removed the module since lsmod. *)
Rmmod(p) ==
  /\ At(p, "rmmod")
  /\ IF pfc THEN Goto(p, "insmod") /\ Reload(p) ELSE Exit1(p) /\ UNCHANGED reloaded
  /\ pfc' = FALSE
  /\ UNCHANGED <<host, governor, no_turbo, msr, rdpmc, shell, initial, disturbed>>

(* insmod fails when another run has loaded the module since. *)
Insmod(p) ==
  /\ At(p, "insmod")
  /\ IF pfc THEN Exit1(p) /\ UNCHANGED reloaded ELSE Goto(p, "start") /\ Reload(p)
  /\ pfc' = TRUE
  /\ UNCHANGED <<host, governor, no_turbo, msr, rdpmc, shell, initial, disturbed>>

(* ./uarch-bench exits with a failure when no timer has the given name      *)
(* (getForTimer), and with the libpfc timer when pfcInit finds no module.   *)
RunBench(p) ==
  /\ At(p, "start")
  /\ IF timer[p] = "unknown" \/ (timer[p] = "libpfc" /\ ~pfc) THEN Exit1(p) ELSE Goto(p, "measure")
  /\ UNCHANGED <<machine, shell, initial, disturbed, reloaded>>

FinishBench(p) ==
  /\ At(p, "measure")
  /\ Goto(p, "restore_turbo")
  /\ UNCHANGED <<machine, shell, initial, disturbed, reloaded>>

-----------------------------------------------------------------------------
(* restore_no_turbo and the governor                                       *)

LeaveTurbo(p) ==
  /\ At(p, "restore_turbo")
  /\ host.in_vm
  /\ Goto(p, "restore_governor")
  /\ UNCHANGED <<machine, shell, initial, disturbed, reloaded>>

(* Mutant: no_turbo is left alone once another run has touched the machine. *)
Mut_RestoreNoTurbo_Drop(p) ==
  /\ At(p, "restore_turbo")
  /\ UsesPstate
  /\ IF original_no_turbo[p] = 0 /\ p \notin disturbed
       THEN no_turbo' = 0 /\ Disturb(p)
       ELSE UNCHANGED <<no_turbo, disturbed>>
  /\ Goto(p, "restore_governor")
  /\ UNCHANGED <<host, governor, msr, rdpmc, pfc, shell, initial, reloaded>>

(* Called whether or not check_no_turbo ran; original_no_turbo starts at 0. *)
RestoreNoTurbo(p) ==
  /\ At(p, "restore_turbo")
  /\ UsesPstate
  /\ IF original_no_turbo[p] = 0
       THEN no_turbo' = 0 /\ Disturb(p)
       ELSE UNCHANGED <<no_turbo, disturbed>>
  /\ Goto(p, "restore_governor")
  /\ UNCHANGED <<host, governor, msr, rdpmc, pfc, shell, initial, reloaded>>

FindOriginalState(p) ==
  /\ At(p, "restore_turbo")
  /\ UsesMsr
  /\ i' = [i EXCEPT ![p] = 0]
  /\ Goto(p, IF cores[p] = 0 THEN "restore_governor" ELSE "restore_msr")
  /\ UNCHANGED <<machine, timer, SCALING_GOVERNOR, original_governor,
                 original_no_turbo, original_state, cores, initial, disturbed, reloaded>>

(* One turn of the loop of lines 64-70.  ((i++)) returns status 1 when i    *)
(* was 0, which set -e takes for a failure.                                 *)
RestoreCore(p) ==
  LET words == original_state[p]
      orig_state == IF i[p] + 1 \in DOMAIN words THEN words[i[p] + 1] ELSE ""
  IN
  /\ At(p, "restore_msr")
  /\ msr' = IF orig_state = "0" THEN [msr EXCEPT ![i[p] + 1] = 0] ELSE msr
  /\ i' = [i EXCEPT ![p] = @ + 1]
  /\ IF i[p] = 0 THEN Exit1(p)
     ELSE Goto(p, IF i[p] + 1 < cores[p] THEN "restore_msr" ELSE "restore_governor")
  /\ UNCHANGED <<host, governor, no_turbo, rdpmc, pfc, timer, SCALING_GOVERNOR,
                 original_governor, original_no_turbo, original_state, cores,
                 initial, disturbed, reloaded>>

(* Mutant: the governor is written back without looking whether it was      *)
(* changed.                                                                 *)
Mut_RestoreGovernor_Always(p) ==
  /\ At(p, "restore_governor")
  /\ governor' = original_governor[p]
  /\ Disturb(p)
  /\ Goto(p, "done")
  /\ UNCHANGED <<host, no_turbo, msr, rdpmc, pfc, shell, initial, reloaded>>

(* Mutant: the governor is not handed back once another run has touched the *)
(* machine.                                                                 *)
Mut_RestoreGovernor_Drop(p) ==
  /\ At(p, "restore_governor")
  /\ IF original_governor[p] # None /\ p \notin disturbed
       THEN governor' = original_governor[p] /\ Disturb(p)
       ELSE UNCHANGED <<governor, disturbed>>
  /\ Goto(p, "done")
  /\ UNCHANGED <<host, no_turbo, msr, rdpmc, pfc, shell, initial, reloaded>>

RestoreGovernor(p) ==
  /\ At(p, "restore_governor")
  /\ IF original_governor[p] # None
       THEN governor' = original_governor[p] /\ Disturb(p)
       ELSE UNCHANGED <<governor, disturbed>>
  /\ Goto(p, "done")
  /\ UNCHANGED <<host, no_turbo, msr, rdpmc, pfc, shell, initial, reloaded>>

(* A command fails (sudo is refused, the benchmark exits with a failure) or *)
(* the user interrupts the run.                                             *)
Abort(p) ==
  /\ MayAbort
  /\ pc[p] \in Commands
  /\ Exit1(p)
  /\ UNCHANGED <<machine, shell, initial, disturbed, reloaded>>

-----------------------------------------------------------------------------

(* The next command of a run in progress, when it does what it should. *)
Step(p) ==
  \/ SetGovernor(p) \/ KeepGovernor(p)
  \/ SkipTurbo(p) \/ ReadNoTurbo(p) \/ WriteNoTurbo(p)
  \/ FindCores(p) \/ MsrToolsMissing(p) \/ DisableCore(p)
  \/ DumpTimer(p) \/ EnableRdpmc(p) \/ FindPfc(p) \/ Rmmod(p) \/ Insmod(p)
  \/ RunBench(p) \/ FinishBench(p)
  \/ LeaveTurbo(p) \/ RestoreNoTurbo(p) \/ FindOriginalState(p) \/ RestoreCore(p)
  \/ RestoreGovernor(p)

Next == \E p \in Instance : Start(p) \/ Step(p) \/ DumpTimerFails(p) \/ Abort(p)

Spec == Init /\ [][Next]_vars

(* A command that was started returns; nobody has to start a run. *)
FairSpec == Spec /\ \A p \in Instance : WF_vars(Step(p))

-----------------------------------------------------------------------------
(* Properties                                                              *)

Quiet == \A p \in Instance : pc[p] \in Ended

(* Lines 142-154 and README.md:83: once every run has ended, and none died  *)
(* while it owed the governor, the governor is the one from before the      *)
(* first run, however the runs overlapped and whatever each of them read.   *)
GovernorRestored == Quiet /\ "governor" \notin lost => governor = initial.governor

(* Lines 45-60: the same for intel_pstate/no_turbo. *)
NoTurboRestored == Quiet /\ "no_turbo" \notin lost => no_turbo = initial.no_turbo

(* README.md:79-83: while the benchmark measures there is no frequency      *)
(* scaling, unless another run has handed the settings back meanwhile.      *)
MeasuresUnscaled ==
  \A p \in Instance :
    pc[p] = "measure" /\ p \notin disturbed /\ ~host.in_vm =>
      /\ governor = Performance
      /\ host.intel => IF host.pstate THEN no_turbo = 1
                       ELSE \A c \in 1 .. NCores : msr[c] = 1

(* Lines 133-140 and Makefile:173-176: when no command fails by itself, a   *)
(* run with a proper --timer fails only because another run loaded or       *)
(* removed pfc.ko between its lsmod and its start of the benchmark.         *)
FailsOnlyIfReloaded ==
  \A p \in Instance : pc[p] = "failed" /\ timer[p] # "unknown" => p \in reloaded

(* Lines 45-60 and 146-154: a changed setting does not stay changed.  A run *)
(* that owes it ends and restores it, or has died owing it.                *)
SettingsEventuallyRestored ==
  /\ governor # initial.governor
       ~> governor = initial.governor \/ "governor" \in lost
  /\ no_turbo # initial.no_turbo
       ~> no_turbo = initial.no_turbo \/ "no_turbo" \in lost

GovernorLeases == INSTANCE SettingLease WITH
  Borrower <- Instance, Value <- Governor, Target <- Performance,
  original <- initial.governor, value <- governor, owed <- {p \in Instance : OwesGovernor(p)},
  lost <- "governor" \in lost

NoTurboLeases == INSTANCE SettingLease WITH
  Borrower <- Instance, Value <- {0, 1}, Target <- 1,
  original <- initial.no_turbo, value <- no_turbo, owed <- {p \in Instance : OwesNoTurbo(p)},
  lost <- "no_turbo" \in lost

(* Lines 45-60 and 114-154: the script implements two leases, one on the   *)
(* governor and one on the no_turbo switch.                                *)
SettingsLeased == GovernorLeases!Spec /\ NoTurboLeases!Spec

(* Line 142, "restore no turbo mode": once every run has ended, and none    *)
(* died before it came to restore the MSRs, turbo is not left disabled in   *)
(* one of them.                                                             *)
TurboBack == Quiet /\ "msr" \notin lost => msr = initial.msr
=============================================================================
