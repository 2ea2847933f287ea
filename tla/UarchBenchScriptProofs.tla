----------------------- MODULE UarchBenchScriptProofs -----------------------
(* Theorems about uarch-bench.sh for every set of runs and of machines. *)
EXTENDS UarchBenchScript, TLAPS

(* The loops over the cores stay inside them: DisableCore and RestoreCore   *)
(* are only reached with cores set, at a position below its length.         *)
LoopOK ==
  \A p \in Instance :
    /\ pc[p] \in {"wrmsr", "restore_msr"} => cores[p] = NCores /\ i[p] < NCores
    /\ pc[p] \in {"governor", "turbo"} => i[p] = 0

TInv == TypeOK /\ LoopOK

LEMMA GotoType ==
  ASSUME TypeOK, NEW p \in Instance, NEW command \in Ended \union Commands,
         Goto(p, command)
  PROVE  /\ pc' \in [Instance -> Ended \union Commands]
         /\ lost' \subseteq Setting
         /\ pc'[p] = command
         /\ \A q \in Instance \ {p} : pc'[q] = pc[q]
BY DEF TypeOK, HistoryOK, Goto

LEMMA Exit1Type ==
  ASSUME TypeOK, NEW p \in Instance, Exit1(p)
  PROVE  /\ pc' \in [Instance -> Ended \union Commands]
         /\ lost' \subseteq Setting
         /\ pc'[p] = "failed"
         /\ \A q \in Instance \ {p} : pc'[q] = pc[q]
<1>1. "failed" \in Ended \union Commands
  BY DEF Ended
<1>2. Debts(p) \subseteq Setting
  BY DEF Debts, Setting
<1> QED BY <1>1, <1>2 DEF TypeOK, HistoryOK, Exit1

(* The steps that leave the shell variables and the machine alone. *)
LEMMA ControlStep ==
  ASSUME TInv, NEW p \in Instance,
         NEW command \in (Ended \union Commands) \ {"wrmsr", "restore_msr"},
         command \in {"governor", "turbo"} => pc[p] = "governor",
         Goto(p, command) \/ (Exit1(p) /\ command = "failed"),
         MachineOK', UNCHANGED <<shell, initial>>,
         disturbed' \subseteq Instance, reloaded' \subseteq Instance
  PROVE  TInv'
<1>1. /\ pc' \in [Instance -> Ended \union Commands]
      /\ lost' \subseteq Setting
      /\ pc'[p] = command
      /\ \A q \in Instance \ {p} : pc'[q] = pc[q]
  BY GotoType, Exit1Type DEF TInv
<1>2. HistoryOK'
  BY <1>1 DEF TInv, TypeOK, HistoryOK
<1>3. ShellOK'
  BY DEF TInv, TypeOK, ShellOK, shell
<1>4. LoopOK'
  BY <1>1 DEF TInv, LoopOK, shell
<1> QED BY <1>1, <1>2, <1>3, <1>4 DEF TInv, TypeOK

LEMMA StartType ==
  ASSUME TInv, NEW p \in Instance, Start(p)
  PROVE  TInv'
<1>1. /\ pc' \in [Instance -> Ended \union Commands]
      /\ lost' \subseteq Setting
      /\ pc'[p] = "governor"
      /\ \A q \in Instance \ {p} : pc'[q] = pc[q]
  BY GotoType DEF TInv, Start, Commands
<1>2. MachineOK'
  BY DEF TInv, TypeOK, MachineOK, Start, machine
<1>5. HistoryOK'
  BY <1>1 DEF TInv, TypeOK, HistoryOK, Start
<1>3. ShellOK'
  <2>1. get_turbo_state_string(0) \in Seq(Words)
    BY DEF get_turbo_state_string
  <2>2. original_state' \in [Instance -> Seq(Words)]
    BY <2>1 DEF TInv, TypeOK, ShellOK, Start
  <2>3. SCALING_GOVERNOR' \in [Instance -> Governor \union {None}]
    BY DEF TInv, TypeOK, MachineOK, ShellOK, Start
  <2>4. /\ timer' \in [Instance -> Timer]
        /\ original_governor' \in [Instance -> Governor \union {None}]
        /\ original_no_turbo' \in [Instance -> {0, 1}]
    BY DEF TInv, TypeOK, ShellOK, Start
  <2>5. cores' \in [Instance -> {0, NCores}] /\ i' \in [Instance -> 0 .. NCores]
    BY ConstantsAssumption DEF TInv, TypeOK, ShellOK, Start
  <2> QED BY <2>2, <2>3, <2>4, <2>5 DEF ShellOK
<1>4. LoopOK'
  BY <1>1 DEF TInv, TypeOK, ShellOK, LoopOK, Start
<1> QED BY <1>1, <1>2, <1>3, <1>4, <1>5 DEF TInv, TypeOK

(* The loops over the cores: wrmsr in check_no_turbo, and the restore. *)
LEMMA LoopSteps ==
  ASSUME TInv, NEW p \in Instance,
         FindCores(p) \/ DisableCore(p) \/ FindOriginalState(p) \/ RestoreCore(p)
  PROVE  TInv'
<1> USE ConstantsAssumption
<1>1. CASE FindCores(p)
  <2>1. /\ pc' \in [Instance -> Ended \union Commands]
        /\ lost' \subseteq Setting
        /\ pc'[p] = "wrmsr"
        /\ \A q \in Instance \ {p} : pc'[q] = pc[q]
    BY <1>1, GotoType DEF TInv, FindCores, Commands
  <2>2. MachineOK'
    BY <1>1 DEF TInv, TypeOK, MachineOK, FindCores, machine
  <2>6. HistoryOK'
    BY <1>1, <2>1 DEF TInv, TypeOK, HistoryOK, FindCores
  <2>3. ShellOK'
    BY <1>1 DEF TInv, TypeOK, ShellOK, FindCores
  <2>4. i[p] < NCores
    BY <1>1 DEF FindCores, TInv, LoopOK, At
  <2>5. LoopOK'
    BY <1>1, <2>1, <2>4 DEF TInv, TypeOK, ShellOK, LoopOK, FindCores
  <2> QED BY <2>1, <2>2, <2>3, <2>5, <2>6 DEF TInv, TypeOK
<1>2. CASE DisableCore(p)
  <2>1. cores[p] = NCores /\ i[p] \in 0 .. NCores - 1
    BY <1>2 DEF TInv, TypeOK, ShellOK, LoopOK, DisableCore, At
  <2>2. MachineOK'
    BY <1>2, <2>1 DEF TInv, TypeOK, MachineOK, DisableCore
  <2>3. UNCHANGED <<timer, SCALING_GOVERNOR, original_governor, original_no_turbo,
                    original_state, cores, initial, disturbed, reloaded>>
    BY <1>2 DEF DisableCore
  <2>4. CASE i[p] + 1 < cores[p]
    <3>1. i' = [i EXCEPT ![p] = i[p] + 1] /\ UNCHANGED <<pc, lost>>
      BY <1>2, <2>4 DEF DisableCore
    <3>2. ShellOK'
      BY <2>1, <2>3, <2>4, <3>1 DEF TInv, TypeOK, ShellOK
    <3>3. HistoryOK'
      BY <2>3, <3>1 DEF TInv, TypeOK, HistoryOK
    <3>4. LoopOK'
      BY <1>2, <2>1, <2>3, <2>4, <3>1 DEF TInv, TypeOK, ShellOK, LoopOK, DisableCore, At
    <3> QED BY <2>2, <3>1, <3>2, <3>3, <3>4 DEF TInv, TypeOK
  <2>5. CASE ~(i[p] + 1 < cores[p])
    <3>1. i' = [i EXCEPT ![p] = 0] /\ Goto(p, "timer")
      BY <1>2, <2>5 DEF DisableCore
    <3>2. /\ pc' \in [Instance -> Ended \union Commands]
          /\ lost' \subseteq Setting
          /\ pc'[p] = "timer"
          /\ \A q \in Instance \ {p} : pc'[q] = pc[q]
      BY <3>1, GotoType DEF TInv, Commands
    <3>3. ShellOK'
      BY <2>3, <3>1 DEF TInv, TypeOK, ShellOK
    <3>4. HistoryOK'
      BY <2>3, <3>2 DEF TInv, TypeOK, HistoryOK
    <3>5. LoopOK'
      BY <2>3, <3>1, <3>2 DEF TInv, TypeOK, ShellOK, LoopOK
    <3> QED BY <2>2, <3>2, <3>3, <3>4, <3>5 DEF TInv, TypeOK
  <2> QED BY <2>4, <2>5
<1>3. CASE FindOriginalState(p)
  <2>1. PICK command \in {"restore_governor", "restore_msr"} :
           Goto(p, command) /\ (command = "restore_msr" => cores[p] # 0)
    BY <1>3 DEF FindOriginalState
  <2>2. /\ pc' \in [Instance -> Ended \union Commands]
        /\ lost' \subseteq Setting
        /\ pc'[p] = command
        /\ \A q \in Instance \ {p} : pc'[q] = pc[q]
    BY <2>1, GotoType DEF TInv, Commands
  <2>3. MachineOK'
    BY <1>3 DEF TInv, TypeOK, MachineOK, FindOriginalState, machine
  <2>4. ShellOK'
    BY <1>3 DEF TInv, TypeOK, ShellOK, FindOriginalState
  <2>5. HistoryOK'
    BY <1>3, <2>2 DEF TInv, TypeOK, HistoryOK, FindOriginalState
  <2>6. LoopOK'
    BY <1>3, <2>1, <2>2 DEF TInv, TypeOK, ShellOK, LoopOK, FindOriginalState
  <2> QED BY <2>2, <2>3, <2>4, <2>5, <2>6 DEF TInv, TypeOK
<1>4. CASE RestoreCore(p)
  <2>1. cores[p] = NCores /\ i[p] \in 0 .. NCores - 1
    BY <1>4 DEF TInv, TypeOK, ShellOK, LoopOK, RestoreCore, At
  <2>2. MachineOK'
    BY <1>4, <2>1 DEF TInv, TypeOK, MachineOK, RestoreCore
  <2>3. /\ UNCHANGED <<timer, SCALING_GOVERNOR, original_governor, original_no_turbo,
                       original_state, cores, initial, disturbed, reloaded>>
        /\ i' = [i EXCEPT ![p] = i[p] + 1]
    BY <1>4 DEF RestoreCore
  <2>4. PICK command \in {"failed", "restore_msr", "restore_governor"} :
           /\ Goto(p, command) \/ (Exit1(p) /\ command = "failed")
           /\ command = "restore_msr" => i[p] + 1 < cores[p]
    BY <1>4 DEF RestoreCore
  <2>5. /\ pc' \in [Instance -> Ended \union Commands]
        /\ lost' \subseteq Setting
        /\ pc'[p] = command
        /\ \A q \in Instance \ {p} : pc'[q] = pc[q]
    BY <2>4, GotoType, Exit1Type DEF TInv, Ended, Commands
  <2>6. ShellOK'
    BY <2>1, <2>3 DEF TInv, TypeOK, ShellOK
  <2>7. HistoryOK'
    BY <2>3, <2>5 DEF TInv, TypeOK, HistoryOK
  <2>8. LoopOK'
    BY <2>1, <2>3, <2>4, <2>5 DEF TInv, TypeOK, ShellOK, LoopOK
  <2> QED BY <2>2, <2>5, <2>6, <2>7, <2>8 DEF TInv, TypeOK
<1> QED BY <1>1, <1>2, <1>3, <1>4

(* The two steps that keep a value to restore. *)
LEMMA KeepSteps ==
  ASSUME TInv, NEW p \in Instance, SetGovernor(p) \/ ReadNoTurbo(p)
  PROVE  TInv'
<1> USE ConstantsAssumption
<1>1. PICK command \in {"turbo", "timer", "write_turbo"} :
         /\ Goto(p, command)
         /\ command = "turbo" => pc[p] = "governor"
  BY DEF SetGovernor, ReadNoTurbo, At
<1>2. /\ pc' \in [Instance -> Ended \union Commands]
      /\ lost' \subseteq Setting
      /\ pc'[p] = command
      /\ \A q \in Instance \ {p} : pc'[q] = pc[q]
  BY <1>1, GotoType DEF TInv, Commands
<1>3. MachineOK'
  BY DEF TInv, TypeOK, MachineOK, SetGovernor, ReadNoTurbo, machine
<1>4. ShellOK'
  <2>1. CASE SetGovernor(p)
    BY <2>1 DEF TInv, TypeOK, ShellOK, SetGovernor
  <2>2. CASE ReadNoTurbo(p)
    BY <2>2 DEF TInv, TypeOK, MachineOK, ShellOK, ReadNoTurbo
  <2> QED BY <2>1, <2>2
<1>5. UNCHANGED <<cores, i, initial, disturbed, reloaded>>
  BY DEF SetGovernor, ReadNoTurbo
<1>6. HistoryOK'
  BY <1>2, <1>5 DEF TInv, TypeOK, HistoryOK
<1>7. LoopOK'
  BY <1>1, <1>2, <1>5 DEF TInv, LoopOK
<1> QED BY <1>2, <1>3, <1>4, <1>6, <1>7 DEF TInv, TypeOK

(* The steps that only move on, or change one setting of the machine. *)
LEMMA PlainSteps ==
  ASSUME TInv, NEW p \in Instance,
         \/ KeepGovernor(p) \/ SkipTurbo(p) \/ WriteNoTurbo(p) \/ MsrToolsMissing(p)
         \/ DumpTimer(p) \/ DumpTimerFails(p) \/ EnableRdpmc(p) \/ FindPfc(p)
         \/ Rmmod(p) \/ Insmod(p) \/ RunBench(p) \/ FinishBench(p) \/ LeaveTurbo(p)
         \/ RestoreNoTurbo(p) \/ RestoreGovernor(p) \/ Abort(p)
  PROVE  TInv'
<1>1. PICK command \in (Ended \union Commands) \ {"wrmsr", "restore_msr"} :
         /\ command \in {"governor", "turbo"} => pc[p] = "governor"
         /\ Goto(p, command) \/ (Exit1(p) /\ command = "failed")
  BY DEF KeepGovernor, SkipTurbo, WriteNoTurbo, MsrToolsMissing, DumpTimer,
         DumpTimerFails, EnableRdpmc, FindPfc, Rmmod, Insmod, RunBench, FinishBench,
         LeaveTurbo, RestoreNoTurbo, RestoreGovernor, Abort, At, Ended, Commands, Measuring
<1>2. UNCHANGED <<shell, initial>>
  BY DEF KeepGovernor, SkipTurbo, WriteNoTurbo, MsrToolsMissing, DumpTimer,
         DumpTimerFails, EnableRdpmc, FindPfc, Rmmod, Insmod, RunBench, FinishBench,
         LeaveTurbo, RestoreNoTurbo, RestoreGovernor, Abort
<1>3. disturbed' \subseteq Instance /\ reloaded' \subseteq Instance
  BY DEF TInv, TypeOK, HistoryOK, Disturb, Reload, KeepGovernor, SkipTurbo, WriteNoTurbo,
         MsrToolsMissing, DumpTimer, DumpTimerFails, EnableRdpmc, FindPfc, Rmmod,
         Insmod, RunBench, FinishBench, LeaveTurbo, RestoreNoTurbo, RestoreGovernor, Abort
<1>4. MachineOK'
  <2>1. CASE RestoreGovernor(p)
    BY <2>1 DEF TInv, TypeOK, MachineOK, ShellOK, RestoreGovernor
  <2>2. CASE WriteNoTurbo(p) \/ EnableRdpmc(p) \/ RestoreNoTurbo(p)
    BY <2>2 DEF TInv, TypeOK, MachineOK, WriteNoTurbo, EnableRdpmc, RestoreNoTurbo
  <2>4. CASE Rmmod(p) \/ Insmod(p)
    BY <2>4 DEF TInv, TypeOK, MachineOK, Rmmod, Insmod
  <2>3. CASE UNCHANGED machine
    BY <2>3 DEF TInv, TypeOK, MachineOK, machine
  <2> QED
    BY <2>1, <2>2, <2>3, <2>4 DEF KeepGovernor, SkipTurbo, MsrToolsMissing, DumpTimer,
         DumpTimerFails, FindPfc, RunBench, FinishBench, LeaveTurbo, Abort
<1> QED BY <1>1, <1>2, <1>3, <1>4, ControlStep

(* Types, and the loops over the cores stay inside $cores. *)
LEMMA TInvInvariant == Spec => []TInv
<1>1. Init => TInv
  <2> SUFFICES ASSUME Init PROVE TInv
    OBVIOUS
  <2> USE ConstantsAssumption DEF Init
  <2>1. MachineOK
    BY DEF MachineOK
  <2>2. ShellOK
    BY DEF ShellOK, Timer
  <2>3. HistoryOK
    BY DEF HistoryOK
  <2> QED BY <2>1, <2>2, <2>3 DEF TInv, TypeOK, LoopOK, Ended
<1>2. TInv /\ [Next]_vars => TInv'
  <2> SUFFICES ASSUME TInv, [Next]_vars PROVE TInv'
    OBVIOUS
  <2>1. CASE UNCHANGED vars
    BY <2>1 DEF vars, machine, shell, history, TInv, TypeOK, MachineOK, ShellOK,
                HistoryOK, LoopOK
  <2>2. CASE Next
    BY <2>2, StartType, LoopSteps, KeepSteps, PlainSteps DEF Next, Step
  <2> QED BY <2>1, <2>2
<1> QED BY <1>1, <1>2, PTL DEF Spec

(* The machine and the shell variables of every run have the values the     *)
(* commands of uarch-bench.sh can leave in them.                            *)
THEOREM TypeCorrect == Spec => []TypeOK
BY TInvInvariant, PTL DEF TInv

-----------------------------------------------------------------------------
(* The governor.  GovernorRestored is not inductive: it speaks of quiet     *)
(* states only.  What every state keeps is that the governor is either the  *)
(* original one or performance, that what a run has read or kept is one of  *)
(* the two, and that somebody owes the return as long as it is changed.     *)
GovernorInv ==
  /\ governor \in {initial.governor, Performance}
  /\ \A p \in Instance :
       /\ SCALING_GOVERNOR[p] \in {None, Performance, initial.governor}
       /\ original_governor[p] \in {None, initial.governor}
  /\ governor # initial.governor /\ "governor" \notin lost =>
       \E p \in Instance : OwesGovernor(p)

(* What a step does to the debts of the governor, however it moves pc. *)
LEMMA PcStep ==
  ASSUME TInv, NEW p \in Instance, Start(p) \/ Step(p) \/ DumpTimerFails(p) \/ Abort(p)
  PROVE  /\ \A q \in Instance \ {p} : pc'[q] = pc[q]
         /\ \/ pc'[p] \in Commands /\ UNCHANGED lost
            \/ pc'[p] = "failed" /\ lost' = lost \union Debts(p)
            \/ pc'[p] = "done" /\ UNCHANGED lost /\ RestoreGovernor(p)
<1>1. CASE Exit1(p)
  BY <1>1, Exit1Type DEF TInv, Exit1
<1>2. ASSUME NEW command \in Commands, Goto(p, command)
      PROVE  pc'[p] \in Commands /\ UNCHANGED lost /\ \A q \in Instance \ {p} : pc'[q] = pc[q]
  BY <1>2, GotoType DEF TInv, Goto
<1>3. CASE RestoreGovernor(p)
  BY <1>3, GotoType DEF TInv, RestoreGovernor, Ended, Goto
<1>4. CASE DisableCore(p)
  <2>1. CASE UNCHANGED <<pc, lost>>
    BY <1>4, <2>1 DEF DisableCore, At, Commands
  <2>2. CASE Goto(p, "timer")
    BY <1>2, <2>2 DEF Commands
  <2> QED BY <1>4, <2>1, <2>2 DEF DisableCore
<1>5. CASE ~Exit1(p) /\ ~RestoreGovernor(p) /\ ~DisableCore(p)
  <2>1. PICK command \in Commands : Goto(p, command)
    BY <1>5 DEF Start, Step, DumpTimerFails, Abort, SetGovernor, KeepGovernor, SkipTurbo,
         ReadNoTurbo, WriteNoTurbo, FindCores, MsrToolsMissing, DumpTimer, EnableRdpmc,
         FindPfc, Rmmod, Insmod, RunBench, FinishBench, LeaveTurbo, RestoreNoTurbo,
         FindOriginalState, RestoreCore, Commands, Measuring
  <2> QED BY <2>1, <1>2
<1> QED BY <1>1, <1>3, <1>4, <1>5

LEMMA GovernorInvariant == Spec => []GovernorInv
<1>1. Init => GovernorInv
  BY DEF Init, GovernorInv
<1>2. TInv /\ GovernorInv /\ [Next]_vars => GovernorInv'
  <2> SUFFICES ASSUME TInv, GovernorInv, [Next]_vars PROVE GovernorInv'
    OBVIOUS
  <2>1. CASE UNCHANGED vars
    BY <2>1 DEF vars, machine, shell, history, GovernorInv, OwesGovernor
  <2>2. CASE Next
    <3>1. PICK p \in Instance : Start(p) \/ Step(p) \/ DumpTimerFails(p) \/ Abort(p)
      BY <2>2 DEF Next
    <3>2. UNCHANGED initial
      BY <3>1 DEF Start, Step, DumpTimerFails, Abort, SetGovernor, KeepGovernor, SkipTurbo,
         ReadNoTurbo, WriteNoTurbo, FindCores, MsrToolsMissing, DumpTimer, EnableRdpmc,
         FindPfc, Rmmod, Insmod, RunBench, FinishBench, LeaveTurbo, RestoreNoTurbo,
         FindOriginalState, RestoreCore, RestoreGovernor, DisableCore
    <3>3. \/ Start(p) \/ SetGovernor(p) \/ RestoreGovernor(p)
          \/ UNCHANGED <<governor, SCALING_GOVERNOR, original_governor>>
      BY <3>1 DEF Step, DumpTimerFails, Abort, KeepGovernor, SkipTurbo,
         ReadNoTurbo, WriteNoTurbo, FindCores, MsrToolsMissing, DumpTimer, EnableRdpmc,
         FindPfc, Rmmod, Insmod, RunBench, FinishBench, LeaveTurbo, RestoreNoTurbo,
         FindOriginalState, RestoreCore, DisableCore, machine, shell
    <3>4. /\ \A q \in Instance \ {p} : pc'[q] = pc[q]
          /\ \/ pc'[p] \in Commands /\ UNCHANGED lost
             \/ pc'[p] = "failed" /\ lost' = lost \union Debts(p)
             \/ pc'[p] = "done" /\ UNCHANGED lost /\ RestoreGovernor(p)
      BY <3>1, PcStep
    <3>5. CASE Start(p)
      <4>1. /\ governor' = governor
            /\ SCALING_GOVERNOR'[p] \in {None, governor} /\ original_governor'[p] = None
            /\ \A q \in Instance \ {p} : /\ SCALING_GOVERNOR'[q] = SCALING_GOVERNOR[q]
                                         /\ original_governor'[q] = original_governor[q]
        BY <3>5 DEF Start, TInv, TypeOK, ShellOK, machine
      <4>2. ~OwesGovernor(p) /\ UNCHANGED lost
        BY <3>5 DEF Start, Goto, OwesGovernor, Ended, Commands, Measuring
      <4> QED BY <3>2, <3>4, <4>1, <4>2 DEF GovernorInv, OwesGovernor
    <3>6. CASE SetGovernor(p)
      <4>1. /\ original_governor' = [original_governor EXCEPT ![p] = SCALING_GOVERNOR[p]]
            /\ SCALING_GOVERNOR[p] \notin {None, Performance}
            /\ governor' = Performance /\ UNCHANGED SCALING_GOVERNOR
            /\ pc'[p] \in Commands
        BY <3>6, GotoType DEF SetGovernor, TInv, Commands
      <4>2. /\ original_governor'[p] = SCALING_GOVERNOR[p]
            /\ \A q \in Instance \ {p} : original_governor'[q] = original_governor[q]
        BY <4>1 DEF TInv, TypeOK, ShellOK
      <4> QED BY <3>2, <4>1, <4>2 DEF GovernorInv, OwesGovernor
    <3>7. CASE RestoreGovernor(p)
      <4>1. /\ governor' = IF original_governor[p] # None THEN original_governor[p] ELSE governor
            /\ UNCHANGED <<SCALING_GOVERNOR, original_governor, lost>>
        BY <3>7 DEF RestoreGovernor, shell, Goto
      <4> QED BY <3>2, <3>4, <4>1 DEF GovernorInv, OwesGovernor
    <3>8. CASE /\ UNCHANGED <<governor, SCALING_GOVERNOR, original_governor>>
               /\ ~RestoreGovernor(p)
      BY <3>2, <3>4, <3>8 DEF GovernorInv, OwesGovernor, Debts, Setting
    <3> QED BY <3>3, <3>5, <3>6, <3>7, <3>8
  <2> QED BY <2>1, <2>2
<1> QED BY <1>1, <1>2, TInvInvariant, PTL DEF Spec

(* Lines 142-154 and README.md:83: the governor is the original one once    *)
(* every run has ended, unless one died owing it, for any number of         *)
(* overlapping runs on any machine.                                         *)
THEOREM GovernorAlwaysRestored == Spec => []GovernorRestored
<1>1. GovernorInv => GovernorRestored
  BY DEF GovernorInv, GovernorRestored, Quiet, OwesGovernor, Ended, Commands, Measuring
<1> QED BY <1>1, GovernorInvariant, PTL

-----------------------------------------------------------------------------
(* The no_turbo switch.  restore_no_turbo cannot tell a value that was read *)
(* from the default of original_no_turbo, so everything about the switch    *)
(* needs that the vendor test finds an Intel processor wherever the         *)
(* intel_pstate driver runs: then every run that comes to restore it has    *)
(* read it.                                                                 *)
VendorTestRight == \A h \in Hosts : ~h.in_vm /\ h.pstate => h.intel

(* The commands between the change of the switch and its return. *)
Leasing == Measuring \union {"timer", "restore_turbo"}

(* As for the governor: the switch is the original one or 1, a run only     *)
(* keeps a 0 that is the original value, and somebody owes the return.      *)
NoTurboInv ==
  /\ no_turbo \in {1, initial.no_turbo}
  /\ \A p \in Instance :
       /\ pc[p] = "wrmsr" => UsesMsr
       /\ pc[p] = "write_turbo" => UsesPstate /\ host.intel /\ original_no_turbo[p] = 0
       /\ UsesPstate /\ pc[p] \in Leasing \union {"write_turbo"} /\ original_no_turbo[p] = 0
            => initial.no_turbo = 0
  /\ no_turbo # initial.no_turbo /\ "no_turbo" \notin lost =>
       \E p \in Instance : OwesNoTurbo(p)

(* The steps that neither read nor write the switch. *)
Elsewhere(p) ==
  \/ Start(p) \/ SetGovernor(p) \/ KeepGovernor(p) \/ SkipTurbo(p) \/ FindCores(p)
  \/ MsrToolsMissing(p) \/ DisableCore(p) \/ DumpTimer(p) \/ DumpTimerFails(p)
  \/ EnableRdpmc(p) \/ FindPfc(p) \/ Rmmod(p) \/ Insmod(p) \/ RunBench(p)
  \/ FinishBench(p) \/ LeaveTurbo(p) \/ FindOriginalState(p) \/ RestoreCore(p)
  \/ RestoreGovernor(p) \/ Abort(p)

LEMMA EveryStep ==
  ASSUME NEW p \in Instance, Start(p) \/ Step(p) \/ DumpTimerFails(p) \/ Abort(p)
  PROVE  /\ Elsewhere(p) \/ ReadNoTurbo(p) \/ WriteNoTurbo(p) \/ RestoreNoTurbo(p)
         /\ UNCHANGED <<host, initial>>
<1>1. Elsewhere(p) \/ ReadNoTurbo(p) \/ WriteNoTurbo(p) \/ RestoreNoTurbo(p)
  BY DEF Elsewhere, Step
<1>2. UNCHANGED <<host, initial>>
  BY DEF Step, Start, DumpTimerFails, Abort, SetGovernor, KeepGovernor, SkipTurbo,
         ReadNoTurbo, WriteNoTurbo, FindCores, MsrToolsMissing, DisableCore, DumpTimer,
         EnableRdpmc, FindPfc, Rmmod, Insmod, RunBench, FinishBench, LeaveTurbo,
         RestoreNoTurbo, FindOriginalState, RestoreCore, RestoreGovernor, machine
<1> QED BY <1>1, <1>2

(* What the other steps do to the lease of the switch: nothing, or they end *)
(* the run where it stands.                                                 *)
LEMMA ElsewhereStep ==
  ASSUME TInv, NoTurboInv, VendorTestRight, NEW p \in Instance, Elsewhere(p)
  PROVE  /\ UNCHANGED no_turbo
         /\ Start(p) \/ UNCHANGED original_no_turbo
         /\ \A q \in Instance \ {p} : /\ pc'[q] = pc[q]
                                      /\ original_no_turbo'[q] = original_no_turbo[q]
         /\ \/ pc'[p] = "failed" /\ lost' = lost \union Debts(p)
            \/ /\ UNCHANGED lost
               /\ pc'[p] = "write_turbo" => pc[p] = "write_turbo"
               /\ pc'[p] = "wrmsr" => UsesMsr
               /\ UsesPstate => (pc[p] \in Leasing <=> pc'[p] \in Leasing)
<1>1. UNCHANGED no_turbo /\ (Start(p) \/ UNCHANGED original_no_turbo)
  BY DEF Elsewhere, Start, DumpTimerFails, Abort, SetGovernor, KeepGovernor, SkipTurbo,
         FindCores, MsrToolsMissing, DisableCore, DumpTimer, EnableRdpmc, FindPfc, Rmmod,
         Insmod, RunBench, FinishBench, LeaveTurbo, FindOriginalState, RestoreCore,
         RestoreGovernor, machine, shell
<1>2. \A q \in Instance \ {p} : original_no_turbo'[q] = original_no_turbo[q]
  BY <1>1 DEF Start, TInv, TypeOK, ShellOK
<1>3. \A q \in Instance \ {p} : pc'[q] = pc[q]
  BY PcStep DEF Elsewhere, Step
<1>4. ASSUME NEW command \in Ended \union Commands, Goto(p, command)
      PROVE  pc'[p] = command /\ UNCHANGED lost
  BY <1>4, GotoType DEF TInv, Goto
<1>5. CASE Exit1(p)
  BY <1>1, <1>2, <1>3, <1>5, Exit1Type DEF TInv, Exit1
<1>6. host \in Hosts /\ (UsesPstate => host.intel)
  BY DEF TInv, TypeOK, MachineOK, UsesPstate, VendorTestRight
<1>7. CASE Start(p) \/ SetGovernor(p) \/ KeepGovernor(p)
  <2>1. PICK command \in {"governor", "turbo"} : Goto(p, command)
    BY <1>7 DEF Start, SetGovernor, KeepGovernor
  <2>2. pc'[p] = command /\ UNCHANGED lost
    BY <2>1, <1>4 DEF Commands
  <2>3. pc[p] \in Ended \union {"governor"}
    BY <1>7 DEF Start, SetGovernor, KeepGovernor, At
  <2> QED BY <1>1, <1>2, <1>3, <2>2, <2>3 DEF Leasing, Measuring, Ended
<1>8. CASE SkipTurbo(p)
  <2>1. ~UsesPstate /\ Goto(p, "timer")
    BY <1>6, <1>8 DEF SkipTurbo, UsesPstate
  <2> QED BY <1>1, <1>2, <1>3, <1>4, <2>1 DEF Commands
<1>9. CASE FindCores(p)
  <2>1. UsesMsr /\ ~UsesPstate /\ Goto(p, "wrmsr")
    BY <1>9 DEF FindCores, UsesPstate, UsesMsr
  <2> QED BY <1>1, <1>2, <1>3, <1>4, <2>1 DEF Commands
<1>10. CASE DisableCore(p)
  <2>1. UsesMsr /\ ~UsesPstate /\ pc[p] = "wrmsr"
    BY <1>10 DEF DisableCore, At, NoTurboInv, UsesPstate, UsesMsr
  <2>2. UNCHANGED <<pc, lost>> \/ Goto(p, "timer")
    BY <1>10 DEF DisableCore
  <2> QED BY <1>1, <1>2, <1>3, <1>4, <2>1, <2>2 DEF Commands
<1>11. CASE /\ ~Exit1(p)
            /\ \/ DumpTimer(p) \/ DumpTimerFails(p) \/ EnableRdpmc(p) \/ FindPfc(p)
               \/ Rmmod(p) \/ Insmod(p) \/ RunBench(p) \/ FinishBench(p)
  <2>1. PICK command \in Measuring \union {"restore_turbo"} : Goto(p, command)
    BY <1>11 DEF DumpTimer, DumpTimerFails, EnableRdpmc, FindPfc, Rmmod, Insmod, RunBench,
                 FinishBench, Measuring
  <2>2. pc[p] \in Measuring \union {"timer"}
    BY <1>11 DEF DumpTimer, DumpTimerFails, EnableRdpmc, FindPfc, Rmmod, Insmod, RunBench,
                 FinishBench, Measuring, At
  <2>3. pc'[p] = command /\ UNCHANGED lost
    BY <2>1, <1>4 DEF Commands
  <2> QED BY <1>1, <1>2, <1>3, <2>2, <2>3 DEF Leasing, Measuring
<1>12. CASE /\ ~Exit1(p)
            /\ LeaveTurbo(p) \/ FindOriginalState(p) \/ RestoreCore(p) \/ RestoreGovernor(p)
  <2>1. PICK command \in {"restore_governor", "restore_msr", "done"} : Goto(p, command)
    BY <1>12 DEF LeaveTurbo, FindOriginalState, RestoreCore, RestoreGovernor
  <2>2. pc'[p] = command /\ UNCHANGED lost
    BY <2>1, <1>4 DEF Commands, Ended
  <2>3. ~UsesPstate \/ pc[p] \notin Leasing
    BY <1>12 DEF LeaveTurbo, FindOriginalState, RestoreCore, RestoreGovernor, At,
                 UsesPstate, UsesMsr, Leasing, Measuring
  <2> QED BY <1>1, <1>2, <1>3, <2>2, <2>3 DEF Leasing, Measuring
<1> QED
  BY <1>5, <1>7, <1>8, <1>9, <1>10, <1>11, <1>12 DEF Elsewhere, MsrToolsMissing, Abort

(* The three steps on the switch. *)
LEMMA SwitchStep ==
  ASSUME TInv, NEW p \in Instance,
         ReadNoTurbo(p) \/ WriteNoTurbo(p) \/ RestoreNoTurbo(p)
  PROVE  /\ UsesPstate \/ pc[p] = "write_turbo"
         /\ UNCHANGED lost
         /\ \A q \in Instance \ {p} : /\ pc'[q] = pc[q]
                                      /\ original_no_turbo'[q] = original_no_turbo[q]
         /\ \/ /\ ReadNoTurbo(p) /\ UNCHANGED no_turbo
               /\ pc[p] = "turbo" /\ host.intel
               /\ original_no_turbo'[p] = no_turbo
               /\ pc'[p] = IF no_turbo # 1 THEN "write_turbo" ELSE "timer"
            \/ /\ WriteNoTurbo(p) /\ UNCHANGED original_no_turbo
               /\ pc[p] = "write_turbo" /\ pc'[p] = "timer" /\ no_turbo' = 1
            \/ /\ RestoreNoTurbo(p) /\ UNCHANGED original_no_turbo
               /\ pc[p] = "restore_turbo" /\ pc'[p] = "restore_governor"
               /\ no_turbo' = IF original_no_turbo[p] = 0 THEN 0 ELSE no_turbo
<1>1. ASSUME NEW command \in Commands, Goto(p, command)
      PROVE  /\ pc'[p] = command /\ UNCHANGED lost
             /\ \A q \in Instance \ {p} : pc'[q] = pc[q]
  BY <1>1, GotoType DEF TInv, Goto
<1>2. CASE ReadNoTurbo(p)
  <2>1. /\ Goto(p, IF no_turbo # 1 THEN "write_turbo" ELSE "timer")
        /\ (IF no_turbo # 1 THEN "write_turbo" ELSE "timer") \in Commands
        /\ original_no_turbo' = [original_no_turbo EXCEPT ![p] = no_turbo]
        /\ UNCHANGED no_turbo
    BY <1>2 DEF ReadNoTurbo, Commands, machine
  <2>2. /\ original_no_turbo'[p] = no_turbo
        /\ \A q \in Instance \ {p} : original_no_turbo'[q] = original_no_turbo[q]
    BY <2>1 DEF TInv, TypeOK, ShellOK
  <2>3. pc[p] = "turbo" /\ UsesPstate /\ host.intel
    BY <1>2 DEF ReadNoTurbo, At
  <2> QED BY <1>1, <1>2, <2>1, <2>2, <2>3
<1>3. CASE WriteNoTurbo(p)
  <2>1. pc[p] = "write_turbo" /\ Goto(p, "timer") /\ no_turbo' = 1 /\ UNCHANGED original_no_turbo
    BY <1>3 DEF WriteNoTurbo, At, shell
  <2> QED BY <1>1, <1>3, <2>1 DEF Commands
<1>4. CASE RestoreNoTurbo(p)
  <2>1. /\ pc[p] = "restore_turbo" /\ UsesPstate /\ Goto(p, "restore_governor")
        /\ no_turbo' = IF original_no_turbo[p] = 0 THEN 0 ELSE no_turbo
        /\ UNCHANGED original_no_turbo
    BY <1>4 DEF RestoreNoTurbo, At, shell
  <2> QED BY <1>1, <1>4, <2>1 DEF Commands
<1> QED BY <1>2, <1>3, <1>4

LEMMA NoTurboInvariant ==
  ASSUME VendorTestRight
  PROVE  Spec => []NoTurboInv
<1>1. Init => NoTurboInv
  BY DEF Init, NoTurboInv, Leasing, Measuring
<1>2. TInv /\ NoTurboInv /\ [Next]_vars => NoTurboInv'
  <2> SUFFICES ASSUME TInv, NoTurboInv, [Next]_vars PROVE NoTurboInv'
    OBVIOUS
  <2>1. CASE UNCHANGED vars
    BY <2>1 DEF vars, machine, shell, history, NoTurboInv, OwesNoTurbo, UsesPstate, UsesMsr
  <2>2. ASSUME NEW p \in Instance, Start(p) \/ Step(p) \/ DumpTimerFails(p) \/ Abort(p)
        PROVE  NoTurboInv'
    <3>1. UNCHANGED <<host, initial>> /\ (UsesPstate' <=> UsesPstate) /\ (UsesMsr' <=> UsesMsr)
      BY <2>2, EveryStep DEF UsesPstate, UsesMsr
    <3>2. CASE Elsewhere(p)
      <4>1. /\ UNCHANGED no_turbo
            /\ Start(p) \/ UNCHANGED original_no_turbo
            /\ \A q \in Instance \ {p} : /\ pc'[q] = pc[q]
                                         /\ original_no_turbo'[q] = original_no_turbo[q]
            /\ \/ pc'[p] = "failed" /\ lost' = lost \union Debts(p)
               \/ /\ UNCHANGED lost
                  /\ pc'[p] = "write_turbo" => pc[p] = "write_turbo"
                  /\ pc'[p] = "wrmsr" => UsesMsr
                  /\ UsesPstate => (pc[p] \in Leasing <=> pc'[p] \in Leasing)
        BY <3>2, ElsewhereStep
      <4>2. Start(p) => pc[p] \in Ended /\ pc[p] \notin Leasing \union {"write_turbo"}
        BY DEF Start, Ended, Leasing, Measuring
      <4>3. "failed" \notin Leasing \union {"write_turbo", "wrmsr"}
        BY DEF Leasing, Measuring
      <4>4. /\ pc'[p] = "wrmsr" => UsesMsr
            /\ pc'[p] = "write_turbo" => UsesPstate /\ host.intel /\ original_no_turbo'[p] = 0
            /\ UsesPstate /\ pc'[p] \in Leasing \union {"write_turbo"} /\ original_no_turbo'[p] = 0
                 => initial.no_turbo = 0
        BY <4>1, <4>2, <4>3 DEF NoTurboInv
      <4>5. OwesNoTurbo(p) /\ ~OwesNoTurbo(p)' => "no_turbo" \in lost'
        BY <3>1, <4>1, <4>2 DEF OwesNoTurbo, Debts, Setting, Leasing
      <4>6. \A q \in Instance \ {p} : OwesNoTurbo(q)' <=> OwesNoTurbo(q)
        BY <3>1, <4>1 DEF OwesNoTurbo
      <4>7. no_turbo' # initial'.no_turbo /\ "no_turbo" \notin lost' =>
              \E q \in Instance : OwesNoTurbo(q)'
        BY <3>1, <4>1, <4>5, <4>6 DEF NoTurboInv
      <4> QED BY <3>1, <4>1, <4>4, <4>7 DEF NoTurboInv
    <3>3. CASE ReadNoTurbo(p) \/ WriteNoTurbo(p) \/ RestoreNoTurbo(p)
      <4>1. /\ UsesPstate
            /\ UNCHANGED lost
            /\ \A q \in Instance \ {p} : /\ pc'[q] = pc[q]
                                         /\ original_no_turbo'[q] = original_no_turbo[q]
        BY <3>3, SwitchStep DEF NoTurboInv
      <4>2. \A q \in Instance \ {p} : OwesNoTurbo(q)' <=> OwesNoTurbo(q)
        BY <3>1, <4>1 DEF OwesNoTurbo
      <4>3. no_turbo \in {0, 1} /\ original_no_turbo[p] \in {0, 1} /\ initial.no_turbo \in {0, 1}
        BY DEF TInv, TypeOK, MachineOK, ShellOK, HistoryOK
      <4>4. CASE /\ UNCHANGED no_turbo /\ pc[p] = "turbo" /\ host.intel
                 /\ original_no_turbo'[p] = no_turbo
                 /\ pc'[p] = IF no_turbo # 1 THEN "write_turbo" ELSE "timer"
        <5>1. ~OwesNoTurbo(p)
          BY <4>4 DEF OwesNoTurbo, Measuring
        <5> QED BY <3>1, <4>1, <4>2, <4>3, <4>4, <5>1 DEF NoTurboInv
      <4>5. CASE /\ UNCHANGED original_no_turbo
                 /\ pc[p] = "write_turbo" /\ pc'[p] = "timer" /\ no_turbo' = 1
        <5>1. OwesNoTurbo(p)'
          BY <3>1, <4>1, <4>5 DEF NoTurboInv, OwesNoTurbo
        <5> QED BY <3>1, <4>1, <4>2, <4>3, <4>5, <5>1 DEF NoTurboInv
      <4>6. CASE /\ UNCHANGED original_no_turbo
                 /\ pc[p] = "restore_turbo" /\ pc'[p] = "restore_governor"
                 /\ no_turbo' = IF original_no_turbo[p] = 0 THEN 0 ELSE no_turbo
        <5>1. "restore_governor" \notin Leasing \union {"write_turbo", "wrmsr"}
          BY DEF Leasing, Measuring
        <5>2. pc[p] \in Leasing
          BY <4>6 DEF Leasing
        <5>3. original_no_turbo[p] = 0 => no_turbo' = initial.no_turbo
          BY <4>1, <4>6, <5>2 DEF NoTurboInv
        <5>4. original_no_turbo[p] # 0 => ~OwesNoTurbo(p)
          BY DEF OwesNoTurbo
        <5> QED BY <3>1, <4>1, <4>2, <4>3, <4>6, <5>1, <5>3, <5>4 DEF NoTurboInv
      <4> QED BY <3>3, SwitchStep, <4>4, <4>5, <4>6
    <3> QED BY <2>2, <3>2, <3>3, EveryStep
  <2> QED BY <2>1, <2>2 DEF Next
<1> QED BY <1>1, <1>2, TInvInvariant, PTL DEF Spec

(* Lines 45-60 and 78-92: where the vendor test is right, no_turbo is back  *)
(* at its original value once every run has ended, unless one died owing    *)
(* it, for any number of overlapping runs.                                  *)
THEOREM NoTurboAlwaysRestored ==
  ASSUME VendorTestRight
  PROVE  Spec => []NoTurboRestored
<1>1. NoTurboInv => NoTurboRestored
  BY DEF NoTurboInv, NoTurboRestored, Quiet, OwesNoTurbo, Ended, Measuring
<1> QED BY <1>1, NoTurboInvariant, PTL

-----------------------------------------------------------------------------
(* The refinement: a step of the script borrows a setting, returns it,      *)
(* defaults on it, or leaves the lease alone.                               *)

(* Lines 114-154: the governor is leased, on every machine and whatever     *)
(* becomes of the runs.                                                     *)
THEOREM GovernorLeased == Spec => GovernorLeases!Spec
<1> DEFINE Owed == {q \in Instance : OwesGovernor(q)}
<1>1. Init => GovernorLeases!Init
  BY DEF Init, GovernorLeases!Init, OwesGovernor, Commands, Measuring
<1>2. TInv /\ GovernorInv /\ [Next]_vars => [GovernorLeases!Next]_(GovernorLeases!vars)
  <2> SUFFICES ASSUME TInv, GovernorInv, [Next]_vars
               PROVE  [GovernorLeases!Next]_(GovernorLeases!vars)
    OBVIOUS
  <2>1. CASE UNCHANGED vars
    BY <2>1 DEF vars, machine, shell, history, GovernorLeases!vars, OwesGovernor
  <2>2. ASSUME NEW p \in Instance, Start(p) \/ Step(p) \/ DumpTimerFails(p) \/ Abort(p)
        PROVE  [GovernorLeases!Next]_(GovernorLeases!vars)
    <3>1. UNCHANGED initial
      BY <2>2, EveryStep
    <3>2. /\ \A q \in Instance \ {p} : pc'[q] = pc[q]
          /\ \/ pc'[p] \in Commands /\ UNCHANGED lost
             \/ pc'[p] = "failed" /\ lost' = lost \union Debts(p)
             \/ pc'[p] = "done" /\ UNCHANGED lost /\ RestoreGovernor(p)
      BY <2>2, PcStep
    <3>3. \/ Start(p) \/ SetGovernor(p) \/ RestoreGovernor(p)
          \/ UNCHANGED <<governor, original_governor>>
      BY <2>2 DEF Step, DumpTimerFails, Abort, KeepGovernor, SkipTurbo, ReadNoTurbo,
         WriteNoTurbo, FindCores, MsrToolsMissing, DumpTimer, EnableRdpmc, FindPfc, Rmmod,
         Insmod, RunBench, FinishBench, LeaveTurbo, RestoreNoTurbo, FindOriginalState,
         RestoreCore, DisableCore, machine, shell
    <3>4. ASSUME \A q \in Instance \ {p} : original_governor'[q] = original_governor[q]
          PROVE  /\ OwesGovernor(p)' => Owed' = Owed \union {p}
                 /\ ~OwesGovernor(p)' => Owed' = Owed \ {p}
                 /\ (OwesGovernor(p)' <=> OwesGovernor(p)) => Owed' = Owed
      BY <3>2, <3>4 DEF OwesGovernor
    <3>5. CASE Start(p)
      <4>1. /\ UNCHANGED <<governor, lost>> /\ original_governor'[p] = None
            /\ \A q \in Instance \ {p} : original_governor'[q] = original_governor[q]
        BY <3>5 DEF Start, Goto, TInv, TypeOK, ShellOK, machine
      <4>2. ~OwesGovernor(p) /\ ~OwesGovernor(p)'
        BY <3>5, <4>1 DEF Start, OwesGovernor, Ended, Commands, Measuring
      <4> QED BY <3>1, <3>4, <4>1, <4>2 DEF GovernorLeases!vars
    <3>6. CASE SetGovernor(p)
      <4>1. /\ original_governor' = [original_governor EXCEPT ![p] = SCALING_GOVERNOR[p]]
            /\ SCALING_GOVERNOR[p] # None
            /\ governor' = Performance /\ UNCHANGED lost /\ pc'[p] \in Commands
        BY <3>6, GotoType DEF SetGovernor, TInv, Commands, Goto
      <4>2. /\ original_governor'[p] = SCALING_GOVERNOR[p]
            /\ \A q \in Instance \ {p} : original_governor'[q] = original_governor[q]
        BY <4>1 DEF TInv, TypeOK, ShellOK
      <4>3. GovernorLeases!Borrow(p)
        BY <3>1, <3>4, <4>1, <4>2 DEF GovernorLeases!Borrow, OwesGovernor
      <4> QED BY <4>3 DEF GovernorLeases!Next
    <3>7. CASE RestoreGovernor(p)
      <4>1. /\ governor' = IF original_governor[p] # None THEN original_governor[p] ELSE governor
            /\ UNCHANGED <<original_governor, lost>>
            /\ pc[p] \in Commands /\ pc'[p] = "done"
        BY <3>7, GotoType DEF RestoreGovernor, shell, Goto, At, Commands, TInv, Ended
      <4>2. ~OwesGovernor(p)' /\ (OwesGovernor(p) <=> original_governor[p] # None)
        BY <4>1 DEF OwesGovernor, Commands, Measuring
      <4>3. CASE original_governor[p] # None
        <5>1. GovernorLeases!Return(p)
          BY <3>1, <3>4, <4>1, <4>2, <4>3 DEF GovernorLeases!Return, GovernorInv
        <5> QED BY <5>1 DEF GovernorLeases!Next
      <4>4. CASE original_governor[p] = None
        BY <3>1, <3>4, <4>1, <4>2, <4>4 DEF GovernorLeases!vars
      <4> QED BY <4>3, <4>4
    <3>8. CASE UNCHANGED <<governor, original_governor>> /\ ~RestoreGovernor(p) /\ ~Start(p)
      <4>1. pc[p] \in Commands
        BY <2>2, <3>8 DEF Step, DumpTimerFails, Abort, SetGovernor, KeepGovernor, SkipTurbo,
         ReadNoTurbo, WriteNoTurbo, FindCores, MsrToolsMissing, DumpTimer, EnableRdpmc,
         FindPfc, Rmmod, Insmod, RunBench, FinishBench, LeaveTurbo, RestoreNoTurbo,
         FindOriginalState, RestoreCore, DisableCore, At, Commands, Measuring
      <4>2. CASE pc'[p] \in Commands /\ UNCHANGED lost
        BY <3>1, <3>4, <3>8, <4>1, <4>2 DEF GovernorLeases!vars, OwesGovernor
      <4>3. CASE pc'[p] = "failed" /\ lost' = lost \union Debts(p)
        <5>1. ~OwesGovernor(p)'
          BY <4>3 DEF OwesGovernor, Commands, Measuring
        <5>2. CASE OwesGovernor(p)
          <6>1. GovernorLeases!Default(p)
            BY <3>1, <3>4, <3>8, <4>3, <5>1, <5>2 DEF GovernorLeases!Default, Debts, Setting
          <6> QED BY <6>1 DEF GovernorLeases!Next
        <5>3. CASE ~OwesGovernor(p)
          BY <3>1, <3>4, <3>8, <4>3, <5>1, <5>3 DEF GovernorLeases!vars, Debts, Setting
        <5> QED BY <5>2, <5>3
      <4> QED BY <3>2, <3>8, <4>2, <4>3
    <3> QED BY <3>3, <3>5, <3>6, <3>7, <3>8
  <2> QED BY <2>1, <2>2 DEF Next
<1> QED
  BY <1>1, <1>2, TInvInvariant, GovernorInvariant, PTL DEF Spec, GovernorLeases!Spec

(* Lines 45-60 and 78-92: so is the no_turbo switch. *)
THEOREM NoTurboLeased ==
  ASSUME VendorTestRight
  PROVE  Spec => NoTurboLeases!Spec
<1> DEFINE Owed == {q \in Instance : OwesNoTurbo(q)}
<1>1. Init => NoTurboLeases!Init
  <2> SUFFICES ASSUME Init PROVE NoTurboLeases!Init
    OBVIOUS
  <2>1. \A p \in Instance : ~OwesNoTurbo(p)
    BY DEF Init, OwesNoTurbo, Measuring
  <2>2. no_turbo \in {0, 1}
    BY DEF Init
  <2> QED BY <2>1, <2>2 DEF Init, NoTurboLeases!Init
<1>2. TInv /\ NoTurboInv /\ [Next]_vars => [NoTurboLeases!Next]_(NoTurboLeases!vars)
  <2> SUFFICES ASSUME TInv, NoTurboInv, [Next]_vars
               PROVE  [NoTurboLeases!Next]_(NoTurboLeases!vars)
    OBVIOUS
  <2>1. CASE UNCHANGED vars
    BY <2>1 DEF vars, machine, shell, history, NoTurboLeases!vars, OwesNoTurbo, UsesPstate
  <2>2. ASSUME NEW p \in Instance, Start(p) \/ Step(p) \/ DumpTimerFails(p) \/ Abort(p)
        PROVE  [NoTurboLeases!Next]_(NoTurboLeases!vars)
    <3>1. UNCHANGED <<host, initial>> /\ (UsesPstate' <=> UsesPstate)
      BY <2>2, EveryStep DEF UsesPstate
    <3>2. ASSUME \A q \in Instance \ {p} : /\ pc'[q] = pc[q]
                                           /\ original_no_turbo'[q] = original_no_turbo[q]
          PROVE  /\ OwesNoTurbo(p)' => Owed' = Owed \union {p}
                 /\ ~OwesNoTurbo(p)' => Owed' = Owed \ {p}
                 /\ (OwesNoTurbo(p)' <=> OwesNoTurbo(p)) => Owed' = Owed
      BY <3>1, <3>2 DEF OwesNoTurbo
    <3>3. CASE Elsewhere(p)
      <4>1. /\ UNCHANGED no_turbo
            /\ Start(p) \/ UNCHANGED original_no_turbo
            /\ \A q \in Instance \ {p} : /\ pc'[q] = pc[q]
                                         /\ original_no_turbo'[q] = original_no_turbo[q]
            /\ \/ pc'[p] = "failed" /\ lost' = lost \union Debts(p)
               \/ /\ UNCHANGED lost
                  /\ UsesPstate => (pc[p] \in Leasing <=> pc'[p] \in Leasing)
        BY <3>3, ElsewhereStep
      <4>2. Start(p) => pc[p] \notin Leasing /\ pc'[p] \notin Leasing
        BY GotoType DEF Start, Ended, Leasing, Measuring, TInv, Commands
      <4>3. CASE UNCHANGED lost /\ (OwesNoTurbo(p)' <=> OwesNoTurbo(p))
        BY <3>1, <3>2, <4>1, <4>3 DEF NoTurboLeases!vars
      <4>4. CASE pc'[p] = "failed" /\ lost' = lost \union Debts(p)
        <5>1. ~OwesNoTurbo(p)'
          BY <4>4 DEF OwesNoTurbo, Measuring
        <5>2. CASE OwesNoTurbo(p)
          <6>1. NoTurboLeases!Default(p)
            BY <3>1, <3>2, <4>1, <4>4, <5>1, <5>2 DEF NoTurboLeases!Default, Debts, Setting
          <6> QED BY <6>1 DEF NoTurboLeases!Next
        <5>3. CASE ~OwesNoTurbo(p)
          BY <3>1, <3>2, <4>1, <4>4, <5>1, <5>3 DEF NoTurboLeases!vars, Debts, Setting
        <5> QED BY <5>2, <5>3
      <4>5. CASE /\ UNCHANGED lost
                 /\ UsesPstate => (pc[p] \in Leasing <=> pc'[p] \in Leasing)
        <5>1. OwesNoTurbo(p)' <=> OwesNoTurbo(p)
          BY <3>1, <4>1, <4>2, <4>5 DEF OwesNoTurbo, Leasing
        <5> QED BY <4>3, <4>5, <5>1
      <4> QED BY <4>1, <4>4, <4>5
    <3>4. CASE ReadNoTurbo(p) \/ WriteNoTurbo(p) \/ RestoreNoTurbo(p)
      <4>1. /\ UsesPstate
            /\ UNCHANGED lost
            /\ \A q \in Instance \ {p} : /\ pc'[q] = pc[q]
                                         /\ original_no_turbo'[q] = original_no_turbo[q]
        BY <3>4, SwitchStep DEF NoTurboInv
      <4>2. no_turbo \in {0, 1}
        BY DEF TInv, TypeOK, MachineOK
      <4>3. CASE /\ UNCHANGED no_turbo /\ pc[p] = "turbo" /\ host.intel
                 /\ original_no_turbo'[p] = no_turbo
                 /\ pc'[p] = IF no_turbo # 1 THEN "write_turbo" ELSE "timer"
        <5>1. ~OwesNoTurbo(p) /\ ~OwesNoTurbo(p)'
          BY <4>2, <4>3 DEF OwesNoTurbo, Measuring
        <5> QED BY <3>1, <3>2, <4>1, <4>3, <5>1 DEF NoTurboLeases!vars
      <4>4. CASE /\ UNCHANGED original_no_turbo
                 /\ pc[p] = "write_turbo" /\ pc'[p] = "timer" /\ no_turbo' = 1
        <5>1. OwesNoTurbo(p)'
          BY <3>1, <4>1, <4>4 DEF NoTurboInv, OwesNoTurbo
        <5>2. NoTurboLeases!Borrow(p)
          BY <3>1, <3>2, <4>1, <4>4, <5>1 DEF NoTurboLeases!Borrow
        <5> QED BY <5>2 DEF NoTurboLeases!Next
      <4>5. CASE /\ UNCHANGED original_no_turbo
                 /\ pc[p] = "restore_turbo" /\ pc'[p] = "restore_governor"
                 /\ no_turbo' = IF original_no_turbo[p] = 0 THEN 0 ELSE no_turbo
        <5>1. ~OwesNoTurbo(p)'
          BY <4>5 DEF OwesNoTurbo, Measuring
        <5>2. CASE OwesNoTurbo(p)
          <6>1. no_turbo' = initial.no_turbo
            BY <4>5, <5>2 DEF OwesNoTurbo, NoTurboInv, Leasing
          <6>2. NoTurboLeases!Return(p)
            BY <3>1, <3>2, <4>1, <5>1, <5>2, <6>1 DEF NoTurboLeases!Return
          <6> QED BY <6>2 DEF NoTurboLeases!Next
        <5>3. CASE ~OwesNoTurbo(p)
          <6>1. host.intel
            BY <4>1 DEF VendorTestRight, UsesPstate, TInv, TypeOK, MachineOK
          <6>2. original_no_turbo[p] # 0
            BY <4>1, <4>5, <5>3, <6>1 DEF OwesNoTurbo
          <6> QED BY <3>1, <3>2, <4>1, <4>5, <5>1, <5>3, <6>2 DEF NoTurboLeases!vars
        <5> QED BY <5>2, <5>3
      <4> QED BY <3>4, SwitchStep, <4>3, <4>4, <4>5
    <3> QED BY <2>2, <3>3, <3>4, EveryStep
  <2> QED BY <2>1, <2>2 DEF Next
<1> QED
  BY <1>1, <1>2, TInvInvariant, NoTurboInvariant, PTL DEF Spec, NoTurboLeases!Spec

(* The script implements the lease of both settings. *)
THEOREM SettingsAlwaysLeased ==
  ASSUME VendorTestRight
  PROVE  Spec => SettingsLeased
BY GovernorLeased, NoTurboLeased DEF SettingsLeased

-----------------------------------------------------------------------------
(* Measuring without scaling.  What an undisturbed run has set stays set    *)
(* until it restores it, from the first command that looks at the setting;  *)
(* and the words to restore the MSRs from are always missing, so a core     *)
(* whose turbo is disabled keeps it disabled.                               *)
Unscaled(p) ==
  /\ original_state[p] = <<>>
  /\ pc[p] = "write_turbo" => UsesPstate
  /\ pc[p] = "wrmsr" => UsesMsr /\ \A c \in 1 .. i[p] : msr[c] = 1
  /\ pc[p] \in Leasing /\ host.intel /\ UsesMsr => \A c \in 1 .. NCores : msr[c] = 1
  /\ pc[p] \in Commands /\ ~host.in_vm => SCALING_GOVERNOR[p] # None
  /\ p \notin disturbed /\ ~host.in_vm =>
       /\ pc[p] \in Commands /\ (pc[p] = "governor" => SCALING_GOVERNOR[p] = Performance)
            => governor = Performance
       /\ pc[p] \in Leasing /\ host.intel /\ UsesPstate => no_turbo = 1

UnscaledInv == \A p \in Instance : Unscaled(p)

(* A step of p may only help the other runs, or is recorded as disturbing   *)
(* them.                                                                    *)
LEMMA OthersUnscaled ==
  ASSUME TInv, UnscaledInv, NEW p \in Instance, NEW q \in Instance \ {p},
         Start(p) \/ Step(p) \/ DumpTimerFails(p) \/ Abort(p)
  PROVE  Unscaled(q)'
<1>1. pc'[q] = pc[q]
  BY PcStep
<1>2. /\ original_state'[q] = original_state[q] /\ SCALING_GOVERNOR'[q] = SCALING_GOVERNOR[q]
      /\ i'[q] = i[q]
  <2>1. CASE Start(p)
    BY <2>1 DEF Start, TInv, TypeOK, ShellOK
  <2>2. CASE DisableCore(p) \/ FindOriginalState(p) \/ RestoreCore(p)
    <3>1. UNCHANGED <<original_state, SCALING_GOVERNOR>>
      BY <2>2 DEF DisableCore, FindOriginalState, RestoreCore
    <3>2. \E k : i' = [i EXCEPT ![p] = k]
      BY <2>2 DEF DisableCore, FindOriginalState, RestoreCore
    <3> QED BY <3>1, <3>2 DEF TInv, TypeOK, ShellOK
  <2>3. CASE ~Start(p) /\ ~DisableCore(p) /\ ~FindOriginalState(p) /\ ~RestoreCore(p)
    BY <2>3 DEF Step, DumpTimerFails, Abort, SetGovernor, KeepGovernor, SkipTurbo,
         ReadNoTurbo, WriteNoTurbo, FindCores, MsrToolsMissing, DumpTimer, EnableRdpmc,
         FindPfc, Rmmod, Insmod, RunBench, FinishBench, LeaveTurbo, RestoreNoTurbo,
         RestoreGovernor, shell
  <2> QED BY <2>1, <2>2, <2>3
<1>3. UNCHANGED host /\ (UsesMsr' <=> UsesMsr) /\ (UsesPstate' <=> UsesPstate)
  BY EveryStep DEF UsesMsr, UsesPstate
<1>4. \A c \in 1 .. NCores : msr[c] = 1 => msr'[c] = 1
  <2>1. CASE DisableCore(p)
    BY <2>1 DEF DisableCore, TInv, TypeOK, MachineOK
  <2>2. CASE RestoreCore(p)
    <3>1. UNCHANGED msr
      BY <2>2 DEF RestoreCore, UnscaledInv, Unscaled
    <3> QED BY <3>1
  <2>3. CASE ~DisableCore(p) /\ ~RestoreCore(p)
    BY <2>3 DEF Start, Step, DumpTimerFails, Abort, SetGovernor, KeepGovernor, SkipTurbo,
         ReadNoTurbo, WriteNoTurbo, FindCores, MsrToolsMissing, DumpTimer, EnableRdpmc,
         FindPfc, Rmmod, Insmod, RunBench, FinishBench, LeaveTurbo, RestoreNoTurbo,
         FindOriginalState, RestoreGovernor, machine
  <2> QED BY <2>1, <2>2, <2>3
<1>5. i[q] \in 0 .. NCores
  BY DEF TInv, TypeOK, ShellOK
<1>6. pc[q] \in Leasing => pc[q] \in Commands
  BY DEF Leasing, Commands
<1>7. /\ q \notin disturbed' => q \notin disturbed
      /\ q \notin disturbed' /\ pc[q] \in Commands =>
           /\ governor' \in {governor, Performance}
           /\ no_turbo' \in {no_turbo, 1}
  <2>1. CASE RestoreGovernor(p) \/ RestoreNoTurbo(p)
    BY <2>1 DEF RestoreGovernor, RestoreNoTurbo, Disturb
  <2>2. CASE Rmmod(p) \/ Insmod(p)
    BY <2>2 DEF Rmmod, Insmod
  <2>3. CASE SetGovernor(p) \/ WriteNoTurbo(p) \/ Start(p)
    BY <2>3 DEF SetGovernor, WriteNoTurbo, Start, machine
  <2>4. CASE /\ ~RestoreGovernor(p) /\ ~RestoreNoTurbo(p) /\ ~Rmmod(p) /\ ~Insmod(p)
             /\ ~SetGovernor(p) /\ ~WriteNoTurbo(p) /\ ~Start(p)
    BY <2>4 DEF Step, DumpTimerFails, Abort, KeepGovernor, SkipTurbo, ReadNoTurbo,
         FindCores, MsrToolsMissing, DisableCore, DumpTimer, EnableRdpmc, FindPfc,
         RunBench, FinishBench, LeaveTurbo, FindOriginalState, RestoreCore, machine
  <2> QED BY <2>1, <2>2, <2>3, <2>4
<1> QED
  BY <1>1, <1>2, <1>3, <1>4, <1>5, <1>6, <1>7, ConstantsAssumption DEF UnscaledInv, Unscaled

(* And for itself, p leaves nothing scaled behind. *)
LEMMA SelfUnscaled ==
  ASSUME TInv, UnscaledInv, NEW p \in Instance,
         Start(p) \/ Step(p) \/ DumpTimerFails(p) \/ Abort(p)
  PROVE  Unscaled(p)'
<1>1. UNCHANGED host /\ (UsesMsr' <=> UsesMsr) /\ (UsesPstate' <=> UsesPstate)
  BY EveryStep DEF UsesMsr, UsesPstate
<1>2. ~UsesMsr \/ ~UsesPstate
  BY DEF UsesMsr, UsesPstate
<1>3. ASSUME NEW command \in Ended \union Commands, Goto(p, command)
      PROVE  pc'[p] = command
  BY <1>3, GotoType DEF TInv
<1>4. CASE Start(p)
  <2>1. pc'[p] = "governor"
    BY <1>3, <1>4 DEF Start, Commands
  <2>2. /\ original_state'[p] = <<>>
        /\ ~host.in_vm => SCALING_GOVERNOR'[p] = governor
        /\ UNCHANGED governor
    BY <1>4 DEF Start, TInv, TypeOK, ShellOK, get_turbo_state_string, machine
  <2>3. governor # None
    BY ConstantsAssumption DEF TInv, TypeOK, MachineOK
  <2> QED BY <1>1, <2>1, <2>2, <2>3 DEF Unscaled, Leasing, Measuring
<1>5. CASE Exit1(p)
  <2>1. pc'[p] = "failed"
    BY <1>5, Exit1Type DEF TInv
  <2>2. ~Start(p)
    BY <1>3, <2>1 DEF Start, Commands
  <2>3. UNCHANGED original_state
    BY <2>2 DEF Step, DumpTimerFails, Abort, SetGovernor, KeepGovernor, SkipTurbo,
         ReadNoTurbo, WriteNoTurbo, FindCores, MsrToolsMissing, DisableCore, DumpTimer,
         EnableRdpmc, FindPfc, Rmmod, Insmod, RunBench, FinishBench, LeaveTurbo,
         RestoreNoTurbo, FindOriginalState, RestoreCore, RestoreGovernor, shell
  <2> QED BY <2>1, <2>3 DEF UnscaledInv, Unscaled, Leasing, Commands, Measuring
<1>6. CASE SetGovernor(p) \/ KeepGovernor(p)
  <2>1. pc[p] = "governor" /\ pc'[p] = "turbo"
    BY <1>3, <1>6 DEF SetGovernor, KeepGovernor, At, Commands
  <2>2. UNCHANGED <<original_state, SCALING_GOVERNOR, disturbed>>
    BY <1>6 DEF SetGovernor, KeepGovernor, shell
  <2>3. governor' = Performance \/ (SCALING_GOVERNOR[p] \in {None, Performance} /\ UNCHANGED governor)
    BY <1>6 DEF SetGovernor, KeepGovernor, machine
  <2> QED BY <1>1, <2>1, <2>2, <2>3 DEF UnscaledInv, Unscaled, Leasing, Commands, Measuring
<1>7. CASE SkipTurbo(p) \/ ReadNoTurbo(p) \/ WriteNoTurbo(p)
  <2>1. /\ pc[p] \in {"turbo", "write_turbo"} /\ pc'[p] \in {"timer", "write_turbo"}
        /\ pc'[p] = "timer" /\ UsesPstate /\ host.intel => no_turbo' = 1
        /\ pc'[p] = "timer" => ~UsesMsr \/ ~host.intel
        /\ pc'[p] = "write_turbo" => UsesPstate
        /\ UNCHANGED <<original_state, SCALING_GOVERNOR, disturbed, governor>>
    <3>1. CASE SkipTurbo(p)
      BY <1>3, <3>1 DEF SkipTurbo, At, UsesPstate, UsesMsr, Commands, shell, machine
    <3>2. CASE ReadNoTurbo(p)
      BY <1>2, <1>3, <3>2 DEF ReadNoTurbo, At, Commands, machine
    <3>3. CASE WriteNoTurbo(p)
      <4>1. UsesPstate /\ ~UsesMsr
        BY <1>2, <3>3 DEF WriteNoTurbo, At, UnscaledInv, Unscaled
      <4> QED BY <1>3, <3>3, <4>1 DEF WriteNoTurbo, At, Commands, shell
    <3> QED BY <1>7, <3>1, <3>2, <3>3
  <2> QED BY <1>1, <2>1 DEF UnscaledInv, Unscaled, Leasing, Commands, Measuring
<1>8. CASE FindCores(p)
  <2>1. pc[p] = "turbo" /\ pc'[p] = "wrmsr" /\ UsesMsr
    BY <1>3, <1>8 DEF FindCores, At, Commands
  <2>2. UNCHANGED <<original_state, SCALING_GOVERNOR, disturbed, governor, i>> /\ i[p] = 0
    BY <1>8, <2>1 DEF FindCores, machine, TInv, LoopOK
  <2> QED BY <1>1, <2>1, <2>2 DEF UnscaledInv, Unscaled, Leasing, Commands, Measuring
<1>9. CASE DisableCore(p)
  <2>1. /\ pc[p] = "wrmsr" /\ msr' = [msr EXCEPT ![i[p] + 1] = 1]
        /\ UNCHANGED <<original_state, SCALING_GOVERNOR, disturbed, governor, no_turbo>>
    BY <1>9 DEF DisableCore, At
  <2>2. i[p] \in 0 .. NCores - 1 /\ cores[p] = NCores
    BY <2>1, ConstantsAssumption DEF TInv, LoopOK, TypeOK, ShellOK
  <2>3. \A c \in 1 .. i[p] + 1 : msr'[c] = 1
    BY <2>1, <2>2, ConstantsAssumption DEF UnscaledInv, Unscaled, TInv, TypeOK, MachineOK
  <2>4. CASE i[p] + 1 < cores[p]
    <3>1. pc' = pc /\ i'[p] = i[p] + 1
      BY <1>9, <2>4 DEF DisableCore, TInv, TypeOK, ShellOK
    <3> QED BY <1>1, <2>1, <2>3, <3>1 DEF UnscaledInv, Unscaled, Leasing, Commands, Measuring
  <2>5. CASE ~(i[p] + 1 < cores[p])
    <3>1. pc'[p] = "timer" /\ i[p] + 1 = NCores
      BY <1>3, <1>9, <2>2, <2>5, ConstantsAssumption DEF DisableCore, Commands
    <3> QED
      BY <1>1, <1>2, <2>1, <2>3, <3>1 DEF UnscaledInv, Unscaled, Leasing, Commands, Measuring
  <2> QED BY <2>4, <2>5
<1>10. CASE /\ ~Exit1(p)
            /\ \/ DumpTimer(p) \/ DumpTimerFails(p) \/ EnableRdpmc(p) \/ FindPfc(p)
               \/ Rmmod(p) \/ Insmod(p) \/ RunBench(p) \/ FinishBench(p)
  <2>1. PICK command \in Measuring \union {"restore_turbo"} : Goto(p, command)
    BY <1>10 DEF DumpTimer, DumpTimerFails, EnableRdpmc, FindPfc, Rmmod, Insmod, RunBench,
                 FinishBench, Measuring
  <2>2. pc[p] \in Measuring \union {"timer"}
    BY <1>10 DEF DumpTimer, DumpTimerFails, EnableRdpmc, FindPfc, Rmmod, Insmod, RunBench,
                 FinishBench, Measuring, At
  <2>3. pc'[p] = command
    BY <1>3, <2>1 DEF Commands
  <2>4. UNCHANGED <<original_state, SCALING_GOVERNOR, governor, no_turbo, msr>>
    BY <1>10 DEF DumpTimer, DumpTimerFails, EnableRdpmc, FindPfc, Rmmod, Insmod, RunBench,
                 FinishBench, shell, machine
  <2>5. p \notin disturbed' => p \notin disturbed
    BY <1>10 DEF DumpTimer, DumpTimerFails, EnableRdpmc, FindPfc, Rmmod, Insmod, RunBench,
                 FinishBench, Disturb
  <2> QED
    BY <1>1, <2>2, <2>3, <2>4, <2>5 DEF UnscaledInv, Unscaled, Leasing, Commands, Measuring
<1>11. CASE LeaveTurbo(p) \/ RestoreNoTurbo(p) \/ FindOriginalState(p) \/ RestoreCore(p)
  <2>1. /\ pc'[p] \in {"restore_governor", "restore_msr", "failed"}
        /\ pc[p] \in {"restore_turbo", "restore_msr"}
    <3>1. CASE RestoreCore(p) /\ Exit1(p)
      BY <3>1, Exit1Type DEF TInv, RestoreCore, At
    <3>2. PICK command \in {"restore_governor", "restore_msr"} :
             Goto(p, command) \/ (RestoreCore(p) /\ Exit1(p))
      BY <1>11 DEF LeaveTurbo, RestoreNoTurbo, FindOriginalState, RestoreCore
    <3>3. pc[p] \in {"restore_turbo", "restore_msr"}
      BY <1>11 DEF LeaveTurbo, RestoreNoTurbo, FindOriginalState, RestoreCore, At
    <3> QED BY <1>3, <3>1, <3>2, <3>3 DEF Commands
  <2>2. UNCHANGED <<original_state, SCALING_GOVERNOR, governor>>
    BY <1>11 DEF LeaveTurbo, RestoreNoTurbo, FindOriginalState, RestoreCore, shell, machine
  <2>3. p \notin disturbed' => p \notin disturbed
    BY <1>11 DEF LeaveTurbo, RestoreNoTurbo, FindOriginalState, RestoreCore, Disturb
  <2> QED BY <1>1, <2>1, <2>2, <2>3 DEF UnscaledInv, Unscaled, Leasing, Commands, Measuring
<1>12. CASE RestoreGovernor(p)
  <2>1. pc'[p] = "done" /\ UNCHANGED original_state
    BY <1>3, <1>12 DEF RestoreGovernor, Ended, shell
  <2> QED BY <2>1 DEF UnscaledInv, Unscaled, Leasing, Commands, Measuring
<1>13. CASE MsrToolsMissing(p) \/ Abort(p)
  BY <1>5, <1>13 DEF MsrToolsMissing, Abort
<1> QED
  BY <1>4, <1>5, <1>6, <1>7, <1>8, <1>9, <1>10, <1>11, <1>12, <1>13 DEF Step

(* README.md:79-83: a run that measures does so at the performance governor *)
(* and without turbo, on every kind of machine the script treats, as long   *)
(* as no other run has handed a setting back since it started.              *)
THEOREM AlwaysMeasuresUnscaled == Spec => []MeasuresUnscaled
<1>1. Init => UnscaledInv
  BY DEF Init, UnscaledInv, Unscaled, Leasing, Commands, Measuring
<1>2. TInv /\ UnscaledInv /\ [Next]_vars => UnscaledInv'
  <2> SUFFICES ASSUME TInv, UnscaledInv, [Next]_vars PROVE UnscaledInv'
    OBVIOUS
  <2>1. CASE UNCHANGED vars
    BY <2>1 DEF vars, machine, shell, history, UnscaledInv, Unscaled, UsesMsr, UsesPstate
  <2>2. CASE Next
    BY <2>2, OthersUnscaled, SelfUnscaled DEF Next, UnscaledInv
  <2> QED BY <2>1, <2>2
<1>3. UnscaledInv => MeasuresUnscaled
  BY DEF UnscaledInv, Unscaled, MeasuresUnscaled, Leasing, Commands, Measuring,
         UsesMsr, UsesPstate
<1> QED BY <1>1, <1>2, <1>3, TInvInvariant, PTL DEF Spec

-----------------------------------------------------------------------------
(* Runs that fail.  The loop that restores the MSRs always ends in a        *)
(* failure, so the property is about machines on which the MSRs are left    *)
(* alone, and about commands that do not fail by themselves.                *)
MsrsLeftAlone == \A h \in Hosts : h.in_vm \/ ~h.intel \/ h.pstate

(* What a run has seen of pfc.ko is still so, unless another one has loaded *)
(* or removed it meanwhile.                                                 *)
PfcAsSeen(p) ==
  /\ pc[p] \notin {"wrmsr", "restore_msr"} /\ cores[p] = 0
  /\ pc[p] \in {"rdpmc", "lsmod", "rmmod", "insmod"} => timer[p] = "libpfc"
  /\ p \notin reloaded =>
       /\ pc[p] = "rmmod" => pfc
       /\ pc[p] = "insmod" => ~pfc
       /\ pc[p] = "start" /\ timer[p] = "libpfc" => pfc
       /\ pc[p] = "failed" => timer[p] = "unknown"

PfcInv == \A p \in Instance : PfcAsSeen(p)

(* A step of p leaves pfc.ko alone, or is recorded for every run that       *)
(* relies on what it saw.                                                   *)
LEMMA OthersPfc ==
  ASSUME TInv, PfcInv, NEW p \in Instance, NEW q \in Instance \ {p},
         Start(p) \/ Step(p)
  PROVE  PfcAsSeen(q)'
<1>1. pc'[q] = pc[q]
  BY PcStep
<1>2. timer'[q] = timer[q] /\ cores'[q] = cores[q]
  <2>1. CASE Start(p)
    BY <2>1 DEF Start, TInv, TypeOK, ShellOK
  <2>2. CASE FindCores(p)
    BY <2>2 DEF FindCores, TInv, TypeOK, ShellOK
  <2>3. CASE ~Start(p) /\ ~FindCores(p)
    BY <2>3 DEF Step, SetGovernor, KeepGovernor, SkipTurbo, ReadNoTurbo, WriteNoTurbo,
         MsrToolsMissing, DisableCore, DumpTimer, EnableRdpmc, FindPfc, Rmmod, Insmod,
         RunBench, FinishBench, LeaveTurbo, RestoreNoTurbo, FindOriginalState, RestoreCore,
         RestoreGovernor, shell
  <2> QED BY <2>1, <2>2, <2>3
<1>3. /\ q \notin reloaded' => q \notin reloaded
      /\ q \notin reloaded' /\ ReliesOnPfc(q) => UNCHANGED pfc
  <2>1. CASE Rmmod(p) \/ Insmod(p)
    <3>1. pfc \in BOOLEAN
      BY DEF TInv, TypeOK, MachineOK
    <3>2. Reload(p) \/ (UNCHANGED <<pfc, reloaded>>)
      <4>1. CASE pfc = TRUE
        BY <2>1, <4>1 DEF Rmmod, Insmod
      <4>2. CASE pfc = FALSE
        BY <2>1, <4>2 DEF Rmmod, Insmod
      <4> QED BY <3>1, <4>1, <4>2
    <3> QED BY <3>2 DEF Reload
  <2>2. CASE RestoreGovernor(p) \/ RestoreNoTurbo(p)
    BY <2>2 DEF RestoreGovernor, RestoreNoTurbo
  <2>3. CASE /\ ~Rmmod(p) /\ ~Insmod(p) /\ ~RestoreGovernor(p) /\ ~RestoreNoTurbo(p)
    BY <2>3 DEF Start, Step, SetGovernor, KeepGovernor, SkipTurbo, ReadNoTurbo, WriteNoTurbo,
         FindCores, MsrToolsMissing, DisableCore, DumpTimer, EnableRdpmc, FindPfc, RunBench,
         FinishBench, LeaveTurbo, FindOriginalState, RestoreCore, machine
  <2> QED BY <2>1, <2>2, <2>3
<1> QED BY <1>1, <1>2, <1>3 DEF PfcInv, PfcAsSeen, ReliesOnPfc

LEMMA SelfPfc ==
  ASSUME MsrsLeftAlone, TInv, PfcInv, NEW p \in Instance, Start(p) \/ Step(p)
  PROVE  PfcAsSeen(p)'
<1>1. host \in Hosts /\ (host.in_vm \/ ~host.intel \/ host.pstate)
  BY DEF MsrsLeftAlone, TInv, TypeOK, MachineOK
<1>2. ASSUME NEW command \in Ended \union Commands, Goto(p, command)
      PROVE  pc'[p] = command
  BY <1>2, GotoType DEF TInv
<1>3. CASE Start(p)
  <2>1. pc'[p] = "governor" /\ cores'[p] = 0
    BY <1>2, <1>3 DEF Start, Commands, TInv, TypeOK, ShellOK
  <2> QED BY <2>1 DEF PfcAsSeen
<1>4. CASE SetGovernor(p) \/ KeepGovernor(p) \/ SkipTurbo(p) \/ ReadNoTurbo(p) \/ WriteNoTurbo(p)
  <2>1. PICK command \in {"turbo", "timer", "write_turbo"} : Goto(p, command)
    BY <1>4 DEF SetGovernor, KeepGovernor, SkipTurbo, ReadNoTurbo, WriteNoTurbo
  <2>2. pc'[p] = command /\ UNCHANGED cores
    BY <1>2, <1>4, <2>1 DEF Commands, SetGovernor, KeepGovernor, SkipTurbo, ReadNoTurbo,
                            WriteNoTurbo, shell
  <2> QED BY <2>2 DEF PfcInv, PfcAsSeen
<1>5. ~FindCores(p) /\ ~MsrToolsMissing(p) /\ ~DisableCore(p) /\ ~RestoreCore(p)
  BY <1>1 DEF FindCores, MsrToolsMissing, DisableCore, RestoreCore, UsesMsr, At, PfcInv,
              PfcAsSeen
<1>6. CASE DumpTimer(p) \/ EnableRdpmc(p) \/ FinishBench(p) \/ LeaveTurbo(p)
           \/ RestoreNoTurbo(p) \/ FindOriginalState(p) \/ RestoreGovernor(p)
  <2>1. PICK command \in {"rdpmc", "start", "lsmod", "restore_turbo", "restore_governor", "done"} :
           /\ Goto(p, command)
           /\ command = "start" => timer[p] # "libpfc"
           /\ command \in {"rdpmc", "lsmod"} => timer[p] = "libpfc"
    BY <1>6 DEF DumpTimer, EnableRdpmc, FinishBench, LeaveTurbo, RestoreNoTurbo,
                FindOriginalState, RestoreGovernor, At, PfcInv, PfcAsSeen
  <2>2. pc'[p] = command
    BY <1>2, <2>1 DEF Commands, Measuring, Ended
  <2>3. UNCHANGED <<timer, cores>>
    BY <1>6 DEF DumpTimer, EnableRdpmc, FinishBench, LeaveTurbo, RestoreNoTurbo,
                FindOriginalState, RestoreGovernor, shell
  <2> QED BY <2>1, <2>2, <2>3 DEF PfcInv, PfcAsSeen
<1>7. CASE FindPfc(p)
  <2>1. pc'[p] = IF pfc THEN "rmmod" ELSE "insmod"
    BY <1>2, <1>7 DEF FindPfc, Commands, Measuring
  <2>2. UNCHANGED <<pfc, timer, cores>> /\ pfc \in BOOLEAN /\ pc[p] = "lsmod"
    BY <1>7 DEF FindPfc, At, machine, shell, TInv, TypeOK, MachineOK
  <2> QED BY <2>1, <2>2 DEF PfcInv, PfcAsSeen
<1>8. CASE Rmmod(p) \/ Insmod(p)
  <2>1. /\ UNCHANGED <<timer, cores>>
        /\ p \notin reloaded' => p \notin reloaded
    BY <1>8 DEF Rmmod, Insmod, Reload, shell
  <2>2. CASE Exit1(p)
    <3>1. pc'[p] = "failed"
      BY <2>2, Exit1Type DEF TInv
    <3>2. p \in reloaded
      <4>1. Goto(p, "insmod") => pc'[p] = "insmod"
        BY <1>2 DEF Commands, Measuring
      <4>2. Goto(p, "start") => pc'[p] = "start"
        BY <1>2 DEF Commands, Measuring
      <4>3. p \notin reloaded => (pc[p] = "rmmod" => pfc) /\ (pc[p] = "insmod" => ~pfc)
        BY DEF PfcInv, PfcAsSeen
      <4> QED BY <1>8, <3>1, <4>1, <4>2, <4>3 DEF Rmmod, Insmod, At
    <3> QED BY <2>1, <3>1, <3>2 DEF PfcInv, PfcAsSeen
  <2>3. CASE ~Exit1(p)
    <3>1. \/ Goto(p, "insmod") /\ pfc' = FALSE
          \/ Goto(p, "start") /\ pfc' = TRUE
      BY <1>8, <2>3 DEF Rmmod, Insmod
    <3>2. \/ pc'[p] = "insmod" /\ pfc' = FALSE
          \/ pc'[p] = "start" /\ pfc' = TRUE
      BY <1>2, <3>1 DEF Commands, Measuring
    <3>3. timer[p] = "libpfc"
      BY <1>8 DEF Rmmod, Insmod, At, PfcInv, PfcAsSeen
    <3> QED BY <2>1, <3>2, <3>3 DEF PfcInv, PfcAsSeen
  <2> QED BY <2>2, <2>3
<1>9. CASE RunBench(p)
  <2>1. pc[p] = "start" /\ UNCHANGED <<pfc, timer, cores, reloaded>>
    BY <1>9 DEF RunBench, At, machine, shell
  <2>2. CASE timer[p] = "unknown" \/ (timer[p] = "libpfc" /\ ~pfc)
    <3>1. pc'[p] = "failed"
      BY <1>9, <2>2, Exit1Type DEF TInv, RunBench
    <3> QED BY <2>1, <2>2, <3>1 DEF PfcInv, PfcAsSeen
  <2>3. CASE ~(timer[p] = "unknown" \/ (timer[p] = "libpfc" /\ ~pfc))
    <3>1. pc'[p] = "measure"
      BY <1>2, <1>9, <2>3 DEF RunBench, Commands, Measuring
    <3> QED BY <2>1, <3>1 DEF PfcInv, PfcAsSeen
  <2> QED BY <2>2, <2>3
<1> QED BY <1>3, <1>4, <1>5, <1>6, <1>7, <1>8, <1>9 DEF Step

(* Lines 133-140: a run with a known timer fails only when another run has  *)
(* loaded or removed pfc.ko between the lsmod of the run that fails and its *)
(* start of the benchmark; what else other runs do is no excuse.            *)
THEOREM AlwaysFailsOnlyIfReloaded ==
  ASSUME MsrsLeftAlone, ~MayAbort
  PROVE  Spec => []FailsOnlyIfReloaded
<1>1. Init => PfcInv
  BY DEF Init, PfcInv, PfcAsSeen
<1>2. TInv /\ PfcInv /\ [Next]_vars => PfcInv'
  <2> SUFFICES ASSUME TInv, PfcInv, [Next]_vars PROVE PfcInv'
    OBVIOUS
  <2>1. CASE UNCHANGED vars
    BY <2>1 DEF vars, machine, shell, history, PfcInv, PfcAsSeen
  <2>2. CASE Next
    <3>1. PICK p \in Instance : Start(p) \/ Step(p)
      BY <2>2 DEF Next, DumpTimerFails, Abort
    <3> QED BY <3>1, OthersPfc, SelfPfc DEF PfcInv
  <2> QED BY <2>1, <2>2
<1>3. PfcInv => FailsOnlyIfReloaded
  BY DEF PfcInv, PfcAsSeen, FailsOnlyIfReloaded
<1> QED BY <1>1, <1>2, <1>3, TInvInvariant, PTL DEF Spec

=============================================================================
