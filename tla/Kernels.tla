------------------------------- MODULE Kernels -------------------------------
(***************************************************************************)
(* A benchmark's kernel while it runs.  One registered benchmark is made,  *)
(* its kernel is called with the loop count (and with twice the loop count *)
(* when it is measured by the loop delta), goes through its passes and     *)
(* returns.                                                                *)
(*                                                                         *)
(* What can be wrong is spread over two languages and many files: the      *)
(* number of operations a registration promises, the way the kernel's loop *)
(* counts, the size of what is lent to it and the steps it walks in.       *)
(*                                                                         *)
(* Loop counts are far larger than what any of this depends on.  They are  *)
(* shortened, see LoopCount.                                               *)
(***************************************************************************)
EXTENDS Registrations, Sequences, FiniteSets, FiniteSetsExt

CONSTANTS
  MinSize, MaxSize      \* bounds: of larger and of smaller regions, only the
                        \* registration is modelled, not the walk

ASSUME KernelsAssumption == MinSize \in Nat /\ MaxSize \in Nat

VARIABLES
  bench,       \* a record of Registered
  pc,
  n,           \* the loop count of this call
  left,        \* the loop counter
  inner,       \* the counter of an inner loop
  pos,         \* where the walk stands, in bytes
  work,        \* operations done in this call
  works,       \* of the calls that have returned
  low, high,   \* the lowest and the highest byte touched, and the next one
  touched      \* the cache lines touched by a walk

vars == <<bench, pc, n, left, inner, pos, work, works, low, high, touched>>

kernel == bench.kernel
UB_CACHE_LINE_SIZE == 64
Lines == bench.size \div UB_CACHE_LINE_SIZE
InnerWalks == {"lines", "cycle"}
Walks == InnerWalks \union {"wrap", "mask", "chase"}

Kernel ==
  [by : Nat, again : {"nz", "gt", "ge", "once"}, div : Nat \ {0}, ops : Nat,
   place : {"none", "arg", "frame", "array"}, frame : Nat,
   access : SUBSET (Int \X Int), also : SUBSET (Int \X Int),
   walk : Walks \union {"still", "next"}, stride : Int, lead : Nat, chunk : Nat]

TypeOK ==
  /\ kernel \in Kernel
  /\ {bench.loop_count, bench.ops_per_loop, bench.stride} \subseteq Nat \ {0}
  /\ pc \in {"make", "call", "pass", "inner", "returned", "end", "thrown"}
  /\ {n, work} \subseteq Nat /\ {left, inner, pos, low, high} \subseteq Int
  /\ works \in Seq(Nat) /\ Len(works) <= 2
  /\ touched \subseteq Nat

-----------------------------------------------------------------------------
(* Bounds. *)

(* The passes in which a walk has seen all of its region, or should have. *)
Passes ==
  CASE kernel.walk = "wrap" -> 2 * Lines
    [] kernel.walk = "chase" -> Lines + 1
    [] kernel.walk = "mask" -> Max({Lines, bench.size \div kernel.stride}) + 1
    [] kernel.walk = "next" -> bench.loop_count
    [] OTHER -> 2

(* A loop count that the steps of the loop divide as they do the real one. *)
LoopCount ==
  LET step == kernel.by * kernel.div
  IN IF bench.loop_count <= Passes * step THEN bench.loop_count
     ELSE Passes * step + (bench.loop_count % step)

Walked == bench.size = 0 \/ bench.size \in MinSize .. MaxSize \/ kernel.walk \notin Walks

-----------------------------------------------------------------------------

Init ==
  /\ bench \in Registered
  /\ pc = "make"
  /\ n = 0 /\ left = 0 /\ inner = 0 /\ pos = 0 /\ work = 0
  /\ works = <<>>
  /\ low = 0 /\ high = 0 /\ touched = {}

(* The size check of make_load_bench.  It throws std::logic_error. *)
Accessed == ((bench.loop_count * UB_CACHE_LINE_SIZE) \div 1024) * bench.ops_per_loop

Make ==
  /\ pc = "make"
  /\ pc' = IF bench.sizecheck /\ Accessed < bench.kib THEN "thrown"
           ELSE IF Walked THEN "call" ELSE "end"
  /\ UNCHANGED <<bench, n, left, inner, pos, work, works, low, high, touched>>

(* The first call, or the second one of a loop delta. *)
Call ==
  /\ pc = "call"
  /\ n' = (1 + Len(works)) * LoopCount
  /\ left' = n' \div kernel.div
  /\ pos' = 0 /\ work' = 0 /\ touched' = {}
  /\ pc' = "pass"
  /\ UNCHANGED <<bench, inner, works, low, high>>

Touch(ranges) ==
  /\ low' = Min({low} \union {r[1] : r \in ranges})
  /\ high' = Max({high} \union {r[2] : r \in ranges})
  /\ touched' = IF kernel.walk \in Walks
                THEN touched \union
                       UNION {(r[1] \div UB_CACHE_LINE_SIZE) .. ((r[2] - 1) \div UB_CACHE_LINE_SIZE) :
                                r \in ranges}
                ELSE touched

(* The end of a pass: the loop counts, and goes on or returns. *)
Count ==
  /\ left' = left - kernel.by
  /\ pc' = IF \/ kernel.again = "nz" /\ left' # 0
              \/ kernel.again = "gt" /\ left' > 0
              \/ kernel.again = "ge" /\ left' >= 0
           THEN "pass" ELSE "returned"

(* The places a pass starts from: for a chase, the lines it links through. *)
Starts ==
  IF kernel.walk = "chase"
  THEN {(pos + k * UB_CACHE_LINE_SIZE) % bench.size : k \in 0 .. kernel.stride - 1}
  ELSE {pos}

NextPos ==
  CASE kernel.walk = "next" -> pos + kernel.stride
    [] kernel.walk = "mask" -> (pos + kernel.stride) % bench.size
    [] kernel.walk = "chase" -> (pos + kernel.stride * UB_CACHE_LINE_SIZE) % bench.size
    [] kernel.walk = "wrap" -> IF pos + kernel.lead >= bench.size THEN pos + kernel.lead - bench.size
                               ELSE pos + kernel.stride
    [] OTHER -> pos

Pass ==
  /\ pc = "pass" /\ kernel.walk \notin InnerWalks
  /\ Touch({<<start + r[1], start + r[2]>> : start \in Starts, r \in kernel.access}
           \union kernel.also)
  /\ work' = work + kernel.ops
  /\ pos' = NextPos
  /\ Count
  /\ UNCHANGED <<bench, n, inner, works>>

(* A pass with an inner loop starts at the beginning of the region.  The   *)
(* lead-in reads the first halves of its lines.                            *)
StartLines ==
  /\ pc = "pass" /\ kernel.walk \in InnerWalks
  /\ inner' = Lines - kernel.lead
  /\ pos' = 0
  /\ Touch({Bytes(k * UB_CACHE_LINE_SIZE, UB_CACHE_LINE_SIZE) : k \in 0 .. kernel.lead - 1})
  /\ pc' = "inner"
  /\ UNCHANGED <<bench, n, left, work, works>>

(* Linear: the lines at the position and, when there is a lead, the ones   *)
(* that far ahead.  After the loop the lead-out reads the second halves of *)
(* as many lines as the lead-in.                                           *)
LinearLines ==
  LET ended == inner' < 0
      chunk == kernel.chunk * UB_CACHE_LINE_SIZE
      lead == kernel.lead * UB_CACHE_LINE_SIZE
  IN /\ pc = "inner" /\ kernel.walk = "lines"
     /\ inner' = inner - kernel.chunk
     /\ pos' = pos + chunk
     /\ Touch({Bytes(pos, chunk), Bytes(pos + lead, chunk)}
              \union IF ended /\ lead > 0 THEN {Bytes(pos', lead)} ELSE {})
     /\ work' = work + kernel.chunk + IF ended THEN kernel.lead ELSE 0
     /\ IF ended THEN Count ELSE UNCHANGED <<left, pc>>
     /\ UNCHANGED <<bench, n, works>>

(* sumlist, along the pointers until they are back at the first node, and  *)
(* touch_lines, from line to line.                                         *)
CycleLines ==
  /\ pc = "inner" /\ kernel.walk = "cycle"
  /\ Touch({Bytes(pos, 16)})
  /\ pos' = (pos + UB_CACHE_LINE_SIZE) % bench.size
  /\ work' = work + 1
  /\ IF pos' = 0 THEN Count ELSE UNCHANGED <<left, pc>>
  /\ UNCHANGED <<bench, n, inner, works>>

Return ==
  /\ pc = "returned"
  /\ works' = Append(works, work)
  /\ pc' = IF bench.loop_delta /\ works = <<>> THEN "call" ELSE "end"
  /\ UNCHANGED <<bench, n, left, inner, pos, work, low, high, touched>>

Next == Make \/ Call \/ Pass \/ StartLines \/ LinearLines \/ CycleLines \/ Return

Spec == Init /\ [][Next]_vars

(* A kernel is a program that waits for nothing. *)
FairSpec == Spec /\ WF_vars(Next)

-----------------------------------------------------------------------------
(* Properties. *)

(* What a benchmark's time is divided by, n times the ops_per_loop of its  *)
(* registration (benchmark.hpp:268), is what its kernel did, up to what a  *)
(* loop that is tested at its end does too much: one pass, or one step of  *)
(* each inner loop.  For a loop delta (benchmark.hpp:362-376) this cancels *)
(* to the operation.  mul_by_bench does 4095 of the 4096 operations it is  *)
(* registered with (cpp-benches.cpp:499).                                  *)
OpsAsReported ==
  /\ pc = "returned" /\ kernel # mul_by_bench =>
       LET asked == n * bench.ops_per_loop
       IN CASE kernel.walk = "lines" -> work - asked \in 0 .. n * kernel.chunk
            [] kernel.walk # "lines" /\ kernel.again = "nz" -> work = asked
            [] OTHER -> work - asked \in 0 .. kernel.ops
  /\ pc = "end" /\ Len(works) = 2 => works[2] - works[1] = LoopCount * bench.ops_per_loop

(* The kernels that leave their memory by more than InsideMemory allows;   *)
(* what they reach belongs to the storage or to the stack all the same.    *)
Overrunning ==
  {fusion_better_fused, fusion_better_unfused, gatherdd_lat(8)}
  \union {misaligned_stores_twoloc(offset) : offset \in 62 .. 64}

(* A kernel touches what it was lent (in linear loops, also the lines of   *)
(* one last step after it), its own stack frame with the 128 bytes below   *)
(* it, or its own array: across the two languages nothing else keeps the   *)
(* offsets and the sizes in step.                                          *)
InsideMemory ==
  kernel \notin Overrunning =>
    CASE kernel.place = "arg" ->
           /\ low >= 0
           /\ high <= bench.size + bench.extra
                        + IF kernel.walk = "lines" THEN kernel.chunk * UB_CACHE_LINE_SIZE ELSE 0
      [] kernel.place = "frame" -> low >= -128 /\ high <= kernel.frame
      [] kernel.place = "array" -> low >= 0 /\ high <= kernel.frame
      [] OTHER -> TRUE

(* A benchmark of a region of so many KiB (mem-benches.cpp:192-449) has    *)
(* touched each of its lines, or each line of its stride, when it returns: *)
(* whatever the order of the walk, it measures a footprint of that size.   *)
WholeRegion ==
  pc = "returned" /\ kernel.walk \in Walks =>
    {line \in 0 .. Lines - 1 :
       (line * UB_CACHE_LINE_SIZE) % Max({UB_CACHE_LINE_SIZE, bench.stride}) = 0} \subseteq touched

(* "making the effective footprint somewhat smaler than requested by       *)
(* something like UF * 0.5 * STRIDE on average" (x86-methods.asm:1525-     *)
(* 1529): the parallel walk leaves out less than one pass.                 *)
Footprint ==
  pc = "returned" /\ kernel.walk = "wrap" =>
    Cardinality(touched) * UB_CACHE_LINE_SIZE >= bench.size - UF * STRIDE

(* Every registration is accepted (mem-benches.cpp:168-173), and every     *)
(* call returns: no counter steps over the value that its loop ends at.    *)
Returns == <>(pc = "end")
=============================================================================
