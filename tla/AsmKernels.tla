----------------------------- MODULE AsmKernels -----------------------------
(***************************************************************************)
(* The benchmark kernels written in assembly, reduced to what the numbers  *)
(* depend on: how the loop counts down, how many of the measured           *)
(* operations one pass of it does, and which bytes a pass touches.  The    *)
(* members of a family that differ in an instruction only are one          *)
(* definition.                                                             *)
(*                                                                         *)
(* A kernel is a record:                                                   *)
(*   by, again   a pass takes `by` from the counter and the loop goes on   *)
(*               while the counter is not zero ("nz": dec, jnz), positive  *)
(*               ("gt": jg) or not negative ("ge": jge); "once" is no loop *)
(*   div         the kernel divides the loop count before it starts        *)
(*   ops         operations of a pass                                      *)
(*   place       whether the accesses are to the argument ("arg"), to the  *)
(*               kernel's own stack ("frame"), an array of a C++ kernel    *)
(*               ("array") or not looked at ("none")                       *)
(*   frame       bytes of the stack frame or of the array                  *)
(*   access      the byte ranges <<first, end>> that a pass touches, from  *)
(*               where the walk stands                                     *)
(*   also        the ranges it touches wherever the walk stands            *)
(*   walk        how the position of the next pass follows:                *)
(*               "still"  it does not move                                 *)
(*               "next"   on by `stride`                                   *)
(*               "mask"   on by `stride`, masked to the size of the region *)
(*               "wrap"   on by `stride`, or back if a further `lead`      *)
(*                        would not fit                                    *)
(*               "chase"  along the region's cycle of pointers, `stride`   *)
(*                        links of it                                      *)
(*               "lines"  an inner loop over the region, `chunk` lines a   *)
(*                        time, the second half of each `lead` lines late  *)
(***************************************************************************)
EXTENDS Integers

Loop(by, again, ops) ==
  [by |-> by, again |-> again, div |-> 1, ops |-> ops, place |-> "none", frame |-> 0,
   access |-> {}, also |-> {}, walk |-> "still", stride |-> 0, lead |-> 0, chunk |-> 0]

(* The usual loop, dec rdi and jnz. *)
Dec(ops) == Loop(1, "nz", ops)

Bytes(at, width) == <<at, at + width>>
Arg(kernel, access) == [kernel EXCEPT !.place = "arg", !.access = access]
Frame(kernel, size, access) ==
  [kernel EXCEPT !.place = "frame", !.frame = size, !.access = access]
Moving(kernel, walk, stride) == [kernel EXCEPT !.walk = walk, !.stride = stride]
InnerLines(chunk, lead) ==
  [Arg(Dec(0), {Bytes(0, 64)}) EXCEPT !.walk = "lines", !.chunk = chunk, !.lead = lead]

-----------------------------------------------------------------------------
(* Arithmetic, calls, jumps and moves. *)

add_calibration_x86 == Loop(2, "ge", 2)
dep_add_rax_rax == Dec(128)
dep_sub_calib(unroll) == Loop(unroll, "ge", unroll)
dep_add_chain == Dec(16)
dep_imul_rax == Dec(128)
dep_pushpop == Dec(128)
div_rcx == Dec(128)
indep_nop == Dec(128)
alu_load_6(k) == Dec(64 * (6 + k))
dense_call == Dec(16)
chained_call == Dec(4 * 4)
pushpop_call == Dec(16)
indep_add == Dec(50 * 8)
rdtsc_bench == Dec(128)
misc_fusion_add == Dec(128)
macro_fusion == Dec(128)
david_schor1 == Dec(1)
double_macro_fusion(n) == Dec(n)
vz_samereg == Dec(100)
bmi_bench == Dec(128)
retpoline_dense_call == Dec(32)
retpoline_sparse_call == Dec(8)
dsb_alignment == Dec(1)
adc_chain == Frame(Dec(4 * 250), 3 * 32 * 250, {Bytes(0, 8), Bytes(2 * 32 * 250, 8)})
mov_elim == Dec(1)
tight_loop == Dec(1)
p01_fusion == Dec(100)
syscall_asm == Dec(1)
lfence_only == Dec(8)
call_empty == Dec(16)
movd_xmm == Dec(100)
jmp_forward == Dec(1)
jmp_loop_generic == Arg(Dec(1), {Bytes(0, 4), Bytes(4, 4)})
indirect_forward == Dec(1)
indirect_variable == Dec(1)
load_alloc == Dec(1)
decode_complex == Dec(200)
DECODE_OPS == 50400 \div 2
decode == Dec(DECODE_OPS)
decode_monoid == Dec(200 * (8 + 8))
decode_monoid2 == Dec(1000 * 9)
avx512 == Dec(128)
rs_dep_add == Dec(128)
rs_dep_fsqrt == Dec(128)
rs_op_op == Dec(32)
rs_loadchain == Dec(32)

(* In two passes over the second chain of jumps the loop counts one. *)
jmp_forward_dual == Dec(1)

-----------------------------------------------------------------------------
(* Accesses to one place, or to the kernel's own stack. *)

sameloc_pointer_chase(offset) == Frame(Dec(128), 8192, {Bytes(offset, 8)})
sameloc_pointer_chase_diffpage == Frame(Dec(128), 4096, {Bytes(8, 8)})
sameloc_pointer_chase_alt == Frame(Dec(2 * 64), 4096, {Bytes(-8, 8), Bytes(8, 8)})
sameloc_pointer_chase_alu == Frame(Dec(128), 8, {Bytes(0, 8)})
sameloc_pointer_chase_alu2 ==
  Frame(Dec(128), 2048 + 4096, {Bytes(-8, 8), Bytes(2040, 8)})
sameloc_pointer_chase_8way == Frame(Dec(16), 64, {Bytes(0, 8 * 8)})
sameloc_pointer_chase_8way5 == Frame(Dec(16), 8192, {Bytes(0, 8 * 10)})
sameloc_pointer_chase_8way45 == Frame(Dec(10), 8192, {Bytes(0, 8 * 10)})
inc_rmw == Frame(Dec(128), 0, {Bytes(-4, 4)})
add_rmw2 == Frame(Dec(16), 0, {Bytes(-4, 4)})
store_same_loc == Frame(Dec(128), 0, {Bytes(-8, 4)})
store_any(width) == Arg(Dec(128), {Bytes(0, width)})
load_any(width) == Arg(Dec(128), {Bytes(0, width)})
store64_disjoint == Frame(Dec(128), 1024, {Bytes(0, 8 * 128)})
misc_add_loop == Frame(Dec(1), 256, {Bytes(0, 8), Bytes(64, 8), Bytes(128, 8)})
misc_port7 == Frame(Dec(1), 8, {Bytes(0, 8)})

(* It moves its stack pointer a further 4000 bytes down, storing as it goes. *)
weird_store == Frame(Dec(1000), 4 * 1000 + 8196, {Bytes(4, 4 * 1000)})

fwd_lat_delay == Frame(Dec(1), 0, {Bytes(-8, 8)})
fwd_tput_conc(conc) == Frame(Dec(conc), 256, {Bytes(8 * i - 8, 8) : i \in 0 .. conc - 1})
bypass_mov_latency == Frame(Dec(1), 120, {Bytes(0, 16)})
vector_load_load_lat(width, offset) == Frame(Dec(1), 128, {Bytes(offset, width)})
vector_load_load_lat_double(width, offset) ==
  Frame(Dec(1), 8192, {Bytes(0, 8), Bytes(offset, width)})
gatherdd(n) == Frame(Dec(16), 1024, {Bytes(64 * i, 4) : i \in 0 .. n - 1})
gatherdd_lat(n) == Frame(Dec(16), 1024, {Bytes(4 * 64 * i, 4) : i \in 0 .. n - 1})
dendibakh(iters) == Moving(Frame(Dec(1), 4 * iters, {Bytes(4 * iters - 4, 4)}), "next", -4)
rep_movsb == Frame(Dec(100), 1024, {Bytes(0, 1024)})
replay_crossing == Frame(Dec(100), 66, {Bytes(0, 8)})
fw_write_read(at, width) == Frame(Dec(100), 128, {Bytes(at, width)})
load_pattern(offsets) ==
  Frame(Loop(2 * 4, "gt", 2 * 4), 1024, {Bytes(offset, 8) : offset \in offsets})
Mut_load_pattern3_StepOfFour(offsets) == [load_pattern(offsets) EXCEPT !.ops = 2 * 3]

load_pattern3(offsets) == [load_pattern(offsets) EXCEPT !.by = 2 * 3, !.ops = 2 * 3]
rs_split_stores == Frame(Dec(128), 128, {Bytes(60, 8)})
rs_load_op == Frame(Dec(32), 128, {Bytes(0, 8)})
rs_storebuf == Frame(Dec(32), 8, {Bytes(0, 4)})
nested_loop == Arg(Dec(1), {Bytes(0, 4)})
quadratic == Arg(Dec(1000), {Bytes(0, 4 * 1000)})

-----------------------------------------------------------------------------
(* Kernels that are called once per sample.  Their own loops have fixed     *)
(* counts, and the operation is the call.                                  *)

Once(ops) == Loop(1, "once", ops)

dep_add_noloop_128 == Once(128)
dummy_bench_oneshot == Once(1)
oneshot_try == Arg(Once(1), {Bytes(0, 4)})
aliasing_loads == Arg(Once(1), {Bytes(0, 4)})
aliasing_loads_raw == Arg(Once(1), {Bytes(0, 4), Bytes(8, 4), Bytes(64, 4)})
mixed_loads_raw == Arg(Once(1), {Bytes(0, 4), Bytes(64, 4)})
fwd_lat_delay_oneshot == Arg(Once(1), {Bytes(0, 8), Bytes(8, 8)})
store_raw_libpfc == Frame(Once(1), 128, {Bytes(0, 1)})
oneshot_adds == Frame(Once(1), 8, {Bytes(0, 8)})

-----------------------------------------------------------------------------
(* Walks over a region, or over memory from aligned_ptr. *)

fusion_better_fused ==
  [Moving(Arg(Dec(16), {Bytes(0, 4)}), "next", 16 * 16) EXCEPT !.div = 16]
fusion_better_unfused == Moving(Arg(Dec(1), {Bytes(0, 8)}), "next", 8)

UF == 8
STRIDE == 832

(* The next pass starts UF strides on, or where the furthest one of the    *)
(* UF accesses after that would be, less the size.                         *)
parallel_mem_bench(width) ==
  [Moving(Arg(Dec(UF), {Bytes(STRIDE * s, width) : s \in 0 .. UF - 1}), "wrap", STRIDE * UF)
     EXCEPT !.lead = STRIDE * (2 * UF - 1)]

serial_load_bench == Moving(Arg(Dec(1), {Bytes(0, 8)}), "chase", 1)
serial_load_bench2 == Moving(Arg(Dec(1), {Bytes(0, 8)}), "chase", 2)
serial_double_load(offsets) ==
  Moving(Arg(Dec(1), {Bytes(offset, 8) : offset \in offsets}), "chase", 1)

UNROLLB == 10
define_bandwidth == InnerLines(1, 0)
bandwidth_test256 == InnerLines(UNROLLB, 0)
bandwidth_test256i_orig == InnerLines(UNROLLB, 0)
bandwidth_test256i_single == InnerLines(1, UNROLLB)
bandwidth_test256i_double == InnerLines(2, UNROLLB)
bandwidth_test256i == InnerLines(1, 1)
define_nt_extra == InnerLines(1, 0)

Mut_tlb_fencing_Stride64 ==
  [Moving(Arg(Dec(1), {Bytes(0, 8)}), "mask", 64 * 64) EXCEPT !.also = {Bytes(160, 4)}]

(* The offset of the store is what the load returns, zero. *)
tlb_fencing ==
  [Moving(Arg(Dec(1), {Bytes(0, 8)}), "mask", 64 * 67) EXCEPT !.also = {Bytes(160, 4)}]
MissStride == 12736
parallel_miss(width) == Moving(Arg(Dec(1), {Bytes(0, width)}), "mask", MissStride)
=============================================================================
