----------------------------- MODULE CppKernels -----------------------------
(***************************************************************************)
(* The benchmark kernels written in C++, as records of the kind of         *)
(* AsmKernels.  A `for` or `while` over the iterations counts up; counted  *)
(* down from their number it goes on while that is positive.  All loop     *)
(* counts are, so that the test before the first pass changes nothing.  A  *)
(* do ... while (--iters) is Dec.                                          *)
(***************************************************************************)
EXTENDS AsmKernels

For(step, ops) == Loop(step, "gt", ops)

(* aligned_buf<T, S, A>: after its alignment, S elements of T. *)
Array(kernel, size, access) ==
  [kernel EXCEPT !.place = "array", !.frame = size, !.access = access]

div64_templ == For(1, 1)
gettimeofday_bench == For(1, 1)
crc8_bench == Dec(4096)
sum_halves_bench == Dec(4096 \div 2)
mul_by_bench == Dec(4096 - 1)
mul_chain_bench == Dec(4096)
mul_chain4_bench == Dec(4 * (4096 \div 4))
add_indirect == Dec(4096 \div 2)
do_transcendental == For(1, 1)
syscall_loop == For(1, 1)

LIST_COUNT == 4000
linkedlist_sum == For(1, LIST_COUNT)

(* A traversal goes on until it is back at the first node. *)
shuffled_list_sum == [InnerLines(1, 0) EXCEPT !.by = 1, !.again = "gt", !.walk = "cycle"]

(* Line by line to the end of the region. *)
touch_bench == [shuffled_list_sum EXCEPT !.again = "once"]

(* Four stores, of which only the first address is masked. *)
strided_stores(width, stride) ==
  Moving(Arg(For(4, 4), {Bytes(stride * k, width) : k \in 0 .. 3}), "mask", 4 * stride)

(* With a stride and a mask of zero. *)
sameloc_stores(width, offset) == Arg(For(4, 4), {Bytes(offset, width)})

volatile_stores_study ==
  Array(For(4 * 10, 4 * 10), 8 * 1024 * 128, {Bytes(0, 8), Bytes(8 * 8, 8)})

volatile_stores_arb_offsets(width, Os) ==
  Array(For(2 * 4, 2 * 4), width * 1024 * 16, {Bytes(width * O, width) : O \in Os})

volatile_stores_bytes(dist, width) ==
  Array(For(8, 8), width * (1 + 8 * dist), {Bytes(0, width), Bytes(dist, width)})

volatile_stores_elems(dist, width) == volatile_stores_bytes(dist * width, width)

aligned_stores_helper(roll, arg) ==
  Array(For(16, 16), 8 * 1024, {Bytes(arg + 8 * n * roll, 8) : n \in 0 .. 15})

misaligned_stores_sameloc(arg) == aligned_stores_helper(0, arg)
misaligned_stores_rolling(arg) == aligned_stores_helper(1, arg)

misaligned_stores_twoloc(arg) ==
  Array(For(8 * 2, 8 * 2), 8 * 1024, {Bytes(arg, 8), Bytes(61 - arg, 8)})

BM_mov == Dec(1)
cacheline_branch == Array(Dec(1), 64 * 1024, {Bytes(0, 8 * (8 * 1024))})
intrinsic_bench == Dec(4)
=============================================================================
