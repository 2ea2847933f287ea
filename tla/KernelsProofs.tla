---------------------------- MODULE KernelsProofs ----------------------------
(***************************************************************************)
(* Theorems about the kernels of all registered benchmarks, for regions of *)
(* every size: what they are said to do, where they walk and what of their *)
(* memory they reach.                                                      *)
(*                                                                         *)
(* The tables come first: each registration is one of seven kinds, and a   *)
(* kind says of a registration what its kernel relies on.                  *)
(***************************************************************************)
EXTENDS Kernels, WellFoundedInduction, TLAPS

Within(first, last) == {r \in Int \X Int : first <= r[1] /\ r[1] <= r[2] /\ r[2] <= last}

(* A pass does the operations of the steps that the loop takes in it. *)
OpsFit(k, ops_per_loop) == k.ops = k.by * (ops_per_loop * k.div)

(* A kernel that accesses a fixed place, inside what there is of it. *)
Still(k, o) ==
  /\ k \in Kernel /\ k.walk = "still" /\ k.div = 1 /\ k.also = {} /\ k.by # 0
  /\ k.again \in {"nz", "once"} => k.by = 1
  /\ \E far \in Nat : k.access \subseteq Within(-128, far)
  /\ OpsFit(k, o)

Inside(k, room) ==
  \/ k.place = "none" /\ k.access = {}
  \/ k.place = "arg" /\ k.access \subseteq Within(0, room)
  \/ k.place = "frame" /\ k.access \subseteq Within(-128, k.frame)
  \/ k.place = "array" /\ k.access \subseteq Within(0, k.frame)

Plain(k, o, room) == o \in Nat \ {0} /\ Still(k, o) /\ Inside(k, room) /\ k.again # "once"

Typed(b) ==
  /\ b.kernel \in Kernel
  /\ {b.loop_count, b.ops_per_loop, b.stride} \subseteq Nat \ {0}
  /\ {b.size, b.extra, b.kib} \subseteq Nat
  /\ {b.sizecheck, b.loop_delta} \subseteq BOOLEAN

StillFits(b) ==
  /\ Typed(b)
  /\ \E o \in Nat : Still(b.kernel, o) /\ (b.kernel # mul_by_bench => o = b.ops_per_loop)
  /\ b.kernel \notin Overrunning => Inside(b.kernel, b.size + b.extra)
  /\ b.kernel.again = "once" => b.loop_count = 1
  /\ b.loop_delta => /\ Still(b.kernel, b.ops_per_loop)
                     /\ b.kernel.by = 1 /\ b.kernel.again \in {"nz", "gt"}

-----------------------------------------------------------------------------
(* Kernels that stay where they are. *)

(* A loop whose passes each take `by` steps of o operations. *)
Counts(by, again, ops, o) ==
  /\ by \in Nat \ {0} /\ o \in Nat \ {0} /\ ops = by * o
  /\ again \in {"nz", "gt", "ge", "once"}
  /\ again \in {"nz", "once"} => by = 1

LEMMA LoopStill ==
  ASSUME NEW by, NEW again, NEW ops, NEW o, Counts(by, again, ops, o)
  PROVE  /\ Still(Loop(by, again, ops), o)
         /\ \A room : Inside(Loop(by, again, ops), room)
         /\ again # "once" => \A room : Plain(Loop(by, again, ops), o, room)
<1> DEFINE k == Loop(by, again, ops)
<1> USE DEF Counts
<1>1. /\ k.by = by /\ k.again = again /\ k.div = 1 /\ k.ops = ops /\ k.place = "none" /\ k.frame = 0
      /\ k.access = {} /\ k.also = {} /\ k.walk = "still" /\ k.stride = 0 /\ k.lead = 0 /\ k.chunk = 0
  BY DEF Loop
<1>2. ops \in Nat /\ by * (o * 1) = by * o
  OBVIOUS
<1>3. k \in Kernel
  BY <1>1, <1>2 DEF Kernel, Walks, InnerWalks, Loop
<1> HIDE DEF k
<1>4. 0 \in Nat /\ k.access \subseteq Within(-128, 0)
  BY <1>1
<1>5. OpsFit(k, o)
  BY <1>1, <1>2 DEF OpsFit
<1>6. Still(k, o) /\ (\A room : Inside(k, room))
  BY <1>1, <1>3, <1>4, <1>5 DEF Still, Inside
<1>7. ASSUME again # "once"
      PROVE  \A room : Plain(k, o, room)
  BY <1>1, <1>6, <1>7 DEF Plain
<1> QED BY <1>6, <1>7 DEF k

LEMMA DecPlain ==
  ASSUME NEW o \in Nat \ {0}
  PROVE  \A room : Plain(Dec(o), o, room)
<1>1. Counts(1, "nz", o, o)
  BY DEF Counts
<1> QED BY <1>1, LoopStill DEF Dec

(* Loops that count by the operations of a pass. *)
LEMMA CountPlain ==
  ASSUME NEW by \in Nat \ {0}, NEW again \in {"gt", "ge"}
  PROVE  \A room : Plain(Loop(by, again, by), 1, room)
<1>1. Counts(by, again, by, 1)
  BY DEF Counts
<1> QED BY <1>1, LoopStill

LEMMA OnceStill ==
  ASSUME NEW o \in Nat \ {0}
  PROVE  Still(Once(o), o) /\ \A room : Inside(Once(o), room)
<1>1. Counts(1, "once", o, o)
  BY DEF Counts
<1> QED BY <1>1, LoopStill DEF Once

LEMMA FrameStill ==
  ASSUME NEW k, NEW o, Still(k, o), NEW size \in Nat, NEW far \in Nat, NEW access,
         access \subseteq Within(-128, far)
  PROVE  /\ Still(Frame(k, size, access), o)
         /\ far = size => \A room : Inside(Frame(k, size, access), room)
         /\ Frame(k, size, access).again = k.again
<1> DEFINE f == Frame(k, size, access)
<1>1. k \in Kernel /\ access \in SUBSET (Int \X Int)
  BY DEF Still, Within
<1>2. f \in Kernel /\ f.place = "frame" /\ f.frame = size /\ f.access = access
      /\ f.walk = k.walk /\ f.div = k.div /\ f.also = k.also /\ f.by = k.by /\ f.again = k.again
      /\ f.ops = k.ops
  BY <1>1 DEF Frame, Kernel
<1> HIDE DEF f
<1> QED BY <1>2 DEF Still, Inside, OpsFit, f

LEMMA ArrayStill ==
  ASSUME NEW k, NEW o, Still(k, o), NEW size \in Nat, NEW first \in Int, NEW access,
         first >= -128, access \subseteq Within(first, size)
  PROVE  /\ Still(Array(k, size, access), o)
         /\ first = 0 => \A room : Inside(Array(k, size, access), room)
         /\ Array(k, size, access).again = k.again
<1> DEFINE f == Array(k, size, access)
<1>1. k \in Kernel /\ access \in SUBSET (Int \X Int) /\ access \subseteq Within(-128, size)
  BY DEF Still, Within
<1>2. f \in Kernel /\ f.place = "array" /\ f.frame = size /\ f.access = access
      /\ f.walk = k.walk /\ f.div = k.div /\ f.also = k.also /\ f.by = k.by /\ f.again = k.again
      /\ f.ops = k.ops
  BY <1>1 DEF Array, Kernel
<1> HIDE DEF f
<1> QED BY <1>1, <1>2 DEF Still, Inside, OpsFit, f

LEMMA ArgStill ==
  ASSUME NEW k, NEW o, Still(k, o), NEW room \in Nat, NEW access,
         access \subseteq Within(0, room)
  PROVE  /\ Still(Arg(k, access), o) /\ Inside(Arg(k, access), room)
         /\ Arg(k, access).again = k.again
<1> DEFINE f == Arg(k, access)
<1>1. k \in Kernel /\ access \in SUBSET (Int \X Int) /\ access \subseteq Within(-128, room)
  BY DEF Still, Within
<1>2. f \in Kernel /\ f.place = "arg" /\ f.access = access
      /\ f.walk = k.walk /\ f.div = k.div /\ f.also = k.also /\ f.by = k.by /\ f.again = k.again
      /\ f.ops = k.ops
  BY <1>1 DEF Arg, Kernel
<1> HIDE DEF f
<1> QED BY <1>1, <1>2 DEF Still, Inside, OpsFit, f

LEMMA FramePlain ==
  ASSUME NEW k, NEW o, Plain(k, o, 0), NEW size \in Nat, NEW access,
         access \subseteq Within(-128, size)
  PROVE  \A room : Plain(Frame(k, size, access), o, room)
BY FrameStill DEF Plain

LEMMA ArrayPlain ==
  ASSUME NEW k, NEW o, Plain(k, o, 0), NEW size \in Nat, NEW access,
         access \subseteq Within(0, size)
  PROVE  \A room : Plain(Array(k, size, access), o, room)
BY ArrayStill DEF Plain

LEMMA ArgPlain ==
  ASSUME NEW k, NEW o, Plain(k, o, 0), NEW room \in Nat, NEW access,
         access \subseteq Within(0, room)
  PROVE  Plain(Arg(k, access), o, room)
BY ArgStill DEF Plain

-----------------------------------------------------------------------------
(* Their registrations. *)

LEMMA MakeFields ==
  ASSUME NEW k, NEW o, NEW size, NEW loop_count
  PROVE  LET b == Times(loop_count, Lent(size, make(k, o)))
         IN  /\ b.kernel = k /\ b.ops_per_loop = o /\ b.loop_count = loop_count /\ b.size = size
             /\ b.extra = 0 /\ b.stride = 64 /\ b.kib = 0 /\ ~b.sizecheck /\ ~b.loop_delta
             /\ b.sizecheck \in BOOLEAN /\ b.loop_delta \in BOOLEAN
BY DEF make, Times, Lent

LEMMA FieldsFit ==
  ASSUME NEW b, Plain(b.kernel, b.ops_per_loop, b.size), b.size \in Nat,
         b.loop_count \in Nat \ {0}, b.extra = 0, b.stride = 64, b.kib = 0,
         b.sizecheck \in BOOLEAN, b.loop_delta \in BOOLEAN,
         b.loop_delta => b.kernel.by = 1 /\ b.kernel.again \in {"nz", "gt"}
  PROVE  StillFits(b)
<1>1. /\ b.kernel \in Kernel /\ Still(b.kernel, b.ops_per_loop) /\ b.kernel.again # "once"
      /\ b.ops_per_loop \in Nat \ {0} /\ Inside(b.kernel, b.size)
  BY DEF Plain, Still
<1>2. b.size + b.extra = b.size
  OBVIOUS
<1> QED BY <1>1, <1>2 DEF StillFits, Typed

LEMMA LentPlain ==
  ASSUME NEW k, NEW o, NEW size \in Nat, Plain(k, o, size)
  PROVE  /\ StillFits(Lent(size, make(k, o)))
         /\ \A loop_count \in Nat \ {0} : StillFits(Times(loop_count, Lent(size, make(k, o))))
<1>1. 10000 \in Nat \ {0}
  OBVIOUS
<1>2. StillFits(Lent(size, make(k, o)))
  <2> DEFINE b == Lent(size, make(k, o))
  <2>1. /\ b.kernel = k /\ b.ops_per_loop = o /\ b.loop_count = 10000 /\ b.size = size
        /\ b.extra = 0 /\ b.stride = 64 /\ b.kib = 0 /\ ~b.sizecheck /\ ~b.loop_delta
        /\ b.sizecheck \in BOOLEAN /\ b.loop_delta \in BOOLEAN
    BY DEF make, Lent
  <2> HIDE DEF b
  <2> QED BY <1>1, <2>1, FieldsFit DEF b
<1>3. ASSUME NEW c \in Nat \ {0}
      PROVE  StillFits(Times(c, Lent(size, make(k, o))))
  <2> DEFINE b == Times(c, Lent(size, make(k, o)))
  <2>1. /\ b.kernel = k /\ b.ops_per_loop = o /\ b.loop_count = c /\ b.size = size
        /\ b.extra = 0 /\ b.stride = 64 /\ b.kib = 0 /\ ~b.sizecheck /\ ~b.loop_delta
        /\ b.sizecheck \in BOOLEAN /\ b.loop_delta \in BOOLEAN
    BY MakeFields
  <2> HIDE DEF b
  <2> QED BY <2>1, FieldsFit DEF b
<1> QED BY <1>2, <1>3

LEMMA MakePlain ==
  ASSUME NEW k, NEW o, Plain(k, o, 0)
  PROVE  /\ StillFits(make(k, o))
         /\ \A loop_count \in Nat \ {0} : StillFits(Times(loop_count, make(k, o)))
<1>1. 10000 \in Nat \ {0} /\ 0 \in Nat
  OBVIOUS
<1>2. StillFits(make(k, o))
  <2> DEFINE b == make(k, o)
  <2>1. /\ b.kernel = k /\ b.ops_per_loop = o /\ b.loop_count = 10000 /\ b.size = 0
        /\ b.extra = 0 /\ b.stride = 64 /\ b.kib = 0 /\ ~b.sizecheck /\ ~b.loop_delta
        /\ b.sizecheck \in BOOLEAN /\ b.loop_delta \in BOOLEAN
    BY DEF make
  <2> HIDE DEF b
  <2> QED BY <1>1, <2>1, FieldsFit DEF b
<1>3. ASSUME NEW c \in Nat \ {0}
      PROVE  StillFits(Times(c, make(k, o)))
  <2> DEFINE b == Times(c, make(k, o))
  <2>1. /\ b.kernel = k /\ b.ops_per_loop = o /\ b.loop_count = c /\ b.size = 0
        /\ b.extra = 0 /\ b.stride = 64 /\ b.kib = 0 /\ ~b.sizecheck /\ ~b.loop_delta
        /\ b.sizecheck \in BOOLEAN /\ b.loop_delta \in BOOLEAN
    BY DEF make, Times
  <2> HIDE DEF b
  <2> QED BY <1>1, <2>1, FieldsFit DEF b
<1> QED BY <1>2, <1>3

LEMMA DeltaPlain ==
  ASSUME NEW k, NEW o, Plain(k, o, 0), k.by = 1, k.again \in {"nz", "gt"}
  PROVE  /\ StillFits([make(k, o) EXCEPT !.loop_delta = TRUE])
         /\ \A loop_count \in Nat \ {0} :
              StillFits([Times(loop_count, make(k, o)) EXCEPT !.loop_delta = TRUE])
<1>1. 10000 \in Nat \ {0} /\ 0 \in Nat
  OBVIOUS
<1>2. StillFits([make(k, o) EXCEPT !.loop_delta = TRUE])
  <2> DEFINE b == [make(k, o) EXCEPT !.loop_delta = TRUE]
  <2>1. /\ b.kernel = k /\ b.ops_per_loop = o /\ b.loop_count = 10000 /\ b.size = 0
        /\ b.extra = 0 /\ b.stride = 64 /\ b.kib = 0 /\ ~b.sizecheck
        /\ b.sizecheck \in BOOLEAN /\ b.loop_delta \in BOOLEAN
    BY DEF make
  <2> HIDE DEF b
  <2>2. Plain(b.kernel, b.ops_per_loop, b.size) /\ b.kernel.by = 1 /\ b.kernel.again \in {"nz", "gt"}
    BY <2>1
  <2>3. StillFits(b)
    BY <1>1, <2>1, <2>2, FieldsFit
  <2> QED BY <2>3 DEF b
<1>3. ASSUME NEW c \in Nat \ {0}
      PROVE  StillFits([Times(c, make(k, o)) EXCEPT !.loop_delta = TRUE])
  <2> DEFINE b == [Times(c, make(k, o)) EXCEPT !.loop_delta = TRUE]
  <2>1. /\ b.kernel = k /\ b.ops_per_loop = o /\ b.loop_count = c /\ b.size = 0
        /\ b.extra = 0 /\ b.stride = 64 /\ b.kib = 0 /\ ~b.sizecheck
        /\ b.sizecheck \in BOOLEAN /\ b.loop_delta \in BOOLEAN
    BY DEF make, Times
  <2> HIDE DEF b
  <2>2. Plain(b.kernel, b.ops_per_loop, b.size) /\ b.kernel.by = 1 /\ b.kernel.again \in {"nz", "gt"}
    BY <2>1
  <2>3. StillFits(b)
    BY <1>1, <2>1, <2>2, FieldsFit
  <2> QED BY <2>3 DEF b
<1> QED BY <1>2, <1>3

LEMMA OnceFits ==
  ASSUME NEW b, NEW o \in Nat \ {0}, Still(b.kernel, o), b.ops_per_loop = o, b.loop_count = 1,
         b.size \in Nat, Inside(b.kernel, b.size), b.extra = 0, b.stride = 64, b.kib = 0,
         b.sizecheck \in BOOLEAN, ~b.loop_delta, b.loop_delta \in BOOLEAN
  PROVE  StillFits(b)
<1>1. b.kernel \in Kernel /\ Inside(b.kernel, b.size + b.extra)
  BY DEF Still
<1> QED BY <1>1 DEF StillFits, Typed

LEMMA MakeOnce ==
  ASSUME NEW k, NEW o \in Nat \ {0}, Still(k, o)
  PROVE  /\ Inside(k, 0) => StillFits(Times(1, make(k, o)))
         /\ \A size \in Nat : Inside(k, size) => StillFits(Times(1, Lent(size, make(k, o))))
<1>1. ASSUME Inside(k, 0)
      PROVE  StillFits(Times(1, make(k, o)))
  <2> DEFINE b == Times(1, make(k, o))
  <2>1. /\ b.kernel = k /\ b.ops_per_loop = o /\ b.loop_count = 1 /\ b.size = 0
        /\ b.extra = 0 /\ b.stride = 64 /\ b.kib = 0 /\ ~b.sizecheck /\ ~b.loop_delta
        /\ b.sizecheck \in BOOLEAN /\ b.loop_delta \in BOOLEAN
    BY DEF make, Times
  <2> HIDE DEF b
  <2> QED BY <1>1, <2>1, OnceFits DEF b
<1>2. ASSUME NEW size \in Nat, Inside(k, size)
      PROVE  StillFits(Times(1, Lent(size, make(k, o))))
  <2> DEFINE b == Times(1, Lent(size, make(k, o)))
  <2>1. /\ b.kernel = k /\ b.ops_per_loop = o /\ b.loop_count = 1 /\ b.size = size
        /\ b.extra = 0 /\ b.stride = 64 /\ b.kib = 0 /\ ~b.sizecheck /\ ~b.loop_delta
        /\ b.sizecheck \in BOOLEAN /\ b.loop_delta \in BOOLEAN
    BY MakeFields
  <2> HIDE DEF b
  <2> QED BY <1>2, <2>1, OnceFits DEF b
<1> QED BY <1>1, <1>2

(* Of a kernel that leaves its memory, only what it counts. *)
LEMMA MakeOverrunning ==
  ASSUME NEW k, NEW o \in Nat \ {0}, Still(k, o), k \in Overrunning, k.again # "once"
  PROVE  StillFits(make(k, o))
<1> DEFINE b == make(k, o)
<1>1. /\ b.kernel = k /\ b.ops_per_loop = o /\ b.loop_count = 10000 /\ b.size = 0
      /\ b.extra = 0 /\ b.stride = 64 /\ b.kib = 0 /\ ~b.sizecheck /\ ~b.loop_delta
      /\ b.sizecheck \in BOOLEAN /\ b.loop_delta \in BOOLEAN
  BY DEF make
<1>2. k \in Kernel /\ o \in Nat /\ 10000 \in Nat \ {0} /\ 0 \in Nat
  BY DEF Still
<1> HIDE DEF b
<1>3. Typed(b)
  BY <1>1, <1>2 DEF Typed
<1> QED BY <1>1, <1>2, <1>3 DEF StillFits, b

-----------------------------------------------------------------------------
(* The tables of the benchmarks that stay where they are. *)

LEMMA BytesWithin ==
  ASSUME NEW at \in Int, NEW width \in Nat, NEW first \in Int, NEW last \in Int,
         first <= at, at + width <= last
  PROVE  Bytes(at, width) \in Within(first, last)
BY DEF Bytes, Within

LEMMA DefaultFits == \A b \in register_default : StillFits(b)
<1>1. \A body \in {dep_add_rax_rax, dep_imul_rax, dep_pushpop, div_rcx, indep_nop, rdtsc_bench} :
        Plain(body, 128, 0)
  BY DecPlain DEF dep_add_rax_rax, dep_imul_rax, dep_pushpop, div_rcx, indep_nop, rdtsc_bench
<1>2. Plain(Dec(128), 128, 0) /\ Plain(Dec(16), 16, 0)
  BY DecPlain
<1>3. Plain(store_same_loc, 128, 0) /\ Plain(inc_rmw, 128, 0)
  <2>1. {Bytes(-8, 4)} \subseteq Within(-128, 0) /\ {Bytes(-4, 4)} \subseteq Within(-128, 0)
    BY BytesWithin
  <2> QED BY <1>2, <2>1, FramePlain DEF store_same_loc, inc_rmw
<1>4. Plain(store64_disjoint, 128, 0)
  <2>1. {Bytes(0, 8 * 128)} \subseteq Within(-128, 1024)
    BY BytesWithin
  <2> QED BY <1>2, <2>1, FramePlain DEF store64_disjoint
<1>5. \A offset \in {0, 2047, 2048, 4096} : Plain(sameloc_pointer_chase(offset), 128, 0)
  <2>1. \A offset \in {0, 2047, 2048, 4096} : {Bytes(offset, 8)} \subseteq Within(-128, 8192)
    BY BytesWithin
  <2> QED BY <1>2, <2>1, FramePlain DEF sameloc_pointer_chase
<1>6. \A unroll \in {2, 10} : Plain(dep_sub_calib(unroll), 1, 0)
  BY CountPlain DEF dep_sub_calib
<1>7. Plain(call_empty, 16, 0) /\ Plain(dep_add_chain, 16, 0)
  BY DecPlain DEF call_empty, dep_add_chain
<1>8. Plain(add_rmw2, 16, 0)
  <2>1. {Bytes(-4, 4)} \subseteq Within(-128, 0)
    BY BytesWithin
  <2> QED BY <1>2, <2>1, FramePlain DEF add_rmw2
<1>9. Plain(indep_add, 50 * 8, 0)
  BY DecPlain DEF indep_add
<1>10. \A k \in 0 .. 6 : Plain(alu_load_6(k), (6 + k) * 64, 0)
  BY DecPlain DEF alu_load_6
<1> QED BY <1>1, <1>3, <1>4, <1>5, <1>6, <1>7, <1>8, <1>9, <1>10, MakePlain DEF register_default

LEMMA BranchFits == \A b \in register_branch : StillFits(b)
<1>1. \A body \in {jmp_forward, indirect_forward, jmp_forward_dual, indirect_variable, load_alloc} :
        Plain(body, 1, 0)
  BY DecPlain DEF jmp_forward, indirect_forward, jmp_forward_dual, indirect_variable, load_alloc
<1>2. Plain(jmp_loop_generic, 1, 8)
  <2>1. {Bytes(0, 4), Bytes(4, 4)} \subseteq Within(0, 8)
    BY BytesWithin
  <2> QED BY <2>1, DecPlain, ArgPlain DEF jmp_loop_generic
<1> QED BY <1>1, <1>2, MakePlain, LentPlain DEF register_branch

LEMMA CallFits == \A b \in register_call : StillFits(b)
<1>1. \A body \in {dense_call, chained_call, pushpop_call} : Plain(body, 16, 0)
  BY DecPlain DEF dense_call, chained_call, pushpop_call
<1> QED BY <1>1, MakePlain DEF register_call

LEMMA DecodeFits == \A b \in register_decode : StillFits(b)
<1>1. /\ Plain(decode, 50400 \div 2, 0) /\ Plain(decode_monoid, 3200, 0)
      /\ Plain(decode_monoid2, 9000, 0) /\ Plain(decode_complex, 200, 0)
  BY DecPlain DEF decode, DECODE_OPS, decode_monoid, decode_monoid2, decode_complex
<1>2. Plain(quadratic, 1000, 4 * 1024)
  <2>1. {Bytes(0, 4 * 1000)} \subseteq Within(0, 4 * 1024)
    BY BytesWithin
  <2> QED BY <2>1, DecPlain, ArgPlain DEF quadratic
<1> QED BY <1>1, <1>2, MakePlain, LentPlain DEF register_decode

LEMMA VectorFits == \A b \in register_vector : StillFits(b)
<1>1. Plain(Dec(1), 1, 0) /\ Plain(p01_fusion, 100, 0) /\ Plain(intrinsic_bench, 4, 0)
  BY DecPlain DEF p01_fusion, intrinsic_bench
<1>2. Plain(bypass_mov_latency, 1, 0)
  <2>1. {Bytes(0, 16)} \subseteq Within(-128, 120)
    BY BytesWithin
  <2> QED BY <1>1, <2>1, FramePlain DEF bypass_mov_latency
<1>3. \A width \in {16, 32, 64}, offset \in {0, 63} : Plain(vector_load_load_lat(width, offset), 1, 0)
  <2>1. \A width \in {16, 32, 64}, offset \in {0, 63} : {Bytes(offset, width)} \subseteq Within(-128, 128)
    BY BytesWithin
  <2> QED BY <1>1, <2>1, FramePlain DEF vector_load_load_lat
<1>4. \A width \in {16, 32, 64}, offset \in {0, 3200} :
        Plain(vector_load_load_lat_double(width, offset), 1, 0)
  <2>1. \A width \in {16, 32, 64}, offset \in {0, 3200} :
          {Bytes(0, 8), Bytes(offset, width)} \subseteq Within(-128, 8192)
    BY BytesWithin
  <2> QED BY <1>1, <2>1, FramePlain DEF vector_load_load_lat_double
<1>5. StillFits([make(intrinsic_bench, 4) EXCEPT !.loop_delta = TRUE])
  <2>1. intrinsic_bench.by = 1 /\ intrinsic_bench.again = "nz"
    BY DEF intrinsic_bench, Dec, Loop
  <2> QED BY <1>1, <2>1, DeltaPlain
<1> DEFINE lats == {bypass_mov_latency}
                   \union {vector_load_load_lat(width, offset) : width \in {16, 32, 64}, offset \in {0, 63}}
                   \union {vector_load_load_lat_double(width, offset) :
                             width \in {16, 32, 64}, offset \in {0, 3200}}
<1>6. \A body \in lats : StillFits(Times(100000, make(body, 1)))
  BY <1>2, <1>3, <1>4, MakePlain
<1>7. StillFits(Times(1000, make(p01_fusion, 100))) /\ StillFits(make(intrinsic_bench, 4))
  BY <1>1, MakePlain
<1> DEFINE delta == [make(intrinsic_bench, 4) EXCEPT !.loop_delta = TRUE]
<1>8. register_vector = {Times(100000, make(body, 1)) : body \in lats}
                        \union {Times(1000, make(p01_fusion, 100)), make(intrinsic_bench, 4), delta}
  BY DEF register_vector
<1>9. StillFits(delta)
  BY <1>5
<1> HIDE DEF lats, delta
<1> QED BY <1>6, <1>7, <1>8, <1>9

LEMMA RstallsFits == \A b \in register_rstalls : StillFits(b)
<1>1. /\ Plain(Dec(128), 128, 0) /\ Plain(rs_dep_add, 128, 0) /\ Plain(rs_dep_fsqrt, 128, 0)
      /\ Plain(Dec(32), 32, 0) /\ Plain(rs_op_op, 32, 0) /\ Plain(rs_loadchain, 32, 0)
  BY DecPlain DEF rs_dep_add, rs_dep_fsqrt, rs_op_op, rs_loadchain
<1>2. Plain(rs_split_stores, 128, 0)
  <2>1. {Bytes(60, 8)} \subseteq Within(-128, 128)
    BY BytesWithin
  <2> QED BY <1>1, <2>1, FramePlain DEF rs_split_stores
<1>3. Plain(rs_load_op, 32, 0) /\ Plain(rs_storebuf, 32, 0)
  <2>1. {Bytes(0, 8)} \subseteq Within(-128, 128) /\ {Bytes(0, 4)} \subseteq Within(-128, 8)
    BY BytesWithin
  <2> QED BY <1>1, <2>1, FramePlain DEF rs_load_op, rs_storebuf
<1> QED BY <1>1, <1>2, <1>3, MakePlain DEF register_rstalls

LEMMA LoadstoreFits == \A b \in register_loadstore : StillFits(b)
<1> DEFINE widths == {2, 4, 8, 16, 32, 64}
<1>1. \A width \in widths : {Bytes(0, width)} \subseteq Within(0, 64)
  BY BytesWithin
<1>2. \A width \in widths : Plain(store_any(width), 128, 64) /\ Plain(load_any(width), 128, 64)
  <2>1. Plain(Dec(128), 128, 0)
    BY DecPlain
  <2> HIDE DEF widths
  <2> QED BY <1>1, <2>1, ArgPlain DEF store_any, load_any
<1> QED BY <1>2, LentPlain DEF register_loadstore

LEMMA MiscFits == \A b \in register_misc : StillFits(b)
<1>1. /\ Plain(Dec(1), 1, 0) /\ Plain(Dec(1000), 1000, 0) /\ Plain(Dec(100), 100, 0)
      /\ \A body \in {david_schor1, mov_elim, tight_loop} : Plain(body, 1, 0)
      /\ \A body \in {misc_fusion_add, macro_fusion, bmi_bench, avx512} : Plain(body, 128, 0)
      /\ \A m \in {256, 4000} : Plain(double_macro_fusion(m), m, 0)
      /\ Plain(retpoline_dense_call, 32, 0) /\ Plain(retpoline_sparse_call, 8, 0)
      /\ \A body \in {vz_samereg, movd_xmm} : Plain(body, 100, 0)
  BY DecPlain DEF david_schor1, mov_elim, tight_loop, misc_fusion_add, macro_fusion, bmi_bench,
                  avx512, double_macro_fusion, retpoline_dense_call, retpoline_sparse_call,
                  vz_samereg, movd_xmm
<1>2. Plain(misc_add_loop, 1, 0) /\ Plain(misc_port7, 1, 0)
  <2>1. /\ {Bytes(0, 8), Bytes(64, 8), Bytes(128, 8)} \subseteq Within(-128, 256)
        /\ {Bytes(0, 8)} \subseteq Within(-128, 8)
    BY BytesWithin
  <2> QED BY <1>1, <2>1, FramePlain DEF misc_add_loop, misc_port7
<1>3. Plain(adc_chain, 1000, 0) /\ Plain(weird_store, 1000, 0)
  <2>1. /\ {Bytes(0, 8), Bytes(2 * 32 * 250, 8)} \subseteq Within(-128, 3 * 32 * 250)
        /\ {Bytes(4, 4 * 1000)} \subseteq Within(-128, 4 * 1000 + 8196)
    BY BytesWithin
  <2>2. Dec(4 * 250) = Dec(1000) /\ 3 * 32 * 250 \in Nat /\ 4 * 1000 + 8196 \in Nat
    OBVIOUS
  <2> QED BY <1>1, <2>1, <2>2, FramePlain DEF adc_chain, weird_store
<1>4. StillFits([Times(100, make(rep_movsb, 100)) EXCEPT !.loop_delta = TRUE])
  <2>1. {Bytes(0, 1024)} \subseteq Within(-128, 1024)
    BY BytesWithin
  <2>2. Plain(rep_movsb, 100, 0)
    BY <1>1, <2>1, FramePlain DEF rep_movsb
  <2>3. rep_movsb.by = 1 /\ rep_movsb.again = "nz"
    BY DEF rep_movsb, Frame, Dec, Loop
  <2>4. 100 \in Nat \ {0} /\ rep_movsb.again \in {"nz", "gt"}
    BY <2>3
  <2> QED BY <2>2, <2>3, <2>4, DeltaPlain, Zenon
<1>5. Plain(nested_loop, 1, 4)
  <2>1. {Bytes(0, 4)} \subseteq Within(0, 4)
    BY BytesWithin
  <2> QED BY <1>1, <2>1, ArgPlain DEF nested_loop
<1>6. StillFits(Lent(4, make(nested_loop, 1)))
  BY <1>5, LentPlain
<1>7. /\ StillFits(Times(3 * 1000 * 1000, make(misc_add_loop, 1)))
      /\ StillFits(Times(10 * 10000, make(tight_loop, 1)))
  <2>1. 3 * 1000 * 1000 \in Nat \ {0} /\ 10 * 10000 \in Nat \ {0}
    OBVIOUS
  <2> QED BY <1>1, <1>2, <2>1, MakePlain
<1>8. /\ \A b \in {make(body, 1) : body \in {misc_port7, david_schor1, mov_elim}} : StillFits(b)
      /\ \A b \in {make(body, 128) : body \in {misc_fusion_add, macro_fusion, bmi_bench, avx512}} :
           StillFits(b)
      /\ \A b \in {make(double_macro_fusion(m), m) : m \in {256, 4000}} : StillFits(b)
      /\ \A b \in {make(body, 1000) : body \in {adc_chain, weird_store}} : StillFits(b)
      /\ StillFits(make(retpoline_dense_call, 32)) /\ StillFits(make(retpoline_sparse_call, 8))
      /\ \A b \in {make(body, 100) : body \in {vz_samereg, movd_xmm}} : StillFits(b)
  BY <1>1, <1>2, <1>3, MakePlain
<1> DEFINE delta == [Times(100, make(rep_movsb, 100)) EXCEPT !.loop_delta = TRUE]
<1>9. StillFits(delta)
  BY <1>4
<1>10. \A b \in register_misc : b = delta \/ b = Lent(4, make(nested_loop, 1))
          \/ b = Times(3 * 1000 * 1000, make(misc_add_loop, 1))
          \/ b = Times(10 * 10000, make(tight_loop, 1))
          \/ b \in {make(body, 1) : body \in {misc_port7, david_schor1, mov_elim}}
          \/ b \in {make(body, 128) : body \in {misc_fusion_add, macro_fusion, bmi_bench, avx512}}
          \/ b \in {make(double_macro_fusion(m), m) : m \in {256, 4000}}
          \/ b \in {make(body, 1000) : body \in {adc_chain, weird_store}}
          \/ b = make(retpoline_dense_call, 32) \/ b = make(retpoline_sparse_call, 8)
          \/ b \in {make(body, 100) : body \in {vz_samereg, movd_xmm}}
  BY DEF register_misc
<1> HIDE DEF delta
<1> QED BY <1>6, <1>7, <1>8, <1>9, <1>10

LEMMA LoopsFit ==
  /\ \A b \in register_cacheline_branch \union register_matt : StillFits(b)
  /\ StillFits(Times(1024, make(dsb_alignment, 1)))
  /\ StillFits(make(lfence_only, 8))
  /\ \A body \in {syscall_loop, syscall_asm} : StillFits(make(body, 1))
<1>1. 100 * 1000 \in Nat \ {0} /\ 64 * 1024 \in Nat
  OBVIOUS
<1>2. Plain(cacheline_branch, 1, 0)
  <2>1. {Bytes(0, 8 * (8 * 1024))} \subseteq Within(0, 64 * 1024)
    BY BytesWithin
  <2>2. Plain(Dec(1), 1, 0)
    BY DecPlain
  <2> QED BY <1>1, <2>1, <2>2, ArrayPlain DEF cacheline_branch
<1>3. Plain(BM_mov, 1, 0) /\ Plain(dsb_alignment, 1, 0) /\ Plain(lfence_only, 8, 0)
      /\ Plain(syscall_asm, 1, 0)
  BY DecPlain DEF BM_mov, dsb_alignment, lfence_only, syscall_asm
<1>4. Plain(syscall_loop, 1, 0)
  BY CountPlain DEF syscall_loop, For
<1> QED BY <1>1, <1>2, <1>3, <1>4, MakePlain DEF register_cacheline_branch, register_matt

LEMMA OneshotFits == \A b \in register_oneshot : StillFits(b)
<1>1. Still(Once(1), 1) /\ Still(dummy_bench_oneshot, 1) /\ Still(dep_add_noloop_128, 128)
      /\ Inside(dummy_bench_oneshot, 0) /\ Inside(dep_add_noloop_128, 0)
  BY OnceStill DEF dummy_bench_oneshot, dep_add_noloop_128
<1>2. Still(store_raw_libpfc, 1) /\ Inside(store_raw_libpfc, 0)
  <2>1. {Bytes(0, 1)} \subseteq Within(-128, 128)
    BY BytesWithin
  <2> QED BY <1>1, <2>1, FrameStill DEF store_raw_libpfc
<1>3. Still(oneshot_adds, 1) /\ Inside(oneshot_adds, 0)
  <2>1. {Bytes(0, 8)} \subseteq Within(-128, 8)
    BY BytesWithin
  <2> QED BY <1>1, <2>1, FrameStill DEF oneshot_adds
<1>4. \A body \in {dummy_bench_oneshot, store_raw_libpfc, oneshot_adds} :
        StillFits(Times(1, make(body, 1)))
  BY <1>1, <1>2, <1>3, MakeOnce
<1>5. StillFits(Times(1, make(dep_add_noloop_128, 128)))
  BY <1>1, MakeOnce
<1>6. StillFits(Times(1, make(dep_add_rax_rax, 128))) /\ StillFits(Times(1, make(indep_add, 50 * 8)))
  BY DecPlain, MakePlain DEF dep_add_rax_rax, indep_add
<1> QED BY <1>4, <1>5, <1>6, Zenon DEF register_oneshot

LEMMA OneshotRegionsFit ==
  \A body \in {fwd_lat_delay_oneshot, oneshot_try, aliasing_loads, aliasing_loads_raw,
                 mixed_loads_raw} :
    StillFits(Times(1, Lent(10 * 4096, make(body, 1))))
<1> DEFINE room == 10 * 4096
<1>1. Still(Once(1), 1)
  BY OnceStill
<1>2. /\ {Bytes(0, 4)} \subseteq Within(0, room)
      /\ {Bytes(0, 4), Bytes(8, 4), Bytes(64, 4)} \subseteq Within(0, room)
      /\ {Bytes(0, 4), Bytes(64, 4)} \subseteq Within(0, room)
      /\ {Bytes(0, 8), Bytes(8, 8)} \subseteq Within(0, room)
  BY BytesWithin
<1>3. room \in Nat
  OBVIOUS
<1> HIDE DEF room
<1>4. \A body \in {fwd_lat_delay_oneshot, oneshot_try, aliasing_loads, aliasing_loads_raw,
                     mixed_loads_raw} : Still(body, 1) /\ Inside(body, room)
  BY <1>1, <1>2, <1>3, ArgStill
     DEF fwd_lat_delay_oneshot, oneshot_try, aliasing_loads, aliasing_loads_raw, mixed_loads_raw
<1>5. \A body \in {fwd_lat_delay_oneshot, oneshot_try, aliasing_loads, aliasing_loads_raw,
                     mixed_loads_raw} : StillFits(Times(1, Lent(room, make(body, 1))))
  BY <1>3, <1>4, MakeOnce
<1> QED BY <1>5 DEF room

LEMMA ChaseInPlaceFits == \A b \in pointer_chase_group : StillFits(b)
<1>1. Plain(Dec(128), 128, 0) /\ Plain(Dec(16), 16, 0) /\ Plain(Dec(10), 10, 0) /\ Dec(2 * 64) = Dec(128)
  BY DecPlain
<1>2. /\ {Bytes(8, 8)} \subseteq Within(-128, 4096)
      /\ {Bytes(-8, 8), Bytes(8, 8)} \subseteq Within(-128, 4096)
      /\ {Bytes(0, 8)} \subseteq Within(-128, 8)
      /\ {Bytes(-8, 8), Bytes(2040, 8)} \subseteq Within(-128, 2048 + 4096)
      /\ {Bytes(0, 8 * 8)} \subseteq Within(-128, 64)
      /\ {Bytes(0, 8 * 10)} \subseteq Within(-128, 8192)
  BY BytesWithin
<1>3. 2048 + 4096 \in Nat
  OBVIOUS
<1>4. \A body \in {sameloc_pointer_chase_alt, sameloc_pointer_chase_diffpage,
                     sameloc_pointer_chase_alu, sameloc_pointer_chase_alu2} : Plain(body, 128, 0)
  BY <1>1, <1>2, <1>3, FramePlain
     DEF sameloc_pointer_chase_alt, sameloc_pointer_chase_diffpage, sameloc_pointer_chase_alu,
         sameloc_pointer_chase_alu2
<1>5. /\ \A body \in {sameloc_pointer_chase_8way, sameloc_pointer_chase_8way5} : Plain(body, 16, 0)
      /\ Plain(sameloc_pointer_chase_8way45, 10, 0)
  BY <1>1, <1>2, FramePlain
     DEF sameloc_pointer_chase_8way, sameloc_pointer_chase_8way5, sameloc_pointer_chase_8way45
<1> QED BY <1>4, <1>5, MakePlain DEF pointer_chase_group

LEMMA ForwardFits == \A b \in store_fwd_group \union forwarding_group : StillFits(b)
<1>1. \A conc \in 1 .. 10 : Plain(Dec(conc), conc, 0)
  BY DecPlain
<1>2. Plain(fwd_lat_delay, 1, 0)
  <2>1. {Bytes(-8, 8)} \subseteq Within(-128, 0)
    BY BytesWithin
  <2> QED BY <1>1, <2>1, FramePlain DEF fwd_lat_delay
<1>3. \A conc \in 1 .. 10 : Plain(fwd_tput_conc(conc), conc, 0)
  <2>1. \A conc \in 1 .. 10 : {Bytes(8 * i - 8, 8) : i \in 0 .. conc - 1} \subseteq Within(-128, 256)
    BY BytesWithin
  <2> QED BY <1>1, <2>1, FramePlain DEF fwd_tput_conc
<1>4. Plain(fw_write_read(0, 8), 100, 0) /\ Plain(fw_write_read(63, 8), 100, 0)
      /\ Plain(fw_write_read(0, 16), 100, 0)
  <2>1. /\ {Bytes(0, 8)} \subseteq Within(-128, 128) /\ {Bytes(63, 8)} \subseteq Within(-128, 128)
        /\ {Bytes(0, 16)} \subseteq Within(-128, 128)
    BY BytesWithin
  <2>2. Plain(Dec(100), 100, 0)
    BY DecPlain
  <2> QED BY <2>1, <2>2, FramePlain DEF fw_write_read
<1> QED BY <1>2, <1>3, <1>4, MakePlain DEF store_fwd_group, forwarding_group

LEMMA ReplayFits == \A b \in replay_group : StillFits(b)
<1>1. {Bytes(0, 8)} \subseteq Within(-128, 66) /\ Plain(Dec(100), 100, 0)
  BY BytesWithin, DecPlain
<1>2. \A room : Plain(replay_crossing, 100, room)
  BY <1>1, FramePlain DEF replay_crossing
<1>3. 10 * 1024 * 1024 \in Nat
  OBVIOUS
<1> QED BY <1>2, <1>3, LentPlain DEF replay_group

LEMMA PatternsFit == \A b \in load_patterns_group : StillFits(b)
<1>1. \A offset \in {0, 1, 4, 5, 8, 9, 12, 13, 16, 20, 24, 32, 64, 72, 80, 96} :
        Bytes(offset, 8) \in Within(-128, 1024)
  BY BytesWithin
<1>2. \A offsets : offsets \subseteq {0, 1, 4, 5, 8, 9, 12, 13, 16, 20, 24, 32, 64, 72, 80, 96} =>
        Plain(load_pattern(offsets), 1, 0) /\ Plain(load_pattern3(offsets), 1, 0)
  <2> SUFFICES ASSUME NEW offsets,
                      offsets \subseteq {0, 1, 4, 5, 8, 9, 12, 13, 16, 20, 24, 32, 64, 72, 80, 96}
               PROVE  Plain(load_pattern(offsets), 1, 0) /\ Plain(load_pattern3(offsets), 1, 0)
    OBVIOUS
  <2> DEFINE access == {Bytes(offset, 8) : offset \in offsets}
  <2>1. access \subseteq Within(-128, 1024)
    BY <1>1
  <2> HIDE DEF access
  <2>2. Plain(Loop(2 * 4, "gt", 2 * 4), 1, 0) /\ Plain(Loop(2 * 3, "gt", 2 * 3), 1, 0)
    BY CountPlain
  <2>3. /\ Plain(Frame(Loop(2 * 4, "gt", 2 * 4), 1024, access), 1, 0)
        /\ Plain(Frame(Loop(2 * 3, "gt", 2 * 3), 1024, access), 1, 0)
    BY <2>1, <2>2, FramePlain
  <2> DEFINE e == Frame(Loop(2 * 4, "gt", 2 * 4), 1024, access)
             f == Frame(Loop(2 * 3, "gt", 2 * 3), 1024, access)
             g == [e EXCEPT !.by = 2 * 3, !.ops = 2 * 3]
  <2>4. /\ e.again = f.again /\ e.div = f.div /\ e.place = f.place /\ e.frame = f.frame
        /\ e.access = f.access /\ e.also = f.also /\ e.walk = f.walk
        /\ f.by = 6 /\ f.ops = 6
    BY DEF Frame, Loop
  <2>5. e \in Kernel /\ f \in Kernel
    BY <2>3 DEF Plain, Still
  <2> HIDE DEF e, f
  <2>6. /\ g.again = e.again /\ g.div = e.div /\ g.place = e.place /\ g.frame = e.frame
        /\ g.access = e.access /\ g.also = e.also /\ g.walk = e.walk
        /\ g.by = 6 /\ g.ops = 6
    BY <2>5 DEF Kernel
  <2>6a. g \in Kernel
    <3>1. \A by \in Nat : [e EXCEPT !.by = by, !.ops = by] \in Kernel
      BY <2>5 DEF Kernel
    <3>2. 2 * 3 \in Nat
      OBVIOUS
    <3> QED BY <3>1, <3>2
  <2> HIDE DEF g
  <2>7. Plain(g, 1, 0)
    BY <2>3, <2>4, <2>6, <2>6a DEF f, Plain, Still, Inside, OpsFit
  <2> QED BY <2>3, <2>7 DEF load_pattern3, load_pattern, access, e, g
<1> DEFINE patterns == {{0}, {0, 4}, {0, 8}, {0, 12}, {0, 16}, {0, 20}, {0, 24}, {4, 8}, {0, 4, 8, 12},
                        {1, 5, 9, 13}, {0, 32}, {0, 64}, {0, 96}, {0, 72}}
<1>3. /\ \A offsets \in patterns : offsets \subseteq {0, 1, 4, 5, 8, 9, 12, 13, 16, 20, 24, 32, 64, 72, 80, 96}
      /\ \A offsets \in {{0, 4, 8}, {0, 8, 80}} :
           offsets \subseteq {0, 1, 4, 5, 8, 9, 12, 13, 16, 20, 24, 32, 64, 72, 80, 96}
  OBVIOUS
<1>4. \A offsets \in patterns : StillFits(make(load_pattern(offsets), 1))
  <2> HIDE DEF patterns
  <2> QED BY <1>2, <1>3, MakePlain
<1>5. \A offsets \in {{0, 4, 8}, {0, 8, 80}} : StillFits(make(load_pattern3(offsets), 1))
  BY <1>2, <1>3, MakePlain
<1> QED BY <1>4, <1>5 DEF load_patterns_group

(* One of the gathers reaches beyond its frame. *)
LEMMA GatherFits == \A b \in gather_group : StillFits(b)
<1>1. Plain(Dec(16), 16, 0)
  BY DecPlain
<1>2. \A m \in {4, 8} : Plain(gatherdd(m), 16, 0)
  <2>1. \A m \in {4, 8} : {Bytes(64 * i, 4) : i \in 0 .. m - 1} \subseteq Within(-128, 1024)
    BY BytesWithin
  <2> QED BY <1>1, <2>1, FramePlain DEF gatherdd
<1>3. Plain(gatherdd_lat(4), 16, 0)
  <2>1. {Bytes(4 * 64 * i, 4) : i \in 0 .. 4 - 1} \subseteq Within(-128, 1024)
    BY BytesWithin
  <2> QED BY <1>1, <2>1, FramePlain DEF gatherdd_lat
<1>4. StillFits(make(gatherdd_lat(8), 16))
  <2>1. {Bytes(4 * 64 * i, 4) : i \in 0 .. 8 - 1} \subseteq Within(-128, 2048)
    BY BytesWithin
  <2>2. gatherdd_lat(8) \in Overrunning
    BY DEF Overrunning
  <2> QED BY <1>1, <2>1, <2>2, FrameStill, MakeOverrunning DEF gatherdd_lat, Plain
<1> QED BY <1>2, <1>3, <1>4, MakePlain DEF gather_group

LEMMA CppFits == \A b \in cpp_group : StillFits(b)
<1>1. Plain(div64_templ, 1, 0) /\ Plain(gettimeofday_bench, 1, 0)
  BY CountPlain DEF div64_templ, gettimeofday_bench, For
<1>2. /\ Plain(crc8_bench, 4096, 0)
      /\ \A body \in {sum_halves_bench, add_indirect} : Plain(body, 2048, 0)
      /\ \A body \in {mul_chain_bench, mul_chain4_bench} : Plain(body, 4096, 0)
      /\ Plain(mul_by_bench, 4095, 0)
  BY DecPlain DEF crc8_bench, sum_halves_bench, add_indirect, mul_chain_bench, mul_chain4_bench,
                  mul_by_bench
<1>3. StillFits(Times(1000, make(mul_by_bench, 4096)))
  <2> DEFINE b == Times(1000, make(mul_by_bench, 4096))
  <2>1. /\ b.kernel = mul_by_bench /\ b.ops_per_loop = 4096 /\ b.loop_count = 1000 /\ b.size = 0
        /\ b.extra = 0 /\ b.stride = 64 /\ b.kib = 0 /\ ~b.sizecheck /\ ~b.loop_delta
        /\ b.sizecheck \in BOOLEAN /\ b.loop_delta \in BOOLEAN
    BY DEF make, Times
  <2> HIDE DEF b
  <2>2. Still(b.kernel, 4095) /\ b.kernel.again # "once" /\ Inside(b.kernel, 0) /\ b.kernel \in Kernel
    BY <1>2, <2>1 DEF Plain, Still
  <2>3. StillFits(b)
    BY <2>1, <2>2 DEF StillFits, Typed
  <2> QED BY <2>3 DEF b
<1>4. Plain(linkedlist_sum, LIST_COUNT, 0)
  <2>1. Counts(1, "gt", LIST_COUNT, LIST_COUNT)
    BY DEF Counts, LIST_COUNT
  <2> QED BY <2>1, LoopStill DEF linkedlist_sum, For
<1>5. /\ \A body \in {sum_halves_bench, add_indirect} : StillFits(Times(1000, make(body, 2048)))
      /\ \A body \in {mul_by_bench, mul_chain_bench, mul_chain4_bench} :
           StillFits(Times(1000, make(body, 4096)))
      /\ StillFits(Times(1000, make(linkedlist_sum, LIST_COUNT)))
  BY <1>2, <1>3, <1>4, MakePlain
<1>6. \A body \in {div64_templ, gettimeofday_bench} :
        StillFits([make(body, 1) EXCEPT !.loop_delta = TRUE])
  <2>1. \A body \in {div64_templ, gettimeofday_bench} :
          Plain(body, 1, 0) /\ body.by = 1 /\ body.again \in {"nz", "gt"}
    BY <1>1 DEF div64_templ, gettimeofday_bench, For, Loop
  <2> QED BY <2>1, DeltaPlain
<1>7. StillFits([make(crc8_bench, 4096) EXCEPT !.loop_delta = TRUE])
  <2>1. crc8_bench.by = 1 /\ crc8_bench.again \in {"nz", "gt"}
    BY DEF crc8_bench, Dec, Loop
  <2> QED BY <1>2, <2>1, DeltaPlain
<1> DEFINE Delta(body, o) == [make(body, o) EXCEPT !.loop_delta = TRUE]
<1>8. \A b \in cpp_group : (\E body \in {div64_templ, gettimeofday_bench} : b = Delta(body, 1))
          \/ b = Delta(crc8_bench, 4096)
          \/ (\E body \in {sum_halves_bench, add_indirect} : b = Times(1000, make(body, 2048)))
          \/ (\E body \in {mul_by_bench, mul_chain_bench, mul_chain4_bench} :
                b = Times(1000, make(body, 4096)))
          \/ b = Times(1000, make(linkedlist_sum, LIST_COUNT))
  BY DEF cpp_group
<1>9. StillFits(Delta(crc8_bench, 4096)) /\ StillFits(Delta(div64_templ, 1))
      /\ StillFits(Delta(gettimeofday_bench, 1))
  BY <1>6, <1>7
<1> HIDE DEF Delta
<1> QED BY <1>5, <1>8, <1>9

LEMMA VolatileFits == \A b \in store_volatile_group : StillFits(b)
<1> DEFINE dists == {0, 1, 2, 4, 8, 16, 56, 64}
<1>1. Plain(For(8, 8), 1, 0)
  BY CountPlain DEF For
<1>2. \A dist \in dists, width \in {1, 4, 8} :
        /\ width * (1 + 8 * dist) \in Nat
        /\ {Bytes(0, width), Bytes(dist, width)} \subseteq Within(0, width * (1 + 8 * dist))
  BY BytesWithin
<1>3. \A gap \in {0, 1, 2}, width \in {1, 4, 8} : gap * width \in dists
  OBVIOUS
<1>4. \A dist \in dists, width \in {1, 4, 8} : Plain(volatile_stores_bytes(dist, width), 1, 0)
  <2> HIDE DEF dists
  <2> QED BY <1>1, <1>2, ArrayPlain DEF volatile_stores_bytes
<1>5. \A gap \in {0, 1, 2}, width \in {1, 4, 8} : StillFits(make(volatile_stores_elems(gap, width), 1))
  <2> HIDE DEF dists
  <2> QED BY <1>3, <1>4, MakePlain DEF volatile_stores_elems
<1>6. \A gap \in {56, 64}, width \in {1, 4, 8} : StillFits(make(volatile_stores_bytes(gap, width), 1))
  BY <1>4, MakePlain
<1> QED BY <1>5, <1>6 DEF store_volatile_group

LEMMA StudyFits == \A b \in store_study_group \union transcendental_group : StillFits(b)
<1>1. /\ Plain(For(8, 8), 1, 0) /\ Plain(For(40, 40), 1, 0) /\ Plain(do_transcendental, 1, 0)
      /\ For(2 * 4, 2 * 4) = For(8, 8) /\ For(4 * 10, 4 * 10) = For(40, 40)
  BY CountPlain DEF For, do_transcendental
<1>2. Plain(volatile_stores_study, 1, 0)
  <2>1. {Bytes(0, 8), Bytes(8 * 8, 8)} \subseteq Within(0, 8 * 1024 * 128) /\ 8 * 1024 * 128 \in Nat
    BY BytesWithin
  <2> QED BY <1>1, <2>1, ArrayPlain DEF volatile_stores_study
<1>3. \A width \in {4, 8}, Os \in SUBSET {0, 1, 2, 4, 6, 16, 17, 18} :
        Plain(volatile_stores_arb_offsets(width, Os), 1, 0)
  <2> SUFFICES ASSUME NEW width \in {4, 8}, NEW Os \in SUBSET {0, 1, 2, 4, 6, 16, 17, 18}
               PROVE  Plain(volatile_stores_arb_offsets(width, Os), 1, 0)
    OBVIOUS
  <2>1. \A O \in {0, 1, 2, 4, 6, 16, 17, 18} : Bytes(width * O, width) \in Within(0, width * 1024 * 16)
    BY BytesWithin
  <2>2. {Bytes(width * O, width) : O \in Os} \subseteq Within(0, width * 1024 * 16)
    BY <2>1
  <2>3. width * 1024 * 16 \in Nat
    OBVIOUS
  <2> QED BY <1>1, <2>2, <2>3, ArrayPlain DEF volatile_stores_arb_offsets
<1>4. \A Os \in {{0}, {0, 1}, {0, 2, 4, 6}} : Plain(volatile_stores_arb_offsets(8, Os), 1, 0)
  BY <1>3
<1>5. \A Os \in {{0, 1}, {0, 2, 4, 6}, {0, 16}, {0, 16, 17, 18}} :
        Plain(volatile_stores_arb_offsets(4, Os), 1, 0)
  BY <1>3
<1> QED BY <1>1, <1>2, <1>4, <1>5, MakePlain DEF store_study_group, transcendental_group

(* For the last offsets, the second of the two places is before the array. *)
LEMMA AlignmentFits == \A b \in store_alignment_group : StillFits(b)
<1>1. Plain(For(16, 16), 1, 0) /\ For(8 * 2, 8 * 2) = For(16, 16) /\ 8 * 1024 \in Nat
  BY CountPlain DEF For
<1>2. \A roll \in {0, 1}, offset \in 0 .. 64 : Plain(aligned_stores_helper(roll, offset), 1, 0)
  <2>1. \A roll \in {0, 1}, offset \in 0 .. 64 :
          {Bytes(offset + 8 * m * roll, 8) : m \in 0 .. 15} \subseteq Within(0, 8 * 1024)
    BY BytesWithin
  <2> QED BY <1>1, <2>1, ArrayPlain DEF aligned_stores_helper
<1>3. \A offset \in 0 .. 61 : Plain(misaligned_stores_twoloc(offset), 1, 0)
  <2>1. \A offset \in 0 .. 61 : {Bytes(offset, 8), Bytes(61 - offset, 8)} \subseteq Within(0, 8 * 1024)
    BY BytesWithin
  <2> QED BY <1>1, <2>1, ArrayPlain DEF misaligned_stores_twoloc
<1>4. \A offset \in 62 .. 64 : StillFits(make(misaligned_stores_twoloc(offset), 1))
  <2>1. \A offset \in 62 .. 64 : misaligned_stores_twoloc(offset) \in Overrunning
    BY DEF Overrunning
  <2>2. \A offset \in 62 .. 64 : {Bytes(offset, 8), Bytes(61 - offset, 8)} \subseteq Within(-128, 8 * 1024)
    BY BytesWithin
  <2> QED BY <1>1, <2>1, <2>2, ArrayStill, MakeOverrunning DEF misaligned_stores_twoloc, Plain
<1>5. \A offset \in 0 .. 64 : /\ StillFits(make(misaligned_stores_sameloc(offset), 1))
                              /\ StillFits(make(misaligned_stores_rolling(offset), 1))
                              /\ StillFits(make(misaligned_stores_twoloc(offset), 1))
  <2>1. \A offset \in 0 .. 64 : offset \in 0 .. 61 \/ offset \in 62 .. 64
    OBVIOUS
  <2> QED BY <1>2, <1>3, <1>4, <2>1, MakePlain DEF misaligned_stores_sameloc, misaligned_stores_rolling
<1> QED BY <1>5 DEF store_alignment_group

LEMMA SamelocFits ==
  \A data_size \in {1, 4, 8}, offset \in {0, 63} : StillFits(Lent(1024, make(sameloc_stores(data_size, offset), 1)))
<1>1. Plain(For(4, 4), 1, 0)
  BY CountPlain DEF For
<1>2. \A data_size \in {1, 4, 8}, offset \in {0, 63} : {Bytes(offset, data_size)} \subseteq Within(0, 1024)
  BY BytesWithin
<1> QED BY <1>1, <1>2, ArgPlain, LentPlain DEF sameloc_stores

-----------------------------------------------------------------------------
(* Kernels that walk: what is the same for all passes of a walk. *)

LinesIn(b) == b.size \div UB_CACHE_LINE_SIZE

(* A region of whole lines, lent to the kernel. *)
OnLines(b) ==
  /\ Typed(b) /\ ~b.loop_delta
  /\ LinesIn(b) \in Nat \ {0} /\ b.size = UB_CACHE_LINE_SIZE * LinesIn(b)
  /\ b.kernel.place = "arg" /\ b.kernel.div = 1

NextFits(b) ==
  /\ Typed(b) /\ ~b.loop_delta
  /\ b.kernel.walk = "next" /\ b.kernel.by = 1 /\ b.kernel.again = "nz"
  /\ b.kernel.div \in {1, 16} /\ b.loop_count = 1024
  /\ OpsFit(b.kernel, b.ops_per_loop) /\ b.kernel.also = {}
  /\ b.kernel.access \subseteq Within(0, 4096)
  /\ b.kernel \notin Overrunning =>
       /\ b.kernel.stride = -4 /\ b.kernel.place = "frame" /\ b.kernel.frame = 4096
       /\ b.kernel.access \subseteq Within(4092, 4096)

ChaseFits(b) ==
  /\ OnLines(b) /\ b.kernel.walk = "chase" /\ b.kernel.by = 1 /\ b.kernel.again = "nz"
  /\ OpsFit(b.kernel, b.ops_per_loop) /\ b.ops_per_loop = 1 /\ b.kernel.also = {}
  /\ b.kernel.stride \in {1, 2} /\ b.stride = 64
  /\ b.kernel.access \subseteq Within(0, 64)
  /\ \E r \in b.kernel.access : r[1] < r[2]
  /\ LinesIn(b) <= b.loop_count \/ (b.sizecheck /\ b.size = b.kib * 1024)

(* 104 lines on, or back by what 195 lines are too many. *)
WrapFits(b) ==
  /\ OnLines(b) /\ b.kernel.walk = "wrap" /\ b.kernel.by = 1 /\ b.kernel.again = "nz"
  /\ OpsFit(b.kernel, b.ops_per_loop) /\ b.kernel.also = {}
  /\ b.size >= 16384
  /\ b.kernel.stride = 6656 /\ b.kernel.lead = 12480
  /\ b.kernel.access \subseteq Within(0, 5888)

MostLines == 16777216

(* The masked walks: by a number of lines that a region of 2 ^ 24 lines,   *)
(* and so all smaller ones, comes round to every line with, or by four     *)
(* places of the stride.                                                   *)
MaskFits(b) ==
  /\ OnLines(b) /\ b.kernel.walk = "mask" /\ OpsFit(b.kernel, b.ops_per_loop)
  /\ b.kernel.also \subseteq Within(0, b.size + b.extra)
  /\ \/ /\ b.kernel.by = 1 /\ b.kernel.again = "nz"
        /\ b.kernel.stride \in {64 * 67, 64 * 199} /\ b.stride = 64
        /\ \E p \in Nat : p * LinesIn(b) = MostLines
        /\ b.kernel.access \subseteq Within(0, 64)
        /\ \E r \in b.kernel.access : r[1] < r[2]
     \/ /\ b.kernel.by = 4 /\ b.kernel.again = "gt"
        /\ b.stride \in {1, 2, 4, 8, 16, 32, 64, 128}
        /\ b.kernel.stride = 4 * b.stride
        /\ b.extra = 1024 /\ b.size % 1024 = 0
        /\ b.kernel.access \subseteq Within(0, 1024)
        /\ \A s \in 0 .. 3 : \E r \in b.kernel.access : r[1] = b.stride * s /\ r[1] < r[2]
        /\ b.loop_count * b.stride = 10 * b.size

LinesFits(b) ==
  /\ OnLines(b) /\ b.kernel.walk = "lines" /\ b.kernel.by = 1 /\ b.kernel.again = "nz"
  /\ b.ops_per_loop = LinesIn(b) /\ b.stride = 64
  /\ b.kernel.lead <= LinesIn(b) /\ b.kernel.chunk # 0

CycleFits(b) ==
  /\ OnLines(b) /\ b.kernel.walk = "cycle" /\ b.kernel.by = 1
  /\ b.ops_per_loop = LinesIn(b) /\ b.stride = 64 /\ b.kernel.ops = 0 /\ b.kernel.lead = 0
  /\ b.kernel.again = "gt" \/ (b.kernel.again = "once" /\ b.loop_count = 1)

Fits(b) ==
  \/ StillFits(b) \/ NextFits(b) \/ ChaseFits(b) \/ WrapFits(b) \/ MaskFits(b)
  \/ LinesFits(b) \/ CycleFits(b)

(* Regions are measured in KiB. *)
LEMMA KibLines ==
  ASSUME NEW kib \in Nat \ {0}
  PROVE  /\ (kib * 1024) \div UB_CACHE_LINE_SIZE = 16 * kib
         /\ kib * 1024 = UB_CACHE_LINE_SIZE * (16 * kib)
         /\ LinesOf(kib) = 16 * kib /\ 16 * kib \in Nat \ {0} /\ kib * 1024 \in Nat
BY DEF UB_CACHE_LINE_SIZE, LinesOf

(* What is common to the registrations of regions. *)
Region(b, kib) ==
  /\ kib \in Nat \ {0} /\ b.size = kib * 1024 /\ b.kib \in {0, kib} /\ b.extra \in Nat
  /\ b.loop_count \in Nat \ {0} /\ b.ops_per_loop \in Nat \ {0} /\ b.stride \in Nat \ {0}
  /\ b.sizecheck \in BOOLEAN /\ b.loop_delta \in BOOLEAN /\ ~b.loop_delta

LEMMA RegionLines ==
  ASSUME NEW b, NEW kib, Region(b, kib), b.kernel \in Kernel, b.kernel.place = "arg",
         b.kernel.div = 1
  PROVE  OnLines(b) /\ LinesIn(b) = 16 * kib
<1>1. kib \in Nat \ {0} /\ b.size = kib * 1024
  BY DEF Region
<1>2. /\ LinesIn(b) = 16 * kib /\ 16 * kib \in Nat \ {0} /\ b.size \in Nat
      /\ b.size = UB_CACHE_LINE_SIZE * LinesIn(b)
  BY <1>1, KibLines DEF LinesIn
<1>3. Typed(b)
  <2>1. b.kib \in Nat
    BY <1>1 DEF Region
  <2>2. b.sizecheck \in BOOLEAN /\ b.loop_delta \in BOOLEAN
    BY Zenon DEF Region
  <2>3. {b.loop_count, b.ops_per_loop, b.stride} \subseteq Nat \ {0} /\ b.extra \in Nat
    BY DEF Region
  <2> QED BY <1>2, <2>1, <2>2, <2>3, Zenon DEF Typed
<1> QED BY <1>2, <1>3 DEF OnLines, Region

Powers == {1, 2, 4, 8, 16, 32, 64, 128, 256, 512, 1024, 2048, 4096, 8192, 16384, 32768, 65536, 131072}

LEMMA PowersOfTwo == \A k \in 0 .. 17 : 2 ^ k \in Powers /\ 2 ^ k \in Nat \ {0}
<1>1. /\ 2 ^ 0 \in Powers /\ 2 ^ 1 \in Powers /\ 2 ^ 2 \in Powers /\ 2 ^ 3 \in Powers
      /\ 2 ^ 4 \in Powers /\ 2 ^ 5 \in Powers /\ 2 ^ 6 \in Powers /\ 2 ^ 7 \in Powers
      /\ 2 ^ 8 \in Powers /\ 2 ^ 9 \in Powers /\ 2 ^ 10 \in Powers /\ 2 ^ 11 \in Powers
      /\ 2 ^ 12 \in Powers /\ 2 ^ 13 \in Powers /\ 2 ^ 14 \in Powers /\ 2 ^ 15 \in Powers
      /\ 2 ^ 16 \in Powers /\ 2 ^ 17 \in Powers
  BY SMT DEF Powers
<1>2. \A k \in 0 .. 17 : \/ k = 0 \/ k = 1 \/ k = 2 \/ k = 3 \/ k = 4 \/ k = 5 \/ k = 6 \/ k = 7
                           \/ k = 8 \/ k = 9 \/ k = 10 \/ k = 11 \/ k = 12 \/ k = 13 \/ k = 14
                           \/ k = 15 \/ k = 16 \/ k = 17
  OBVIOUS
<1>3. \A k \in 0 .. 17 : 2 ^ k \in Powers
  BY <1>1, <1>2, Zenon
<1>4. \A p \in Powers : p \in Nat \ {0}
  BY SMT DEF Powers
<1> QED BY <1>3, <1>4, Zenon

LEMMA Pow2Nat ==
  ASSUME NEW from \in Nat \ {0}, NEW to
  PROVE  \A kib \in Pow2(from, to) : kib \in Nat \ {0} /\ kib >= from
<1>1. \A p \in Nat \ {0} : from * p \in Nat \ {0} /\ from * p >= from
  <2> SUFFICES ASSUME NEW p \in Nat \ {0} PROVE from * p \in Nat \ {0} /\ from * p >= from
    OBVIOUS
  <2>1. PICK q \in Nat : p = q + 1
    <3>1. p - 1 \in Nat /\ p = (p - 1) + 1
      OBVIOUS
    <3> QED BY <3>1
  <2>2. from * p = from * q + from /\ from * q \in Nat
    BY <2>1
  <2> QED BY <2>2
<1>2. \A kib \in Pow2(from, to) : \E k \in 0 .. 17 : kib = from * 2 ^ k
  BY Zenon DEF Pow2
<1> QED BY <1>1, <1>2, PowersOfTwo, Zenon

LEMMA SizesNat ==
  \A kib \in ALL_SIZES \union SlowSizes : kib \in Nat \ {0} /\ kib >= 16
<1>1. \A kib \in ALL_SIZES : kib \in Nat \ {0} /\ kib >= 16
  BY DEF ALL_SIZES, MAX_KIB
<1>2. \A kib \in SlowSizes : kib \in Nat \ {0} /\ kib >= 16
  <2>1. \A kib \in Pow2(4096, MAX_SIZE \div 1024) : kib \in Nat \ {0} /\ kib >= 4096
    BY Pow2Nat
  <2>2. SlowSizes = Pow2(4096, MAX_SIZE \div 1024)
    BY DEF SlowSizes, MAX_KIB
  <2> QED BY <2>1, <2>2
<1> QED BY <1>1, <1>2

-----------------------------------------------------------------------------
(* The tables of the walks. *)

LEMMA DecKernel ==
  ASSUME NEW o \in Nat
  PROVE  /\ Dec(o) \in Kernel /\ Dec(o).by = 1 /\ Dec(o).again = "nz" /\ Dec(o).div = 1
         /\ Dec(o).ops = o /\ Dec(o).also = {} /\ Dec(o).lead = 0 /\ Dec(o).chunk = 0
BY DEF Dec, Loop, Kernel, Walks, InnerWalks

LEMMA MovingKernel ==
  ASSUME NEW k \in Kernel, NEW access \in SUBSET (Int \X Int), NEW walk \in Walks \union {"next"},
         NEW stride \in Int
  PROVE  LET m == Moving(Arg(k, access), walk, stride)
         IN  /\ m \in Kernel /\ m.place = "arg" /\ m.access = access /\ m.walk = walk
             /\ m.stride = stride /\ m.by = k.by /\ m.again = k.again /\ m.div = k.div
             /\ m.ops = k.ops /\ m.also = k.also /\ m.lead = k.lead /\ m.chunk = k.chunk
<1> DEFINE a == Arg(k, access)
<1>1. /\ a \in Kernel /\ a.place = "arg" /\ a.access = access
      /\ a.by = k.by /\ a.again = k.again /\ a.div = k.div
      /\ a.ops = k.ops /\ a.also = k.also /\ a.lead = k.lead /\ a.chunk = k.chunk
  BY DEF Arg, Kernel
<1> HIDE DEF a
<1>2. LET m == Moving(a, walk, stride)
      IN  /\ m \in Kernel /\ m.place = a.place /\ m.access = a.access /\ m.walk = walk
          /\ m.stride = stride /\ m.by = a.by /\ m.again = a.again /\ m.div = a.div
          /\ m.ops = a.ops /\ m.also = a.also /\ m.lead = a.lead /\ m.chunk = a.chunk
  BY <1>1 DEF Moving, Kernel
<1> QED BY <1>1, <1>2 DEF a

Chasing(k) ==
  /\ k \in Kernel /\ k.place = "arg" /\ k.walk = "chase" /\ k.by = 1 /\ k.again = "nz" /\ k.div = 1
  /\ k.ops = 1 /\ k.also = {} /\ k.stride \in {1, 2}
  /\ k.access \subseteq Within(0, 64) /\ \E r \in k.access : r[1] < r[2]

LEMMA Chases ==
  /\ Chasing(serial_load_bench) /\ Chasing(serial_load_bench2)
  /\ \A offsets \in {{0}, {0, 56}, {56}} : Chasing(serial_double_load(offsets))
<1> DEFINE Links(access, stride) == Moving(Arg(Dec(1), access), "chase", stride)
<1>1. Dec(1) \in Kernel /\ Dec(1).by = 1 /\ Dec(1).again = "nz" /\ Dec(1).div = 1
      /\ Dec(1).ops = 1 /\ Dec(1).also = {}
  BY DecKernel
<1>2. ASSUME NEW access, NEW stride \in {1, 2}, access \subseteq Within(0, 64),
             \E r \in access : r[1] < r[2]
      PROVE  Chasing(Links(access, stride))
  <2>1. access \in SUBSET (Int \X Int) /\ "chase" \in Walks \union {"next"} /\ stride \in Int
    BY <1>2 DEF Within, Walks
  <2> QED BY <1>1, <1>2, <2>1, MovingKernel DEF Chasing
<1>3. /\ Bytes(0, 8) \in Within(0, 64) /\ Bytes(56, 8) \in Within(0, 64)
      /\ Bytes(0, 8)[1] < Bytes(0, 8)[2] /\ Bytes(56, 8)[1] < Bytes(56, 8)[2]
  BY BytesWithin DEF Bytes
<1>4. ASSUME NEW offsets \in {{0}, {0, 56}, {56}}
      PROVE  Chasing(Links({Bytes(offset, 8) : offset \in offsets}, 1))
  <2> DEFINE access == {Bytes(offset, 8) : offset \in offsets}
  <2>1. access \subseteq Within(0, 64) /\ \E r \in access : r[1] < r[2]
    BY <1>3
  <2> HIDE DEF access, Links
  <2>2. Chasing(Links(access, 1))
    BY <1>2, <2>1
  <2> QED BY <2>2 DEF access
<1>5. Chasing(Links({Bytes(0, 8)}, 1)) /\ Chasing(Links({Bytes(0, 8)}, 2))
  <2> HIDE DEF Links
  <2> QED BY <1>2, <1>3
<1> QED BY <1>4, <1>5 DEF serial_load_bench, serial_load_bench2, serial_double_load

LEMMA SerialFits ==
  ASSUME NEW body, Chasing(body), NEW kib \in Nat \ {0}, NEW c \in Nat \ {0}
  PROVE  ChaseFits(serial(body, c, kib))
<1> DEFINE b == serial(body, c, kib)
<1>1. /\ b.kernel = body /\ b.ops_per_loop = 1 /\ b.loop_count = c /\ b.size = kib * 1024
      /\ b.extra = 0 /\ b.stride = 64 /\ b.kib = kib /\ b.sizecheck /\ ~b.loop_delta
      /\ b.sizecheck \in BOOLEAN /\ b.loop_delta \in BOOLEAN
  BY DEF serial, Times, make_load_bench, make_mem_bench, Lent, make
<1> HIDE DEF b
<1>2. Region(b, kib)
  BY <1>1 DEF Region
<1>3. OnLines(b)
  BY <1>1, <1>2, RegionLines DEF Chasing
<1> QED BY <1>1, <1>3 DEF Chasing, ChaseFits, OpsFit, b

LEMMA DoubleLoadFits ==
  ASSUME NEW body, Chasing(body), NEW kib \in Nat \ {0}, NEW c \in Nat \ {0}, 16 * kib <= c
  PROVE  ChaseFits(Times(c, make_mem_bench(body, kib, 1)))
<1> DEFINE b == Times(c, make_mem_bench(body, kib, 1))
<1>1. /\ b.kernel = body /\ b.ops_per_loop = 1 /\ b.loop_count = c /\ b.size = kib * 1024
      /\ b.extra = 0 /\ b.stride = 64 /\ b.kib = 0 /\ ~b.sizecheck /\ ~b.loop_delta
      /\ b.sizecheck \in BOOLEAN /\ b.loop_delta \in BOOLEAN
  BY DEF Times, make_mem_bench, Lent, make
<1> HIDE DEF b
<1>2. Region(b, kib)
  BY <1>1 DEF Region
<1>3. OnLines(b) /\ LinesIn(b) = 16 * kib
  BY <1>1, <1>2, RegionLines DEF Chasing
<1> QED BY <1>1, <1>3 DEF Chasing, ChaseFits, OpsFit, b

LEMMA SerialGroupsFit ==
  \A b \in UNION {load_serial_group, load_serial_crossing_group, super_load_serial_group,
                  crit_word_group} : ChaseFits(b)
<1>1. /\ 100 * 1000 \in Nat \ {0} /\ 7 * 1000 * 1000 \in Nat \ {0} /\ 5 * 1000 * 1000 \in Nat \ {0}
      /\ 4 * 1024 * 1024 \in Nat \ {0}
  OBVIOUS
<1>2. \A b \in load_serial_group : ChaseFits(b)
  BY <1>1, Chases, SerialFits, SizesNat DEF load_serial_group
<1>3. \A b \in crit_word_group : ChaseFits(b)
  BY <1>1, Chases, SerialFits, SizesNat DEF crit_word_group
<1>4. \A b \in load_serial_crossing_group : ChaseFits(b)
  <2>1. \A kib \in Pow2(8, MAX_SIZE \div 1024) : kib \in Nat \ {0}
    BY Pow2Nat
  <2>2. \A kib : (IF kib > MAX_KIB THEN 7 * 1000 * 1000 ELSE 100 * 1000) \in Nat \ {0}
    BY <1>1
  <2>3. \A kib \in Pow2(8, MAX_SIZE \div 1024) :
          ChaseFits(serial(serial_load_bench, IF kib > MAX_KIB THEN 7 * 1000 * 1000 ELSE 100 * 1000, kib))
    BY <2>1, <2>2, Chases, SerialFits
  <2> DEFINE Loops(kib) == IF kib > MAX_KIB THEN 7 * 1000 * 1000 ELSE 100 * 1000
  <2>4. \A b \in load_serial_crossing_group :
          \E kib \in Pow2(8, MAX_SIZE \div 1024) : b = serial(serial_load_bench, Loops(kib), kib)
    BY DEF load_serial_crossing_group
  <2> HIDE DEF Loops
  <2> QED BY <2>3, <2>4 DEF Loops
<1>5. \A b \in super_load_serial_group : ChaseFits(b)
  <2>1. \A kib \in Pow2(16, MAX_SIZE \div 1024) : kib \in Nat /\ kib >= 16
    BY Pow2Nat
  <2>2. \A percent \in {90 + 2 * k : k \in 0 .. 10} : percent \in Nat /\ percent >= 90
    OBVIOUS
  <2>3. ASSUME NEW kib \in Nat, NEW percent \in Nat, kib >= 16, percent >= 90
        PROVE  (kib * percent) \div 100 \in Nat \ {0}
    <3>1. PICK i \in Nat, j \in Nat : kib = i + 16 /\ percent = j + 90
      <4>1. kib - 16 \in Nat /\ percent - 90 \in Nat /\ kib = (kib - 16) + 16 /\ percent = (percent - 90) + 90
        BY <2>3
      <4> QED BY <4>1
    <3>2. kib * percent = i * j + 90 * i + 16 * j + 1440 /\ i * j \in Nat
      BY <3>1
    <3>3. kib * percent \in Nat /\ kib * percent >= 100
      BY <3>2
    <3> HIDE <2>3
    <3> QED BY <3>3
  <2>4. \A kib \in Pow2(16, MAX_SIZE \div 1024), percent \in {90 + 2 * k : k \in 0 .. 10} :
          (kib * percent) \div 100 \in Nat \ {0}
    BY <2>1, <2>2, <2>3
  <2>5. \A kib \in Pow2(16, MAX_SIZE \div 1024), percent \in {90 + 2 * k : k \in 0 .. 10} :
          ChaseFits(serial(serial_load_bench, 5 * 1000 * 1000, (kib * percent) \div 100))
    BY <1>1, <2>4, Chases, SerialFits
  <2> DEFINE Fudged(kib, percent) == (kib * percent) \div 100
  <2>6. \A b \in super_load_serial_group :
          \E kib \in Pow2(16, MAX_SIZE \div 1024), percent \in {90 + 2 * k : k \in 0 .. 10} :
            b = serial(serial_load_bench, 5 * 1000 * 1000, Fudged(kib, percent))
    BY DEF super_load_serial_group
  <2>7. \A kib \in Pow2(16, MAX_SIZE \div 1024), percent \in {90 + 2 * k : k \in 0 .. 10} :
          ChaseFits(serial(serial_load_bench, 5 * 1000 * 1000, Fudged(kib, percent)))
    BY <2>5
  <2> HIDE DEF Fudged
  <2> QED BY <2>6, <2>7
<1> QED BY <1>2, <1>3, <1>4, <1>5

LEMMA Wraps ==
  ASSUME NEW width \in {1, 4}
  PROVE  LET k == parallel_mem_bench(width)
         IN  /\ k \in Kernel /\ k.place = "arg" /\ k.walk = "wrap" /\ k.by = 1 /\ k.again = "nz"
             /\ k.div = 1 /\ k.ops = 8 /\ k.also = {} /\ k.stride = 6656 /\ k.lead = 12480
             /\ k.access \subseteq Within(0, 5888)
<1> DEFINE access == {Bytes(STRIDE * s, width) : s \in 0 .. UF - 1}
           m == Moving(Arg(Dec(UF), access), "wrap", STRIDE * UF)
<1>1. access \subseteq Within(0, 5888)
  BY BytesWithin DEF STRIDE, UF
<1>2. UF = 8 /\ STRIDE * UF = 6656 /\ STRIDE * (2 * UF - 1) = 12480
  BY DEF STRIDE, UF
<1>3. access \in SUBSET (Int \X Int) /\ "wrap" \in Walks \union {"next"}
  BY <1>1 DEF Within, Walks
<1> HIDE DEF access
<1>4. /\ m \in Kernel /\ m.place = "arg" /\ m.walk = "wrap" /\ m.by = 1 /\ m.again = "nz"
      /\ m.div = 1 /\ m.ops = 8 /\ m.also = {} /\ m.stride = 6656 /\ m.access = access
  BY <1>2, <1>3, DecKernel, MovingKernel
<1> HIDE DEF m
<1>5. LET k == [m EXCEPT !.lead = 12480]
      IN  /\ k \in Kernel /\ k.place = "arg" /\ k.walk = "wrap" /\ k.by = 1 /\ k.again = "nz"
          /\ k.div = 1 /\ k.ops = 8 /\ k.also = {} /\ k.stride = 6656 /\ k.lead = 12480
          /\ k.access \subseteq Within(0, 5888)
  BY <1>1, <1>4 DEF Kernel
<1> QED BY <1>2, <1>5 DEF parallel_mem_bench, m, access

LEMMA ParallelFits ==
  ASSUME NEW width \in {1, 4}, NEW kib \in Nat, kib >= 16, NEW c \in Nat \ {0}
  PROVE  WrapFits(Times(c, make_load_bench(parallel_mem_bench(width), kib, UF, TRUE)))
<1> DEFINE b == Times(c, make_load_bench(parallel_mem_bench(width), kib, UF, TRUE))
<1>1. /\ b.kernel = parallel_mem_bench(width) /\ b.ops_per_loop = 8 /\ b.loop_count = c
      /\ b.size = kib * 1024 /\ b.extra = 0 /\ b.stride = 64 /\ b.kib = kib
      /\ b.sizecheck /\ ~b.loop_delta
      /\ b.sizecheck \in BOOLEAN /\ b.loop_delta \in BOOLEAN
  BY DEF UF, Times, make_load_bench, make_mem_bench, Lent, make
<1> HIDE DEF b
<1>2. Region(b, kib)
  BY <1>1 DEF Region
<1>3. OnLines(b) /\ b.size >= 16384
  BY <1>1, <1>2, Wraps, RegionLines
<1>4. LET k == b.kernel
      IN  /\ k.walk = "wrap" /\ k.by = 1 /\ k.again = "nz" /\ k.div = 1 /\ k.ops = 8
          /\ k.also = {} /\ k.stride = 6656 /\ k.lead = 12480 /\ k.access \subseteq Within(0, 5888)
  BY <1>1, Wraps
<1>5. b.ops_per_loop = 8
  BY <1>1
<1>6. WrapFits(b)
  BY <1>3, <1>4, <1>5 DEF WrapFits, OpsFit
<1> QED BY <1>6 DEF b

LEMMA ParallelGroupsFit ==
  \A b \in UNION {parallel_group(1), parallel_group(4), prefetch_group} : WrapFits(b)
<1> DEFINE Registers(width, c, kib) == Times(c, make_load_bench(parallel_mem_bench(width), kib, UF, TRUE))
<1>1. ASSUME NEW width \in {1, 4}, NEW c \in Nat \ {0}, NEW kib \in Nat, kib >= 16
      PROVE  WrapFits(Registers(width, c, kib))
  BY <1>1, ParallelFits
<1>2. \A width \in {1, 4} : \A b \in parallel_group(width) :
        \E kib \in ALL_SIZES \union SlowSizes : b = Registers(width, 1000 * 1000, kib)
  BY DEF parallel_group
<1> DEFINE prefetched == {16, 32, 64, 128, 256, 512, 2048, 4096, 8192, 8192 * 4}
<1>3. \A kib \in prefetched : kib \in Nat /\ kib >= 16
  OBVIOUS
<1>4. \A b \in prefetch_group : \E kib \in prefetched : b = Registers(1, 100000, kib)
  <2>1. prefetch_group = {Registers(1, 100000, kib) : kib \in prefetched}
    BY DEF prefetch_group
  <2> HIDE DEF Registers, prefetched
  <2> QED BY <2>1
<1> HIDE DEF Registers, prefetched
<1>5. \A width \in {1, 4} : \A b \in parallel_group(width) : WrapFits(b)
  <2>1. 1000 * 1000 \in Nat \ {0}
    OBVIOUS
  <2>2. PICK c \in Nat \ {0} : c = 1000 * 1000
    BY <2>1
  <2> QED BY <1>1, <1>2, <2>2, SizesNat
<1>6. \A b \in prefetch_group : WrapFits(b)
  <2>1. 100000 \in Nat \ {0} /\ 1 \in {1, 4}
    OBVIOUS
  <2> QED BY <1>1, <1>3, <1>4, <2>1
<1> QED BY <1>5, <1>6

LEMMA InnerLinesKernel ==
  ASSUME NEW chunk \in Nat \ {0}, NEW lead \in Nat
  PROVE  LET k == InnerLines(chunk, lead)
         IN  /\ k \in Kernel /\ k.place = "arg" /\ k.walk = "lines" /\ k.by = 1 /\ k.again = "nz"
             /\ k.div = 1 /\ k.ops = 0 /\ k.also = {} /\ k.lead = lead /\ k.chunk = chunk
             /\ k.stride = 0 /\ k.frame = 0
<1> DEFINE a == Arg(Dec(0), {Bytes(0, 64)})
<1>1. {Bytes(0, 64)} \in SUBSET (Int \X Int) /\ "lines" \in Walks
  BY DEF Bytes, Walks, InnerWalks
<1>2. /\ a \in Kernel /\ a.place = "arg" /\ a.by = 1 /\ a.again = "nz" /\ a.div = 1
      /\ a.ops = 0 /\ a.also = {} /\ a.stride = 0 /\ a.frame = 0
  <2>1. Dec(0) \in Kernel
    BY DecKernel
  <2>2. a \in Kernel
    BY <1>1, <2>1 DEF Arg, Kernel
  <2>3. /\ a.place = "arg" /\ a.by = 1 /\ a.again = "nz" /\ a.div = 1
        /\ a.ops = 0 /\ a.also = {} /\ a.stride = 0 /\ a.frame = 0
    BY DEF Arg, Dec, Loop
  <2> QED BY <2>2, <2>3
<1> HIDE DEF a
<1>3. LET k == [a EXCEPT !.walk = "lines", !.chunk = chunk, !.lead = lead]
      IN  /\ k \in Kernel /\ k.place = "arg" /\ k.walk = "lines" /\ k.by = 1 /\ k.again = "nz"
          /\ k.div = 1 /\ k.ops = 0 /\ k.also = {} /\ k.lead = lead /\ k.chunk = chunk
          /\ k.stride = 0 /\ k.frame = 0
  BY <1>1, <1>2 DEF Kernel
<1> QED BY <1>3 DEF InnerLines, a

LEMMA RegionOfLines ==
  ASSUME NEW b, NEW kib, Region(b, kib), NEW chunk \in Nat \ {0}, NEW lead \in Nat,
         b.kernel = InnerLines(chunk, lead), b.ops_per_loop = LinesOf(kib), b.stride = 64,
         lead <= 16 * kib
  PROVE  LinesFits(b)
<1>1. kib \in Nat \ {0}
  BY DEF Region
<1>2. OnLines(b) /\ LinesIn(b) = 16 * kib
  BY InnerLinesKernel, RegionLines
<1>3. b.ops_per_loop = 16 * kib
  BY <1>1, KibLines
<1>4. b.kernel.walk = "lines" /\ b.kernel.by = 1 /\ b.kernel.again = "nz"
      /\ b.kernel.lead = lead /\ b.kernel.chunk = chunk
  BY InnerLinesKernel
<1> QED BY <1>2, <1>3, <1>4 DEF LinesFits

(* The linear loops over a region, c times. *)
Loaded(c, chunk, lead, kib, sizecheck) ==
  Times(c, make_load_bench(InnerLines(chunk, lead), kib, LinesOf(kib), sizecheck))
Stored(c, chunk, lead, kib) ==
  Times(c, make_mem_bench(InnerLines(chunk, lead), kib, LinesOf(kib)))

LEMMA LoadedFits ==
  ASSUME NEW c \in Nat \ {0}, NEW chunk \in Nat \ {0}, NEW lead \in Nat, NEW kib \in Nat \ {0},
         lead <= 16 * kib, NEW sizecheck \in BOOLEAN
  PROVE  LinesFits(Loaded(c, chunk, lead, kib, sizecheck))
<1> DEFINE b == Loaded(c, chunk, lead, kib, sizecheck)
<1>1. LinesOf(kib) \in Nat \ {0}
  BY KibLines
<1>2. /\ b.kernel = InnerLines(chunk, lead) /\ b.ops_per_loop = LinesOf(kib) /\ b.loop_count = c
      /\ b.size = kib * 1024 /\ b.extra = 0 /\ b.stride = 64 /\ b.kib = kib
      /\ b.sizecheck = sizecheck /\ ~b.loop_delta /\ b.loop_delta \in BOOLEAN
  BY DEF Loaded, Times, make_load_bench, make_mem_bench, Lent, make
<1> HIDE DEF b
<1>3. b.sizecheck \in BOOLEAN
  <2>1. b.sizecheck = sizecheck
    BY <1>2, Zenon
  <2> QED BY <2>1, Zenon
<1>4. Region(b, kib)
  BY <1>1, <1>2, <1>3 DEF Region
<1>5. LinesFits(b)
  BY <1>2, <1>4, RegionOfLines
<1> QED BY <1>5 DEF b

LEMMA StoredFits ==
  ASSUME NEW c \in Nat \ {0}, NEW chunk \in Nat \ {0}, NEW lead \in Nat, NEW kib \in Nat \ {0},
         lead <= 16 * kib
  PROVE  LinesFits(Stored(c, chunk, lead, kib))
<1> DEFINE b == Stored(c, chunk, lead, kib)
<1>1. LinesOf(kib) \in Nat \ {0}
  BY KibLines
<1>2. /\ b.kernel = InnerLines(chunk, lead) /\ b.ops_per_loop = LinesOf(kib) /\ b.loop_count = c
      /\ b.size = kib * 1024 /\ b.extra = 0 /\ b.stride = 64 /\ b.kib = 0 /\ ~b.sizecheck
      /\ ~b.loop_delta /\ b.sizecheck \in BOOLEAN /\ b.loop_delta \in BOOLEAN
  BY DEF Stored, Times, make_mem_bench, Lent, make
<1> HIDE DEF b
<1>3. Region(b, kib)
  BY <1>1, <1>2 DEF Region
<1>4. LinesFits(b)
  BY <1>2, <1>3, RegionOfLines
<1> QED BY <1>4 DEF b

LEMMA BandwidthGroupsFit ==
  \A b \in UNION {bandwidth_load_group, bandwidth_store_group, nt_stores_group} : LinesFits(b)
<1>1. ASSUME NEW to, NEW kib \in Pow2(4, to), NEW sizecheck \in BOOLEAN
      PROVE  LinesFits(Loaded(BandwidthLoops(kib), 1, 0, kib, sizecheck))
  <2>1. kib \in Nat \ {0}
    BY Pow2Nat
  <2>2. (16 * 1024) \div kib \in Int
    BY <2>1
  <2>3. BandwidthLoops(kib) \in Nat \ {0}
    BY <2>2 DEF BandwidthLoops
  <2>4. 1 \in Nat \ {0} /\ 0 \in Nat /\ 0 <= 16 * kib
    BY <2>1
  <2> QED BY <2>1, <2>3, <2>4, LoadedFits
<1>2. \A b \in bandwidth_load_group : LinesFits(b)
  <2> DEFINE to == 128 * 1024
  <2>1. bandwidth_load_group = {Loaded(BandwidthLoops(kib), 1, 0, kib, FALSE) : kib \in Pow2(4, to)}
    BY DEF bandwidth_load_group, define_bandwidth, Loaded
  <2> HIDE DEF to
  <2>2. \A kib \in Pow2(4, to) : LinesFits(Loaded(BandwidthLoops(kib), 1, 0, kib, FALSE))
    BY <1>1
  <2> QED BY <2>1, <2>2
<1>3. \A b \in bandwidth_store_group : LinesFits(b)
  <2> DEFINE to == 64 * 1024
  <2>1. bandwidth_store_group = {Loaded(BandwidthLoops(kib), 1, 0, kib, TRUE) : kib \in Pow2(4, to)}
    BY DEF bandwidth_store_group, define_bandwidth, Loaded
  <2> HIDE DEF to
  <2>2. \A kib \in Pow2(4, to) : LinesFits(Loaded(BandwidthLoops(kib), 1, 0, kib, TRUE))
    BY <1>1
  <2> QED BY <2>1, <2>2
<1>4. \A b \in nt_stores_group : LinesFits(b)
  <2> DEFINE kib == 32 * 1024
  <2>1. nt_stores_group = {Stored(10, 1, 0, kib)}
    BY DEF nt_stores_group, define_nt_extra, Stored
  <2>2. kib \in Nat \ {0} /\ 0 <= 16 * kib /\ 1 \in Nat \ {0} /\ 0 \in Nat /\ 10 \in Nat \ {0}
    OBVIOUS
  <2> HIDE DEF kib
  <2>3. LinesFits(Stored(10, 1, 0, kib))
    BY <2>2, StoredFits
  <2> QED BY <2>1, <2>3
<1> QED BY <1>2, <1>3, <1>4

Cycling(k) ==
  /\ k \in Kernel /\ k.place = "arg" /\ k.walk = "cycle" /\ k.by = 1 /\ k.div = 1
  /\ k.ops = 0 /\ k.lead = 0

LEMMA Cycles ==
  /\ Cycling(shuffled_list_sum) /\ shuffled_list_sum.again = "gt"
  /\ Cycling(touch_bench) /\ touch_bench.again = "once"
<1> DEFINE a == InnerLines(1, 0)
<1>1. /\ a \in Kernel /\ a.place = "arg" /\ a.div = 1 /\ a.ops = 0 /\ a.lead = 0
  BY InnerLinesKernel
<1>2. "cycle" \in Walks
  BY DEF Walks, InnerWalks
<1> HIDE DEF a
<1> DEFINE s == [a EXCEPT !.by = 1, !.again = "gt", !.walk = "cycle"]
<1>3. s \in Kernel /\ s.place = "arg" /\ s.walk = "cycle" /\ s.by = 1 /\ s.div = 1 /\ s.ops = 0
      /\ s.lead = 0 /\ s.again = "gt"
  BY <1>1, <1>2 DEF Kernel
<1> HIDE DEF s
<1>4. LET t == [s EXCEPT !.again = "once"]
      IN  t \in Kernel /\ t.place = "arg" /\ t.walk = "cycle" /\ t.by = 1 /\ t.div = 1 /\ t.ops = 0
          /\ t.lead = 0 /\ t.again = "once"
  BY <1>3 DEF Kernel
<1> QED BY <1>3, <1>4 DEF Cycling, shuffled_list_sum, touch_bench, s, a

LEMMA TraversalFits ==
  ASSUME NEW k, Cycling(k), NEW kib \in Nat \ {0}, NEW c \in Nat \ {0},
         k.again = "gt" \/ (k.again = "once" /\ c = 1)
  PROVE  CycleFits(Times(c, make_mem_bench(k, kib, LinesOf(kib))))
<1> DEFINE b == Times(c, make_mem_bench(k, kib, LinesOf(kib)))
<1>1. /\ b.kernel = k /\ b.ops_per_loop = LinesOf(kib) /\ b.loop_count = c
      /\ b.size = kib * 1024 /\ b.extra = 0 /\ b.stride = 64 /\ b.kib = 0 /\ ~b.sizecheck
      /\ ~b.loop_delta /\ b.sizecheck \in BOOLEAN /\ b.loop_delta \in BOOLEAN
  BY DEF Times, make_mem_bench, Lent, make
<1>2. LinesOf(kib) = 16 * kib /\ LinesOf(kib) \in Nat \ {0}
  BY KibLines
<1> HIDE DEF b
<1>3. Region(b, kib)
  BY <1>1, <1>2 DEF Region
<1>4. OnLines(b) /\ LinesIn(b) = 16 * kib
  BY <1>1, <1>3, RegionLines DEF Cycling
<1>5. CycleFits(b)
  BY <1>1, <1>2, <1>4 DEF CycleFits, Cycling
<1> QED BY <1>5 DEF b

LEMMA DoubleLoadGroupFits ==
  \A b \in l2_doubleload_group : ChaseFits(b) \/ LinesFits(b) \/ CycleFits(b)
<1> DEFINE Double(kib, offsets) == Times(1024 * 1024, make_mem_bench(serial_double_load(offsets), kib, 1))
           Unrolled(kib, body) == Times(512, make_load_bench(body, kib, LinesOf(kib), TRUE))
           unrolled == {bandwidth_test256, bandwidth_test256i, bandwidth_test256i_orig,
                        bandwidth_test256i_single, bandwidth_test256i_double}
<1>1. l2_doubleload_group =
        {Double(kib, {0}) : kib \in {16, 128}}
        \union {Double(128, offsets) : offsets \in {{0, 56}, {56}}}
        \union {Unrolled(kib, body) : kib \in Pow2(8, 1024), body \in unrolled}
        \union {Times(1000, make_mem_bench(shuffled_list_sum, 128, LinesOf(128)))}
  BY DEF l2_doubleload_group
<1>2. ASSUME NEW kib \in {16, 128}, NEW offsets \in {{0}, {0, 56}, {56}}
      PROVE  ChaseFits(Double(kib, offsets))
  <2>1. 1024 * 1024 \in Nat \ {0} /\ kib \in Nat \ {0} /\ 16 * kib <= 1024 * 1024
    OBVIOUS
  <2>2. PICK c \in Nat \ {0} : c = 1024 * 1024
    BY <2>1
  <2>3. Chasing(serial_double_load(offsets))
    BY Chases
  <2>4. ChaseFits(Times(c, make_mem_bench(serial_double_load(offsets), kib, 1)))
    BY <2>1, <2>2, <2>3, DoubleLoadFits
  <2> QED BY <2>2, <2>4
<1>3. ASSUME NEW kib \in Nat \ {0}, kib >= 8, NEW body \in unrolled
      PROVE  LinesFits(Unrolled(kib, body))
  <2>1. PICK chunk \in Nat \ {0}, lead \in Nat : body = InnerLines(chunk, lead) /\ lead <= 10
    BY DEF bandwidth_test256, bandwidth_test256i, bandwidth_test256i_orig,
           bandwidth_test256i_single, bandwidth_test256i_double, UNROLLB
  <2>2. lead <= 16 * kib /\ 512 \in Nat \ {0} /\ TRUE \in BOOLEAN
    BY <1>3, <2>1
  <2>3. \A c \in Nat \ {0}, sizecheck \in BOOLEAN : LinesFits(Loaded(c, chunk, lead, kib, sizecheck))
    BY <2>2, LoadedFits
  <2>4. LinesFits(Loaded(512, chunk, lead, kib, TRUE))
    BY <2>2, <2>3
  <2> QED BY <2>1, <2>4 DEF Loaded
<1>4. CycleFits(Times(1000, make_mem_bench(shuffled_list_sum, 128, LinesOf(128))))
  <2>1. 1000 \in Nat \ {0} /\ 128 \in Nat \ {0}
    OBVIOUS
  <2> QED BY <2>1, Cycles, TraversalFits
<1>5. {0} \in {{0}, {0, 56}, {56}} /\ 128 \in {16, 128}
      /\ \A offsets \in {{0, 56}, {56}} : offsets \in {{0}, {0, 56}, {56}}
  OBVIOUS
<1> HIDE DEF Double, Unrolled, unrolled
<1>6. \A kib \in Pow2(8, 1024) : kib \in Nat \ {0} /\ kib >= 8
  BY Pow2Nat
<1> QED BY <1>1, <1>2, <1>3, <1>4, <1>5, <1>6

LEMMA MemOneshotFits == \A b \in register_mem_oneshot : CycleFits(b) \/ StillFits(b)
<1> DEFINE kernels == {fwd_lat_delay_oneshot, oneshot_try, aliasing_loads, aliasing_loads_raw,
                       mixed_loads_raw}
<1>1. \A kib \in Pow2(1, 1024) : CycleFits(Times(1, make_mem_bench(touch_bench, kib, LinesOf(kib))))
  <2>1. \A kib \in Pow2(1, 1024) : kib \in Nat \ {0}
    BY Pow2Nat
  <2>2. 1 \in Nat \ {0}
    OBVIOUS
  <2> QED BY <2>1, <2>2, Cycles, TraversalFits
<1>2. \A b \in register_mem_oneshot :
        \/ \E kib \in Pow2(1, 1024) : b = Times(1, make_mem_bench(touch_bench, kib, LinesOf(kib)))
        \/ \E body \in kernels : b = Times(1, Lent(10 * 4096, make(body, 1)))
  BY DEF register_mem_oneshot
<1>3. \A body \in kernels : StillFits(Times(1, Lent(10 * 4096, make(body, 1))))
  BY OneshotRegionsFit
<1> HIDE DEF kernels
<1> QED BY <1>1, <1>2, <1>3

(* The regions of 2 ^ 6 to 2 ^ 30 bytes: so many lines. *)
Halved(size) ==
  \E l \in Nat \ {0}, p \in Nat : size = UB_CACHE_LINE_SIZE * l /\ p * l = MostLines

LEMMA Halves == \A k \in 6 .. 30 : Halved(2 ^ k)
<1>1. ASSUME NEW size, NEW l \in Nat \ {0}, NEW p \in Nat, size = 64 * l, p * l = 16777216
      PROVE  Halved(size)
  BY <1>1, SMT DEF Halved, UB_CACHE_LINE_SIZE, MostLines
<1>2. Halved(2 ^ 6) /\ Halved(2 ^ 7) /\ Halved(2 ^ 8) /\ Halved(2 ^ 9) /\ Halved(2 ^ 10)
  <2>1. /\ 2 ^ 6 = 64 * 1 /\ 16777216 * 1 = 16777216 /\ 1 \in Nat \ {0} /\ 16777216 \in Nat
        /\ 2 ^ 7 = 64 * 2 /\ 8388608 * 2 = 16777216 /\ 2 \in Nat \ {0} /\ 8388608 \in Nat
        /\ 2 ^ 8 = 64 * 4 /\ 4194304 * 4 = 16777216 /\ 4 \in Nat \ {0} /\ 4194304 \in Nat
        /\ 2 ^ 9 = 64 * 8 /\ 2097152 * 8 = 16777216 /\ 8 \in Nat \ {0} /\ 2097152 \in Nat
        /\ 2 ^ 10 = 64 * 16 /\ 1048576 * 16 = 16777216 /\ 16 \in Nat \ {0} /\ 1048576 \in Nat
    BY SMT
  <2> QED BY <1>1, <2>1, SMT
<1>3. Halved(2 ^ 11) /\ Halved(2 ^ 12) /\ Halved(2 ^ 13) /\ Halved(2 ^ 14) /\ Halved(2 ^ 15)
  <2>1. /\ 2 ^ 11 = 64 * 32 /\ 524288 * 32 = 16777216 /\ 32 \in Nat \ {0} /\ 524288 \in Nat
        /\ 2 ^ 12 = 64 * 64 /\ 262144 * 64 = 16777216 /\ 64 \in Nat \ {0} /\ 262144 \in Nat
        /\ 2 ^ 13 = 64 * 128 /\ 131072 * 128 = 16777216 /\ 128 \in Nat \ {0} /\ 131072 \in Nat
        /\ 2 ^ 14 = 64 * 256 /\ 65536 * 256 = 16777216 /\ 256 \in Nat \ {0} /\ 65536 \in Nat
        /\ 2 ^ 15 = 64 * 512 /\ 32768 * 512 = 16777216 /\ 512 \in Nat \ {0} /\ 32768 \in Nat
    BY SMT
  <2> QED BY <1>1, <2>1, SMT
<1>4. Halved(2 ^ 16) /\ Halved(2 ^ 17) /\ Halved(2 ^ 18) /\ Halved(2 ^ 19) /\ Halved(2 ^ 20)
  <2>1. /\ 2 ^ 16 = 64 * 1024 /\ 16384 * 1024 = 16777216 /\ 1024 \in Nat \ {0} /\ 16384 \in Nat
        /\ 2 ^ 17 = 64 * 2048 /\ 8192 * 2048 = 16777216 /\ 2048 \in Nat \ {0} /\ 8192 \in Nat
        /\ 2 ^ 18 = 64 * 4096 /\ 4096 * 4096 = 16777216 /\ 4096 \in Nat \ {0} /\ 4096 \in Nat
        /\ 2 ^ 19 = 64 * 8192 /\ 2048 * 8192 = 16777216 /\ 8192 \in Nat \ {0} /\ 2048 \in Nat
        /\ 2 ^ 20 = 64 * 16384 /\ 1024 * 16384 = 16777216 /\ 16384 \in Nat \ {0} /\ 1024 \in Nat
    BY SMT
  <2> QED BY <1>1, <2>1, SMT
<1>5. Halved(2 ^ 21) /\ Halved(2 ^ 22) /\ Halved(2 ^ 23) /\ Halved(2 ^ 24) /\ Halved(2 ^ 25)
  <2>1. /\ 2 ^ 21 = 64 * 32768 /\ 512 * 32768 = 16777216 /\ 32768 \in Nat \ {0} /\ 512 \in Nat
        /\ 2 ^ 22 = 64 * 65536 /\ 256 * 65536 = 16777216 /\ 65536 \in Nat \ {0} /\ 256 \in Nat
        /\ 2 ^ 23 = 64 * 131072 /\ 128 * 131072 = 16777216 /\ 131072 \in Nat \ {0} /\ 128 \in Nat
        /\ 2 ^ 24 = 64 * 262144 /\ 64 * 262144 = 16777216 /\ 262144 \in Nat \ {0} /\ 64 \in Nat
        /\ 2 ^ 25 = 64 * 524288 /\ 32 * 524288 = 16777216 /\ 524288 \in Nat \ {0} /\ 32 \in Nat
    BY SMT
  <2> QED BY <1>1, <2>1, SMT
<1>6. Halved(2 ^ 26) /\ Halved(2 ^ 27) /\ Halved(2 ^ 28) /\ Halved(2 ^ 29) /\ Halved(2 ^ 30)
  <2>1. /\ 2 ^ 26 = 64 * 1048576 /\ 16 * 1048576 = 16777216 /\ 1048576 \in Nat \ {0} /\ 16 \in Nat
        /\ 2 ^ 27 = 64 * 2097152 /\ 8 * 2097152 = 16777216 /\ 2097152 \in Nat \ {0} /\ 8 \in Nat
        /\ 2 ^ 28 = 64 * 4194304 /\ 4 * 4194304 = 16777216 /\ 4194304 \in Nat \ {0} /\ 4 \in Nat
        /\ 2 ^ 29 = 64 * 8388608 /\ 2 * 8388608 = 16777216 /\ 8388608 \in Nat \ {0} /\ 2 \in Nat
        /\ 2 ^ 30 = 64 * 16777216 /\ 1 * 16777216 = 16777216 /\ 16777216 \in Nat \ {0} /\ 1 \in Nat
    BY SMT
  <2> QED BY <1>1, <2>1, SMT
<1>7. \A k \in 6 .. 30 : \/ k = 6 \/ k = 7 \/ k = 8 \/ k = 9 \/ k = 10 \/ k = 11 \/ k = 12 \/ k = 13 \/ k = 14 \/ k = 15 \/ k = 16 \/ k = 17 \/ k = 18 \/ k = 19 \/ k = 20 \/ k = 21 \/ k = 22 \/ k = 23 \/ k = 24 \/ k = 25 \/ k = 26 \/ k = 27 \/ k = 28 \/ k = 29 \/ k = 30
  BY SMT
<1> QED BY <1>2, <1>3, <1>4, <1>5, <1>6, <1>7, Zenon

LEMMA MissKernel ==
  ASSUME NEW width \in {4, 8}
  PROVE  LET k == parallel_miss(width)
         IN  /\ k \in Kernel /\ k.place = "arg" /\ k.walk = "mask" /\ k.by = 1 /\ k.again = "nz"
             /\ k.div = 1 /\ k.ops = 1 /\ k.also = {} /\ k.stride = 64 * 199
             /\ k.access = {Bytes(0, width)}
<1> DEFINE access == {Bytes(0, width)}
<1>1. access \in SUBSET (Int \X Int) /\ "mask" \in Walks \union {"next"}
  BY DEF Bytes, Walks
<1>2. MissStride = 64 * 199 /\ MissStride \in Int
  BY DEF MissStride
<1> HIDE DEF access
<1>3. LET k == Moving(Arg(Dec(1), access), "mask", MissStride)
      IN  /\ k \in Kernel /\ k.place = "arg" /\ k.walk = "mask" /\ k.by = 1 /\ k.again = "nz"
          /\ k.div = 1 /\ k.ops = 1 /\ k.also = {} /\ k.stride = MissStride /\ k.access = access
  BY <1>1, <1>2, DecKernel, MovingKernel
<1> QED BY <1>2, <1>3 DEF parallel_miss, access

(* Accesses that miss: the region is the whole buffer. *)
LEMMA MissFits ==
  ASSUME NEW width \in {4, 8}
  PROVE  MaskFits(Times(BUFSIZE \div 64, Lent(BUFSIZE, make(parallel_miss(width), 1))))
<1> DEFINE c == BUFSIZE \div 64
           b == Times(c, Lent(BUFSIZE, make(parallel_miss(width), 1)))
           k == parallel_miss(width)
<1>1. PICK lines \in Nat \ {0}, p \in Nat : BUFSIZE = 64 * lines /\ p * lines = MostLines
  BY RegistrationAssumption, Halves DEF Halved, UB_CACHE_LINE_SIZE
<1>2. c = lines /\ BUFSIZE \in Nat
  BY <1>1
<1> HIDE DEF c
<1>3. /\ b.kernel = k /\ b.ops_per_loop = 1 /\ b.loop_count = c /\ b.size = BUFSIZE /\ b.extra = 0
      /\ b.stride = 64 /\ b.kib = 0 /\ ~b.sizecheck /\ ~b.loop_delta
      /\ b.sizecheck \in BOOLEAN /\ b.loop_delta \in BOOLEAN
  BY DEF Times, Lent, make
<1> HIDE DEF b, k
<1>4. LinesIn(b) = lines
  BY <1>1, <1>3 DEF LinesIn, UB_CACHE_LINE_SIZE
<1>5. /\ k \in Kernel /\ k.place = "arg" /\ k.walk = "mask" /\ k.by = 1 /\ k.again = "nz"
      /\ k.div = 1 /\ k.ops = 1 /\ k.also = {} /\ k.stride = 64 * 199 /\ k.access = {Bytes(0, width)}
  BY MissKernel DEF k
<1>6. k.access \subseteq Within(0, 64) /\ \E r \in k.access : r[1] < r[2]
  <2>1. Bytes(0, width) \in Within(0, 64) /\ Bytes(0, width)[1] < Bytes(0, width)[2]
    BY BytesWithin DEF Bytes
  <2> QED BY <1>5, <2>1
<1>7. Typed(b)
  BY <1>2, <1>3, <1>5 DEF Typed
<1>8. OnLines(b)
  BY <1>1, <1>3, <1>4, <1>5, <1>7 DEF OnLines, UB_CACHE_LINE_SIZE
<1>9. OpsFit(b.kernel, b.ops_per_loop)
  BY <1>3, <1>5 DEF OpsFit
<1>10. MaskFits(b)
  BY <1>1, <1>3, <1>4, <1>5, <1>6, <1>8, <1>9 DEF MaskFits
<1> QED BY <1>10 DEF b, c

LEMMA FencingKernel ==
  LET k == tlb_fencing
  IN  /\ k \in Kernel /\ k.place = "arg" /\ k.walk = "mask" /\ k.by = 1 /\ k.again = "nz"
      /\ k.div = 1 /\ k.ops = 1 /\ k.also = {Bytes(160, 4)} /\ k.stride = 64 * 67
      /\ k.access = {Bytes(0, 8)}
<1> DEFINE access == {Bytes(0, 8)}
           also == {Bytes(160, 4)}
           stride == 64 * 67
<1>1. access \in SUBSET (Int \X Int) /\ also \in SUBSET (Int \X Int) /\ stride \in Int
      /\ "mask" \in Walks \union {"next"}
  BY DEF Bytes, Walks
<1> DEFINE m == Moving(Arg(Dec(1), access), "mask", stride)
<1> HIDE DEF access, also, stride
<1>2. /\ m \in Kernel /\ m.place = "arg" /\ m.walk = "mask" /\ m.by = 1 /\ m.again = "nz"
      /\ m.div = 1 /\ m.ops = 1 /\ m.stride = stride /\ m.access = access
  BY <1>1, DecKernel, MovingKernel
<1> HIDE DEF m
<1>3. LET k == [m EXCEPT !.also = also]
      IN  /\ k \in Kernel /\ k.place = "arg" /\ k.walk = "mask" /\ k.by = 1 /\ k.again = "nz"
          /\ k.div = 1 /\ k.ops = 1 /\ k.also = also /\ k.stride = stride /\ k.access = access
  BY <1>1, <1>2 DEF Kernel
<1> QED BY <1>3 DEF tlb_fencing, m, access, also, stride

LEMMA FencingFits ==
  ASSUME NEW kib \in Nat \ {0}, NEW p \in Nat, p * (16 * kib) = MostLines, NEW c \in Nat \ {0}
  PROVE  MaskFits(Times(c, [make_mem_bench(tlb_fencing, kib, 1) EXCEPT !.extra = 256]))
<1> DEFINE b == Times(c, [make_mem_bench(tlb_fencing, kib, 1) EXCEPT !.extra = 256])
           k == tlb_fencing
<1>1. /\ b.kernel = k /\ b.ops_per_loop = 1 /\ b.loop_count = c /\ b.size = kib * 1024
      /\ b.extra = 256 /\ b.stride = 64 /\ b.kib = 0 /\ ~b.sizecheck /\ ~b.loop_delta
      /\ b.sizecheck \in BOOLEAN /\ b.loop_delta \in BOOLEAN
  BY DEF Times, make_mem_bench, Lent, make
<1> HIDE DEF b, k
<1>2. /\ k \in Kernel /\ k.place = "arg" /\ k.walk = "mask" /\ k.by = 1 /\ k.again = "nz"
      /\ k.div = 1 /\ k.ops = 1 /\ k.also = {Bytes(160, 4)} /\ k.stride = 64 * 67
      /\ k.access = {Bytes(0, 8)}
  BY FencingKernel DEF k
<1>3. Region(b, kib)
  BY <1>1 DEF Region
<1>4. OnLines(b) /\ LinesIn(b) = 16 * kib
  BY <1>1, <1>2, <1>3, RegionLines
<1>5. k.access \subseteq Within(0, 64) /\ \E r \in k.access : r[1] < r[2]
  <2>1. Bytes(0, 8) \in Within(0, 64) /\ Bytes(0, 8)[1] < Bytes(0, 8)[2]
    BY BytesWithin DEF Bytes
  <2> QED BY <1>2, <2>1
<1>6. k.also \subseteq Within(0, b.size + b.extra)
  BY <1>1, <1>2, BytesWithin
<1>7. OpsFit(b.kernel, b.ops_per_loop)
  BY <1>1, <1>2 DEF OpsFit
<1>8. MaskFits(b)
  BY <1>1, <1>2, <1>4, <1>5, <1>6, <1>7 DEF MaskFits
<1> QED BY <1>8 DEF b

LEMMA FencingGroupFits == \A b \in tlb_fencing_group : MaskFits(b)
<1> DEFINE Registers(kib) == Times(1500000, [make_mem_bench(tlb_fencing, kib, 1) EXCEPT !.extra = 256])
           most == 256 * 1024
<1>1. tlb_fencing_group = {Registers(kib) : kib \in Pow2(4, most)}
  BY DEF tlb_fencing_group
<1>2. ASSUME NEW kib, kib \in Pow2(4, most)
      PROVE  kib \in Nat \ {0} /\ \E p \in Nat : p * (16 * kib) = MostLines
  <2> HIDE DEF most
  <2>1. kib <= most /\ \E k \in 0 .. 17 : kib = 4 * 2 ^ k
    BY <1>2, Zenon DEF Pow2
  <2>2. PICK q \in Powers : kib = 4 * q
    BY <2>1, PowersOfTwo, Zenon
  <2> DEFINE P(p) == p * (16 * kib) = MostLines
  <2>3. P(262144) \/ P(131072) \/ P(65536) \/ P(32768) \/ P(16384) \/ P(8192) \/ P(4096) \/ P(2048)
        \/ P(1024) \/ P(512) \/ P(256) \/ P(128) \/ P(64) \/ P(32) \/ P(16) \/ P(8) \/ P(4)
    BY <2>1, <2>2, SMT DEF MostLines, Powers, most
  <2>4. kib \in Nat \ {0}
    BY <2>2, SMT DEF Powers
  <2>5. \E p \in Nat : P(p)
    BY <2>3, SMT
  <2> QED BY <2>4, <2>5
<1>3. 1500000 \in Nat \ {0}
  OBVIOUS
<1>4. \A kib \in Pow2(4, most) : MaskFits(Registers(kib))
  BY <1>2, <1>3, FencingFits
<1> HIDE DEF Registers, most
<1> QED BY <1>1, <1>4

Strides == {1, 2, 4, 8, 16, 32, 64, 128}

LEMMA StridedKernel ==
  ASSUME NEW width \in {1, 4, 8}, NEW stride \in Strides
  PROVE  LET k == strided_stores(width, stride)
         IN  /\ k \in Kernel /\ k.place = "arg" /\ k.walk = "mask" /\ k.by = 4 /\ k.again = "gt"
             /\ k.div = 1 /\ k.ops = 4 /\ k.also = {} /\ k.stride = 4 * stride
             /\ k.access = {Bytes(stride * s, width) : s \in 0 .. 3}
<1> DEFINE access == {Bytes(stride * s, width) : s \in 0 .. 3}
           far == 4 * stride
<1>1. access \in SUBSET (Int \X Int) /\ "mask" \in Walks \union {"next"} /\ far \in Int
  BY DEF Bytes, Walks, Strides
<1>2. LET f == For(4, 4)
      IN  f \in Kernel /\ f.by = 4 /\ f.again = "gt" /\ f.div = 1 /\ f.ops = 4 /\ f.also = {}
  BY DEF For, Loop, Kernel, Walks, InnerWalks
<1> HIDE DEF access, far
<1>3. LET k == Moving(Arg(For(4, 4), access), "mask", far)
      IN  /\ k \in Kernel /\ k.place = "arg" /\ k.walk = "mask" /\ k.by = 4 /\ k.again = "gt"
          /\ k.div = 1 /\ k.ops = 4 /\ k.also = {} /\ k.stride = far /\ k.access = access
  BY <1>1, <1>2, MovingKernel
<1> QED BY <1>3 DEF strided_stores, access, far

Strided(width, stride, kib) ==
  Times(10 * ((kib * 1024) \div stride),
        [make_mem_bench(strided_stores(width, stride), kib, 1)
           EXCEPT !.extra = 1024, !.stride = stride])

LEMMA StridedFits ==
  ASSUME NEW width \in {1, 4, 8}, NEW stride \in Strides, NEW kib \in Nat \ {0}
  PROVE  MaskFits(Strided(width, stride, kib))
<1> DEFINE c == 10 * ((kib * 1024) \div stride)
           k == strided_stores(width, stride)
           b == Times(c, [make_mem_bench(k, kib, 1) EXCEPT !.extra = 1024, !.stride = stride])
<1>1. stride \in Nat \ {0} /\ c \in Nat \ {0} /\ c * stride = 10 * (kib * 1024)
  <2> DEFINE C(d) == 10 * ((kib * 1024) \div d) \in Nat \ {0} /\ (10 * ((kib * 1024) \div d)) * d = 10 * (kib * 1024)
  <2>1. C(1) /\ C(2) /\ C(4) /\ C(8)
    BY SMT
  <2>2. C(16) /\ C(32) /\ C(64) /\ C(128)
    BY SMT
  <2>3. C(stride)
    <3>1. stride = 1 \/ stride = 2 \/ stride = 4 \/ stride = 8 \/ stride = 16 \/ stride = 32
          \/ stride = 64 \/ stride = 128
      BY DEF Strides
    <3> HIDE DEF C
    <3> QED BY <2>1, <2>2, <3>1
  <2> QED BY <2>3 DEF Strides
<1> HIDE DEF c, k
<1>2. /\ b.kernel = k /\ b.ops_per_loop = 1 /\ b.loop_count = c /\ b.size = kib * 1024
      /\ b.extra = 1024 /\ b.stride = stride /\ b.kib = 0 /\ ~b.sizecheck /\ ~b.loop_delta
      /\ b.sizecheck \in BOOLEAN /\ b.loop_delta \in BOOLEAN
  BY DEF Times, make_mem_bench, Lent, make
<1> HIDE DEF b
<1>3. /\ k \in Kernel /\ k.place = "arg" /\ k.walk = "mask" /\ k.by = 4 /\ k.again = "gt"
      /\ k.div = 1 /\ k.ops = 4 /\ k.also = {} /\ k.stride = 4 * stride
      /\ k.access = {Bytes(stride * s, width) : s \in 0 .. 3}
  BY StridedKernel DEF k
<1>4. Region(b, kib)
  BY <1>1, <1>2 DEF Region
<1>5. OnLines(b)
  BY <1>2, <1>3, <1>4, RegionLines
<1>6. k.access \subseteq Within(0, 1024)
  <2>1. ASSUME NEW s \in 0 .. 3
        PROVE  Bytes(stride * s, width) \in Within(0, 1024)
    <3>1. stride * s \in Int /\ 0 <= stride * s /\ stride * s + width <= 1024
      BY DEF Strides
    <3>2. PICK at \in Int : at = stride * s /\ 0 <= at /\ at + width <= 1024
      BY <3>1
    <3>3. at <= at + width /\ at + width \in Int
      BY <3>2
    <3>4. Bytes(at, width) \in Within(0, 1024)
      BY <3>2, <3>3 DEF Bytes, Within
    <3> QED BY <3>2, <3>4
  <2> QED BY <1>3, <2>1
<1>7. \A s \in 0 .. 3 : \E r \in k.access : r[1] = b.stride * s /\ r[1] < r[2]
  <2>1. ASSUME NEW s \in 0 .. 3
        PROVE  \E r \in k.access : r[1] = b.stride * s /\ r[1] < r[2]
    <3>1. stride * s \in Int
      BY DEF Strides
    <3>2. PICK at \in Int : at = stride * s
      BY <3>1
    <3>3. Bytes(at, width)[1] = at /\ at < Bytes(at, width)[2]
      BY <3>2 DEF Bytes
    <3>4. Bytes(at, width) \in k.access
      BY <1>3, <3>2
    <3>5. Bytes(at, width)[1] = b.stride * s
      BY <1>2, <3>2, <3>3
    <3> QED BY <3>3, <3>4, <3>5
  <2> QED BY <2>1
<1>8. b.size % 1024 = 0 /\ b.loop_count * b.stride = 10 * b.size
  BY <1>1, <1>2
<1>9. OpsFit(b.kernel, b.ops_per_loop) /\ k.also \subseteq Within(0, b.size + b.extra)
  BY <1>2, <1>3 DEF OpsFit
<1>10. MaskFits(b)
  BY <1>2, <1>3, <1>5, <1>6, <1>7, <1>8, <1>9 DEF MaskFits, Strides
<1> QED BY <1>10 DEF Strided, b, c, k

LEMMA StridedStoresFit ==
  ASSUME NEW data_size \in {1, 4, 8}
  PROVE  \A b \in make_strided_stores(data_size) : StillFits(b) \/ MaskFits(b)
<1> DEFINE kibs == {4, 8, 16, 32, 64, 128, 256, 512, 1024, 2048}
           strides == {1, 2, 4, 8, 16, 32, 64, 128}
<1>1. make_strided_stores(data_size) =
        {Lent(1024, make(sameloc_stores(data_size, offset), 1)) : offset \in {0, 63}}
        \union {Strided(data_size, stride, kib) : stride \in strides, kib \in kibs}
  BY DEF make_strided_stores, Strided
<1>2. \A kib \in kibs : kib \in Nat \ {0}
  OBVIOUS
<1>3. strides = Strides
  BY DEF Strides
<1> HIDE DEF kibs, strides
<1>4. \A stride \in strides, kib \in kibs : MaskFits(Strided(data_size, stride, kib))
  <2> SUFFICES ASSUME NEW stride \in strides, NEW kib \in kibs
               PROVE  MaskFits(Strided(data_size, stride, kib))
    OBVIOUS
  <2>1. stride \in Strides /\ kib \in Nat \ {0}
    BY <1>2, <1>3
  <2> QED BY <2>1, StridedFits
<1>5. \A offset \in {0, 63} : StillFits(Lent(1024, make(sameloc_stores(data_size, offset), 1)))
  BY SamelocFits
<1> QED BY <1>1, <1>4, <1>5

LEMMA MovingFrame ==
  ASSUME NEW k \in Kernel, NEW access \in SUBSET (Int \X Int), NEW size \in Nat, NEW stride \in Int
  PROVE  LET m == Moving(Frame(k, size, access), "next", stride)
         IN  /\ m \in Kernel /\ m.place = "frame" /\ m.frame = size /\ m.access = access
             /\ m.walk = "next" /\ m.stride = stride /\ m.by = k.by /\ m.again = k.again
             /\ m.div = k.div /\ m.ops = k.ops /\ m.also = k.also
<1> DEFINE f == Frame(k, size, access)
<1>1. /\ f \in Kernel /\ f.place = "frame" /\ f.frame = size /\ f.access = access
      /\ f.by = k.by /\ f.again = k.again /\ f.div = k.div /\ f.ops = k.ops /\ f.also = k.also
  BY DEF Frame, Kernel
<1> HIDE DEF f
<1>2. LET m == Moving(f, "next", stride)
      IN  /\ m \in Kernel /\ m.place = f.place /\ m.frame = f.frame /\ m.access = f.access
          /\ m.walk = "next" /\ m.stride = stride /\ m.by = f.by /\ m.again = f.again
          /\ m.div = f.div /\ m.ops = f.ops /\ m.also = f.also
  BY <1>1 DEF Moving, Kernel
<1> QED BY <1>1, <1>2 DEF f

(* Kernels that go on through a frame, or through memory past its end. *)
LEMMA GoingOnFits == \A b \in dendibakh_group : StillFits(b) \/ NextFits(b)
<1>1. NextFits(Times(1024, make(dendibakh(1024), 1)))
  <2> DEFINE access == {Bytes(4 * 1024 - 4, 4)}
             size == 4 * 1024
             back == -4
             k == Moving(Frame(Dec(1), size, access), "next", back)
             b == Times(1024, make(dendibakh(1024), 1))
  <2>1. access \subseteq Within(4092, 4096) /\ access \subseteq Within(0, 4096)
        /\ access \in SUBSET (Int \X Int)
    BY SMT DEF Within, Bytes
  <2>2. size = 4096 /\ size \in Nat /\ back = -4 /\ back \in Int
    OBVIOUS
  <2> HIDE DEF access, size, back
  <2>3. Dec(1) \in Kernel /\ Dec(1).by = 1 /\ Dec(1).again = "nz" /\ Dec(1).div = 1
        /\ Dec(1).ops = 1 /\ Dec(1).also = {}
    BY DecKernel
  <2>4. /\ k \in Kernel /\ k.place = "frame" /\ k.frame = size /\ k.access = access
        /\ k.by = 1 /\ k.again = "nz" /\ k.div = 1 /\ k.ops = 1 /\ k.also = {}
        /\ k.walk = "next" /\ k.stride = back
    BY <2>1, <2>2, <2>3, MovingFrame
  <2> HIDE DEF k
  <2>9. dendibakh(1024) = k
    BY DEF dendibakh, k, access, size, back
  <2>5. /\ b.kernel = dendibakh(1024) /\ b.ops_per_loop = 1 /\ b.loop_count = 1024 /\ b.size = 0
        /\ b.extra = 0 /\ b.stride = 64 /\ b.kib = 0 /\ ~b.sizecheck /\ ~b.loop_delta
        /\ b.sizecheck \in BOOLEAN /\ b.loop_delta \in BOOLEAN
    BY DEF Times, make
  <2> HIDE DEF b
  <2>6. NextFits(b)
    BY <2>1, <2>2, <2>4, <2>5, <2>9 DEF NextFits, Typed, OpsFit
  <2> QED BY <2>6 DEF b
<1>2. NextFits(Times(1024, Lent(8000, make(fusion_better_unfused, 1))))
  <2> DEFINE access == {Bytes(0, 8)}
             k == Moving(Arg(Dec(1), access), "next", 8)
             b == Times(1024, Lent(8000, make(fusion_better_unfused, 1)))
  <2>1. access \subseteq Within(0, 4096) /\ access \in SUBSET (Int \X Int)
    BY BytesWithin DEF Within
  <2> HIDE DEF access
  <2>2. /\ k \in Kernel /\ k.access = access /\ k.by = 1 /\ k.again = "nz" /\ k.div = 1
        /\ k.ops = 1 /\ k.also = {} /\ k.walk = "next"
    <3>1. Dec(1) \in Kernel /\ Dec(1).by = 1 /\ Dec(1).again = "nz" /\ Dec(1).div = 1
          /\ Dec(1).ops = 1 /\ Dec(1).also = {}
      BY DecKernel
    <3>2. "next" \in Walks \union {"next"} /\ 8 \in Int
      OBVIOUS
    <3> QED BY <2>1, <3>1, <3>2, MovingKernel
  <2> HIDE DEF k
  <2>3. fusion_better_unfused = k
    BY DEF fusion_better_unfused, k, access
  <2>4. /\ b.kernel = fusion_better_unfused /\ b.ops_per_loop = 1 /\ b.loop_count = 1024
        /\ b.size = 8000 /\ b.extra = 0 /\ b.stride = 64 /\ b.kib = 0 /\ ~b.sizecheck /\ ~b.loop_delta
        /\ b.sizecheck \in BOOLEAN /\ b.loop_delta \in BOOLEAN
    BY DEF Times, Lent, make
  <2>5. fusion_better_unfused \in Overrunning
    BY DEF Overrunning
  <2> HIDE DEF b
  <2>6. NextFits(b)
    BY <2>1, <2>2, <2>3, <2>4, <2>5 DEF NextFits, Typed, OpsFit
  <2> QED BY <2>6 DEF b
<1>3. NextFits(Times(1024, Lent(8000, make(fusion_better_fused, 1))))
  <2> DEFINE access == {Bytes(0, 4)}
             stride == 16 * 16
             m == Moving(Arg(Dec(16), access), "next", stride)
             k == [m EXCEPT !.div = 16]
             b == Times(1024, Lent(8000, make(fusion_better_fused, 1)))
  <2>1. access \subseteq Within(0, 4096) /\ access \in SUBSET (Int \X Int) /\ stride \in Int
    BY BytesWithin DEF Within
  <2> HIDE DEF access, stride
  <2>2. /\ m \in Kernel /\ m.access = access /\ m.by = 1 /\ m.again = "nz" /\ m.div = 1
        /\ m.ops = 16 /\ m.also = {} /\ m.walk = "next"
    <3>1. Dec(16) \in Kernel /\ Dec(16).by = 1 /\ Dec(16).again = "nz" /\ Dec(16).div = 1
          /\ Dec(16).ops = 16 /\ Dec(16).also = {}
      BY DecKernel
    <3>2. "next" \in Walks \union {"next"} /\ 8 \in Int
      OBVIOUS
    <3> QED BY <2>1, <3>1, <3>2, MovingKernel
  <2> HIDE DEF m
  <2>3. /\ k \in Kernel /\ k.access = access /\ k.by = 1 /\ k.again = "nz" /\ k.div = 16
        /\ k.ops = 16 /\ k.also = {} /\ k.walk = "next"
    BY <2>2 DEF Kernel
  <2> HIDE DEF k
  <2>4. fusion_better_fused = k
    BY DEF fusion_better_fused, k, m, access, stride
  <2>5. /\ b.kernel = fusion_better_fused /\ b.ops_per_loop = 1 /\ b.loop_count = 1024
        /\ b.size = 8000 /\ b.extra = 0 /\ b.stride = 64 /\ b.kib = 0 /\ ~b.sizecheck /\ ~b.loop_delta
        /\ b.sizecheck \in BOOLEAN /\ b.loop_delta \in BOOLEAN
    BY DEF Times, Lent, make
  <2>6. fusion_better_fused \in Overrunning
    BY DEF Overrunning
  <2> HIDE DEF b
  <2>7. NextFits(b)
    BY <2>1, <2>3, <2>4, <2>5, <2>6 DEF NextFits, Typed, OpsFit
  <2> QED BY <2>7 DEF b
<1>4. StillFits(Times(1024, make(dsb_alignment, 1)))
  BY LoopsFit
<1> QED BY <1>1, <1>2, <1>3, <1>4 DEF dendibakh_group

LEMMA MissGroupsFit ==
  \A b \in register_syscall \union fencing_group : StillFits(b) \/ MaskFits(b)
<1> DEFINE Misses(width) == Times(BUFSIZE \div 64, Lent(BUFSIZE, make(parallel_miss(width), 1)))
<1>1. \A width \in {4, 8} : MaskFits(Misses(width))
  BY MissFits
<1>2. /\ register_syscall = {make(body, 1) : body \in {syscall_loop, syscall_asm}}
                            \union {make(lfence_only, 8)} \union {Misses(4)}
      /\ fencing_group = {Misses(width) : width \in {4, 8}}
  BY DEF register_syscall, fencing_group
<1> HIDE DEF Misses
<1> QED BY <1>1, <1>2, LoopsFit

-----------------------------------------------------------------------------

(* Every registration is of one of the seven kinds. *)
LEMMA RegisteredFits == \A b \in Registered : Fits(b)
<1>1. \A b \in register_cpp : Fits(b)
  <2>1. \A b \in make_strided_stores(1) \union make_strided_stores(4) \union make_strided_stores(8) :
          Fits(b)
    BY StridedStoresFit DEF Fits
  <2>2. \A b \in cpp_group \union store_volatile_group \union store_alignment_group
                 \union store_study_group \union transcendental_group : Fits(b)
    BY CppFits, VolatileFits, AlignmentFits, StudyFits DEF Fits
  <2> QED BY <2>1, <2>2 DEF register_cpp
<1>2. \A b \in register_mem_studies : Fits(b)
  BY ReplayFits, ForwardFits, BandwidthGroupsFit, MissGroupsFit, PatternsFit
     DEF register_mem_studies, Fits
<1>3. \A b \in register_mem : Fits(b)
  <2>1. \A b \in parallel_group(1) \union parallel_group(4) \union prefetch_group : Fits(b)
    BY ParallelGroupsFit DEF Fits
  <2>2. \A b \in load_serial_group \union load_serial_crossing_group \union super_load_serial_group
                 \union crit_word_group : Fits(b)
    BY SerialGroupsFit DEF Fits
  <2>3. \A b \in bandwidth_load_group \union bandwidth_store_group \union tlb_fencing_group
                 \union l2_doubleload_group : Fits(b)
    BY BandwidthGroupsFit, FencingGroupFits, DoubleLoadGroupFits DEF Fits
  <2>4. \A b \in pointer_chase_group \union gather_group \union store_fwd_group : Fits(b)
    BY ChaseInPlaceFits, GatherFits, ForwardFits DEF Fits
  <2> QED BY <2>1, <2>2, <2>3, <2>4 DEF register_mem
<1>4. \A b \in register_default \union register_branch \union register_call \union register_decode
               \union register_vector \union register_rstalls \union register_loadstore
               \union register_misc : Fits(b)
  BY DefaultFits, BranchFits, CallFits, DecodeFits, VectorFits, RstallsFits, LoadstoreFits, MiscFits
     DEF Fits
<1>5. \A b \in register_syscall \union dendibakh_group \union register_cacheline_branch
               \union register_matt \union register_oneshot \union register_mem_oneshot : Fits(b)
  BY MissGroupsFit, GoingOnFits, LoopsFit, OneshotFits, MemOneshotFits DEF Fits
<1> QED BY <1>1, <1>2, <1>3, <1>4, <1>5 DEF Registered
-----------------------------------------------------------------------------
(* Facts about integers. *)

LEMMA LeastOfBounded ==
  ASSUME NEW S \in SUBSET Int, S # {}, NEW first \in Int, \A x \in S : first <= x
  PROVE  Min(S) \in S /\ \A x \in S : Min(S) <= x
<1> DEFINE T == {x - first : x \in S}
<1>1. T \subseteq Nat /\ T # {}
  <2>1. \A x \in S : x \in Int /\ x - first \in Nat
    OBVIOUS
  <2>2. PICK x \in S : TRUE
    OBVIOUS
  <2> QED BY <2>1, <2>2
<1>2. PICK t \in T : \A u \in T : ~ (<<u, t>> \in OpToRel(<, Nat))
  BY <1>1, NatLessThanWellFounded, WFMin
<1>3. \A u \in T : ~ (u < t)
  BY <1>1, <1>2 DEF OpToRel
<1>4. PICK x \in S : t = x - first
  OBVIOUS
<1>5. \A y \in S : x <= y
  <2> SUFFICES ASSUME NEW y \in S PROVE x <= y
    OBVIOUS
  <2>1. y - first \in T
    OBVIOUS
  <2>2. ~ (y - first < x - first)
    BY <1>3, <1>4, <2>1
  <2> HIDE DEF T
  <2> QED BY <2>2
<1> QED BY <1>5 DEF Min

LEMMA GreatestOfBounded ==
  ASSUME NEW S \in SUBSET Int, S # {}, NEW last \in Int, \A x \in S : x <= last
  PROVE  Max(S) \in S /\ \A x \in S : x <= Max(S)
<1> DEFINE T == {-x : x \in S}
<1>1. T \subseteq Int /\ T # {} /\ -last \in Int /\ \A t \in T : -last <= t
  <2>1. \A x \in S : x \in Int /\ -x \in Int /\ -last <= -x
    OBVIOUS
  <2>2. PICK x \in S : TRUE
    OBVIOUS
  <2>3. -last \in Int
    OBVIOUS
  <2> QED BY <2>1, <2>2, <2>3
<1>2. Min(T) \in T /\ \A t \in T : Min(T) <= t
  <2> HIDE DEF T
  <2> QED BY <1>1, LeastOfBounded
<1>3. PICK x \in S : Min(T) = -x
  BY <1>2
<1>4. \A y \in S : -y \in T
  OBVIOUS
<1>5. \A y \in S : x >= y
  <2> HIDE DEF T
  <2> QED BY <1>2, <1>3, <1>4
<1> QED BY <1>5 DEF Max

LEMMA GreaterOfTwo ==
  ASSUME NEW a \in Int, NEW b \in Int
  PROVE  Max({a, b}) \in {a, b} /\ a <= Max({a, b}) /\ b <= Max({a, b})
<1> DEFINE last == IF a <= b THEN b ELSE a
<1>1. last \in Int /\ a <= last /\ b <= last
  OBVIOUS
<1> QED BY <1>1, GreatestOfBounded

(* A quotient and a remainder in range are the ones. *)
LEMMA Remainder ==
  ASSUME NEW d \in Nat \ {0}, NEW q \in Int, NEW r \in 0 .. d - 1
  PROVE  (d * q + r) % d = r /\ (d * q + r) \div d = q
OBVIOUS

LEMMA Divided ==
  ASSUME NEW a \in Int, NEW d \in Nat \ {0}
  PROVE  a = d * (a \div d) + (a % d) /\ a % d \in 0 .. d - 1 /\ a \div d \in Int
OBVIOUS

(* Positions in lines. *)
LEMMA LineRemainder ==
  ASSUME NEW a \in Nat, NEW L \in Nat \ {0}
  PROVE  (64 * a) % (64 * L) = 64 * (a % L)
<1> DEFINE q == a \div L
           r == a % L
<1>1. a = L * q + r /\ r \in 0 .. L - 1 /\ q \in Int
  BY Divided
<1> HIDE DEF q, r
<1>2. 64 * a = (64 * L) * q + 64 * r /\ 64 * L \in Nat \ {0} /\ 64 * r \in 0 .. 64 * L - 1
  <2>1. PICK x \in Int : x = L * q
    BY <1>1
  <2>2. (64 * L) * q = 64 * x
    BY <1>1, <2>1
  <2>3. 64 * a = 64 * x + 64 * r
    BY <1>1, <2>1
  <2>4. 64 * L \in Nat \ {0} /\ 64 * r \in 0 .. 64 * L - 1
    BY <1>1
  <2> QED BY <2>2, <2>3, <2>4, Zenon
<1>3. ((64 * L) * q + 64 * r) % (64 * L) = 64 * r
  BY <1>1, <1>2, Remainder
<1> QED BY <1>2, <1>3 DEF r

-----------------------------------------------------------------------------
(* What a pass touches. *)

LEMMA Touching ==
  ASSUME low \in Int, high \in Int, NEW first \in Int, NEW last \in Int,
         NEW ranges, ranges \subseteq Within(first, last), Touch(ranges)
  PROVE  /\ low' \in Int /\ high' \in Int
         /\ \A f \in Int : f <= first /\ f <= low => f <= low'
         /\ \A l \in Int : last <= l /\ high <= l => high' <= l
         /\ kernel.walk \notin Walks => touched' = touched
         /\ kernel.walk \in Walks =>
              /\ touched \subseteq touched'
              /\ touched \subseteq Nat /\ first >= 0 => touched' \subseteq Nat
              /\ \A r \in ranges : r[1] < r[2] => r[1] \div 64 \in touched'
              /\ \A line \in Nat : <<64 * line, 64 * (line + 1)>> \in ranges => line \in touched'
<1> DEFINE firsts == {low} \union {r[1] : r \in ranges}
           lasts == {high} \union {r[2] : r \in ranges}
<1>1. \A r \in ranges : r[1] \in Int /\ r[2] \in Int /\ first <= r[1] /\ r[1] <= r[2] /\ r[2] <= last
  BY DEF Within
<1>2. low' = Min(firsts) /\ high' = Max(lasts)
  BY DEF Touch
<1>3. firsts \in SUBSET Int /\ lasts \in SUBSET Int /\ low \in firsts /\ high \in lasts
  BY <1>1
<1>4. \A f \in Int : f <= first /\ f <= low => \A x \in firsts : f <= x
  BY <1>1
<1>5. \A l \in Int : last <= l /\ high <= l => \A x \in lasts : x <= l
  BY <1>1
<1>6. low' \in Int /\ \A f \in Int : f <= first /\ f <= low => f <= low'
  <2>1. PICK f \in Int : f <= first /\ f <= low
    <3>1. (IF first <= low THEN first ELSE low) \in Int
      OBVIOUS
    <3> QED BY <3>1
  <2> HIDE DEF firsts
  <2>2. Min(firsts) \in firsts
    BY <1>3, <1>4, <2>1, LeastOfBounded
  <2> QED BY <1>2, <1>3, <1>4, <2>2
<1>7. high' \in Int /\ \A l \in Int : last <= l /\ high <= l => high' <= l
  <2>1. PICK l \in Int : last <= l /\ high <= l
    <3>1. (IF last <= high THEN high ELSE last) \in Int
      OBVIOUS
    <3> QED BY <3>1
  <2> HIDE DEF lasts
  <2>2. Max(lasts) \in lasts
    BY <1>3, <1>5, <2>1, GreatestOfBounded
  <2> QED BY <1>2, <1>3, <1>5, <2>2
<1>8. kernel.walk \notin Walks => touched' = touched
  BY DEF Touch
<1>9. ASSUME kernel.walk \in Walks
      PROVE  /\ touched \subseteq touched'
             /\ touched \subseteq Nat /\ first >= 0 => touched' \subseteq Nat
             /\ \A r \in ranges : r[1] < r[2] => r[1] \div 64 \in touched'
             /\ \A line \in Nat : <<64 * line, 64 * (line + 1)>> \in ranges => line \in touched'
  <2> DEFINE Of(r) == (r[1] \div 64) .. ((r[2] - 1) \div 64)
  <2>1. touched' = touched \union UNION {Of(r) : r \in ranges}
    BY <1>9 DEF Touch, UB_CACHE_LINE_SIZE
  <2>2. \A r \in ranges : Of(r) \subseteq touched'
    BY <2>1
  <2>3. \A r \in ranges : r[1] < r[2] => r[1] \div 64 \in Of(r)
    BY <1>1
  <2>4. first >= 0 => \A r \in ranges : Of(r) \subseteq Nat
    BY <1>1
  <2>5. touched \subseteq Nat /\ first >= 0 => touched' \subseteq Nat
    BY <2>1, <2>4
  <2>6. \A line \in Nat : LET r == <<64 * line, 64 * (line + 1)>>
                          IN  r \in ranges => r[1] < r[2] /\ r[1] \div 64 = line
    OBVIOUS
  <2> HIDE DEF Of
  <2> QED BY <2>1, <2>2, <2>3, <2>5, <2>6
<1> QED BY <1>6, <1>7, <1>8, <1>9

-----------------------------------------------------------------------------
(* The kinds of benchmarks, and how often their kernels loop. *)

(* The walk says of which kind a benchmark is. *)
LEMMA KindOf ==
  ASSUME NEW b, Fits(b)
  PROVE  /\ \/ b.kernel.walk = "still" /\ StillFits(b)
            \/ b.kernel.walk = "next" /\ NextFits(b)
            \/ b.kernel.walk = "chase" /\ ChaseFits(b)
            \/ b.kernel.walk = "wrap" /\ WrapFits(b)
            \/ b.kernel.walk = "mask" /\ MaskFits(b)
            \/ b.kernel.walk = "lines" /\ LinesFits(b)
            \/ b.kernel.walk = "cycle" /\ CycleFits(b)
         /\ Typed(b)
<1>1. StillFits(b) => b.kernel.walk = "still" /\ Typed(b)
  BY DEF StillFits, Still
<1>2. NextFits(b) => b.kernel.walk = "next" /\ Typed(b)
  BY DEF NextFits
<1>3. ChaseFits(b) => b.kernel.walk = "chase" /\ Typed(b)
  BY DEF ChaseFits, OnLines
<1>4. WrapFits(b) => b.kernel.walk = "wrap" /\ Typed(b)
  BY DEF WrapFits, OnLines
<1>5. MaskFits(b) => b.kernel.walk = "mask" /\ Typed(b)
  BY DEF MaskFits, OnLines
<1>6. LinesFits(b) => b.kernel.walk = "lines" /\ Typed(b)
  BY DEF LinesFits, OnLines
<1>7. CycleFits(b) => b.kernel.walk = "cycle" /\ Typed(b)
  BY DEF CycleFits, OnLines
<1> QED BY <1>1, <1>2, <1>3, <1>4, <1>5, <1>6, <1>7, Zenon DEF Fits

LEMMA Loops ==
  ASSUME NEW b, Fits(b)
  PROVE  /\ b.kernel \in Kernel /\ b.kernel.by \in Nat \ {0}
         /\ b.kernel.again \in {"nz", "gt", "ge", "once"}
         /\ b.kernel.again \in {"nz", "once"} => b.kernel.by = 1
         /\ b.kernel.again = "once" => b.loop_count = 1
         /\ b.loop_count \in Nat \ {0} /\ b.ops_per_loop \in Nat \ {0}
         /\ b.loop_delta \in BOOLEAN
         /\ b.loop_delta => /\ b.kernel.walk = "still" /\ b.kernel.by = 1
                            /\ b.kernel.again \in {"nz", "gt"}
         /\ b.kernel.div \in Nat \ {0}
         /\ b.kernel.walk # "next" => b.kernel.div = 1
<1>1. /\ b.kernel \in Kernel /\ b.loop_count \in Nat \ {0} /\ b.ops_per_loop \in Nat \ {0}
      /\ b.loop_delta \in BOOLEAN
  BY KindOf DEF Typed
<1>2. /\ b.kernel.by \in Nat /\ b.kernel.again \in {"nz", "gt", "ge", "once"}
      /\ b.kernel.div \in Nat \ {0}
  BY <1>1 DEF Kernel
<1>3. CASE b.kernel.walk = "still" /\ StillFits(b)
  BY <1>1, <1>2, <1>3 DEF StillFits, Still
<1>4. CASE b.kernel.walk = "next" /\ NextFits(b)
  BY <1>1, <1>2, <1>4 DEF NextFits
<1>5. CASE b.kernel.walk = "chase" /\ ChaseFits(b)
  BY <1>1, <1>2, <1>5 DEF ChaseFits, OnLines
<1>6. CASE b.kernel.walk = "wrap" /\ WrapFits(b)
  BY <1>1, <1>2, <1>6 DEF WrapFits, OnLines
<1>7. CASE b.kernel.walk = "mask" /\ MaskFits(b)
  BY <1>1, <1>2, <1>7 DEF MaskFits, OnLines
<1>8. CASE b.kernel.walk = "lines" /\ LinesFits(b)
  BY <1>1, <1>2, <1>8 DEF LinesFits, OnLines
<1>9. CASE b.kernel.walk = "cycle" /\ CycleFits(b)
  BY <1>1, <1>2, <1>9 DEF CycleFits, OnLines
<1> QED BY <1>3, <1>4, <1>5, <1>6, <1>7, <1>8, <1>9, KindOf

(* Operations of a step of the loop: what is registered, but for the       *)
(* kernel that does one operation less.                                    *)
Rates(b) ==
  {o \in Nat : OpsFit(b.kernel, o) /\ (b.kernel # mul_by_bench \/ b.loop_delta => o = b.ops_per_loop)}
Rate(b) == CHOOSE o \in Rates(b) : TRUE

LEMMA RateOf ==
  ASSUME NEW b, Fits(b), b.kernel.walk \notin InnerWalks
  PROVE  /\ Rate(b) \in Nat /\ OpsFit(b.kernel, Rate(b))
         /\ b.kernel # mul_by_bench \/ b.loop_delta => Rate(b) = b.ops_per_loop
<1>1. \E o \in Nat : OpsFit(b.kernel, o)
                      /\ (b.kernel # mul_by_bench \/ b.loop_delta => o = b.ops_per_loop)
  <2>1. CASE b.kernel.walk = "still" /\ StillFits(b)
    <3>1. CASE b.loop_delta
      BY <2>1, <3>1, Loops DEF StillFits, Still
    <3>2. CASE ~b.loop_delta
      BY <2>1, <3>2 DEF StillFits, Still
    <3> QED BY <3>1, <3>2
  <2>2. CASE b.kernel.walk # "still"
    <3>1. OpsFit(b.kernel, b.ops_per_loop)
      BY <2>2, KindOf DEF NextFits, ChaseFits, WrapFits, MaskFits, InnerWalks
    <3> QED BY <3>1, Loops
  <2> QED BY <2>1, <2>2, KindOf
<1>2. Rate(b) \in Rates(b)
  BY <1>1 DEF Rates, Rate
<1> QED BY <1>2 DEF Rates

LEMMA LoopCounts ==
  ASSUME Fits(bench)
  PROVE  /\ LoopCount \in Nat \ {0} /\ Passes \in Nat
         /\ kernel.again = "once" => LoopCount = 1
         /\ kernel.walk = "next" => LoopCount = 1024
         /\ kernel.div = 1 => LoopCount = bench.loop_count \/ LoopCount >= Passes * kernel.by
<1> DEFINE step == kernel.by * kernel.div
<1>1. /\ bench.loop_count \in Nat \ {0} /\ kernel.by \in Nat \ {0} /\ kernel.div \in Nat \ {0}
      /\ kernel.again = "once" => bench.loop_count = 1
  BY Loops DEF kernel
<1>2. step \in Nat \ {0} /\ (kernel.div = 1 => step = kernel.by)
  BY <1>1
<1>3. Passes \in Nat \ {0} /\ (kernel.walk = "next" => Passes = 1024 /\ bench.loop_count = 1024)
  <2>1. kernel.walk \in {"wrap", "chase", "mask"} => Lines \in Nat \ {0}
    BY KindOf DEF kernel, ChaseFits, WrapFits, MaskFits, OnLines, Lines, LinesIn
  <2>2. CASE kernel.walk = "wrap"
    BY <2>1, <2>2 DEF Passes
  <2>3. CASE kernel.walk = "chase"
    BY <2>1, <2>3 DEF Passes
  <2>4. CASE kernel.walk = "mask"
    <3>1. kernel.stride \in Nat \ {0} /\ bench.size \in Nat
      BY <2>4, KindOf DEF kernel, MaskFits, OnLines, Typed
    <3>2. bench.size \div kernel.stride \in Int
      BY <3>1
    <3>3. Max({Lines, bench.size \div kernel.stride}) \in Int
          /\ Lines <= Max({Lines, bench.size \div kernel.stride})
      BY <2>1, <2>4, <3>2, GreaterOfTwo
    <3> QED BY <2>1, <2>4, <3>3 DEF Passes
  <2>5. CASE kernel.walk = "next"
    BY <2>5, KindOf DEF kernel, NextFits, Passes
  <2>6. CASE kernel.walk \notin {"wrap", "chase", "mask", "next"}
    BY <2>6 DEF Passes
  <2> QED BY <2>2, <2>3, <2>4, <2>5, <2>6
<1>4. LoopCount = IF bench.loop_count <= Passes * step THEN bench.loop_count
                  ELSE Passes * step + (bench.loop_count % step)
  BY DEF LoopCount
<1> HIDE DEF step
<1>5. Passes * step \in Nat \ {0} /\ Passes * step >= Passes /\ bench.loop_count % step \in Nat
  BY <1>1, <1>2, <1>3
<1>6. LoopCount \in Nat \ {0}
  BY <1>1, <1>4, <1>5
<1>7. kernel.again = "once" => LoopCount = 1
  BY <1>1, <1>4, <1>5
<1>8. kernel.walk = "next" => LoopCount = 1024
  BY <1>3, <1>4, <1>5
<1>9. kernel.div = 1 => LoopCount = bench.loop_count \/ LoopCount >= Passes * kernel.by
  BY <1>2, <1>4, <1>5
<1> QED BY <1>3, <1>6, <1>7, <1>8, <1>9

-----------------------------------------------------------------------------
(* The invariant's part about calls and their loop counters. *)

(* The loop has a pass to do; it has none left to do. *)
Going ==
  /\ kernel.again \in {"nz", "gt"} => left >= 1
  /\ kernel.again = "ge" => left >= 0
  /\ kernel.again = "once" => left = 1

Ended ==
  /\ kernel.again \in {"nz", "once"} => left = 0
  /\ kernel.again = "gt" => left <= 0 /\ left + kernel.by >= 1
  /\ kernel.again = "ge" => left < 0 /\ left + kernel.by >= 0

Control ==
  /\ Fits(bench)
  /\ pc \in {"make", "call", "pass", "inner", "returned", "end", "thrown"}
  /\ n \in Nat /\ work \in Nat /\ left \in Int /\ inner \in Int
  /\ works \in Seq(Nat) /\ Len(works) <= 2
  /\ Len(works) >= 1 /\ pc # "end" => bench.loop_delta /\ Len(works) = 1
  /\ Len(works) = 2 => bench.loop_delta
  /\ pc \in {"pass", "inner", "returned"} => n = (1 + Len(works)) * LoopCount
  /\ pc \in {"pass", "inner"} => Going
  /\ pc = "returned" => Ended
  /\ pc = "inner" => kernel.walk \in InnerWalks

LEMMA SameBench ==
  ASSUME bench' = bench
  PROVE  kernel' = kernel /\ Lines' = Lines /\ LoopCount' = LoopCount
<1>1. kernel' = kernel
  BY DEF kernel
<1>2. Lines' = Lines
  BY DEF Lines
<1>3. Passes' = Passes
  BY <1>1, <1>2 DEF Passes
<1> QED BY <1>1, <1>2, <1>3 DEF LoopCount

LEMMA Counting ==
  ASSUME Control, pc \in {"pass", "inner"}, Count, bench' = bench
  PROVE  /\ left' = left - kernel.by /\ left' \in Int
         /\ \/ pc' = "pass" /\ Going'
            \/ pc' = "returned" /\ Ended'
<1>1. /\ kernel.by \in Nat \ {0} /\ kernel.again \in {"nz", "gt", "ge", "once"}
      /\ kernel.again \in {"nz", "once"} => kernel.by = 1
  BY Loops DEF kernel, Control
<1>2. left \in Int /\ Going
  BY DEF Control
<1>3. kernel' = kernel
  BY SameBench
<1>4. left' = left - kernel.by /\ left' \in Int
  BY <1>1, <1>2 DEF Count
<1>5. CASE kernel.again = "nz"
  BY <1>1, <1>2, <1>3, <1>4, <1>5 DEF Count, Going, Ended
<1>6. CASE kernel.again = "gt"
  BY <1>1, <1>2, <1>3, <1>4, <1>6 DEF Count, Going, Ended
<1>7. CASE kernel.again = "ge"
  BY <1>1, <1>2, <1>3, <1>4, <1>7 DEF Count, Going, Ended
<1>8. CASE kernel.again = "once"
  BY <1>1, <1>2, <1>3, <1>4, <1>8 DEF Count, Going, Ended
<1> QED BY <1>1, <1>4, <1>5, <1>6, <1>7, <1>8

LEMMA Calling ==
  ASSUME Control, Call
  PROVE  /\ n' = (1 + Len(works)) * LoopCount /\ n' \in Nat \ {0}
         /\ left' = n' \div kernel.div /\ left' \in Nat \ {0} /\ Going'
         /\ kernel.again = "once" => n' = 1
         /\ kernel.walk = "next" => n' = 1024
         /\ kernel.walk \notin {"still", "next"} => n' = LoopCount
<1>1. /\ LoopCount \in Nat \ {0} /\ (kernel.again = "once" => LoopCount = 1)
      /\ (kernel.walk = "next" => LoopCount = 1024)
  BY LoopCounts DEF Control
<1>2. /\ bench.loop_delta \in BOOLEAN /\ kernel.div \in Nat \ {0}
      /\ kernel.again \in {"nz", "gt", "ge", "once"}
      /\ bench.loop_delta => kernel.walk = "still" /\ kernel.again \in {"nz", "gt"}
      /\ kernel.walk # "next" => kernel.div = 1
  BY Loops DEF kernel, Control
<1>3. Len(works) \in 0 .. 1 /\ (Len(works) = 1 => bench.loop_delta)
  <2>1. works \in Seq(Nat) /\ Len(works) \in Nat
    BY DEF Control
  <2>2. pc = "call"
    BY DEF Call
  <2>3. Len(works) >= 1 => bench.loop_delta /\ Len(works) = 1
    BY <2>2 DEF Control
  <2> QED BY <2>1, <2>3
<1>4. n' = (1 + Len(works)) * LoopCount /\ n' \in Nat \ {0}
      /\ (Len(works) = 0 => n' = LoopCount)
  BY <1>1, <1>3 DEF Call
<1>5. kernel.walk = "next" => kernel.div \in {1, 16}
  BY KindOf DEF Control, NextFits, kernel
<1>6. left' = n' \div kernel.div
  BY DEF Call
<1>7. kernel.walk # "still" => n' = LoopCount
  BY <1>2, <1>3, <1>4
<1>8. kernel.again = "once" => n' = 1
  BY <1>1, <1>2, <1>3, <1>4
<1>9. left' \in Nat \ {0} /\ (kernel.div = 1 => left' = n')
  <2>1. CASE kernel.div = 1
    BY <1>4, <1>6, <2>1
  <2>2. CASE kernel.div # 1
    BY <1>1, <1>2, <1>5, <1>6, <1>7, <2>2
  <2> QED BY <2>1, <2>2
<1>10. kernel.again = "once" => kernel.walk # "next"
  BY KindOf DEF Control, NextFits, kernel
<1>11. kernel' = kernel
  BY SameBench DEF Call
<1>12. Going'
  BY <1>2, <1>8, <1>9, <1>10, <1>11 DEF Going
<1> QED BY <1>1, <1>4, <1>6, <1>7, <1>8, <1>9, <1>12

LEMMA ControlKept ==
  ASSUME Control, [Next]_vars
  PROVE  Control'
<1>1. CASE Make
  BY <1>1, SameBench, Zenon DEF Make, Control
<1>2. CASE Call
  <2>1. Fits(bench') /\ works' = works /\ work' = 0 /\ inner' = inner /\ pc' = "pass" /\ pc = "call"
    BY <1>2, Zenon DEF Call, Control
  <2>2. kernel' = kernel /\ LoopCount' = LoopCount
    BY <1>2, SameBench DEF Call
  <2>3. n' = (1 + Len(works)) * LoopCount /\ n' \in Nat /\ left' \in Int /\ Going'
    BY <1>2, Calling
  <2>4. n' = (1 + Len(works')) * LoopCount'
    BY <2>1, <2>2, <2>3, Zenon
  <2>5. /\ works' \in Seq(Nat) /\ Len(works') <= 2
        /\ Len(works') >= 1 => bench'.loop_delta /\ Len(works') = 1
        /\ Len(works') = 2 => bench'.loop_delta
    BY <1>2, <2>1, Zenon DEF Control, Call
  <2>6. inner' \in Int /\ work' \in Nat
    BY <2>1 DEF Control
  <2> QED BY <2>1, <2>3, <2>4, <2>5, <2>6, Zenon DEF Control
<1>3. CASE Pass
  <2>1. Count /\ pc = "pass" /\ bench' = bench /\ n' = n /\ inner' = inner /\ works' = works
        /\ work' = work + kernel.ops
    BY <1>3 DEF Pass
  <2>2. kernel' = kernel /\ LoopCount' = LoopCount
    BY <2>1, SameBench
  <2>3. work' \in Nat
    BY <2>1, Loops DEF Control, Kernel, kernel
  <2> QED BY <2>1, <2>2, <2>3, Counting DEF Control
<1>4. CASE StartLines
  <2>1. pc = "pass" /\ pc' = "inner" /\ kernel.walk \in InnerWalks /\ bench' = bench /\ n' = n
        /\ left' = left /\ work' = work /\ works' = works /\ inner' = Lines - kernel.lead
    BY <1>4 DEF StartLines
  <2>2. kernel' = kernel /\ LoopCount' = LoopCount
    BY <2>1, SameBench
  <2>3. inner' \in Int
    BY <2>1, KindOf DEF Control, Kernel, kernel, Typed, Lines, UB_CACHE_LINE_SIZE
  <2> QED BY <2>1, <2>2, <2>3 DEF Control, Going
<1>5. CASE LinearLines
  <2>1. /\ pc = "inner" /\ bench' = bench /\ n' = n /\ works' = works /\ kernel.walk = "lines"
        /\ inner' = inner - kernel.chunk
        /\ \/ Count /\ work' = work + kernel.chunk + kernel.lead
           \/ left' = left /\ pc' = pc /\ work' = work + kernel.chunk + 0
    BY <1>5 DEF LinearLines
  <2>2. kernel' = kernel /\ LoopCount' = LoopCount
    BY <2>1, SameBench
  <2>3. kernel.chunk \in Nat /\ kernel.lead \in Nat
    BY Loops DEF Control, Kernel, kernel
  <2>4. inner' \in Int /\ work' \in Nat
    <3>1. inner \in Int /\ work \in Nat
      BY DEF Control
    <3>2. work' = work + kernel.chunk + kernel.lead \/ work' = work + kernel.chunk + 0
      BY <2>1
    <3> QED BY <2>1, <2>3, <3>1, <3>2
  <2>5. CASE Count
    BY <2>1, <2>2, <2>4, <2>5, Counting DEF Control
  <2>6. CASE left' = left /\ pc' = pc
    BY <2>1, <2>2, <2>4, <2>6 DEF Control, Going
  <2> QED BY <2>1, <2>5, <2>6
<1>6. CASE CycleLines
  <2>1. /\ pc = "inner" /\ bench' = bench /\ n' = n /\ works' = works /\ inner' = inner
        /\ kernel.walk = "cycle" /\ work' = work + 1
        /\ Count \/ (left' = left /\ pc' = pc)
    BY <1>6 DEF CycleLines
  <2>2. kernel' = kernel /\ LoopCount' = LoopCount
    BY <2>1, SameBench
  <2>3. work' \in Nat
    BY <2>1 DEF Control
  <2>5. CASE Count
    BY <2>1, <2>2, <2>3, <2>5, Counting DEF Control
  <2>6. CASE left' = left /\ pc' = pc
    BY <2>1, <2>2, <2>3, <2>6 DEF Control, Going
  <2> QED BY <2>1, <2>5, <2>6
<1>7. CASE Return
  <2>1. /\ pc = "returned" /\ bench' = bench /\ n' = n /\ left' = left /\ inner' = inner /\ work' = work
        /\ works' = Append(works, work)
        /\ pc' = IF bench.loop_delta /\ works = <<>> THEN "call" ELSE "end"
    BY <1>7 DEF Return
  <2>2. works' \in Seq(Nat) /\ Len(works') = Len(works) + 1 /\ Len(works) \in Nat
    BY <2>1 DEF Control
  <2>3. Len(works) <= 1 /\ (Len(works) = 1 => bench.loop_delta)
    BY <2>1, <2>2 DEF Control
  <2>4. works = <<>> <=> Len(works) = 0
    BY DEF Control
  <2>5. pc' = "call" => bench.loop_delta /\ Len(works') = 1
    BY <2>1, <2>2, <2>4
  <2>6. pc' \in {"call", "end"}
    BY <2>1
  <2>7. Len(works') = 2 => bench.loop_delta
    <3>1. \A l \in Nat : l + 1 = 2 => l = 1
      OBVIOUS
    <3>2. Len(works') = 2 => Len(works) = 1
      BY <2>2, <3>1, Zenon
    <3> QED BY <2>3, <3>2, Zenon
  <2>8. Len(works') <= 2 /\ n' \in Nat /\ work' \in Nat /\ left' \in Int /\ inner' \in Int /\ Fits(bench')
    BY <2>1, <2>2, <2>3 DEF Control
  <2> QED BY <2>1, <2>2, <2>5, <2>6, <2>7, <2>8 DEF Control
<1>8. CASE UNCHANGED vars
  BY <1>8, SameBench DEF vars, Control, Going, Ended
<1> QED BY <1>1, <1>2, <1>3, <1>4, <1>5, <1>6, <1>7, <1>8 DEF Next

LEMMA ControlInit == Init => Control
<1>1. Init => Fits(bench)
  BY RegisteredFits DEF Init
<1> QED BY <1>1 DEF Init, Control

-----------------------------------------------------------------------------
(* The invariant's part about operations. *)

(* One pass after the other. *)
PassesWork ==
  pc \in {"pass", "returned"} /\ kernel.walk \notin InnerWalks =>
    work = (Rate(bench) * kernel.div) * ((n \div kernel.div) - left)

(* A linear pass does each line, and up to a step of lines too many. *)
LinearWork ==
  kernel.walk = "lines" =>
    /\ pc \in {"pass", "returned"} => work - (n - left) * Lines \in 0 .. (n - left) * kernel.chunk
    /\ pc = "inner" =>
         /\ inner \in 0 .. Lines - kernel.lead /\ pos = 64 * (Lines - kernel.lead - inner)
         /\ work - (n - left) * Lines - (Lines - kernel.lead - inner) \in 0 .. (n - left) * kernel.chunk

CycleWork ==
  kernel.walk = "cycle" =>
    /\ pc \in {"pass", "returned"} => work = (n - left) * Lines
    /\ pc = "inner" => \E m \in 0 .. Lines - 1 : pos = 64 * m /\ work = (n - left) * Lines + m

(* The calls of a loop delta do what they are said to. *)
CallsWork ==
  bench.loop_delta => \A i \in 1 .. Len(works) : works[i] = i * (LoopCount * bench.ops_per_loop)

LEMMA Distributed ==
  ASSUME NEW c \in Int, NEW x \in Int, NEW y \in Int
  PROVE  c * (x + y) = c * x + c * y /\ c * (x - y) = c * x - c * y /\ c * x \in Int /\ c * x = x * c
OBVIOUS

LEMMA PassesWorkKept ==
  ASSUME Control, PassesWork, [Next]_vars
  PROVE  PassesWork'
<1> SUFFICES ASSUME pc' \in {"pass", "returned"}, kernel'.walk \notin InnerWalks
             PROVE  work' = (Rate(bench') * kernel'.div) * ((n' \div kernel'.div) - left')
  BY DEF PassesWork
<1>1. kernel.walk \notin InnerWalks /\ kernel' = kernel /\ bench' = bench
  BY SameBench DEF Next, Make, Call, Pass, StartLines, LinearLines, CycleLines, Return, vars
<1>2. /\ Rate(bench) \in Nat /\ kernel.ops = kernel.by * (Rate(bench) * kernel.div)
      /\ kernel.by \in Nat /\ kernel.div \in Nat \ {0} /\ left \in Int /\ n \in Nat /\ work \in Nat
  BY <1>1, RateOf, Loops DEF kernel, Control, OpsFit
<1>3. PICK c \in Nat : c = Rate(bench) * kernel.div
  BY <1>2
<1>4. PICK calls \in Int : calls = n \div kernel.div
  BY <1>2
<1>5. CASE Call
  <2>1. work' = 0 /\ left' = n' \div kernel.div /\ left' \in Nat \ {0}
    BY <1>5, Calling DEF Call
  <2>2. (n' \div kernel.div) - left' = 0 /\ c * 0 = 0
    BY <1>3, <2>1
  <2> QED BY <1>1, <1>3, <2>1, <2>2
<1>6. CASE Pass
  <2>1. pc = "pass" /\ work' = work + kernel.ops /\ left' = left - kernel.by /\ n' = n
    BY <1>6 DEF Pass, Count
  <2>2. work = c * (calls - left)
    BY <1>1, <1>3, <1>4, <2>1 DEF PassesWork
  <2>3. calls - left' = (calls - left) + kernel.by /\ calls - left \in Int
    BY <1>2, <1>4, <2>1
  <2>4. c * (calls - left') = c * (calls - left) + c * kernel.by
    BY <1>2, <1>3, <2>3, Distributed
  <2>5. kernel.ops = c * kernel.by
    BY <1>2, <1>3, Distributed
  <2>6. work' = c * (calls - left')
    BY <2>1, <2>2, <2>4, <2>5
  <2> QED BY <1>1, <1>3, <1>4, <2>1, <2>6
<1>7. CASE UNCHANGED vars
  BY <1>1, <1>7 DEF vars, PassesWork
<1>8. CASE ~Call /\ ~Pass /\ ~UNCHANGED vars
  BY <1>1, <1>8 DEF Next, Make, StartLines, LinearLines, CycleLines, Return, InnerWalks
<1> QED BY <1>5, <1>6, <1>7, <1>8

LEMMA CallsWorkKept ==
  ASSUME Control, PassesWork, CallsWork, [Next]_vars
  PROVE  CallsWork'
<1> SUFFICES ASSUME bench'.loop_delta
             PROVE  \A i \in 1 .. Len(works') : works'[i] = i * (LoopCount' * bench'.ops_per_loop)
  BY DEF CallsWork
<1>1. bench' = bench /\ LoopCount' = LoopCount
  BY SameBench DEF Next, Make, Call, Pass, StartLines, LinearLines, CycleLines, Return, vars
<1>2. \A i \in 1 .. Len(works) : works[i] = i * (LoopCount * bench.ops_per_loop)
  BY <1>1 DEF CallsWork
<1>3. CASE Return
  <2>1. pc = "returned" /\ works' = Append(works, work) /\ works \in Seq(Nat) /\ work \in Nat
    BY <1>3 DEF Return, Control
  <2>2. /\ kernel.walk = "still" /\ kernel.by = 1 /\ kernel.again \in {"nz", "gt"} /\ kernel.div = 1
        /\ bench.ops_per_loop \in Nat
    BY <1>1, Loops DEF kernel, Control
  <2>3. Rate(bench) = bench.ops_per_loop
    BY <1>1, <2>2, RateOf DEF kernel, Control, InnerWalks
  <2>4. left = 0
    BY <2>1, <2>2 DEF Control, Ended
  <2>5. n = (1 + Len(works)) * LoopCount /\ n \in Nat /\ LoopCount \in Nat
    BY <2>1, LoopCounts DEF Control
  <2>6. work = (Rate(bench) * kernel.div) * ((n \div kernel.div) - left)
    BY <2>1, <2>2 DEF PassesWork, InnerWalks
  <2>7. work = bench.ops_per_loop * n
    BY <2>2, <2>3, <2>4, <2>5, <2>6
  <2>8. Len(works') = Len(works) + 1 /\ works'[Len(works) + 1] = work
        /\ \A i \in 1 .. Len(works) : works'[i] = works[i]
    BY <2>1
  <2>9. PICK l \in Nat, o \in Nat, c \in Nat : l = Len(works) /\ o = bench.ops_per_loop /\ c = LoopCount
    BY <2>1, <2>2, <2>5
  <2>10. work = (l + 1) * (c * o)
    <3>1. work = o * ((1 + l) * c)
      BY <2>5, <2>7, <2>9
    <3> HIDE <2>5, <2>6, <2>7
    <3> QED BY <3>1
  <2>11. \A i \in 1 .. l + 1 : i \in 1 .. l \/ i = l + 1
    OBVIOUS
  <2> QED BY <1>1, <1>2, <2>8, <2>9, <2>10, <2>11
<1>4. CASE ~Return
  <2>1. works' = works
    BY <1>4 DEF Next, Make, Call, Pass, StartLines, LinearLines, CycleLines, vars
  <2> QED BY <1>1, <1>2, <2>1
<1> QED BY <1>3, <1>4

LEMMA LinearLoop ==
  ASSUME Control, kernel.walk = "lines"
  PROVE  /\ Lines \in Nat \ {0} /\ bench.size = 64 * Lines /\ bench.ops_per_loop = Lines
         /\ bench.stride = 64 /\ kernel.lead \in 0 .. Lines /\ kernel.chunk \in Nat \ {0}
         /\ kernel.by = 1 /\ kernel.div = 1 /\ kernel.again = "nz" /\ ~bench.loop_delta
         /\ kernel.place = "arg" /\ bench.extra \in Nat /\ left \in Int /\ n \in Nat /\ work \in Nat
<1>1. LinesFits(bench)
  BY KindOf DEF Control, kernel
<1>2. kernel \in Kernel /\ bench.extra \in Nat
  BY KindOf DEF Control, kernel, Typed
<1>3. kernel.lead \in Nat /\ kernel.chunk \in Nat
  BY <1>2 DEF Kernel
<1> QED BY <1>1, <1>2, <1>3 DEF LinesFits, OnLines, Lines, LinesIn, kernel, Control, UB_CACHE_LINE_SIZE

LEMMA CycleLoop ==
  ASSUME Control, kernel.walk = "cycle"
  PROVE  /\ Lines \in Nat \ {0} /\ bench.size = 64 * Lines /\ bench.ops_per_loop = Lines
         /\ bench.stride = 64 /\ kernel.lead = 0 /\ kernel.ops = 0
         /\ kernel.by = 1 /\ kernel.div = 1 /\ kernel.again \in {"gt", "once"} /\ ~bench.loop_delta
         /\ kernel.place = "arg" /\ bench.extra \in Nat /\ left \in Int /\ n \in Nat /\ work \in Nat
<1>1. CycleFits(bench)
  BY KindOf DEF Control, kernel
<1>2. bench.extra \in Nat
  BY KindOf DEF Control, kernel, Typed
<1> QED BY <1>1, <1>2 DEF CycleFits, OnLines, Lines, LinesIn, kernel, Control, UB_CACHE_LINE_SIZE

LEMMA Started ==
  ASSUME Control, Call, kernel.walk \notin {"still", "next"}
  PROVE  n' = LoopCount /\ n' - left' = 0 /\ left' = n' /\ work' = 0 /\ pos' = 0 /\ touched' = {}
<1>1. kernel.div = 1
  BY Loops DEF Control, kernel
<1>2. n' = LoopCount /\ left' = n' \div kernel.div /\ n' \in Nat
  BY Calling
<1>3. left' = n' /\ n' - left' = 0
  BY <1>1, <1>2
<1> QED BY <1>2, <1>3 DEF Call

LEMMA LinearWorkKept ==
  ASSUME Control, LinearWork, [Next]_vars
  PROVE  LinearWork'
<1> SUFFICES ASSUME kernel'.walk = "lines"
             PROVE  LinearWork'
  BY DEF LinearWork
<1>1. bench' = bench /\ kernel' = kernel /\ Lines' = Lines /\ kernel.walk = "lines"
  BY SameBench DEF Next, Make, Call, Pass, StartLines, LinearLines, CycleLines, Return, vars
<1>2. PICK L \in Nat \ {0}, lead \in Nat, chunk \in Nat \ {0} :
        L = Lines /\ lead = kernel.lead /\ chunk = kernel.chunk /\ lead <= L
  <2>1. Lines \in Nat \ {0} /\ kernel.lead \in 0 .. Lines /\ kernel.chunk \in Nat \ {0}
    BY <1>1, LinearLoop
  <2> QED BY <2>1
<1>3. left \in Int /\ n \in Nat /\ work \in Nat /\ kernel.by = 1
  BY <1>1, LinearLoop
<1>4. CASE Call
  <2>1. n' - left' = 0 /\ work' = 0 /\ pc' = "pass"
    BY <1>1, <1>4, Started DEF Call
  <2>2. 0 - 0 * L \in 0 .. 0 * chunk
    BY <1>2
  <2> QED BY <1>1, <1>2, <2>1, <2>2 DEF LinearWork
<1>5. CASE StartLines
  <2>1. pc = "pass" /\ pc' = "inner" /\ inner' = L - lead /\ pos' = 0 /\ n' = n /\ left' = left
        /\ work' = work
    BY <1>2, <1>5 DEF StartLines
  <2>2. PICK j \in Int, jL \in Int, jc \in Int : j = n - left /\ jL = j * L /\ jc = j * chunk
    BY <1>2, <1>3
  <2>3. work - jL \in 0 .. jc
    BY <1>1, <1>2, <2>1, <2>2 DEF LinearWork
  <2>4. inner' \in 0 .. L - lead /\ pos' = 64 * (L - lead - inner')
        /\ work' - jL - (L - lead - inner') \in 0 .. jc
    <3> HIDE <2>2
    <3>1. L - lead - inner' = 0
      BY <1>2, <2>1
    <3>2. work' - jL - 0 \in 0 .. jc
      BY <1>3, <2>1, <2>3
    <3> QED BY <1>2, <2>1, <3>1, <3>2
  <2> QED BY <1>1, <1>2, <2>1, <2>2, <2>4 DEF LinearWork
<1>6. CASE LinearLines
  <2>1. PICK j \in Int, jL \in Int, jc \in Int : j = n - left /\ jL = j * L /\ jc = j * chunk
    BY <1>2, <1>3
  <2>2. inner \in 0 .. L - lead /\ pos = 64 * (L - lead - inner)
        /\ work - jL - (L - lead - inner) \in 0 .. jc
    BY <1>1, <1>2, <1>6, <2>1 DEF LinearWork, LinearLines
  <2>3. inner' = inner - chunk /\ pos' = pos + chunk * 64 /\ n' = n
    BY <1>2, <1>6 DEF LinearLines, UB_CACHE_LINE_SIZE
  <2>4. CASE inner' < 0
    <3>1. Count /\ work' = work + chunk + lead
      BY <1>2, <1>6, <2>4 DEF LinearLines
    <3>2. left' = left - 1 /\ pc' \in {"pass", "returned"}
      BY <1>3, <1>6, <3>1, <1>1, Counting DEF LinearLines
    <3>3. n' - left' = j + 1
      BY <1>3, <2>1, <2>3, <3>2
    <3>4. (j + 1) * L = jL + L /\ (j + 1) * chunk = jc + chunk
      BY <1>2, <2>1
    <3>5. work' - (jL + L) \in 0 .. (jc + chunk)
      <4> HIDE <2>1, <3>4
      <4> QED BY <1>2, <1>3, <2>2, <2>3, <2>4, <3>1
    <3>6. work' - (n' - left') * L \in 0 .. (n' - left') * chunk
      BY <3>3, <3>4, <3>5
    <3> QED BY <1>1, <1>2, <3>2, <3>6 DEF LinearWork
  <2>5. CASE ~(inner' < 0)
    <3>1. left' = left /\ pc' = "inner" /\ work' = work + chunk + 0
      BY <1>2, <1>6, <2>5 DEF LinearLines
    <3>2. /\ inner' \in 0 .. L - lead /\ pos' = 64 * (L - lead - inner')
          /\ work' - jL - (L - lead - inner') \in 0 .. jc
      <4> HIDE <2>1
      <4> QED BY <1>2, <1>3, <2>2, <2>3, <2>5, <3>1
    <3> QED BY <1>1, <1>2, <2>1, <2>3, <3>1, <3>2 DEF LinearWork
  <2> QED BY <2>4, <2>5
<1>7. CASE UNCHANGED vars
  BY <1>1, <1>7 DEF vars, LinearWork
<1>8. CASE Make \/ Return
  BY <1>1, <1>8 DEF Make, Return, LinearWork
<1>9. ~Pass /\ ~CycleLines
  BY <1>1 DEF Pass, CycleLines, InnerWalks
<1> QED BY <1>4, <1>5, <1>6, <1>7, <1>8, <1>9 DEF Next

LEMMA CycleWorkKept ==
  ASSUME Control, CycleWork, [Next]_vars
  PROVE  CycleWork'
<1> SUFFICES ASSUME kernel'.walk = "cycle"
             PROVE  CycleWork'
  BY DEF CycleWork
<1>1. bench' = bench /\ kernel' = kernel /\ Lines' = Lines /\ kernel.walk = "cycle"
  BY SameBench DEF Next, Make, Call, Pass, StartLines, LinearLines, CycleLines, Return, vars
<1>2. PICK L \in Nat \ {0} : L = Lines /\ bench.size = 64 * L
  BY <1>1, CycleLoop
<1>3. left \in Int /\ n \in Nat /\ work \in Nat /\ kernel.by = 1
  BY <1>1, CycleLoop
<1>4. CASE Call
  <2>1. n' - left' = 0 /\ work' = 0 /\ pc' = "pass"
    BY <1>1, <1>4, Started DEF Call
  <2>2. 0 * L = 0
    BY <1>2
  <2> QED BY <1>1, <1>2, <2>1, <2>2 DEF CycleWork
<1>5. CASE StartLines
  <2>1. pc = "pass" /\ pc' = "inner" /\ pos' = 0 /\ n' = n /\ left' = left /\ work' = work
    BY <1>5 DEF StartLines
  <2>2. work = (n - left) * L /\ (n - left) * L \in Int
    BY <1>1, <1>2, <1>3, <2>1 DEF CycleWork
  <2>3. 0 \in 0 .. L - 1 /\ pos' = 64 * 0 /\ work' = (n' - left') * L + 0
    BY <1>2, <2>1, <2>2
  <2> QED BY <1>1, <1>2, <2>1, <2>3 DEF CycleWork
<1>6. CASE CycleLines
  <2>1. PICK m \in 0 .. L - 1 : pos = 64 * m /\ work = (n - left) * L + m
    BY <1>1, <1>2, <1>6 DEF CycleWork, CycleLines
  <2>2. PICK j \in Int, jL \in Int : j = n - left /\ jL = j * L
    BY <1>2, <1>3
  <2>3. pos' = 64 * ((m + 1) % L)
    <3>1. pos' = (64 * (m + 1)) % (64 * L)
      <4>1. pos' = (pos + 64) % bench.size
        BY <1>6 DEF CycleLines, UB_CACHE_LINE_SIZE
      <4>2. pos + 64 = 64 * (m + 1)
        BY <2>1
      <4> QED BY <1>2, <4>1, <4>2, Zenon
    <3>2. \A a \in Nat : (64 * a) % (64 * L) = 64 * (a % L)
      BY <1>2, LineRemainder
    <3>3. m + 1 \in Nat
      BY <2>1
    <3> QED BY <3>1, <3>2, <3>3, Zenon
  <2>4. n' = n /\ work' = work + 1
    BY <1>6 DEF CycleLines
  <2>5. CASE m + 1 = L
    <3>1. (m + 1) % L = 0
      BY <2>5
    <3>2. pos' = 0 /\ Count
      BY <1>6, <2>3, <3>1 DEF CycleLines
    <3>3. left' = left - 1 /\ pc' \in {"pass", "returned"}
      BY <1>1, <1>3, <1>6, <3>2, Counting DEF CycleLines
    <3>4. n' - left' = j + 1 /\ (j + 1) * L = jL + L
      BY <1>2, <1>3, <2>2, <2>4, <3>3
    <3>5. work' = (n' - left') * L
      BY <1>2, <2>1, <2>2, <2>4, <2>5, <3>4
    <3> QED BY <1>1, <1>2, <3>3, <3>5 DEF CycleWork
  <2>6. CASE m + 1 # L
    <3>1. m + 1 \in 0 .. L - 1 /\ (m + 1) % L = m + 1
      BY <1>2, <2>6
    <3>2. pos' = 64 * (m + 1) /\ pos' # 0
      BY <2>3, <3>1
    <3>3. left' = left /\ pc' = "inner"
      BY <1>6, <3>2 DEF CycleLines
    <3>4. work' = (n' - left') * L + (m + 1)
      BY <1>3, <2>1, <2>2, <2>4, <3>3
    <3> QED BY <1>1, <1>2, <3>1, <3>2, <3>3, <3>4 DEF CycleWork
  <2> QED BY <2>5, <2>6
<1>7. CASE UNCHANGED vars
  BY <1>1, <1>7 DEF vars, CycleWork
<1>8. CASE Make \/ Return
  BY <1>1, <1>8 DEF Make, Return, CycleWork
<1>9. ~Pass /\ ~LinearLines
  BY <1>1 DEF Pass, LinearLines, InnerWalks
<1> QED BY <1>4, <1>5, <1>6, <1>7, <1>8, <1>9 DEF Next

LEMMA Reported ==
  ASSUME Control, PassesWork, LinearWork, CycleWork, CallsWork
  PROVE  OpsAsReported
<1> DEFINE asked == n * bench.ops_per_loop
<1>1. ASSUME pc = "returned", kernel # mul_by_bench
      PROVE  CASE kernel.walk = "lines" -> work - asked \in 0 .. n * kernel.chunk
               [] kernel.walk # "lines" /\ kernel.again = "nz" -> work = asked
               [] OTHER -> work - asked \in 0 .. kernel.ops
  <2>1. Ended /\ n \in Nat /\ left \in Int /\ work \in Nat
    BY <1>1 DEF Control
  <2>2. CASE kernel.walk = "lines"
    <3>1. left = 0 /\ bench.ops_per_loop = Lines /\ Lines \in Nat
      BY <2>1, <2>2, LinearLoop DEF Ended
    <3>2. n - left = n
      BY <2>1, <3>1
    <3>3. work - n * Lines \in 0 .. n * kernel.chunk
      BY <1>1, <2>2, <3>2 DEF LinearWork
    <3> QED BY <2>2, <3>1, <3>3
  <2>3. CASE kernel.walk = "cycle"
    <3>1. left = 0 /\ bench.ops_per_loop = Lines /\ Lines \in Nat /\ kernel.ops = 0
          /\ kernel.again \in {"gt", "once"}
      BY <2>1, <2>3, CycleLoop DEF Ended
    <3>2. n - left = n
      BY <2>1, <3>1
    <3>3. work = asked /\ asked \in Int
      BY <1>1, <2>1, <2>3, <3>1, <3>2 DEF CycleWork
    <3> HIDE DEF asked
    <3>4. work - asked \in 0 .. kernel.ops
      BY <3>1, <3>3
    <3> QED BY <2>3, <3>1, <3>4
  <2>4. CASE kernel.walk \notin InnerWalks
    <3>1. /\ Rate(bench) \in Nat /\ kernel.ops = kernel.by * (Rate(bench) * kernel.div)
          /\ Rate(bench) = bench.ops_per_loop
      BY <1>1, <2>4, RateOf DEF kernel, Control, OpsFit
    <3>2. /\ kernel.by \in Nat \ {0} /\ kernel.again \in {"nz", "gt", "ge", "once"}
          /\ kernel.div \in Nat \ {0} /\ (kernel.walk # "next" => kernel.div = 1)
      BY Loops DEF Control, kernel
    <3>3. work = (Rate(bench) * kernel.div) * ((n \div kernel.div) - left)
      BY <1>1, <2>4 DEF PassesWork
    <3>4. PICK o \in Nat : o = bench.ops_per_loop
      BY <3>1
    <3>5. CASE kernel.walk = "next"
      <4>1. kernel.div \in {1, 16} /\ kernel.again = "nz" /\ bench.loop_delta = FALSE
        BY <3>5, KindOf DEF Control, NextFits, kernel
      <4>2. n = 1024
        <5>1. LoopCount = 1024
          BY <3>5, LoopCounts DEF Control
        <5>2. Len(works) = 0
          <6>1. ~(Len(works) >= 1) /\ works \in Seq(Nat)
            BY <1>1, <4>1 DEF Control
          <6>2. Len(works) \in Nat
            BY <6>1
          <6> QED BY <6>1, <6>2
        <5>3. n = (1 + Len(works)) * LoopCount
          BY <1>1 DEF Control
        <5> QED BY <5>1, <5>2, <5>3
      <4>3. left = 0
        BY <2>1, <4>1 DEF Ended
      <4>4. work = (o * kernel.div) * ((1024 \div kernel.div) - 0)
        BY <3>1, <3>3, <3>4, <4>2, <4>3
      <4>5. work = o * 1024
        <5>1. CASE kernel.div = 1
          BY <4>4, <5>1
        <5>2. CASE kernel.div = 16
          BY <4>4, <5>2
        <5> QED BY <4>1, <5>1, <5>2
      <4>6. work = asked
        BY <3>4, <4>2, <4>5
      <4> QED BY <3>5, <4>1, <4>6
    <3>6. CASE kernel.walk # "next"
      <4>1. kernel.div = 1
        BY <3>2, <3>6
      <4>2. work = o * (n - left) /\ kernel.ops = o * kernel.by /\ asked = o * n
        BY <2>1, <3>1, <3>2, <3>3, <3>4, <4>1
      <4>3. o * (n - left) = o * n - o * left /\ o * n \in Int /\ o * left \in Int
            /\ o * (left + kernel.by) = o * left + o * kernel.by /\ o * kernel.by \in Int
        BY <2>1, <3>2, Distributed
      <4>4. left = 0 => work = asked
        BY <4>2, <4>3
      <4>5. left <= 0 /\ left + kernel.by >= 0 => o * left <= 0 /\ o * (left + kernel.by) >= 0
        BY <2>1, <3>2
      <4>6. left <= 0 /\ left + kernel.by >= 0 => work - asked \in 0 .. kernel.ops
        <5> HIDE DEF asked
        <5> QED BY <4>2, <4>3, <4>5
      <4>7. kernel.again = "nz" => left = 0
        BY <2>1 DEF Ended
      <4>8. kernel.again # "nz" => left <= 0 /\ left + kernel.by >= 0
        BY <2>1, <3>2 DEF Ended
      <4>9. kernel.walk # "lines"
        BY <2>4 DEF InnerWalks
      <4> QED BY <4>4, <4>6, <4>7, <4>8, <4>9
    <3> QED BY <3>5, <3>6
  <2> QED BY <2>2, <2>3, <2>4 DEF InnerWalks
<1>2. ASSUME pc = "end", Len(works) = 2
      PROVE  works[2] - works[1] = LoopCount * bench.ops_per_loop
  <2>1. bench.loop_delta /\ LoopCount \in Nat /\ bench.ops_per_loop \in Nat
    BY <1>2, Loops, LoopCounts DEF Control
  <2>2. works[1] = 1 * (LoopCount * bench.ops_per_loop) /\ works[2] = 2 * (LoopCount * bench.ops_per_loop)
    BY <1>2, <2>1 DEF CallsWork
  <2>3. PICK c \in Nat : c = LoopCount * bench.ops_per_loop
    BY <2>1
  <2> QED BY <2>2, <2>3
<1> QED BY <1>1, <1>2 DEF OpsAsReported

-----------------------------------------------------------------------------
(* The invariant's part about memory. *)

Ceiling == bench.size + bench.extra + IF kernel.walk = "lines" THEN kernel.chunk * 64 ELSE 0

(* Where the accesses of a benchmark may begin and end. *)
Allowed(first, last) ==
  kernel \notin Overrunning =>
    /\ kernel.place = "arg" => first >= 0 /\ last <= Ceiling
    /\ kernel.place = "frame" => first >= -128 /\ last <= kernel.frame
    /\ kernel.place = "array" => first >= 0 /\ last <= kernel.frame

(* Where a walk may stand. *)
Placed ==
  /\ pos \in Int
  /\ kernel.walk = "still" => pos = 0
  /\ kernel.walk = "next" /\ kernel \notin Overrunning /\ pc \in {"pass", "returned"} =>
       /\ left <= n \div kernel.div /\ n \div kernel.div <= 1024
       /\ pos = -4 * ((n \div kernel.div) - left)
  /\ kernel.walk = "chase" => \E m \in 0 .. Lines - 1 : pos = 64 * m
  /\ kernel.walk = "wrap" => \E m \in Nat : pos = 64 * m /\ m + 92 <= Lines
  /\ kernel.walk = "mask" => /\ pos \in 0 .. bench.size - 1
                             /\ kernel.again = "nz" => \E m \in 0 .. Lines - 1 : pos = 64 * m

Reached ==
  /\ low \in Int /\ high \in Int /\ touched \subseteq Nat
  /\ Allowed(low, high)

LEMMA AllowedInside == Allowed(low, high) => InsideMemory
<1> SUFFICES ASSUME Allowed(low, high), kernel \notin Overrunning
             PROVE  CASE kernel.place = "arg" ->
                           /\ low >= 0
                           /\ high <= bench.size + bench.extra
                                + IF kernel.walk = "lines" THEN kernel.chunk * UB_CACHE_LINE_SIZE ELSE 0
                      [] kernel.place = "frame" -> low >= -128 /\ high <= kernel.frame
                      [] kernel.place = "array" -> low >= 0 /\ high <= kernel.frame
                      [] OTHER -> TRUE
  BY DEF InsideMemory
<1>1. CASE kernel.place = "arg"
  BY <1>1 DEF Allowed, Ceiling, UB_CACHE_LINE_SIZE
<1>2. CASE kernel.place = "frame"
  BY <1>2 DEF Allowed
<1>3. CASE kernel.place = "array"
  BY <1>3 DEF Allowed
<1>4. CASE kernel.place \notin {"arg", "frame", "array"}
  BY <1>4
<1> QED BY <1>1, <1>2, <1>3, <1>4

(* All that is touched in a step is where it may be. *)
LEMMA Reaching ==
  ASSUME Control, Reached, bench' = bench, NEW first \in Int, NEW last \in Int, NEW ranges,
         ranges \subseteq Within(first, last), Allowed(first, last),
         kernel.walk \in Walks => first >= 0, Touch(ranges)
  PROVE  Reached'
<1>1. kernel' = kernel /\ Ceiling' = Ceiling
  BY SameBench DEF Ceiling
<1>2. kernel.frame \in Nat /\ Ceiling \in Int
  <2>1. kernel \in Kernel /\ bench.size \in Nat /\ bench.extra \in Nat
    BY KindOf DEF Control, Typed, kernel
  <2>2. kernel.frame \in Nat /\ kernel.chunk \in Nat
    BY <2>1 DEF Kernel
  <2> QED BY <2>1, <2>2 DEF Ceiling
<1>3. /\ low' \in Int /\ high' \in Int
      /\ \A f \in Int : f <= first /\ f <= low => f <= low'
      /\ \A l \in Int : last <= l /\ high <= l => high' <= l
  BY Touching DEF Reached
<1>4. touched' \subseteq Nat
  BY Touching DEF Reached
<1>5. low \in Int /\ high \in Int /\ Allowed(low, high)
  BY DEF Reached
<1>6. ASSUME kernel \notin Overrunning, kernel.place = "arg"
      PROVE  low' >= 0 /\ high' <= Ceiling
  BY <1>2, <1>3, <1>5, <1>6 DEF Allowed
<1>7. ASSUME kernel \notin Overrunning, kernel.place = "frame"
      PROVE  low' >= -128 /\ high' <= kernel.frame
  BY <1>2, <1>3, <1>5, <1>7 DEF Allowed
<1>8. ASSUME kernel \notin Overrunning, kernel.place = "array"
      PROVE  low' >= 0 /\ high' <= kernel.frame
  BY <1>2, <1>3, <1>5, <1>8 DEF Allowed
<1>9. Allowed(low, high)'
  BY <1>1, <1>6, <1>7, <1>8 DEF Allowed
<1> QED BY <1>3, <1>4, <1>9 DEF Reached

(* What a pass touches. *)
From(starts, access) == {<<start + r[1], start + r[2]>> : start \in starts, r \in access}
PassRanges == From(Starts, kernel.access) \union kernel.also

Spans(ranges, first, last) == ranges \subseteq Within(first, last)

(* What is between first and last, from each start, is between f and l. *)
Shifts(starts, first, last, f, l) ==
  /\ {first, last, f, l} \subseteq Int
  /\ \A start \in starts : start \in Int /\ f <= start + first /\ start + last <= l

LEMMA Shifted ==
  ASSUME NEW starts, NEW access, NEW first, NEW last, NEW f, NEW l,
         Spans(access, first, last), Shifts(starts, first, last, f, l)
  PROVE  Spans(From(starts, access), f, l)
<1> SUFFICES ASSUME NEW start \in starts, NEW r \in access
             PROVE  <<start + r[1], start + r[2]>> \in Within(f, l)
  BY DEF From, Spans
<1>1. start \in Int /\ f <= start + first /\ start + last <= l
      /\ first \in Int /\ last \in Int /\ f \in Int /\ l \in Int
  BY DEF Shifts
<1>2. r[1] \in Int /\ r[2] \in Int /\ first <= r[1] /\ r[1] <= r[2] /\ r[2] <= last
  BY DEF Within, Spans
<1> QED BY <1>1, <1>2 DEF Within

LEMMA Regions ==
  ASSUME Control, kernel.walk \in {"chase", "wrap", "mask"}
  PROVE  /\ Lines \in Nat \ {0} /\ bench.size = 64 * Lines /\ bench.extra \in Nat
         /\ kernel.place = "arg" /\ Ceiling = bench.size + bench.extra /\ ~bench.loop_delta
         /\ LinesIn(bench) = Lines
<1>1. OnLines(bench) /\ bench.extra \in Nat /\ bench.size \in Nat
  BY KindOf DEF Control, kernel, Typed, ChaseFits, WrapFits, MaskFits
<1> QED BY <1>1 DEF OnLines, Lines, LinesIn, kernel, UB_CACHE_LINE_SIZE, Ceiling

LEMMA PassWithin ==
  ASSUME Control, Placed, pc = "pass", kernel.walk \notin InnerWalks
  PROVE  \E first, last \in Int :
           /\ PassRanges \subseteq Within(first, last) /\ Allowed(first, last)
           /\ kernel.walk \in Walks => first >= 0
<1>1. CASE kernel.walk = "still"
  <2>1. StillFits(bench) /\ bench.size \in Nat /\ bench.extra \in Nat /\ kernel \in Kernel
    BY <1>1, KindOf DEF Control, kernel, Typed
  <2>2. Starts = {0} /\ kernel.also = {} /\ kernel.walk \notin Walks
    BY <1>1, <2>1 DEF Starts, Placed, StillFits, Still, kernel, Walks, InnerWalks
  <2>3. ASSUME NEW first \in Int, NEW last \in Int, kernel.access \subseteq Within(first, last)
        PROVE  PassRanges \subseteq Within(first, last)
    <3>1. Spans(kernel.access, first, last) /\ Shifts(Starts, first, last, first, last)
      BY <2>2, <2>3 DEF Spans, Shifts
    <3>2. Spans(From(Starts, kernel.access), first, last)
      BY <3>1, Shifted
    <3> QED BY <2>2, <3>2 DEF PassRanges, Spans
  <2>4. \E first, last \in Int : kernel.access \subseteq Within(first, last) /\ Allowed(first, last)
    <3>1. CASE kernel \in Overrunning
      BY <2>1, <3>1 DEF StillFits, Still, kernel, Allowed
    <3>2. CASE kernel \notin Overrunning
      <4>1. Inside(kernel, bench.size + bench.extra)
        BY <2>1, <3>2 DEF StillFits, kernel
      <4>2. kernel.frame \in Nat /\ Ceiling = bench.size + bench.extra + 0
        BY <1>1, <2>1 DEF Kernel, Ceiling
      <4>3. CASE kernel.place = "none" /\ kernel.access = {}
        BY <4>3 DEF Allowed
      <4>4. CASE kernel.place = "arg" /\ kernel.access \subseteq Within(0, bench.size + bench.extra)
        BY <2>1, <4>2, <4>4 DEF Allowed
      <4>5. CASE kernel.place = "frame" /\ kernel.access \subseteq Within(-128, kernel.frame)
        BY <4>2, <4>5 DEF Allowed
      <4>6. CASE kernel.place = "array" /\ kernel.access \subseteq Within(0, kernel.frame)
        BY <4>2, <4>6 DEF Allowed
      <4> QED BY <4>1, <4>3, <4>4, <4>5, <4>6 DEF Inside
    <3> QED BY <3>1, <3>2
  <2> QED BY <2>2, <2>3, <2>4
<1>2. CASE kernel.walk = "next"
  <2>1. /\ NextFits(bench) /\ kernel.again = "nz" /\ kernel.walk \notin Walks /\ kernel.also = {}
        /\ kernel.access \subseteq Within(0, 4096)
        /\ kernel \notin Overrunning => /\ kernel.place = "frame" /\ kernel.frame = 4096
                                        /\ kernel.access \subseteq Within(4092, 4096)
    BY <1>2, KindOf DEF Control, kernel, NextFits, Walks, InnerWalks
  <2>2. pos \in Int /\ Starts = {pos} /\ Starts \subseteq pos .. pos
    BY <1>2 DEF Placed, Starts
  <2>3. CASE kernel \in Overrunning
    <3>1. PICK last \in Int : last = pos + 4096
      BY <2>2
    <3>2. Spans(kernel.access, 0, 4096) /\ Shifts(Starts, 0, 4096, pos, last)
      BY <2>1, <2>2, <3>1 DEF Spans, Shifts
    <3>3. Spans(From(Starts, kernel.access), pos, last)
      BY <3>2, Shifted
    <3>4. PassRanges \subseteq Within(pos, last)
      BY <2>1, <3>3 DEF PassRanges, Spans
    <3>5. Allowed(pos, last)
      BY <2>3 DEF Allowed
    <3> QED BY <2>1, <2>2, <3>4, <3>5
  <2>4. CASE kernel \notin Overrunning
    <3>1. pos + 4092 >= 0 /\ pos + 4096 <= 4096
      <4>1. left >= 1 /\ left \in Int
        BY <2>1 DEF Control, Going
      <4>2. /\ left <= n \div kernel.div /\ n \div kernel.div <= 1024
            /\ pos = -4 * ((n \div kernel.div) - left)
        BY <1>2, <2>4 DEF Placed
      <4>3. n \div kernel.div \in Int
        BY Loops DEF Control, kernel
      <4> QED BY <4>1, <4>2, <4>3
    <3>2. Spans(kernel.access, 4092, 4096) /\ Shifts(Starts, 4092, 4096, 0, 4096)
      BY <2>1, <2>2, <2>4, <3>1 DEF Spans, Shifts
    <3>3. Spans(From(Starts, kernel.access), 0, 4096)
      BY <3>2, Shifted
    <3>4. Allowed(0, 4096)
      BY <2>1, <2>4 DEF Allowed
    <3> QED BY <2>1, <3>3, <3>4 DEF PassRanges, Spans
  <2> QED BY <2>3, <2>4
<1>3. CASE kernel.walk = "chase"
  <2>1. /\ kernel.also = {} /\ kernel.access \subseteq Within(0, 64) /\ kernel.stride \in {1, 2}
    BY <1>3, KindOf DEF Control, kernel, ChaseFits
  <2>2. PICK L \in Nat \ {0} : L = Lines /\ bench.size = 64 * L
    BY <1>3, Regions
  <2>3. PICK m \in 0 .. L - 1 : pos = 64 * m
    BY <1>3, <2>2 DEF Placed
  <2>4. Starts \subseteq 0 .. 64 * L - 64
    <3> SUFFICES ASSUME NEW k \in 0 .. kernel.stride - 1
                 PROVE  (pos + k * 64) % bench.size \in 0 .. 64 * L - 64
      BY <1>3 DEF Starts, UB_CACHE_LINE_SIZE
    <3>1. k \in Nat /\ m + k \in Nat
      BY <2>1
    <3>2. pos + k * 64 = 64 * (m + k)
      BY <2>3, <3>1
    <3>3. (64 * (m + k)) % (64 * L) = 64 * ((m + k) % L)
      BY <3>1, LineRemainder
    <3>4. (m + k) % L \in 0 .. L - 1
      BY <3>1
    <3>5. 64 * ((m + k) % L) \in 0 .. 64 * L - 64
      BY <3>4
    <3> QED BY <2>2, <3>2, <3>3, <3>5
  <2>5. PICK last \in Int : last = 64 * L
    BY <2>2
  <2>6. Spans(kernel.access, 0, 64) /\ Shifts(Starts, 0, 64, 0, last)
    BY <2>1, <2>2, <2>4, <2>5 DEF Spans, Shifts
  <2>7. Spans(From(Starts, kernel.access), 0, last)
    BY <2>6, Shifted
  <2>8. Allowed(0, last)
    BY <1>3, <2>2, <2>5, Regions DEF Allowed
  <2>9. PassRanges \subseteq Within(0, last)
    BY <2>1, <2>7 DEF PassRanges, Spans
  <2>10. 0 >= 0 /\ 0 \in Int
    OBVIOUS
  <2> QED BY <2>5, <2>8, <2>9, <2>10
<1>4. CASE kernel.walk = "wrap"
  <2>1. /\ kernel.also = {} /\ kernel.access \subseteq Within(0, 5888)
    BY <1>4, KindOf DEF Control, kernel, WrapFits
  <2>2. PICK L \in Nat \ {0} : L = Lines /\ bench.size = 64 * L
    BY <1>4, Regions
  <2>3. Starts \subseteq 0 .. 64 * L - 5888
    BY <1>4, <2>2 DEF Placed, Starts
  <2>4. PICK last \in Int : last = 64 * L
    BY <2>2
  <2>5. Spans(kernel.access, 0, 5888) /\ Shifts(Starts, 0, 5888, 0, last)
    BY <2>1, <2>2, <2>3, <2>4 DEF Spans, Shifts
  <2>6. Spans(From(Starts, kernel.access), 0, last)
    BY <2>5, Shifted
  <2>7. Allowed(0, last)
    BY <1>4, <2>2, <2>4, Regions DEF Allowed
  <2> QED BY <2>1, <2>6, <2>7 DEF PassRanges, Spans
<1>5. CASE kernel.walk = "mask"
  <2>1. PICK L \in Nat \ {0}, x \in Nat : L = Lines /\ bench.size = 64 * L /\ x = bench.extra
    BY <1>5, Regions
  <2>2. /\ kernel.also \subseteq Within(0, 64 * L + x)
        /\ \/ kernel.again = "nz" /\ kernel.access \subseteq Within(0, 64)
           \/ x = 1024 /\ kernel.access \subseteq Within(0, 1024)
    BY <1>5, <2>1, KindOf DEF Control, kernel, MaskFits
  <2>3. Starts = {pos} /\ pos \in 0 .. 64 * L - 1
        /\ (kernel.again = "nz" => \E m \in 0 .. L - 1 : pos = 64 * m)
    BY <1>5, <2>1 DEF Placed, Starts
  <2>4. PICK last \in Int : last = 64 * L + x
    BY <2>1
  <2>5. Allowed(0, last)
    BY <1>5, <2>1, <2>4, Regions DEF Allowed
  <2>6. Spans(From(Starts, kernel.access), 0, last)
    <3>1. CASE kernel.again = "nz" /\ kernel.access \subseteq Within(0, 64)
      <4>1. Spans(kernel.access, 0, 64) /\ Shifts(Starts, 0, 64, 0, last)
        BY <2>1, <2>3, <2>4, <3>1 DEF Spans, Shifts
      <4> QED BY <4>1, Shifted
    <3>2. CASE x = 1024 /\ kernel.access \subseteq Within(0, 1024)
      <4>1. Spans(kernel.access, 0, 1024) /\ Shifts(Starts, 0, 1024, 0, last)
        BY <2>1, <2>3, <2>4, <3>2 DEF Spans, Shifts
      <4> QED BY <4>1, Shifted
    <3> QED BY <2>2, <3>1, <3>2
  <2> QED BY <2>2, <2>4, <2>5, <2>6 DEF PassRanges, Spans
<1> QED BY <1>1, <1>2, <1>3, <1>4, <1>5, KindOf DEF Control, kernel, InnerWalks

LEMMA NextPlaced ==
  ASSUME Control, Placed, kernel.walk \notin InnerWalks, pc = "pass"
  PROVE  /\ NextPos \in Int
         /\ kernel.walk = "still" => NextPos = 0
         /\ kernel.walk = "next" /\ kernel \notin Overrunning => NextPos = pos - 4
         /\ kernel.walk = "chase" => \E m \in 0 .. Lines - 1 : NextPos = 64 * m
         /\ kernel.walk = "wrap" => \E m \in Nat : NextPos = 64 * m /\ m + 92 <= Lines
         /\ kernel.walk = "mask" =>
              /\ NextPos \in 0 .. bench.size - 1
              /\ kernel.again = "nz" => \E m \in 0 .. Lines - 1 : NextPos = 64 * m
<1>1. CASE kernel.walk = "still"
  BY <1>1 DEF NextPos, Placed
<1>2. CASE kernel.walk = "next"
  <2>1. kernel \notin Overrunning => kernel.stride = -4
    BY <1>2, KindOf DEF Control, kernel, NextFits
  <2>2. kernel.stride \in Int /\ pos \in Int /\ NextPos = pos + kernel.stride
    BY <1>2, Loops DEF Control, kernel, Kernel, Placed, NextPos
  <2> QED BY <1>2, <2>1, <2>2
<1>3. CASE kernel.walk = "chase"
  <2>1. PICK L \in Nat \ {0} : L = Lines /\ bench.size = 64 * L
    BY <1>3, Regions
  <2>2. PICK m \in 0 .. L - 1 : pos = 64 * m
    BY <1>3, <2>1 DEF Placed
  <2>3. PICK s \in Nat : s = kernel.stride
    BY <1>3, KindOf DEF Control, kernel, ChaseFits
  <2>4. NextPos = (pos + s * 64) % (64 * L)
    BY <1>3, <2>1, <2>3 DEF NextPos, UB_CACHE_LINE_SIZE
  <2>5. PICK a \in Nat : a = m + s
    BY <2>2, <2>3
  <2>6. pos + s * 64 = 64 * a
    BY <2>2, <2>5
  <2>7. (64 * a) % (64 * L) = 64 * (a % L) /\ a % L \in 0 .. L - 1
    <3>1. \A x \in Nat : (64 * x) % (64 * L) = 64 * (x % L)
      BY LineRemainder
    <3>2. a % L \in 0 .. L - 1
      BY Divided
    <3> QED BY <3>1, <3>2, Zenon
  <2>8. NextPos = 64 * (a % L)
    BY <2>4, <2>6, <2>7, Zenon
  <2> QED BY <1>3, <2>1, <2>7, <2>8
<1>4. CASE kernel.walk = "wrap"
  <2>1. PICK L \in Nat \ {0} : L = Lines /\ bench.size = 64 * L
    BY <1>4, Regions
  <2>2. PICK m \in Nat : pos = 64 * m /\ m + 92 <= L
    BY <1>4, <2>1 DEF Placed
  <2>3. L >= 256 /\ kernel.lead = 12480 /\ kernel.stride = 6656
    BY <1>4, <2>1, KindOf DEF Control, kernel, WrapFits
  <2>4. NextPos = IF pos + 12480 >= 64 * L THEN pos + 12480 - 64 * L ELSE pos + 6656
    BY <1>4, <2>1, <2>3 DEF NextPos
  <2>5. CASE pos + 12480 >= 64 * L
    <3>1. m + 195 >= L
      BY <2>2, <2>5
    <3>2. PICK back \in Nat : back = m + 195 - L
      BY <2>2, <3>1
    <3>3. NextPos = pos + 12480 - 64 * L
      BY <2>4, <2>5
    <3>4. NextPos = 64 * back
      BY <2>2, <3>2, <3>3
    <3>5. back + 92 <= L
      BY <2>2, <2>3, <3>2
    <3> QED BY <1>4, <2>1, <3>4, <3>5
  <2>6. CASE ~(pos + 12480 >= 64 * L)
    <3>1. m + 195 < L
      BY <2>2, <2>6
    <3>2. PICK on \in Nat : on = m + 104
      BY <2>2
    <3>3. NextPos = pos + 6656
      BY <2>4, <2>6
    <3>4. NextPos = 64 * on
      BY <2>2, <3>2, <3>3
    <3>5. on + 92 <= L
      BY <2>2, <3>1, <3>2
    <3> QED BY <1>4, <2>1, <3>4, <3>5
  <2> QED BY <2>5, <2>6
<1>5. CASE kernel.walk = "mask"
  <2>1. PICK L \in Nat \ {0} : L = Lines /\ bench.size = 64 * L
    BY <1>5, Regions
  <2>2. kernel.stride \in Nat /\ (kernel.again = "nz" => kernel.stride \in {64 * 67, 64 * 199})
    <3>1. MaskFits(bench)
      BY <1>5, KindOf DEF Control, kernel
    <3>2. CASE kernel.again = "nz" /\ kernel.stride \in {64 * 67, 64 * 199}
      BY <3>2
    <3>3. CASE kernel.again = "gt" /\ bench.stride \in {1, 2, 4, 8, 16, 32, 64, 128}
                 /\ kernel.stride = 4 * bench.stride
      BY <3>3
    <3> QED BY <3>1, <3>2, <3>3 DEF MaskFits, kernel
  <2>3. pos \in Int /\ NextPos = (pos + kernel.stride) % (64 * L)
    BY <1>5, <2>1 DEF NextPos, Placed
  <2>4. NextPos \in 0 .. 64 * L - 1
    <3>1. PICK d \in Nat \ {0}, a \in Int : d = 64 * L /\ a = pos + kernel.stride
      BY <2>1, <2>2, <2>3
    <3>2. a % d \in 0 .. d - 1
      BY Divided
    <3> QED BY <2>3, <3>1, <3>2
  <2>5. ASSUME kernel.again = "nz"
        PROVE  \E m \in 0 .. L - 1 : NextPos = 64 * m
    <3>1. PICK m \in 0 .. L - 1 : pos = 64 * m
      BY <1>5, <2>1, <2>5 DEF Placed
    <3>2. PICK s \in Nat : kernel.stride = 64 * s
      BY <2>2, <2>5
    <3>3. PICK a \in Nat : a = m + s
      BY <3>1, <3>2
    <3>4. pos + kernel.stride = 64 * a
      BY <3>1, <3>2, <3>3
    <3>5. (64 * a) % (64 * L) = 64 * (a % L) /\ a % L \in 0 .. L - 1
      <4>1. \A x \in Nat : (64 * x) % (64 * L) = 64 * (x % L)
        BY LineRemainder
      <4>2. a % L \in 0 .. L - 1
        BY Divided
      <4> QED BY <4>1, <4>2, Zenon
    <3>6. NextPos = 64 * (a % L)
      BY <2>3, <3>4, <3>5, Zenon
    <3> QED BY <3>5, <3>6
  <2> QED BY <1>5, <2>1, <2>4, <2>5
<1> QED BY <1>1, <1>2, <1>3, <1>4, <1>5, KindOf DEF Control, kernel, InnerWalks

(* Every walk starts at the beginning. *)
LEMMA BeginningPlaced ==
  ASSUME Control
  PROVE  /\ kernel.walk \in {"chase", "mask"} => \E m \in 0 .. Lines - 1 : 0 = 64 * m
         /\ kernel.walk = "wrap" => \E m \in Nat : 0 = 64 * m /\ m + 92 <= Lines
         /\ kernel.walk = "mask" => 0 \in 0 .. bench.size - 1
<1>1. CASE kernel.walk \in {"chase", "wrap", "mask"}
  <2>1. PICK L \in Nat \ {0} : L = Lines /\ bench.size = 64 * L
    BY <1>1, Regions
  <2>2. kernel.walk = "wrap" => L >= 256
    BY <2>1, KindOf DEF Control, kernel, WrapFits
  <2>3. 0 \in 0 .. L - 1 /\ 0 \in Nat /\ 0 = 64 * 0 /\ 0 \in 0 .. 64 * L - 1
    OBVIOUS
  <2>4. kernel.walk = "wrap" => 0 + 92 <= L
    BY <2>2
  <2> QED BY <2>1, <2>3, <2>4
<1> QED BY <1>1

LEMMA PlacedKept ==
  ASSUME Control, Placed, [Next]_vars
  PROVE  Placed'
<1>1. bench' = bench /\ kernel' = kernel /\ Lines' = Lines
  BY SameBench DEF Next, Make, Call, Pass, StartLines, LinearLines, CycleLines, Return, vars
<1>2. CASE Call
  <2>1. pos' = 0
    BY <1>2 DEF Call
  <2>2. ASSUME kernel.walk = "next", kernel \notin Overrunning
        PROVE  /\ left' <= n' \div kernel.div /\ n' \div kernel.div <= 1024
               /\ 0 = -4 * ((n' \div kernel.div) - left')
    <3>1. n' = 1024 /\ left' = n' \div kernel.div
      BY <1>2, <2>2, Calling
    <3>2. kernel.div \in {1, 16}
      BY <2>2, KindOf DEF Control, kernel, NextFits
    <3>3. n' \div kernel.div \in Int /\ n' \div kernel.div <= 1024
      BY <3>1, <3>2
    <3> QED BY <3>1, <3>3
  <2> QED BY <1>1, <2>1, <2>2, BeginningPlaced DEF Placed
<1>3. CASE Pass
  <2>1. pos' = NextPos /\ kernel.walk \notin InnerWalks /\ pc = "pass" /\ Count /\ n' = n
    BY <1>3 DEF Pass
  <2>2. ASSUME kernel.walk = "next", kernel \notin Overrunning
        PROVE  /\ left' <= n' \div kernel.div /\ n' \div kernel.div <= 1024
               /\ NextPos = -4 * ((n' \div kernel.div) - left')
    <3>1. kernel.by = 1
      BY <2>2, KindOf DEF Control, kernel, NextFits
    <3>2. left' = left - 1 /\ left \in Int
      BY <1>1, <2>1, <3>1, Counting DEF Control
    <3>3. NextPos = pos - 4
      BY <2>1, <2>2, NextPlaced
    <3>4. /\ left <= n \div kernel.div /\ n \div kernel.div <= 1024
          /\ pos = -4 * ((n \div kernel.div) - left)
      BY <2>1, <2>2 DEF Placed
    <3>5. n \div kernel.div \in Int
      BY Loops DEF Control, kernel
    <3>6. PICK calls \in Int : calls = n \div kernel.div
      BY <3>5
    <3> QED BY <2>1, <3>2, <3>3, <3>4, <3>6
  <2>3. /\ NextPos \in Int
        /\ kernel.walk = "still" => NextPos = 0
        /\ kernel.walk = "chase" => \E m \in 0 .. Lines - 1 : NextPos = 64 * m
        /\ kernel.walk = "wrap" => \E m \in Nat : NextPos = 64 * m /\ m + 92 <= Lines
        /\ kernel.walk = "mask" =>
              /\ NextPos \in 0 .. bench.size - 1
              /\ kernel.again = "nz" => \E m \in 0 .. Lines - 1 : NextPos = 64 * m
    BY <2>1, NextPlaced
  <2> HIDE DEF NextPos
  <2>4. PICK p \in Int : p = NextPos /\ pos' = p
    BY <2>1, <2>3
  <2>5. /\ kernel.walk = "still" => p = 0
        /\ kernel.walk = "chase" => \E m \in 0 .. Lines - 1 : p = 64 * m
        /\ kernel.walk = "wrap" => \E m \in Nat : p = 64 * m /\ m + 92 <= Lines
        /\ kernel.walk = "mask" =>
              /\ p \in 0 .. bench.size - 1
              /\ kernel.again = "nz" => \E m \in 0 .. Lines - 1 : p = 64 * m
    BY <2>3, <2>4
  <2>6. kernel.walk = "next" /\ kernel \notin Overrunning =>
          /\ left' <= n' \div kernel.div /\ n' \div kernel.div <= 1024
          /\ p = -4 * ((n' \div kernel.div) - left')
    BY <2>2, <2>4
  <2> QED BY <1>1, <2>4, <2>5, <2>6 DEF Placed
<1>4. CASE StartLines \/ LinearLines \/ CycleLines
  <2>1. kernel.walk \in InnerWalks
    BY <1>4 DEF StartLines, LinearLines, CycleLines, InnerWalks
  <2>2. pos' \in Int
    <3>1. CASE StartLines
      BY <3>1 DEF StartLines
    <3>2. CASE LinearLines
      <4>1. kernel.chunk \in Nat /\ pos \in Int
        BY <3>2, LinearLoop DEF Placed, LinearLines
      <4> QED BY <3>2, <4>1 DEF LinearLines, UB_CACHE_LINE_SIZE
    <3>3. CASE CycleLines
      <4>1. bench.size \in Nat \ {0} /\ pos \in Int
        BY <3>3, CycleLoop DEF Placed, CycleLines
      <4> QED BY <3>3, <4>1 DEF CycleLines, UB_CACHE_LINE_SIZE
    <3> QED BY <1>4, <3>1, <3>2, <3>3
  <2> QED BY <1>1, <2>1, <2>2 DEF Placed, InnerWalks
<1>5. CASE Make \/ Return
  <2>1. pos' = pos /\ pc' \notin {"pass", "returned"}
    BY <1>5 DEF Make, Return
  <2> QED BY <1>1, <2>1 DEF Placed
<1>6. CASE UNCHANGED vars
  BY <1>1, <1>6 DEF vars, Placed
<1> QED BY <1>2, <1>3, <1>4, <1>5, <1>6 DEF Next

LEMMA ReachedKept ==
  ASSUME Control, Placed, LinearWork, CycleWork, Reached, [Next]_vars
  PROVE  Reached'
<1>1. bench' = bench /\ kernel' = kernel /\ Ceiling' = Ceiling
  BY SameBench DEF Next, Make, Call, Pass, StartLines, LinearLines, CycleLines, Return, vars, Ceiling
<1>2. CASE Pass
  <2>1. Touch(PassRanges) /\ pc = "pass" /\ kernel.walk \notin InnerWalks
    BY <1>2 DEF Pass, PassRanges, From
  <2>2. PICK first \in Int, last \in Int :
          /\ PassRanges \subseteq Within(first, last) /\ Allowed(first, last)
          /\ kernel.walk \in Walks => first >= 0
    BY <2>1, PassWithin
  <2> QED BY <1>1, <2>1, <2>2, Reaching
<1>3. CASE StartLines
  <2> DEFINE ranges == {Bytes(k * UB_CACHE_LINE_SIZE, UB_CACHE_LINE_SIZE) : k \in 0 .. kernel.lead - 1}
  <2>1. Touch(ranges)
    BY <1>3 DEF StartLines
  <2>2. PICK L \in Nat, lead \in 0 .. Lines, last \in Int :
          L = Lines /\ lead = kernel.lead /\ last = 64 * L /\ Allowed(0, last)
    <3>1. CASE kernel.walk = "lines"
      <4>1. /\ Lines \in Nat /\ bench.size = 64 * Lines /\ kernel.lead \in 0 .. Lines
            /\ kernel.chunk \in Nat /\ bench.extra \in Nat /\ kernel.place = "arg"
        BY <3>1, LinearLoop
      <4>2. 64 * Lines \in Int /\ 64 * Lines <= Ceiling
        BY <3>1, <4>1 DEF Ceiling
      <4> QED BY <4>1, <4>2 DEF Allowed
    <3>2. CASE kernel.walk = "cycle"
      <4>1. /\ Lines \in Nat /\ bench.size = 64 * Lines /\ kernel.lead = 0
            /\ bench.extra \in Nat /\ kernel.place = "arg"
        BY <3>2, CycleLoop
      <4>2. 64 * Lines \in Int /\ 64 * Lines <= Ceiling /\ kernel.lead \in 0 .. Lines
        BY <3>2, <4>1 DEF Ceiling
      <4> QED BY <4>1, <4>2 DEF Allowed
    <3> QED BY <1>3, <3>1, <3>2 DEF StartLines, InnerWalks
  <2>3. ranges \subseteq Within(0, last)
    <3>1. ASSUME NEW k \in 0 .. lead - 1
          PROVE  Bytes(k * 64, 64) \in Within(0, last)
      <4>1. k \in Nat /\ k * 64 \in Nat /\ k * 64 + 64 \in Nat /\ k * 64 + 64 <= 64 * L
        BY <2>2
      <4> QED BY <2>2, <4>1 DEF Bytes, Within
    <3> QED BY <2>2, <3>1 DEF UB_CACHE_LINE_SIZE
  <2> HIDE DEF ranges
  <2> QED BY <1>1, <2>1, <2>2, <2>3, Reaching
<1>4. CASE LinearLines
  <2>1. PICK L \in Nat, lead \in Nat, chunk \in Nat :
          /\ L = Lines /\ lead = kernel.lead /\ chunk = kernel.chunk /\ lead <= L
          /\ bench.size = 64 * L /\ bench.extra \in Nat /\ kernel.place = "arg"
    <3>1. /\ Lines \in Nat /\ bench.size = 64 * Lines /\ kernel.lead \in Nat /\ kernel.lead <= Lines
          /\ kernel.chunk \in Nat /\ bench.extra \in Nat /\ kernel.place = "arg"
      BY <1>4, LinearLoop DEF LinearLines
    <3> QED BY <3>1
  <2>2. inner \in 0 .. L - lead /\ pos = 64 * (L - lead - inner)
    BY <1>4, <2>1 DEF LinearWork, LinearLines
  <2> DEFINE ranges == {Bytes(pos, kernel.chunk * UB_CACHE_LINE_SIZE),
                        Bytes(pos + kernel.lead * UB_CACHE_LINE_SIZE, kernel.chunk * UB_CACHE_LINE_SIZE)}
                       \union IF inner' < 0 /\ kernel.lead * UB_CACHE_LINE_SIZE > 0
                              THEN {Bytes(pos', kernel.lead * UB_CACHE_LINE_SIZE)} ELSE {}
  <2>3. Touch(ranges) /\ pos' = pos + chunk * 64
    BY <1>4, <2>1 DEF LinearLines, UB_CACHE_LINE_SIZE
  <2>4. PICK last \in Int : last = 64 * L + chunk * 64
    BY <2>1
  <2>5. Allowed(0, last)
    BY <1>4, <2>1, <2>4 DEF Allowed, Ceiling, LinearLines
  <2>6. /\ Bytes(pos, chunk * 64) \in Within(0, last)
        /\ Bytes(pos + lead * 64, chunk * 64) \in Within(0, last)
        /\ Bytes(pos', lead * 64) \in Within(0, last)
    BY <2>1, <2>2, <2>3, <2>4 DEF Bytes, Within
  <2>7. ranges \subseteq Within(0, last)
    BY <2>1, <2>6 DEF UB_CACHE_LINE_SIZE
  <2> HIDE DEF ranges
  <2> QED BY <1>1, <2>3, <2>5, <2>7, Reaching
<1>5. CASE CycleLines
  <2>1. PICK L \in Nat \ {0}, last \in Int :
          L = Lines /\ bench.size = 64 * L /\ bench.extra \in Nat /\ kernel.place = "arg" /\ last = 64 * L
    <3>1. Lines \in Nat \ {0} /\ bench.size = 64 * Lines /\ bench.extra \in Nat /\ kernel.place = "arg"
          /\ 64 * Lines \in Int
      BY <1>5, CycleLoop DEF CycleLines
    <3> QED BY <3>1
  <2>2. PICK m \in 0 .. L - 1 : pos = 64 * m
    BY <1>5, <2>1 DEF CycleWork, CycleLines
  <2>3. {Bytes(pos, 16)} \subseteq Within(0, last)
    BY <2>1, <2>2 DEF Bytes, Within
  <2>4. Allowed(0, last)
    BY <1>5, <2>1 DEF Allowed, Ceiling, CycleLines
  <2>5. Touch({Bytes(pos, 16)})
    BY <1>5 DEF CycleLines
  <2> QED BY <1>1, <2>1, <2>3, <2>4, <2>5, Reaching
<1>6. CASE Make \/ Call \/ Return \/ UNCHANGED vars
  <2>1. low' = low /\ high' = high /\ touched' \subseteq Nat
    BY <1>6 DEF Make, Call, Return, vars, Reached
  <2> QED BY <1>1, <2>1 DEF Reached, Allowed
<1> QED BY <1>2, <1>3, <1>4, <1>5, <1>6 DEF Next


-----------------------------------------------------------------------------
(* What of a region has been seen. *)

LEMMA LineSeen ==
  ASSUME kernel.walk \in Walks, NEW ranges, Touch(ranges)
  PROVE  /\ touched \subseteq touched'
         /\ \A first, last, line \in Int :
              <<first, last>> \in ranges /\ first < 64 * line + 64 /\ 64 * line < last => line \in touched'
<1> DEFINE Of(r) == (r[1] \div 64) .. ((r[2] - 1) \div 64)
<1>1. touched' = touched \union UNION {Of(r) : r \in ranges}
  BY DEF Touch, UB_CACHE_LINE_SIZE
<1>2. \A r \in ranges : Of(r) \subseteq touched'
  BY <1>1
<1>3. \A first, last, line \in Int :
        first < 64 * line + 64 /\ 64 * line < last => line \in Of(<<first, last>>)
  OBVIOUS
<1> HIDE DEF Of
<1> QED BY <1>1, <1>2, <1>3

LEMMA PassSeen ==
  ASSUME Pass, kernel.walk \in Walks
  PROVE  /\ touched \subseteq touched'
         /\ \A start \in Starts, r \in kernel.access, line \in Int :
              start \in Int /\ r \in Int \X Int
                /\ start + r[1] < 64 * line + 64 /\ 64 * line < start + r[2] => line \in touched'
<1>1. Touch(PassRanges)
  BY DEF Pass, PassRanges, From
<1>2. /\ touched \subseteq touched'
      /\ \A first, last, line \in Int :
           <<first, last>> \in PassRanges /\ first < 64 * line + 64 /\ 64 * line < last => line \in touched'
  <2> HIDE DEF PassRanges
  <2> QED BY <1>1, LineSeen
<1> SUFFICES ASSUME NEW start \in Starts, NEW r \in kernel.access, NEW line \in Int,
                    start \in Int, r \in Int \X Int, start + r[1] < 64 * line + 64, 64 * line < start + r[2]
             PROVE  line \in touched'
  BY <1>2
<1>3. <<start + r[1], start + r[2]>> \in PassRanges
  BY DEF PassRanges, From
<1>4. PICK first \in Int, last \in Int : first = start + r[1] /\ last = start + r[2]
  OBVIOUS
<1>5. <<first, last>> \in PassRanges /\ first < 64 * line + 64 /\ 64 * line < last
  BY <1>3, <1>4
<1> QED BY <1>2, <1>5

(* A linear or a cyclic pass has seen the lines before it, and after its   *)
(* end all.                                                                *)
InnerSeen ==
  kernel.walk \in InnerWalks =>
    /\ pc = "inner" => \A line \in 0 .. Lines - 1 :
                         64 * line < pos + 64 * kernel.lead => line \in touched
    /\ pc \in {"pass", "returned"} /\ left < n => \A line \in 0 .. Lines - 1 : line \in touched

LEMMA InnerSeenKept ==
  ASSUME Control, LinearWork, CycleWork, InnerSeen, [Next]_vars
  PROVE  InnerSeen'
<1> SUFFICES ASSUME kernel'.walk \in InnerWalks
             PROVE  InnerSeen'
  BY DEF InnerSeen
<1>1. bench' = bench /\ kernel' = kernel /\ Lines' = Lines /\ kernel.walk \in InnerWalks
  BY SameBench DEF Next, Make, Call, Pass, StartLines, LinearLines, CycleLines, Return, vars
<1>2. kernel.walk \in Walks /\ kernel.walk \notin {"still", "next"}
  BY <1>1 DEF Walks, InnerWalks
<1>3. PICK L \in Nat \ {0}, lead \in Nat : L = Lines /\ bench.size = 64 * L /\ lead = kernel.lead /\ lead <= L
  <2>1. CASE kernel.walk = "lines"
    <3>1. Lines \in Nat \ {0} /\ bench.size = 64 * Lines /\ kernel.lead \in 0 .. Lines
      BY <2>1, LinearLoop
    <3> QED BY <3>1
  <2>2. CASE kernel.walk = "cycle"
    <3>1. Lines \in Nat \ {0} /\ bench.size = 64 * Lines /\ kernel.lead = 0 /\ 0 \in Nat /\ 0 <= Lines
      BY <2>2, CycleLoop
    <3> QED BY <3>1
  <2> QED BY <1>1, <2>1, <2>2 DEF InnerWalks
<1>4. CASE Call
  <2>1. left' = n' /\ n' \in Nat /\ pc' = "pass"
    BY <1>2, <1>4, Started, Calling DEF Call
  <2> QED BY <2>1 DEF InnerSeen
<1>5. CASE StartLines
  <2> DEFINE ranges == {Bytes(k * UB_CACHE_LINE_SIZE, UB_CACHE_LINE_SIZE) : k \in 0 .. kernel.lead - 1}
  <2>1. pos' = 0 /\ Touch(ranges) /\ pc' = "inner"
    BY <1>5 DEF StartLines
  <2>2. ASSUME NEW line \in 0 .. L - 1, 64 * line < 0 + 64 * lead
        PROVE  line \in touched'
    <3>1. line \in 0 .. lead - 1
      BY <2>2
    <3>2. Bytes(line * UB_CACHE_LINE_SIZE, UB_CACHE_LINE_SIZE) \in ranges
      BY <1>3, <3>1
    <3>3. <<64 * line, 64 * line + 64>> \in ranges
      BY <3>2 DEF Bytes, UB_CACHE_LINE_SIZE
    <3> HIDE DEF ranges
    <3> QED BY <1>2, <2>1, <3>3, LineSeen
  <2> QED BY <1>1, <1>3, <2>1, <2>2 DEF InnerSeen
<1>6. CASE LinearLines
  <2> DEFINE ranges == {Bytes(pos, kernel.chunk * UB_CACHE_LINE_SIZE),
                        Bytes(pos + kernel.lead * UB_CACHE_LINE_SIZE, kernel.chunk * UB_CACHE_LINE_SIZE)}
                       \union IF inner' < 0 /\ kernel.lead * UB_CACHE_LINE_SIZE > 0
                              THEN {Bytes(pos', kernel.lead * UB_CACHE_LINE_SIZE)} ELSE {}
  <2>1. PICK chunk \in Nat \ {0} : chunk = kernel.chunk
    BY <1>6, LinearLoop DEF LinearLines
  <2>2. /\ Touch(ranges) /\ pos' = pos + chunk * 64 /\ inner' = inner - chunk /\ pc = "inner"
        /\ n' = n
    BY <1>6, <2>1 DEF LinearLines, UB_CACHE_LINE_SIZE
  <2>3. inner \in 0 .. L - lead /\ pos = 64 * (L - lead - inner)
    BY <1>3, <1>6, <2>2 DEF LinearWork, LinearLines
  <2>4. PICK first \in Int, last \in Int : first = pos + lead * 64 /\ last = pos + lead * 64 + chunk * 64
    BY <2>1, <2>3, <1>3
  <2>5. <<first, last>> \in ranges
    <3>1. Bytes(pos + kernel.lead * UB_CACHE_LINE_SIZE, kernel.chunk * UB_CACHE_LINE_SIZE) \in ranges
      OBVIOUS
    <3>2. Bytes(pos + lead * 64, chunk * 64) \in ranges
      BY <1>3, <2>1, <3>1 DEF UB_CACHE_LINE_SIZE
    <3> QED BY <2>4, <3>2 DEF Bytes
  <2> HIDE DEF ranges
  <2>6. /\ \A line \in touched : line \in touched'
        /\ \A line \in Int : first < 64 * line + 64 /\ 64 * line < last => line \in touched'
    BY <1>2, <2>2, <2>5, LineSeen
  <2>7. \A line \in 0 .. L - 1 : 64 * line < pos + 64 * lead => line \in touched
    BY <1>1, <1>3, <2>2 DEF InnerSeen
  <2>8. ASSUME NEW line \in 0 .. L - 1, 64 * line < pos + chunk * 64 + 64 * lead
        PROVE  line \in touched'
    <3>1. CASE 64 * line < pos + 64 * lead
      BY <2>6, <2>7, <3>1
    <3>2. CASE ~(64 * line < pos + 64 * lead)
      <4>1. first < 64 * line + 64 /\ 64 * line < last
        BY <1>3, <2>1, <2>3, <2>4, <2>8, <3>2
      <4> QED BY <2>6, <4>1
    <3> QED BY <3>1, <3>2
  <2>9. CASE inner' < 0
    <3>1. left' = left - kernel.by /\ pc' \in {"pass", "returned"}
      BY <1>6, <2>9, <1>1, Counting DEF LinearLines
    <3>2. \A line \in 0 .. L - 1 : line \in touched'
      <4>1. \A line \in 0 .. L - 1 : 64 * line < pos + chunk * 64 + 64 * lead
        BY <1>3, <2>1, <2>2, <2>3, <2>9
      <4> QED BY <2>8, <4>1
    <3> QED BY <1>1, <1>3, <3>1, <3>2 DEF InnerSeen
  <2>10. CASE ~(inner' < 0)
    <3>1. pc' = "inner"
      BY <1>6, <2>10 DEF LinearLines
    <3> QED BY <1>1, <1>3, <2>2, <2>8, <3>1 DEF InnerSeen
  <2> QED BY <2>9, <2>10
<1>7. CASE CycleLines
  <2>1. PICK m \in 0 .. L - 1 : pos = 64 * m
    BY <1>3, <1>7 DEF CycleWork, CycleLines
  <2>2. Touch({Bytes(pos, 16)}) /\ pos' = (pos + 64) % bench.size /\ pc = "inner" /\ kernel.lead = 0
    BY <1>7, CycleLoop DEF CycleLines, UB_CACHE_LINE_SIZE
  <2>3. m \in touched' /\ \A line \in touched : line \in touched'
    <3>1. <<pos, pos + 16>> \in {Bytes(pos, 16)} /\ pos \in Int /\ pos + 16 \in Int
      BY <2>1 DEF Bytes
    <3>2. m \in Int /\ pos < 64 * m + 64 /\ 64 * m < pos + 16
      BY <2>1
    <3> QED BY <1>2, <2>2, <3>1, <3>2, LineSeen
  <2>4. \A line \in 0 .. L - 1 : 64 * line < pos => line \in touched
    BY <1>1, <1>3, <2>1, <2>2 DEF InnerSeen
  <2>5. \A line \in 0 .. m : line \in touched'
    BY <2>1, <2>3, <2>4
  <2>6. CASE m + 1 = L
    <3>1. pc' \in {"inner", "pass", "returned"}
      <4>1. CASE pos' = 0
        BY <1>1, <1>7, <4>1, Counting DEF CycleLines
      <4>2. CASE pos' # 0
        BY <1>7, <4>2 DEF CycleLines
      <4> QED BY <4>1, <4>2
    <3>2. \A line \in 0 .. L - 1 : line \in touched'
      BY <2>5, <2>6
    <3> QED BY <1>1, <1>3, <3>1, <3>2 DEF InnerSeen
  <2>7. CASE m + 1 # L
    <3>1. PICK p \in Int, d \in Nat \ {0} : p = 64 * m + 64 /\ d = 64 * L
      BY <2>1
    <3>2. p \in 1 .. d - 1
      BY <2>1, <2>7, <3>1
    <3>3. pos + 64 = p /\ p % d = p
      BY <2>1, <3>1, <3>2
    <3>4. pos' = p
      BY <1>3, <2>2, <3>1, <3>3
    <3>5. pc' = "inner"
      BY <1>7, <3>2, <3>4 DEF CycleLines
    <3>6. \A line \in 0 .. L - 1 : 64 * line < p + 64 * 0 => line \in touched'
      BY <2>5, <3>1
    <3> QED BY <1>1, <1>3, <2>2, <3>4, <3>5, <3>6 DEF InnerSeen
  <2> QED BY <2>6, <2>7
<1>8. CASE Make \/ Return
  BY <1>1, <1>8 DEF Make, Return, InnerSeen
<1>9. CASE UNCHANGED vars
  BY <1>1, <1>9 DEF vars, InnerSeen
<1>10. ~Pass
  BY <1>1 DEF Pass
<1> QED BY <1>4, <1>5, <1>6, <1>7, <1>8, <1>9, <1>10 DEF Next

(* The size check only lets chases go that get to all lines: *)
LongEnough == kernel.walk = "chase" /\ pc \notin {"make", "thrown"} => Lines <= bench.loop_count

LEMMA LongEnoughKept ==
  ASSUME Control, LongEnough, [Next]_vars
  PROVE  LongEnough'
<1> SUFFICES ASSUME kernel'.walk = "chase", pc' \notin {"make", "thrown"}
             PROVE  Lines' <= bench'.loop_count
  BY DEF LongEnough
<1>1. bench' = bench /\ kernel' = kernel /\ Lines' = Lines
  BY SameBench DEF Next, Make, Call, Pass, StartLines, LinearLines, CycleLines, Return, vars
<1>2. CASE Make
  <2>1. ChaseFits(bench) /\ ~(bench.sizecheck /\ Accessed < bench.kib)
    BY <1>1, <1>2, KindOf DEF Control, kernel, Make
  <2>2. PICK L \in Nat \ {0}, c \in Nat \ {0}, kib \in Nat :
          L = Lines /\ bench.size = 64 * L /\ c = bench.loop_count /\ kib = bench.kib
    <3>1. /\ LinesIn(bench) \in Nat \ {0} /\ bench.size = 64 * LinesIn(bench)
          /\ bench.loop_count \in Nat \ {0} /\ bench.kib \in Nat
      BY <2>1 DEF ChaseFits, OnLines, Typed, UB_CACHE_LINE_SIZE
    <3> QED BY <3>1 DEF Lines, LinesIn
  <2>3. CASE LinesIn(bench) <= bench.loop_count
    BY <1>1, <2>3 DEF Lines, LinesIn
  <2>4. CASE bench.sizecheck /\ bench.size = bench.kib * 1024
    <3>1. Accessed = ((c * 64) \div 1024) * 1 /\ ~(Accessed < kib)
      BY <2>1, <2>2, <2>4 DEF ChaseFits, Accessed, UB_CACHE_LINE_SIZE
    <3>2. PICK a \in Int : a = (c * 64) \div 1024
      BY <2>2
    <3>3. 1024 * a <= c * 64
      BY <2>2, <3>2
    <3>4. kib <= a
      BY <2>2, <3>1, <3>2
    <3>5. 64 * L = kib * 1024
      BY <2>2, <2>4
    <3>6. L <= c
      BY <2>2, <3>3, <3>4, <3>5
    <3> QED BY <1>1, <2>2, <3>6
  <2> QED BY <2>1, <2>3, <2>4 DEF ChaseFits
<1>3. CASE ~Make
  <2>1. pc \notin {"make", "thrown"}
    BY <1>3 DEF Next, Call, Pass, StartLines, LinearLines, CycleLines, Return, vars
  <2> QED BY <1>1, <2>1 DEF LongEnough
<1> QED BY <1>2, <1>3

(* it has seen the first lines of its region, as many as it has linked     *)
(* through, and stands behind them.                                        *)
ChaseSeen ==
  kernel.walk = "chase" /\ pc \in {"pass", "returned"} =>
    /\ left <= n
    /\ kernel.stride * (n - left) < Lines => pos = 64 * (kernel.stride * (n - left))
    /\ \A line \in 0 .. Lines - 1 : line < kernel.stride * (n - left) => line \in touched

LEMMA ChaseSeenKept ==
  ASSUME Control, ChaseSeen, [Next]_vars
  PROVE  ChaseSeen'
<1> SUFFICES ASSUME kernel'.walk = "chase", pc' \in {"pass", "returned"}
             PROVE  ChaseSeen'
  BY DEF ChaseSeen
<1>1. bench' = bench /\ kernel' = kernel /\ Lines' = Lines /\ kernel.walk = "chase"
  BY SameBench DEF Next, Make, Call, Pass, StartLines, LinearLines, CycleLines, Return, vars
<1>2. kernel.walk \in Walks /\ kernel.walk \notin InnerWalks
  BY <1>1 DEF Walks, InnerWalks
<1>3. PICK L \in Nat \ {0} : L = Lines /\ bench.size = 64 * L
  BY <1>1, Regions
<1>4. ChaseFits(bench)
  BY <1>1, KindOf DEF Control, kernel
<1>5. PICK s \in {1, 2} : s = kernel.stride
  BY <1>4 DEF ChaseFits, kernel
<1>6. kernel.by = 1 /\ n \in Nat /\ left \in Int
  BY <1>4 DEF ChaseFits, kernel, Control
<1>7. CASE Call
  <2>1. n' - left' = 0 /\ left' = n' /\ n' \in Nat /\ pos' = 0
    BY <1>1, <1>7, Started, Calling
  <2>2. s * 0 = 0 /\ \A line \in 0 .. L - 1 : ~(line < s * 0)
    BY <1>5
  <2> QED BY <1>1, <1>3, <1>5, <2>1, <2>2 DEF ChaseSeen
<1>8. CASE Pass
  <2>1. pc = "pass" /\ Count /\ pos' = NextPos /\ n' = n
    BY <1>8 DEF Pass
  <2>2. left' = left - 1
    BY <1>1, <1>6, <2>1, Counting
  <2>3. PICK i \in Nat : i = n - left
    BY <1>1, <1>6, <2>1 DEF ChaseSeen
  <2>4. n' - left' = i + 1 /\ left' <= n'
    BY <1>6, <2>1, <2>2, <2>3
  <2>5. PICK f \in Nat : f = s * i
    BY <1>5, <2>3
  <2>6. s * (i + 1) = f + s
    BY <1>5, <2>3, <2>5
  <2>7. /\ f < L => pos = 64 * f
        /\ \A line \in 0 .. L - 1 : line < f => line \in touched
    BY <1>1, <1>3, <1>5, <2>1, <2>3, <2>5 DEF ChaseSeen
  <2>8. f + s < L => pos' = 64 * (f + s)
    <3> SUFFICES ASSUME f + s < L PROVE pos' = 64 * (f + s)
      OBVIOUS
    <3>1. PICK p \in Nat, d \in Nat \ {0} : p = 64 * (f + s) /\ d = 64 * L
      <4>1. 64 * (f + s) \in Nat /\ 64 * L \in Nat \ {0}
        BY <1>3, <1>5
      <4> HIDE <2>5, <2>6, <2>7
      <4> QED BY <4>1
    <3>2. p < d /\ p % d = p
      BY <1>3, <1>5, <2>5, <3>1
    <3>3. pos + kernel.stride * 64 = p
      BY <1>3, <1>5, <2>5, <2>7, <3>1
    <3>4. pos' = (pos + kernel.stride * 64) % bench.size
      BY <1>1, <2>1 DEF NextPos, UB_CACHE_LINE_SIZE
    <3>5. pos' = p % d
      BY <1>3, <3>1, <3>3, <3>4, Zenon
    <3> QED BY <3>1, <3>2, <3>5
  <2>9. ASSUME NEW line \in 0 .. L - 1, line < f + s
        PROVE  line \in touched'
    <3>1. CASE line < f
      BY <1>2, <1>8, <2>7, <2>9, <3>1, PassSeen
    <3>2. CASE ~(line < f)
      <4>1. PICK k \in 0 .. s - 1 : line = f + k
        <5>1. line - f \in 0 .. s - 1 /\ line = f + (line - f)
          BY <1>5, <2>5, <2>9, <3>2
        <5> QED BY <5>1
      <4>2. PICK start \in Nat : start = 64 * line
        BY <1>3
      <4>3. start \in Starts
        <5>1. (pos + k * 64) % bench.size \in Starts
          BY <1>1, <1>5 DEF Starts, UB_CACHE_LINE_SIZE
        <5>2. pos + k * 64 = start
          BY <1>3, <2>5, <2>7, <2>9, <4>1, <4>2
        <5>3. PICK d \in Nat \ {0} : d = 64 * L
          BY <1>3
        <5>4. start % d = start
          BY <1>3, <4>2, <5>3
        <5>5. start % d \in Starts
          BY <1>3, <5>1, <5>2, <5>3, Zenon
        <5> QED BY <5>4, <5>5
      <4>4. PICK r \in kernel.access : r \in Int \X Int /\ 0 <= r[1] /\ r[1] < r[2] /\ r[2] <= 64
        BY <1>4 DEF ChaseFits, kernel, Within
      <4>5. start + r[1] < 64 * line + 64 /\ 64 * line < start + r[2] /\ line \in Int /\ start \in Int
        BY <1>3, <4>2, <4>4
      <4> QED BY <1>2, <1>8, <4>3, <4>4, <4>5, PassSeen
    <3> QED BY <3>1, <3>2
  <2> QED BY <1>1, <1>3, <1>5, <2>4, <2>6, <2>8, <2>9 DEF ChaseSeen
<1>9. CASE UNCHANGED vars
  BY <1>1, <1>9 DEF vars, ChaseSeen
<1>10. ~Make /\ ~Return /\ ~StartLines /\ ~LinearLines /\ ~CycleLines
  BY <1>1, <1>2 DEF Make, Return, StartLines, LinearLines, CycleLines
<1> QED BY <1>7, <1>8, <1>9, <1>10 DEF Next

(* A masked walk in whole lines: it is where its steps add up to, and has  *)
(* seen where they added up to before.                                     *)
Turn == kernel.stride \div 64

TurnsSeen ==
  kernel.walk = "mask" /\ kernel.again = "nz" /\ pc \in {"pass", "returned"} =>
    /\ left <= n
    /\ pos = 64 * ((Turn * (n - left)) % Lines)
    /\ \A j \in 0 .. n - left - 1 : (Turn * j) % Lines \in touched

LEMMA RemainderOfSum ==
  ASSUME NEW x \in Int, NEW y \in Int, NEW L \in Nat \ {0}
  PROVE  ((x % L) + y) % L = (x + y) % L
<1>1. PICK q \in Int, r \in 0 .. L - 1 : x = L * q + r /\ x % L = r
  BY Divided
<1>2. PICK p \in Int, t \in 0 .. L - 1 : r + y = L * p + t /\ (r + y) % L = t
  <2>1. PICK z \in Int : z = r + y
    BY <1>1
  <2>2. z = L * (z \div L) + (z % L) /\ z % L \in 0 .. L - 1 /\ z \div L \in Int
    BY Divided
  <2> QED BY <2>1, <2>2, Zenon
<1>3. PICK c \in Int : c = q + p
  OBVIOUS
<1>4. x + y = L * c + t
  <2>1. L * c = L * q + L * p
    BY <1>3, Distributed
  <2>2. PICK u \in Int, v \in Int : u = L * q /\ v = L * p
    OBVIOUS
  <2>3. x = u + r /\ r + y = v + t /\ L * c = u + v
    BY <1>1, <1>2, <2>1, <2>2
  <2> HIDE <1>1, <1>2, <1>3, <2>1, <2>2
  <2> QED BY <2>3
<1>5. (L * c + t) % L = t
  BY Remainder
<1> QED BY <1>1, <1>2, <1>4, <1>5, Zenon

LEMMA RemainderOfProduct ==
  ASSUME NEW s \in Int, NEW x \in Int, NEW L \in Nat \ {0}
  PROVE  (s * (x % L)) % L = (s * x) % L
<1>1. PICK q \in Int, r \in 0 .. L - 1 : x = L * q + r /\ x % L = r
  BY Divided
<1>2. PICK sq \in Int, sr \in Int : sq = s * q /\ sr = s * r
  <2>1. s * q \in Int /\ s * r \in Int
    OBVIOUS
  <2> QED BY <2>1
<1>3. s * x = L * sq + sr
  <2>1. PICK u \in Int : u = L * q
    OBVIOUS
  <2>2. s * (u + r) = s * u + s * r
    BY Distributed
  <2>3. s * u = L * sq
    BY <1>2, <2>1
  <2>4. x = u + r
    BY <1>1, <2>1
  <2> QED BY <1>2, <2>2, <2>3, <2>4, Zenon
<1>4. PICK c \in Int : c = L * sq
  OBVIOUS
<1>5. PICK t \in 0 .. L - 1 : t = sr % L
  BY Divided
<1>6. ((sr % L) + c) % L = (sr + c) % L
  BY RemainderOfSum
<1>7. (L * sq + t) % L = t
  BY Remainder
<1>8. c + t = t + c /\ c + sr = sr + c
  <2> HIDE <1>4, <1>5
  <2> QED OBVIOUS
<1> QED BY <1>1, <1>2, <1>3, <1>4, <1>5, <1>6, <1>7, <1>8, Zenon

(* Multiplied with its inverse, a step turns through all lines. *)
Turns == {67, 199}

LEMMA TurnsMeetAll ==
  ASSUME NEW s \in Turns, NEW L \in Nat \ {0}, NEW p \in Nat, p * L = MostLines,
         NEW line \in 0 .. L - 1
  PROVE  \E j \in 0 .. L - 1 : (s * j) % L = line
<1>1. PICK v \in Nat, w \in Nat : s * v = MostLines * w + 1
  <2>1. CASE s = 67
    <3>1. PICK v \in Nat, w \in Nat : v = 10767467 /\ w = 43
      BY SMT
    <3>2. s * v = MostLines * w + 1
      BY <2>1, <3>1, SMT DEF MostLines
    <3> QED BY <3>2, Zenon
  <2>2. CASE s = 199
    <3>1. PICK v \in Nat, w \in Nat : v = 4636919 /\ w = 55
      BY SMT
    <3>2. s * v = MostLines * w + 1
      BY <2>2, <3>1, SMT DEF MostLines
    <3> QED BY <3>2, Zenon
  <2> QED BY <2>1, <2>2 DEF Turns
<1>2. PICK vl \in Nat, wl \in Nat, pwl \in Nat : vl = v * line /\ wl = w * line /\ pwl = p * wl
  <2>1. PICK vl \in Nat, wl \in Nat : vl = v * line /\ wl = w * line
    <3>1. v * line \in Nat /\ w * line \in Nat
      OBVIOUS
    <3> QED BY <3>1
  <2>2. p * wl \in Nat
    OBVIOUS
  <2> QED BY <2>1, <2>2
<1>3. s * vl = L * pwl + line
  <2>1. s * (v * line) = (s * v) * line
    BY DEF Turns
  <2>2. PICK most \in Nat : most = MostLines
    BY SMT DEF MostLines
  <2>3. (most * w + 1) * line = most * (w * line) + line
    OBVIOUS
  <2>4. (p * L) * wl = L * (p * wl)
    OBVIOUS
  <2> QED BY <1>1, <1>2, <2>1, <2>2, <2>3, <2>4, Zenon
<1>4. (L * pwl + line) % L = line
  BY Remainder
<1>5. (s * (vl % L)) % L = (s * vl) % L
  <2>1. s \in Int /\ vl \in Int
    BY DEF Turns
  <2> QED BY <2>1, RemainderOfProduct, Zenon
<1>6. vl % L \in 0 .. L - 1
  BY Divided
<1> QED BY <1>3, <1>4, <1>5, <1>6, Zenon

LEMMA TurnsSeenKept ==
  ASSUME Control, TurnsSeen, [Next]_vars
  PROVE  TurnsSeen'
<1> SUFFICES ASSUME kernel'.walk = "mask", kernel'.again = "nz", pc' \in {"pass", "returned"}
             PROVE  TurnsSeen'
  BY DEF TurnsSeen
<1>1. /\ bench' = bench /\ kernel' = kernel /\ Lines' = Lines /\ Turn' = Turn
      /\ kernel.walk = "mask" /\ kernel.again = "nz"
  BY SameBench DEF Next, Make, Call, Pass, StartLines, LinearLines, CycleLines, Return, vars, Turn
<1>2. kernel.walk \in Walks /\ kernel.walk \notin InnerWalks
  BY <1>1 DEF Walks, InnerWalks
<1>3. PICK L \in Nat \ {0}, d \in Nat \ {0} : L = Lines /\ d = 64 * L /\ bench.size = d
  <2>1. 64 * Lines \in Nat \ {0}
    BY <1>1, Regions
  <2> QED BY <1>1, <2>1, Regions
<1>4. MaskFits(bench)
  BY <1>1, KindOf DEF Control, kernel
<1>5. PICK s \in Nat : s = Turn /\ kernel.stride = 64 * s
  <2>1. kernel.stride \in {64 * 67, 64 * 199}
    BY <1>1, <1>4 DEF MaskFits, kernel
  <2> QED BY <2>1 DEF Turn
<1>6. kernel.by = 1 /\ n \in Nat /\ left \in Int
  BY <1>1, <1>4 DEF MaskFits, kernel, Control
<1>7. CASE Call
  <2>1. n' - left' = 0 /\ left' = n' /\ n' \in Nat /\ pos' = 0
    BY <1>1, <1>7, Started, Calling
  <2>2. s * 0 = 0 /\ 0 % L = 0 /\ 64 * 0 = 0 /\ 0 .. 0 - 1 = {}
    BY <1>3, <1>5
  <2>3. pos' = 64 * ((s * (n' - left')) % L)
    BY <2>1, <2>2, Zenon
  <2>4. 0 .. n' - left' - 1 = {}
    <3>1. 0 .. 0 - 1 = {}
      OBVIOUS
    <3> QED BY <2>1, <3>1, Zenon
  <2>5. left' <= n'
    BY <2>1
  <2> QED BY <1>1, <1>3, <1>5, <2>3, <2>4, <2>5, Zenon DEF TurnsSeen
<1>8. CASE Pass
  <2>1. pc = "pass" /\ Count /\ pos' = NextPos /\ n' = n
    BY <1>8 DEF Pass
  <2>2. left' = left - 1
    BY <1>1, <1>6, <2>1, Counting
  <2>3. PICK i \in Nat : i = n - left
    BY <1>1, <1>6, <2>1 DEF TurnsSeen
  <2>4. n' - left' = i + 1 /\ left' <= n' /\ n' - left' - 1 = i
    BY <1>6, <2>1, <2>2, <2>3
  <2>5. PICK f \in Nat : f = s * i
    BY <1>5, <2>3
  <2>6. s * (i + 1) = f + s
    BY <1>5, <2>3, <2>5
  <2>7. PICK m \in 0 .. L - 1 : m = f % L
    <3>1. f % L \in 0 .. L - 1
      <4>1. f \in Int
        BY <2>5
      <4> QED BY <1>3, <4>1, Divided
    <3> QED BY <3>1
  <2>8. pos = 64 * m
    BY <1>1, <1>3, <1>5, <2>1, <2>3, <2>5, <2>7, Zenon DEF TurnsSeen
  <2>9. \A j \in 0 .. i - 1 : (s * j) % L \in touched
    BY <1>1, <1>3, <1>5, <2>1, <2>3, <2>5, <2>7, Zenon DEF TurnsSeen
  <2>10. pos' = 64 * ((s * (i + 1)) % L)
    <3>1. PICK a \in Nat, b \in Nat : a = m + s /\ b = 64 * a
      <4>1. m + s \in Nat /\ 64 * (m + s) \in Nat
        BY <1>5
      <4> QED BY <4>1
    <3>2. pos + kernel.stride = b
      BY <1>5, <2>8, <3>1
    <3>3. pos' = (pos + kernel.stride) % bench.size
      BY <1>1, <2>1 DEF NextPos
    <3>4. pos' = b % d
      BY <1>3, <3>2, <3>3, Zenon
    <3>5. (64 * a) % (64 * L) = 64 * (a % L)
      <4>1. a \in Nat
        BY <3>1
      <4> QED BY <1>3, <4>1, LineRemainder, Zenon
    <3>6. ((f % L) + s) % L = (f + s) % L
      <4>1. s \in Int /\ f \in Int
        BY <1>5, <2>5
      <4> QED BY <1>3, <4>1, RemainderOfSum, Zenon
    <3>7. a % L = (f + s) % L
      BY <2>7, <3>1, <3>6, Zenon
    <3> QED BY <1>3, <2>6, <3>1, <3>4, <3>5, <3>7, Zenon
  <2>11. m \in touched' /\ touched \subseteq touched'
    <3>1. PICK r \in kernel.access : r \in Int \X Int /\ 0 <= r[1] /\ r[1] < r[2] /\ r[2] <= 64
      BY <1>1, <1>4 DEF MaskFits, kernel, Within
    <3>2. pos \in Starts /\ pos \in Int
      BY <1>1, <2>8 DEF Starts
    <3>3. pos + r[1] < 64 * m + 64 /\ 64 * m < pos + r[2] /\ m \in Int
      BY <2>8, <3>1
    <3> QED BY <1>2, <1>8, <3>1, <3>2, <3>3, PassSeen
  <2>12. \A j \in 0 .. i : (s * j) % L \in touched'
    <3>1. \A j \in 0 .. i : j \in 0 .. i - 1 \/ j = i
      BY <2>3
    <3> QED BY <2>5, <2>7, <2>9, <2>11, <3>1, Zenon
  <2>13. 0 .. n' - left' - 1 = 0 .. i
    BY <2>4, Zenon
  <2> QED BY <1>1, <1>3, <1>5, <2>4, <2>10, <2>12, <2>13, Zenon DEF TurnsSeen
<1>9. CASE UNCHANGED vars
  BY <1>1, <1>9 DEF vars, TurnsSeen
<1>10. ~Make /\ ~Return /\ ~StartLines /\ ~LinearLines /\ ~CycleLines
  BY <1>1, <1>2 DEF Make, Return, StartLines, LinearLines, CycleLines
<1> QED BY <1>7, <1>8, <1>9, <1>10 DEF Next

(* The strided stores stand where their stores add up to, and have seen    *)
(* the lines of all places before.                                         *)
StridedSeen ==
  kernel.walk = "mask" /\ kernel.again = "gt" /\ pc \in {"pass", "returned"} =>
    /\ left <= n
    /\ pos = (bench.stride * (n - left)) % bench.size
    /\ \A q \in 0 .. n - left - 1 :
         bench.stride * q < bench.size => (bench.stride * q) \div 64 \in touched

LEMMA StridedSeenKept ==
  ASSUME Control, StridedSeen, [Next]_vars
  PROVE  StridedSeen'
<1> SUFFICES ASSUME kernel'.walk = "mask", kernel'.again = "gt", pc' \in {"pass", "returned"}
             PROVE  StridedSeen'
  BY DEF StridedSeen
<1>1. bench' = bench /\ kernel' = kernel /\ kernel.walk = "mask" /\ kernel.again = "gt"
  BY SameBench DEF Next, Make, Call, Pass, StartLines, LinearLines, CycleLines, Return, vars
<1>2. kernel.walk \in Walks /\ kernel.walk \notin InnerWalks
  BY <1>1 DEF Walks, InnerWalks
<1>3. PICK d \in Nat \ {0} : bench.size = d
  <2>1. 64 * Lines \in Nat \ {0}
    BY <1>1, Regions
  <2> QED BY <1>1, <2>1, Regions
<1>4. MaskFits(bench)
  BY <1>1, KindOf DEF Control, kernel
<1>5. PICK t \in Nat : t = bench.stride /\ kernel.stride = 4 * t
  <2>1. bench.stride \in {1, 2, 4, 8, 16, 32, 64, 128} /\ kernel.stride = 4 * bench.stride
    BY <1>1, <1>4 DEF MaskFits, kernel
  <2> QED BY <2>1
<1>6. kernel.by = 4 /\ n \in Nat /\ left \in Int
  BY <1>1, <1>4 DEF MaskFits, kernel, Control
<1>7. CASE Call
  <2>1. n' - left' = 0 /\ left' = n' /\ n' \in Nat /\ pos' = 0
    BY <1>1, <1>7, Started, Calling
  <2>2. t * 0 = 0 /\ 0 % d = 0 /\ 0 .. 0 - 1 = {}
    BY <1>3, <1>5
  <2>3. pos' = (t * (n' - left')) % d
    BY <2>1, <2>2, Zenon
  <2>4. 0 .. n' - left' - 1 = {}
    BY <2>1, <2>2, Zenon
  <2>5. left' <= n'
    BY <2>1
  <2> QED BY <1>1, <1>3, <1>5, <2>3, <2>4, <2>5, Zenon DEF StridedSeen
<1>8. CASE Pass
  <2>1. pc = "pass" /\ Count /\ pos' = NextPos /\ n' = n
    BY <1>8 DEF Pass
  <2>2. left' = left - 4
    BY <1>1, <1>6, <2>1, Counting
  <2>3. PICK i \in Nat : i = n - left
    BY <1>1, <1>6, <2>1 DEF StridedSeen
  <2>4. n' - left' = i + 4 /\ left' <= n' /\ n' - left' - 1 = i + 3
    BY <1>6, <2>1, <2>2, <2>3
  <2>5. PICK f \in Nat : f = t * i
    BY <1>5, <2>3
  <2>6. t * (i + 4) = f + 4 * t
    BY <1>5, <2>3, <2>5
  <2>7. pos = f % d
    BY <1>1, <1>3, <1>5, <2>1, <2>3, <2>5, Zenon DEF StridedSeen
  <2>8. \A q \in 0 .. i - 1 : t * q < d => (t * q) \div 64 \in touched
    BY <1>1, <1>3, <1>5, <2>1, <2>3, Zenon DEF StridedSeen
  <2>9. pos' = (t * (i + 4)) % d
    <3>1. pos' = (pos + kernel.stride) % bench.size
      BY <1>1, <2>1 DEF NextPos
    <3>2. f \in Int /\ 4 * t \in Int
      BY <1>5, <2>5
    <3>3. ((f % d) + 4 * t) % d = (f + 4 * t) % d
      BY <1>3, <3>2, RemainderOfSum, Zenon
    <3> QED BY <1>3, <1>5, <2>6, <2>7, <3>1, <3>3, Zenon
  <2>10. touched \subseteq touched'
    BY <1>2, <1>8, PassSeen
  <2>11. ASSUME NEW k \in 0 .. 3, t * (i + k) < d
         PROVE  (t * (i + k)) \div 64 \in touched'
    <3>1. PICK g \in Nat, e \in Nat : g = t * k /\ e = t * (i + k)
      <4>1. t * k \in Nat /\ t * (i + k) \in Nat
        BY <1>5
      <4> QED BY <4>1
    <3>2. e = f + g
      <4>1. t * (i + k) = t * i + t * k
        <5>1. t \in Int /\ i \in Int /\ k \in Int
          OBVIOUS
        <5> QED BY <5>1, Distributed
      <4> QED BY <2>5, <3>1, <4>1, Zenon
    <3>3. f < d /\ f % d = f
      <4>1. f < d
        BY <2>11, <3>1, <3>2
      <4> QED BY <4>1
    <3>4. pos = f
      BY <2>7, <3>3, Zenon
    <3>5. PICK r \in kernel.access : r \in Int \X Int /\ r[1] = g /\ r[1] < r[2]
      <4>1. \E r \in kernel.access : r[1] = t * k /\ r[1] < r[2]
        BY <1>1, <1>4, <1>5 DEF MaskFits, kernel
      <4>2. kernel.access \subseteq Int \X Int
        BY <1>1, <1>4 DEF MaskFits, kernel, Within
      <4> QED BY <3>1, <4>1, <4>2, Zenon
    <3>6. PICK line \in Int : line = e \div 64 /\ 64 * line <= e /\ e < 64 * line + 64
      BY <3>1
    <3>7. pos \in Starts /\ pos \in Int
      BY <1>1, <3>4 DEF Starts
    <3>8. pos + r[1] < 64 * line + 64 /\ 64 * line < pos + r[2]
      BY <3>2, <3>4, <3>5, <3>6
    <3>9. line \in touched'
      BY <1>2, <1>8, <3>5, <3>6, <3>7, <3>8, PassSeen
    <3> QED BY <3>1, <3>6, <3>9, Zenon
  <2>12. \A q \in 0 .. i + 3 : t * q < d => (t * q) \div 64 \in touched'
    <3>1. \A q \in 0 .. i + 3 : q \in 0 .. i - 1 \/ \E k \in 0 .. 3 : q = i + k
      <4> SUFFICES ASSUME NEW q \in 0 .. i + 3, ~(q \in 0 .. i - 1)
                   PROVE  \E k \in 0 .. 3 : q = i + k
        OBVIOUS
      <4>1. q - i \in 0 .. 3 /\ q = i + (q - i)
        OBVIOUS
      <4> QED BY <4>1
    <3> QED BY <2>8, <2>10, <2>11, <3>1, Zenon
  <2>13. 0 .. n' - left' - 1 = 0 .. i + 3
    BY <2>4, Zenon
  <2> QED BY <1>1, <1>3, <1>5, <2>4, <2>9, <2>12, <2>13, Zenon DEF StridedSeen
<1>9. CASE UNCHANGED vars
  BY <1>1, <1>9 DEF vars, StridedSeen
<1>10. ~Make /\ ~Return /\ ~StartLines /\ ~LinearLines /\ ~CycleLines
  BY <1>1, <1>2 DEF Make, Return, StartLines, LinearLines, CycleLines
<1> QED BY <1>7, <1>8, <1>9, <1>10 DEF Next

(* The walks that are long enough for their region.  The masked ones of    *)
(* regions larger than their loop count are not, and of the parallel one   *)
(* it depends on what divides the size.                                    *)
Enough == kernel.walk # "wrap" /\ (kernel.walk = "mask" => Lines <= bench.loop_count)

LEMMA Returning ==
  ASSUME Control, pc = "returned", kernel.walk \in Walks
  PROVE  /\ n = LoopCount /\ n \in Nat \ {0} /\ left \in Int /\ left <= 0
         /\ n = bench.loop_count \/ n >= Passes * kernel.by
         /\ kernel.again = "nz" => left = 0
<1>1. Fits(bench) /\ Ended /\ n = (1 + Len(works)) * LoopCount /\ left \in Int
  BY DEF Control
<1>2. LoopCount \in Nat \ {0} /\ (LoopCount = bench.loop_count \/ LoopCount >= Passes * kernel.by)
  <2>1. kernel.div = 1
    BY <1>1, Loops DEF kernel, Walks, InnerWalks
  <2> QED BY <1>1, <2>1, LoopCounts
<1>3. ~bench.loop_delta /\ kernel.again \in {"nz", "gt", "ge", "once"}
  BY <1>1, Loops DEF kernel, Walks, InnerWalks
<1>4. Len(works) = 0
  BY <1>3 DEF Control
<1>5. n = LoopCount
  BY <1>1, <1>2, <1>4
<1>6. left <= 0
  BY <1>1, <1>3 DEF Ended
<1> QED BY <1>1, <1>2, <1>5, <1>6 DEF Ended

LEMMA ChaseWhole ==
  ASSUME Control, LongEnough, ChaseSeen, pc = "returned", kernel.walk = "chase"
  PROVE  \A line \in 0 .. Lines - 1 : line \in touched
<1>1. ChaseFits(bench) /\ kernel.walk \in Walks
  BY KindOf DEF Control, kernel, Walks
<1>2. kernel.by = 1 /\ kernel.again = "nz" /\ kernel.stride \in {1, 2}
  BY <1>1 DEF ChaseFits, kernel
<1>3. PICK L \in Nat \ {0} : L = Lines
  BY Regions
<1>4. Passes = L + 1
  BY <1>3 DEF Passes
<1>5. L <= n /\ n \in Nat /\ left = 0
  BY <1>1, <1>2, <1>3, <1>4, Returning DEF LongEnough
<1>6. PICK s \in {1, 2} : s = kernel.stride
  BY <1>2
<1>7. L <= s * (n - left)
  BY <1>5, <1>6
<1>8. \A line \in 0 .. L - 1 : line < s * (n - left) => line \in touched
  BY <1>3, <1>6 DEF ChaseSeen
<1> QED BY <1>3, <1>5, <1>6, <1>7, <1>8

LEMMA TurnsWhole ==
  ASSUME Control, TurnsSeen, pc = "returned", kernel.walk = "mask", kernel.again = "nz", Enough
  PROVE  \A line \in 0 .. Lines - 1 : line \in touched
<1>1. MaskFits(bench) /\ kernel.walk \in Walks
  BY KindOf DEF Control, kernel, Walks
<1>2. kernel.by = 1
  BY <1>1 DEF MaskFits, kernel
<1>3. PICK L \in Nat \ {0}, p \in Nat : L = Lines /\ p * L = MostLines
  <2>1. Lines \in Nat \ {0} /\ LinesIn(bench) = Lines
    BY Regions
  <2>2. \E p \in Nat : p * LinesIn(bench) = MostLines
    BY <1>1 DEF MaskFits, kernel
  <2> QED BY <2>1, <2>2, Zenon
<1>4. PICK s \in Turns : s = Turn
  BY <1>1 DEF MaskFits, kernel, Turn, Turns
<1>5. Passes \in Int /\ L <= Passes
  <2>1. bench.size \div kernel.stride \in Int
    <3>1. bench.size \in Nat /\ kernel.stride \in Nat \ {0}
      BY <1>1, <1>3, Regions DEF MaskFits, kernel
    <3> QED BY <3>1
  <2>2. PICK z \in Int : z = bench.size \div kernel.stride
    BY <2>1
  <2>3. Max({L, z}) \in Int /\ L <= Max({L, z})
    <3>1. L \in Int /\ z \in Int
      OBVIOUS
    <3>2. Max({L, z}) \in {L, z} /\ L <= Max({L, z})
      BY <3>1, GreaterOfTwo, Zenon
    <3> QED BY <3>1, <3>2, Zenon
  <2>4. Passes = Max({L, z}) + 1
    BY <1>3, <2>2 DEF Passes
  <2> QED BY <1>3, <2>3, <2>4
<1>6. L <= n /\ n \in Nat /\ left = 0
  BY <1>1, <1>2, <1>3, <1>5, Returning DEF Enough
<1>7. \A j \in 0 .. n - left - 1 : (s * j) % L \in touched
  BY <1>3, <1>4, Zenon DEF TurnsSeen
<1>8. \A j \in 0 .. L - 1 : j \in 0 .. n - left - 1
  BY <1>3, <1>6
<1>9. \A line \in 0 .. L - 1 : \E j \in 0 .. L - 1 : (s * j) % L = line
  BY <1>3, <1>4, TurnsMeetAll, Zenon
<1> QED BY <1>3, <1>7, <1>8, <1>9, Zenon

LEMMA StridedWhole ==
  ASSUME Control, StridedSeen, pc = "returned", kernel.walk = "mask", kernel.again = "gt"
  PROVE  \A line \in 0 .. Lines - 1 : (line * 64) % Max({64, bench.stride}) = 0 => line \in touched
<1>1. MaskFits(bench) /\ kernel.walk \in Walks
  BY KindOf DEF Control, kernel, Walks
<1>2. /\ kernel.by = 4 /\ bench.stride \in {1, 2, 4, 8, 16, 32, 64, 128}
      /\ kernel.stride = 4 * bench.stride /\ bench.loop_count * bench.stride = 10 * bench.size
      /\ bench.loop_count \in Nat
  BY <1>1, KindOf DEF MaskFits, kernel, OnLines, Typed
<1>3. PICK L \in Nat \ {0}, d \in Nat \ {0} : L = Lines /\ bench.size = d /\ d = 64 * L
  <2>1. 64 * Lines \in Nat \ {0} /\ Lines \in Nat \ {0}
    BY Regions
  <2> QED BY <2>1, Regions
<1>4. PICK t \in Nat : t = bench.stride
  BY <1>2
<1>5. t \in Strides
  BY <1>2, <1>4 DEF Strides
<1>6. n \in Nat /\ left \in Int /\ left <= 0
  BY <1>1, Returning
<1>7. \A q \in 0 .. n - left - 1 : t * q < d => (t * q) \div 64 \in touched
  BY <1>3, <1>4, Zenon DEF StridedSeen
<1>8. d <= t * n
  <2>1. CASE n = bench.loop_count
    <3>1. n * t = 10 * d
      BY <1>2, <1>3, <1>4, <2>1
    <3> QED BY <1>3, <1>6, <3>1
  <2>2. CASE n >= Passes * kernel.by
    <3>1. PICK z \in Int : z = d \div (4 * t)
      BY <1>3, <1>5 DEF Strides
    <3>2. PICK most \in Int : most = Max({L, z}) /\ z <= most
      <4>1. L \in Int /\ z \in Int
        OBVIOUS
      <4>2. Max({L, z}) \in {L, z} /\ z <= Max({L, z})
        BY <4>1, GreaterOfTwo, Zenon
      <4> QED BY <4>1, <4>2, Zenon
    <3>3. Passes = most + 1
      BY <1>2, <1>3, <1>4, <3>1, <3>2 DEF Passes
    <3>4. n >= (z + 1) * 4
      BY <1>2, <1>6, <2>2, <3>2, <3>3
    <3>5. d < 4 * t * (z + 1)
      BY <1>3, <1>5, <3>1 DEF Strides
    <3>6. t * ((z + 1) * 4) <= t * n
      BY <1>5, <1>6, <3>1, <3>4 DEF Strides
    <3>7. 4 * t * (z + 1) = t * ((z + 1) * 4)
      OBVIOUS
    <3> QED BY <1>3, <1>6, <3>5, <3>6, <3>7
  <2> QED BY <1>1, <2>1, <2>2, Returning
<1> SUFFICES ASSUME NEW line \in 0 .. L - 1, (line * 64) % Max({64, t}) = 0
             PROVE  line \in touched
  BY <1>3, <1>4, Zenon
<1>9. PICK q \in Nat : t * q = 64 * line
  <2>1. CASE t = 128
    <3>1. PICK a \in Int, b \in Int : a = 64 /\ b = 128
      OBVIOUS
    <3>2. Max({a, b}) \in {a, b} /\ a <= Max({a, b}) /\ b <= Max({a, b})
      BY GreaterOfTwo, Zenon
    <3>3. PICK m \in {a, b} : m = Max({64, t}) /\ a <= m /\ b <= m
      BY <2>1, <3>1, <3>2
    <3>4. m = 128
      BY <3>1, <3>3
    <3>5. (line * 64) % 128 = 0
      BY <3>3, <3>4
    <3>6. line \div 2 \in Nat /\ 128 * (line \div 2) = 64 * line
      BY <3>5
    <3> QED BY <2>1, <3>6
  <2>2. CASE t # 128
    <3>1. 64 \div t \in Nat /\ t * (64 \div t) = 64
      BY <1>5, <2>2 DEF Strides
    <3>2. PICK u \in Nat : t * u = 64
      BY <3>1
    <3>3. u * line \in Nat /\ t * (u * line) = (t * u) * line
      BY <1>4
    <3> QED BY <3>2, <3>3
  <2> QED BY <2>1, <2>2
<1>10. t * q < d
  BY <1>3, <1>9
<1>11. q < n
  BY <1>6, <1>8, <1>10, <1>5 DEF Strides
<1>12. q \in 0 .. n - left - 1
  BY <1>6, <1>11
<1>13. (64 * line) \div 64 = line
  BY <1>3
<1> QED BY <1>7, <1>9, <1>10, <1>12, <1>13, Zenon

LEMMA Whole ==
  ASSUME Control, InnerSeen, LongEnough, ChaseSeen, TurnsSeen, StridedSeen, Enough
  PROVE  WholeRegion
<1> SUFFICES ASSUME pc = "returned", kernel.walk \in Walks,
                    NEW line \in 0 .. Lines - 1, (line * 64) % Max({64, bench.stride}) = 0
             PROVE  line \in touched
  BY DEF WholeRegion, UB_CACHE_LINE_SIZE
<1>1. CASE kernel.walk \in InnerWalks
  <2>1. left < n
    BY Returning
  <2> QED BY <1>1, <2>1 DEF InnerSeen
<1>2. CASE kernel.walk = "chase"
  BY <1>2, ChaseWhole
<1>3. CASE kernel.walk = "mask"
  <2>1. kernel.again \in {"nz", "gt"}
    BY <1>3, KindOf DEF Control, MaskFits, kernel
  <2> QED BY <1>3, <2>1, TurnsWhole, StridedWhole
<1> QED BY <1>1, <1>2, <1>3 DEF Enough, Walks

-----------------------------------------------------------------------------
(* The invariant, and the theorems. *)

IInv ==
  /\ Control
  /\ PassesWork /\ CallsWork /\ LinearWork /\ CycleWork
  /\ Placed /\ Reached
  /\ InnerSeen /\ LongEnough /\ ChaseSeen /\ TurnsSeen /\ StridedSeen

LEMMA InitIInv == Init => IInv
<1> SUFFICES ASSUME Init PROVE IInv
  OBVIOUS
<1>1. Control
  BY ControlInit
<1>2. pc = "make" /\ pos = 0 /\ low = 0 /\ high = 0 /\ touched = {} /\ works = <<>>
  BY DEF Init
<1>3. PassesWork
  BY <1>2 DEF PassesWork
<1>4. CallsWork
  BY <1>2 DEF CallsWork
<1>5. LinearWork
  BY <1>2 DEF LinearWork
<1>6. CycleWork
  BY <1>2 DEF CycleWork
<1>7. Placed
  BY <1>1, <1>2, BeginningPlaced DEF Placed
<1>8. Reached
  <2>1. kernel \in Kernel /\ bench.size \in Nat /\ bench.extra \in Nat
    BY <1>1, KindOf DEF Control, Typed, kernel
  <2>2. kernel.frame \in Nat /\ kernel.chunk \in Nat
    BY <2>1 DEF Kernel
  <2> QED BY <1>2, <2>1, <2>2 DEF Reached, Allowed, Ceiling
<1>9. InnerSeen
  BY <1>2 DEF InnerSeen
<1>10. LongEnough
  BY <1>2 DEF LongEnough
<1>11. ChaseSeen /\ TurnsSeen /\ StridedSeen
  BY <1>2 DEF ChaseSeen, TurnsSeen, StridedSeen
<1> QED BY <1>1, <1>3, <1>4, <1>5, <1>6, <1>7, <1>8, <1>9, <1>10, <1>11 DEF IInv

LEMMA NextIInv == IInv /\ [Next]_vars => IInv'
<1> SUFFICES ASSUME IInv, [Next]_vars PROVE IInv'
  OBVIOUS
<1>1. /\ Control /\ PassesWork /\ CallsWork /\ LinearWork /\ CycleWork /\ Placed /\ Reached
      /\ InnerSeen /\ LongEnough /\ ChaseSeen /\ TurnsSeen /\ StridedSeen
  BY DEF IInv
<1>2. Control'
  BY <1>1, ControlKept
<1>3. PassesWork' /\ CallsWork'
  BY <1>1, PassesWorkKept, CallsWorkKept
<1>4. LinearWork' /\ CycleWork'
  BY <1>1, LinearWorkKept, CycleWorkKept
<1>5. Placed'
  BY <1>1, PlacedKept
<1>6. Reached'
  BY <1>1, ReachedKept
<1>7. InnerSeen'
  BY <1>1, InnerSeenKept
<1>8. LongEnough' /\ ChaseSeen'
  BY <1>1, LongEnoughKept, ChaseSeenKept
<1>9. TurnsSeen' /\ StridedSeen'
  BY <1>1, TurnsSeenKept, StridedSeenKept
<1> QED BY <1>2, <1>3, <1>4, <1>5, <1>6, <1>7, <1>8, <1>9 DEF IInv

(* The strengthening the theorems below rest on: what the kernel of each   *)
(* registration is, where its loop is, what it did so far, where its walk  *)
(* stands, what it has reached and which lines it has seen.                *)
THEOREM IInvInvariant == Spec => []IInv
BY InitIInv, NextIInv, PTL DEF Spec

(* Every variable keeps its type, and so do the registrations: every       *)
(* kernel, each with every size it is registered with, is one.             *)
THEOREM KernelsTypeCorrect == Spec => []TypeOK
<1>1. IInv => TypeOK
  <2> SUFFICES ASSUME IInv PROVE TypeOK
    OBVIOUS
  <2>1. Control /\ pos \in Int /\ low \in Int /\ high \in Int /\ touched \subseteq Nat
    BY DEF IInv, Placed, Reached
  <2>2. Typed(bench)
    BY <2>1, KindOf DEF Control
  <2>3. kernel \in Kernel /\ {bench.loop_count, bench.ops_per_loop, bench.stride} \subseteq Nat \ {0}
    BY <2>2 DEF Typed, kernel
  <2>4. /\ pc \in {"make", "call", "pass", "inner", "returned", "end", "thrown"}
        /\ n \in Nat /\ work \in Nat /\ left \in Int /\ inner \in Int
        /\ works \in Seq(Nat) /\ Len(works) <= 2
    BY <2>1 DEF Control
  <2> QED BY <2>1, <2>3, <2>4 DEF TypeOK
<1> QED BY <1>1, IInvInvariant, PTL

(* Every registered benchmark's kernel does, in a call, the operations     *)
(* that its time is divided by (benchmark.hpp:268), and a loop delta       *)
(* (benchmark.hpp:362-376) comes to its operations exactly: for regions of *)
(* every size, and the loop counts of LoopCount.                           *)
THEOREM OpsAlwaysAsReported == Spec => []OpsAsReported
<1>1. IInv => OpsAsReported
  BY Reported DEF IInv
<1> QED BY <1>1, IInvInvariant, PTL

(* No kernel but those named in Overrunning leaves the memory it was lent, *)
(* its stack frame or its array, however large the region and however      *)
(* often the walk comes round.                                             *)
THEOREM AlwaysInsideMemory == Spec => []InsideMemory
<1>1. IInv => InsideMemory
  BY AllowedInside DEF IInv, Reached
<1> QED BY <1>1, IInvInvariant, PTL

(* A benchmark of a region of so many KiB (mem-benches.cpp:192-449) has    *)
(* touched each of its lines, or each line of its stride, when it returns, *)
(* whatever the size: the linear and cyclic walks, the chases that the     *)
(* size check lets go, and the masked walks that take as many steps as     *)
(* there are lines.                                                        *)
THEOREM RegionAlwaysWhole == Spec => [](Enough => WholeRegion)
<1>1. IInv => (Enough => WholeRegion)
  BY Whole DEF IInv
<1> QED BY <1>1, IInvInvariant, PTL
====
