---------------------------- MODULE Registrations ----------------------------
(***************************************************************************)
(* The benchmarks as they are registered: which kernel, how many           *)
(* operations it is said to do per loop, how many loops it is called with  *)
(* and what memory it is lent.  Names, descriptions and tags are left out; *)
(* benchmarks that differ in nothing else are one.                         *)
(***************************************************************************)
EXTENDS CppKernels

CONSTANTS
  BUFSIZE,        \* of the missing accesses; the SIZE of x86-methods.asm is the same
  MAX_SIZE        \* of the memory benchmarks, in bytes

(* The missing accesses are masked with SIZE - 1 (x86-methods.asm:3137,    *)
(* 3153): it is a power of two, of at least a line, and fits an int.       *)
ASSUME RegistrationAssumption == BUFSIZE \in {2 ^ k : k \in 6 .. 30} /\ MAX_SIZE \in Nat

(* The defaults of DeltaMaker and StaticMaker.  The memory that is lent    *)
(* has `extra` bytes after the `size` that the kernel is told.             *)
make(kernel, ops_per_loop) ==
  [kernel |-> kernel, ops_per_loop |-> ops_per_loop, loop_count |-> 10000,
   size |-> 0, extra |-> 0, stride |-> 64, kib |-> 0, sizecheck |-> FALSE, loop_delta |-> FALSE]

(* The loop count of a maker, and the memory a provider lends. *)
Times(loop_count, bench) == [bench EXCEPT !.loop_count = loop_count]
Lent(size, bench) == [bench EXCEPT !.size = size]

make_mem_bench(kernel, kib, ops) == Lent(kib * 1024, make(kernel, ops))

make_load_bench(kernel, kib, ops, sizecheck) ==
  [make_mem_bench(kernel, kib, ops) EXCEPT !.kib = kib, !.sizecheck = sizecheck]

LinesOf(kib) == (kib * 1024) \div 64

Pow2(from, to) == {kib \in {from * 2 ^ k : k \in 0 .. 17} : kib <= to}

MAX_KIB == 2048
ALL_SIZES ==
  {16, 24, 30, 31, 32, 33, 34, 35, 40, 48, 56, 64, 80, 96, 112, 128, 196, 252, 256, 260,
   384, 512, 1024, MAX_KIB}
SlowSizes == Pow2(2 * MAX_KIB, MAX_SIZE \div 1024)

-----------------------------------------------------------------------------

register_default ==
  {make(kernel, 128) : kernel \in
     {dep_add_rax_rax, dep_imul_rax, store_same_loc, store64_disjoint, dep_pushpop,
      div_rcx, inc_rmw, indep_nop, rdtsc_bench}
     \union {sameloc_pointer_chase(offset) : offset \in {0, 2047, 2048, 4096}}}
  \union {make(dep_sub_calib(unroll), 1) : unroll \in {2, 10}}
  \union {make(kernel, 16) : kernel \in {call_empty, add_rmw2, dep_add_chain}}
  \union {make(indep_add, 50 * 8)}
  \union {make(alu_load_6(k), (6 + k) * 64) : k \in 0 .. 6}

register_branch ==
  {make(kernel, 1) : kernel \in
     {jmp_forward, indirect_forward, jmp_forward_dual, indirect_variable, load_alloc}}
  \union {Lent(8, make(jmp_loop_generic, 1))}

register_call == {make(kernel, 16) : kernel \in {dense_call, chained_call, pushpop_call}}

register_decode ==
  {Times(1000, make(decode, 50400 \div 2)), Times(1000, make(decode_monoid, 3200)),
   Times(1000, make(decode_monoid2, 9000)), Times(10000, make(decode_complex, 200)),
   Times(1000, Lent(4 * 1024, make(quadratic, 1000)))}

register_syscall ==
  {make(kernel, 1) : kernel \in {syscall_loop, syscall_asm}}
  \union {make(lfence_only, 8)}
  \union {Times(BUFSIZE \div 64, Lent(BUFSIZE, make(parallel_miss(4), 1)))}

register_vector ==
  {Times(100000, make(kernel, 1)) : kernel \in
     {bypass_mov_latency}
     \union {vector_load_load_lat(width, offset) : width \in {16, 32, 64}, offset \in {0, 63}}
     \union {vector_load_load_lat_double(width, offset) :
               width \in {16, 32, 64}, offset \in {0, 3200}}}
  \union {Times(1000, make(p01_fusion, 100)), make(intrinsic_bench, 4),
          [make(intrinsic_bench, 4) EXCEPT !.loop_delta = TRUE]}

register_rstalls ==
  {Times(1000, make(kernel, 128)) : kernel \in {rs_dep_add, rs_split_stores, rs_dep_fsqrt}}
  \union {Times(1000, make(kernel, 32)) : kernel \in
            {rs_op_op, rs_load_op, rs_loadchain, rs_storebuf}}

register_loadstore ==
  {Times(1000, Lent(64, make(kernel, 128))) : kernel \in
     {store_any(width) : width \in {2, 4, 8, 16, 32, 64}}
     \union {load_any(width) : width \in {2, 4, 8, 16, 32, 64}}}

register_misc ==
  {Times(3 * 1000 * 1000, make(misc_add_loop, 1))}
  \union {make(kernel, 1) : kernel \in {misc_port7, david_schor1, mov_elim}}
  \union {make(kernel, 128) : kernel \in {misc_fusion_add, macro_fusion, bmi_bench, avx512}}
  \union {make(double_macro_fusion(n), n) : n \in {256, 4000}}
  \union {Times(10 * 10000, make(tight_loop, 1))}
  \union {make(kernel, 1000) : kernel \in {adc_chain, weird_store}}
  \union {make(retpoline_dense_call, 32), make(retpoline_sparse_call, 8)}
  \union {make(kernel, 100) : kernel \in {vz_samereg, movd_xmm}}
  \union {[Times(100, make(rep_movsb, 100)) EXCEPT !.loop_delta = TRUE]}
  \union {Lent(4, make(nested_loop, 1))}

dendibakh_group ==
  {Times(1024, make(kernel, 1)) : kernel \in {dsb_alignment, dendibakh(1024)}}
  \union {Times(1024, Lent(8000, make(kernel, 1))) : kernel \in
            {fusion_better_fused, fusion_better_unfused}}

register_cacheline_branch == {Times(100 * 1000, make(cacheline_branch, 1))}
register_matt == {Times(100 * 1000, make(BM_mov, 1))}

register_oneshot ==
  {Times(1, make(kernel, 1)) : kernel \in {dummy_bench_oneshot, store_raw_libpfc, oneshot_adds}}
  \union {Times(1, make(kernel, 128)) : kernel \in {dep_add_rax_rax, dep_add_noloop_128}}
  \union {Times(1, make(indep_add, 50 * 8))}

register_mem_oneshot ==
  {Times(1, make_mem_bench(touch_bench, kib, LinesOf(kib))) : kib \in Pow2(1, 1024)}
  \union {Times(1, Lent(10 * 4096, make(kernel, 1))) : kernel \in
            {fwd_lat_delay_oneshot, oneshot_try, aliasing_loads, aliasing_loads_raw,
             mixed_loads_raw}}

-----------------------------------------------------------------------------
(* mem-benches.cpp and mem-studies.cpp. *)

parallel_group(width) ==
  {Times(1000 * 1000, make_load_bench(parallel_mem_bench(width), kib, UF, TRUE)) :
     kib \in ALL_SIZES \union SlowSizes}

prefetch_group ==
  {Times(100000, make_load_bench(parallel_mem_bench(1), kib, UF, TRUE)) :
     kib \in {16, 32, 64, 128, 256, 512, 2048, 4096, 8192, 8192 * 4}}

pointer_chase_group ==
  {make(kernel, 128) : kernel \in
     {sameloc_pointer_chase_alt, sameloc_pointer_chase_diffpage, sameloc_pointer_chase_alu,
      sameloc_pointer_chase_alu2}}
  \union {make(kernel, 16) : kernel \in {sameloc_pointer_chase_8way, sameloc_pointer_chase_8way5}}
  \union {make(sameloc_pointer_chase_8way45, 10)}

serial(kernel, loop_count, kib) == Times(loop_count, make_load_bench(kernel, kib, 1, TRUE))

load_serial_group ==
  {serial(serial_load_bench, 100 * 1000, kib) : kib \in ALL_SIZES}
  \union {serial(serial_load_bench, 7 * 1000 * 1000, kib) : kib \in SlowSizes}

load_serial_crossing_group ==
  {serial(serial_load_bench, IF kib > MAX_KIB THEN 7 * 1000 * 1000 ELSE 100 * 1000, kib) :
     kib \in Pow2(8, MAX_SIZE \div 1024)}

Mut_super_load_serial_group_FewerLoops ==
  {serial(serial_load_bench, 4 * 1000 * 1000, (kib * percent) \div 100) :
     kib \in Pow2(16, MAX_SIZE \div 1024), percent \in {90 + 2 * k : k \in 0 .. 10}}

(* The fudged sizes, 0.90 to 1.10 of a power of two.  The source steps a   *)
(* double by 0.02 and truncates the product, which is the same size as the *)
(* quotient of whole percents for every power of two that is registered.   *)
super_load_serial_group ==
  {serial(serial_load_bench, 5 * 1000 * 1000, (kib * percent) \div 100) :
     kib \in Pow2(16, MAX_SIZE \div 1024), percent \in {90 + 2 * k : k \in 0 .. 10}}

Mut_BandwidthLoops_NoFloor(kib) == (16 * 1024) \div kib

BandwidthLoops(kib) == IF (16 * 1024) \div kib > 16 THEN (16 * 1024) \div kib ELSE 16

bandwidth_load_group ==
  {Times(BandwidthLoops(kib), make_load_bench(define_bandwidth, kib, LinesOf(kib), FALSE)) :
     kib \in Pow2(4, 128 * 1024)}

bandwidth_store_group ==
  {Times(BandwidthLoops(kib), make_load_bench(define_bandwidth, kib, LinesOf(kib), TRUE)) :
     kib \in Pow2(4, 64 * 1024)}

gather_group == {make(kernel, 16) : kernel \in {gatherdd(n) : n \in {4, 8}}
                                     \union {gatherdd_lat(n) : n \in {4, 8}}}

crit_word_group ==
  {serial(serial_load_bench2, 4 * 1024 * 1024, kib) : kib \in ALL_SIZES \union SlowSizes}

tlb_fencing_group ==
  {Times(1500000, [make_mem_bench(tlb_fencing, kib, 1) EXCEPT !.extra = 256]) :
     kib \in Pow2(4, 256 * 1024)}

l2_doubleload_group ==
  {Times(1024 * 1024, make_mem_bench(serial_double_load({0}), kib, 1)) : kib \in {16, 128}}
  \union {Times(1024 * 1024, make_mem_bench(serial_double_load(offsets), 128, 1)) :
            offsets \in {{0, 56}, {56}}}
  \union {Times(512, make_load_bench(kernel, kib, LinesOf(kib), TRUE)) :
            kib \in Pow2(8, 1024),
            kernel \in {bandwidth_test256, bandwidth_test256i, bandwidth_test256i_orig,
                        bandwidth_test256i_single, bandwidth_test256i_double}}
  \union {Times(1000, make_mem_bench(shuffled_list_sum, 128, LinesOf(128)))}

store_fwd_group ==
  {make(fwd_lat_delay, 1)} \union {make(fwd_tput_conc(conc), conc) : conc \in 1 .. 10}

replay_group ==
  {Lent(10 * 1024 * 1024, make(replay_crossing, 100))}

forwarding_group ==
  {make(fw_write_read(at, width), 100) : at \in {0, 63}, width \in {8}}
  \union {make(fw_write_read(0, 16), 100)}

nt_stores_group ==
  {Times(10, make_mem_bench(define_nt_extra, 32 * 1024, LinesOf(32 * 1024)))}

fencing_group ==
  {Times(BUFSIZE \div 64, Lent(BUFSIZE, make(parallel_miss(width), 1))) : width \in {4, 8}}

load_patterns_group ==
  {make(load_pattern(offsets), 1) : offsets \in
     {{0}, {0, 4}, {0, 8}, {0, 12}, {0, 16}, {0, 20}, {0, 24}, {4, 8}, {0, 4, 8, 12},
      {1, 5, 9, 13}, {0, 32}, {0, 64}, {0, 96}, {0, 72}}}
  \union {make(load_pattern3(offsets), 1) : offsets \in {{0, 4, 8}, {0, 8, 80}}}

-----------------------------------------------------------------------------
(* cpp-bench-register.cpp. *)

cpp_group ==
  {[make(kernel, 1) EXCEPT !.loop_delta = TRUE] : kernel \in {div64_templ, gettimeofday_bench}}
  \union {[make(crc8_bench, 4096) EXCEPT !.loop_delta = TRUE]}
  \union {Times(1000, make(kernel, 2048)) : kernel \in {sum_halves_bench, add_indirect}}
  \union {Times(1000, make(kernel, 4096)) : kernel \in
            {mul_by_bench, mul_chain_bench, mul_chain4_bench}}
  \union {Times(1000, make(linkedlist_sum, LIST_COUNT))}

Mut_make_strided_stores_NoRoom(data_size) ==
  {Lent(1024, make(sameloc_stores(data_size, offset), 1)) : offset \in {0, 63}}
  \union
  {Times(10 * ((kib * 1024) \div stride),
         [make_mem_bench(strided_stores(data_size, stride), kib, 1) EXCEPT !.stride = stride]) :
     stride \in {1, 2, 4, 8, 16, 32, 64, 128},
     kib \in {4, 8, 16, 32, 64, 128, 256, 512, 1024, 2048}}

(* All stores to one place, whose last byte may be in the next line; then  *)
(* strided ones, in memory a KiB larger than what they are masked to.      *)
make_strided_stores(data_size) ==
  {Lent(1024, make(sameloc_stores(data_size, offset), 1)) : offset \in {0, 63}}
  \union
  {Times(10 * ((kib * 1024) \div stride),
         [make_mem_bench(strided_stores(data_size, stride), kib, 1)
            EXCEPT !.extra = 1024, !.stride = stride]) :
     stride \in {1, 2, 4, 8, 16, 32, 64, 128},
     kib \in {4, 8, 16, 32, 64, 128, 256, 512, 1024, 2048}}

store_volatile_group ==
  {make(volatile_stores_elems(gap, width), 1) : gap \in {0, 1, 2}, width \in {1, 4, 8}}
  \union {make(volatile_stores_bytes(gap, width), 1) : gap \in {56, 64}, width \in {1, 4, 8}}

store_alignment_group ==
  UNION {{make(misaligned_stores_sameloc(offset), 1), make(misaligned_stores_rolling(offset), 1),
          make(misaligned_stores_twoloc(offset), 1)} : offset \in 0 .. 64}

store_study_group ==
  {Times(100000, make(volatile_stores_study, 1))}
  \union {Times(100000, make(volatile_stores_arb_offsets(8, Os), 1)) :
            Os \in {{0}, {0, 1}, {0, 2, 4, 6}}}
  \union {Times(100000, make(volatile_stores_arb_offsets(4, Os), 1)) :
            Os \in {{0, 1}, {0, 2, 4, 6}, {0, 16}, {0, 16, 17, 18}}}

transcendental_group == {Times(100000, make(do_transcendental, 1))}

-----------------------------------------------------------------------------

register_mem ==
  UNION {parallel_group(1), parallel_group(4), prefetch_group, pointer_chase_group,
         load_serial_group, load_serial_crossing_group, super_load_serial_group,
         bandwidth_load_group, bandwidth_store_group, gather_group, crit_word_group,
         tlb_fencing_group, l2_doubleload_group, store_fwd_group}

register_mem_studies ==
  UNION {replay_group, forwarding_group, nt_stores_group, fencing_group, load_patterns_group}

register_cpp ==
  UNION {cpp_group, make_strided_stores(1), make_strided_stores(4), make_strided_stores(8),
         store_volatile_group, store_alignment_group, store_study_group, transcendental_group}

Registered ==
  UNION {register_default, register_branch, register_call, register_decode, register_syscall,
         register_vector, register_rstalls, register_loadstore, register_misc, dendibakh_group,
         register_cacheline_branch, register_matt, register_oneshot, register_mem_oneshot, register_mem,
         register_mem_studies, register_cpp}
=============================================================================
