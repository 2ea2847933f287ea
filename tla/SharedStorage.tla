--------------------------- MODULE SharedStorage ---------------------------
(***************************************************************************)
(* The memory that util.cpp lends to the benchmarks: two storages that     *)
(* every aligned_ptr and aligned_ptr_4k reuses, one that every             *)
(* shuffled_region overwrites, and the two buffers of flush_caches.  They  *)
(* are allocated on first use, in whatever order the benchmarks come, and  *)
(* never freed.                                                            *)
(*                                                                         *)
(* The allocator is external: a block may start at any address of the      *)
(* right alignment after the earlier blocks.  The kernel is external: a    *)
(* page is present once it has been written, and is part of a huge page or *)
(* is not.                                                                 *)
(***************************************************************************)
EXTENDS PageInfo, Integers, Sequences, SequencesExt

CONSTANTS
  UB_CACHE_LINE_SIZE,
  TWO_MB,
  STORAGE_SIZE,
  MAX_SHUFFLED_REGION_SIZE,
  EXTRA_SIZE,                 \* the local constant of flush_helper
  PageAlignment,              \* what every caller of aligned_ptr_4k asks for
  Null,
  AlignedRequests,            \* the calls of aligned_ptr and misaligned_ptr
  AlignedRequests4k,          \* the calls of aligned_ptr_4k
  RegionRequests,             \* the calls of shuffled_region
  WorkingSets,                \* the arguments of flush_caches
  Skews,                      \* the gaps the allocator may leave (for TLC)
  Backed                      \* the pages that the kernel backs by huge pages

IsAligned(a, alignment) == a % alignment = 0

ASSUME StorageAssumption ==
  /\ UB_CACHE_LINE_SIZE \in Nat /\ UB_CACHE_LINE_SIZE > 1 /\ IsAligned(UB_CACHE_LINE_SIZE, 2)
  /\ {TWO_MB, STORAGE_SIZE, MAX_SHUFFLED_REGION_SIZE, EXTRA_SIZE, PageAlignment}
       \subseteq Nat \ {0}
  /\ IsAligned(TWO_MB, UB_CACHE_LINE_SIZE)
  /\ Null \notin Int
  /\ \A r \in AlignedRequests \union AlignedRequests4k :
       /\ r.required_size \in Nat /\ r.required_size <= STORAGE_SIZE
       /\ r.base_alignment \in Nat \ {0} /\ IsAligned(TWO_MB, r.base_alignment)
       /\ r.misalignment \in Nat /\ r.misalignment + r.required_size <= STORAGE_SIZE
  /\ \A r \in AlignedRequests4k : r.base_alignment = PageAlignment
  /\ \A r \in RegionRequests :
       /\ r.size \in Nat \ {0} /\ IsAligned(r.size, UB_CACHE_LINE_SIZE)
       /\ r.offset \in Int /\ -TWO_MB <= r.offset
       /\ r.size + r.offset <= MAX_SHUFFLED_REGION_SIZE
  /\ WorkingSets \subseteq Nat \ {0} /\ Skews \subseteq Nat

VARIABLES
  blocks,            \* the allocated blocks, in the order of their addresses
  cells,             \* what has been written, by address
  storage_ptr_huge,
  storage_ptr_4k,
  storage_,          \* the static of shuffled_region
  buffer,            \* the statics of flush_helper, one per allocator
  arg,               \* the memory the last call lent to a benchmark
  region,            \* the last result of shuffled_region
  flushing,          \* the argument of a flush_caches that is half done, or 0
  reads,             \* history: what the last flush_helper read, by allocator
  flushed,           \* history: the argument of the last flush_caches
  may,               \* what the process may ask of the kernel
  report             \* the last report of new_huge_ptr, and on what

flush == <<flushing, reads, flushed>>
storages == <<storage_ptr_huge, storage_ptr_4k, storage_>>
vars == <<blocks, cells, storages, buffer, arg, region, flush, may, report>>

Allocator == {"huge", "new"}
Advice == {"huge", "default"}
Value == {"fill", "next", "data"} \X (Int \union {Null})

Span == [start : Int, size : Nat]
NoSpan == [start |-> 0, size |-> 0]
NoPages == [pages_set |-> 0, pages_available |-> 0, pages_total |-> 0]

TypeOK ==
  /\ blocks \in Seq([start : Nat, size : Nat, advice : Advice])
  /\ \A a \in DOMAIN cells : a \in Nat /\ cells[a] \in Value
  /\ {storage_ptr_huge, storage_ptr_4k, storage_} \subseteq Nat \union {Null}
  /\ \A k \in Allocator : buffer[k] \in [start : Int, size : WorkingSets \union {0}]
  /\ arg \in Span /\ region \in Span
  /\ reads \in [Allocator -> SUBSET Int]
  /\ {flushing, flushed} \subseteq WorkingSets \union {0}
  /\ may \in Privileges
  /\ report \in [on : Span, count : [DOMAIN NoPages -> Nat]]

-----------------------------------------------------------------------------
(* Memory. *)

Addresses(start, size) == start .. start + size - 1

(* memset, and any other way to write all of a range. *)
Fill(c, start, size, v) ==
  [a \in DOMAIN c \union Addresses(start, size) |->
     IF a \in Addresses(start, size) THEN v ELSE c[a]]

Fixed(n) == <<"fill", n>>

Top == IF blocks = <<>> THEN 0 ELSE Last(blocks).start + Last(blocks).size

AlignUp(a, alignment) == ((a + alignment - 1) \div alignment) * alignment

(* External: where the allocator puts a block with this alignment. *)
Places(alignment) == {AlignUp(Top + gap, alignment) : gap \in Skews}

Allocate(start, size, advice) ==
  blocks' = Append(blocks, [start |-> start, size |-> size, advice |-> advice])

HugeStart(place) == place + TWO_MB

Touched(c, start, size) == Fill(Fill(c, start, size, Fixed(1)), start, size, Fixed(0))

(* External: the pages that are present, because something was written.    *)
Present(c) == {a \div PageSize : a \in DOMAIN c}

(* How many pages of the memory are huge, as far as the kernel tells. *)
ReportTHP(start, size, c) ==
  report' = [on |-> [start |-> start, size |-> size],
             count |-> get_flag_count(get_info_for_range(start, start + size, may, Present(c), Backed))]

(* A block without room for the shift of its start. *)
Mut_new_huge_ptr_NoRoom(place, size) ==
  /\ Allocate(place, size, "huge")
  /\ ReportTHP(HugeStart(place), size, Touched(cells, HugeStart(place), size))

(* A report on memory that has not been written. *)
Mut_new_huge_ptr_ReportFirst(place, size) ==
  /\ Allocate(place, size + TWO_MB, "huge")
  /\ ReportTHP(HugeStart(place), size, cells)

(* new_huge_ptr moves the start by TWO_MB, writes all of the rest and      *)
(* reports on it.  (It is never called with huge = false, and the build is *)
(* one with UARCH_BENCH_USE_HUGEPAGES: without it there is no shift.)      *)
new_huge_ptr(place, size) ==
  /\ Allocate(place, size + TWO_MB, "huge")
  /\ ReportTHP(HugeStart(place), size, Touched(cells, HugeStart(place), size))

-----------------------------------------------------------------------------

Init ==
  /\ blocks = <<>> /\ cells = [a \in {} |-> Fixed(0)]
  /\ storage_ptr_huge = Null /\ storage_ptr_4k = Null /\ storage_ = Null
  /\ buffer = [k \in Allocator |-> NoSpan]
  /\ arg = NoSpan /\ region = NoSpan
  /\ flushing = 0 /\ flushed = 0
  /\ reads = [k \in Allocator |-> {}]
  /\ may \in Privileges
  /\ report = [on |-> NoSpan, count |-> NoPages]

(* align: padding in front of the pointer.  Its test for too little space  *)
(* has no effect, since r is assigned again after it.                      *)
Lend(r, storage_ptr, c) ==
  LET p == AlignUp(storage_ptr, r.base_alignment)
  IN /\ arg' = [start |-> p + r.misalignment, size |-> r.required_size]
     /\ cells' = IF r.set_zero THEN Fill(c, p, r.required_size, Fixed(0)) ELSE c

(* aligned_ptr and misaligned_ptr. *)
AlignedPtr(r) ==
  /\ flushing = 0
  /\ IF storage_ptr_huge = Null
     THEN \E place \in Places(TWO_MB) :
            /\ new_huge_ptr(place, STORAGE_SIZE)
            /\ storage_ptr_huge' = HugeStart(place)
            /\ Lend(r, HugeStart(place), Touched(cells, HugeStart(place), STORAGE_SIZE))
     ELSE Lend(r, storage_ptr_huge, cells) /\ UNCHANGED <<blocks, storage_ptr_huge, report>>
  /\ UNCHANGED <<storage_ptr_4k, storage_, buffer, region, flush, may>>

(* The 4k storage has the alignment of the first call and no advice. *)
AlignedPtr4k(r) ==
  /\ flushing = 0
  /\ IF storage_ptr_4k = Null
     THEN \E place \in Places(r.base_alignment) :
            /\ Allocate(place, STORAGE_SIZE, "default")
            /\ storage_ptr_4k' = place
            /\ Lend(r, place, cells)
     ELSE Lend(r, storage_ptr_4k, cells) /\ UNCHANGED <<blocks, storage_ptr_4k>>
  /\ UNCHANGED <<storage_ptr_huge, storage_, buffer, region, flush, may, report>>

(* External: a benchmark stores to the memory it was lent. *)
BenchStores ==
  /\ flushing = 0 /\ arg.size > 0
  /\ cells' = Fill(cells, arg.start, arg.size, <<"data", Null>>)
  /\ UNCHANGED <<blocks, storages, buffer, arg, region, flush, may, report>>

(* External: a benchmark stores to the region it was lent, as the parallel *)
(* stores and the bandwidth benchmarks do, and is done with the chain.     *)
RegionStores ==
  /\ flushing = 0 /\ region.size > 0
  /\ cells' = Fill(cells, region.start, region.size, <<"data", Null>>)
  /\ region' = NoSpan
  /\ UNCHANGED <<blocks, storages, buffer, arg, flush, may, report>>

Line(start, index) == Addresses(start + index * UB_CACHE_LINE_SIZE, UB_CACHE_LINE_SIZE)

(* The lines linked in the order of indexes, the last one to the first. *)
Linked(c, start, indexes) ==
  LET lines == Len(indexes)
      Next(n) == start + indexes[(n % lines) + 1] * UB_CACHE_LINE_SIZE
  IN [a \in DOMAIN c |->
        IF \E n \in 1 .. lines : a \in Line(start, indexes[n])
        THEN <<"next", Next(CHOOSE n \in 1 .. lines : a \in Line(start, indexes[n]))>>
        ELSE c[a]]

(* What std::shuffle may make of the indexes. *)
Shuffles(lines) ==
  {f \in [1 .. lines -> 0 .. lines - 1] : \A m, n \in 1 .. lines : f[m] = f[n] => m = n}

(* The offset is a size_t that is added to a pointer: with the -1 of       *)
(* mem-benches.cpp:287 a region begins one byte in front of the storage,   *)
(* so that each of its lines crosses two, and the size + offset of the     *)
(* assertion wraps to size - 1.                                            *)
Shuffle(r, storage, c) ==
  LET start == storage + r.offset
  IN \E indexes \in Shuffles(r.size \div UB_CACHE_LINE_SIZE) :
       /\ cells' = Linked(Fill(c, start, r.size, Fixed(-1)), start, indexes)
       /\ region' = [start |-> start, size |-> r.size]

(* A region in the storage of aligned_ptr. *)
Mut_ShuffledRegion_Shared(r) ==
  /\ flushing = 0
  /\ storage_ptr_huge # Null
  /\ Shuffle(r, storage_ptr_huge, cells)
  /\ UNCHANGED <<blocks, storages, buffer, arg, flush, may, report>>

ShuffledRegion(r) ==
  /\ flushing = 0
  /\ IF storage_ = Null
     THEN \E place \in Places(TWO_MB) :
            /\ new_huge_ptr(place, MAX_SHUFFLED_REGION_SIZE)
            /\ storage_' = HugeStart(place)
            /\ Shuffle(r, HugeStart(place),
                       Touched(cells, HugeStart(place), MAX_SHUFFLED_REGION_SIZE))
     ELSE Shuffle(r, storage_, cells) /\ UNCHANGED <<blocks, storage_, report>>
  /\ UNCHANGED <<storage_ptr_huge, storage_ptr_4k, buffer, arg, flush, may>>

(* flush_helper reads with two indices, the fast one twice as fast as the  *)
(* slow one, in passes over more and more of the buffer.                   *)
Passes(working_set) ==
  {size \in 1 .. working_set : size = working_set \/ \E k \in 0 .. size : size = 2 ^ k}

(* Passes that end with the largest power of two. *)
Mut_ReadBy_NoLast(start, working_set) ==
  LET half == UB_CACHE_LINE_SIZE \div 2
      steps == {n \in 0 .. working_set : \E size \in Passes(working_set) \ {working_set} : n * half < size}
  IN {start + n * half : n \in steps}

ReadBy(start, working_set) ==
  LET half == UB_CACHE_LINE_SIZE \div 2
      lines == (working_set + UB_CACHE_LINE_SIZE - 1) \div UB_CACHE_LINE_SIZE
      steps == {n \in 0 .. working_set : \E size \in Passes(working_set) : n * half < size}
  IN {start + n * half : n \in steps}
     \union {start + (n % lines) * UB_CACHE_LINE_SIZE : n \in steps}

(* The memory of a buffer of flush_helper. *)
alloc(k, place, size) ==
  IF k = "huge" THEN new_huge_ptr(place, size)
  ELSE Allocate(place, size, "default") /\ UNCHANGED report

AllocStart(k, place) == IF k = "huge" THEN HugeStart(place) ELSE place

(* A buffer recorded with its margins, as if they could be read. *)
Mut_flush_helper_Margins(k, working_set, place) ==
  LET total_size == working_set + 2 * EXTRA_SIZE
      p == AllocStart(k, place)
  IN /\ IF buffer[k].size < working_set
        THEN /\ alloc(k, place, total_size)
             /\ cells' = Fill(cells, p, total_size, Fixed(1))
             /\ buffer' = [buffer EXCEPT ![k] = [start |-> p, size |-> total_size]]
        ELSE UNCHANGED <<blocks, cells, buffer, report>>
     /\ reads' = [reads EXCEPT ![k] = ReadBy(p, working_set)]

(* The buffer is replaced when it is too small, and the old one is left. *)
flush_helper(k, working_set, place) ==
  LET total_size == working_set + 2 * EXTRA_SIZE
      p == AllocStart(k, place)
      start == IF buffer[k].size < working_set THEN p + EXTRA_SIZE ELSE buffer[k].start
  IN /\ IF buffer[k].size < working_set
        THEN /\ alloc(k, place, total_size)
             /\ cells' = Fill(cells, p, total_size, Fixed(1))
             /\ buffer' = [buffer EXCEPT ![k] = [start |-> start, size |-> working_set]]
        ELSE UNCHANGED <<blocks, cells, buffer, report>>
     /\ reads' = [reads EXCEPT ![k] = ReadBy(start, working_set)]

FlushHuge(working_set) ==
  /\ flushing = 0
  /\ \E place \in Places(TWO_MB) : flush_helper("huge", working_set, place)
  /\ flushing' = working_set
  /\ UNCHANGED <<storages, arg, region, flushed, may>>

FlushNew ==
  /\ flushing # 0
  /\ \E place \in Places(1) : flush_helper("new", flushing, place)
  /\ flushing' = 0 /\ flushed' = flushing
  /\ UNCHANGED <<storages, arg, region, may>>

Next ==
  \/ \E r \in AlignedRequests : AlignedPtr(r)
  \/ \E r \in AlignedRequests4k : AlignedPtr4k(r)
  \/ BenchStores \/ RegionStores
  \/ \E r \in RegionRequests : ShuffledRegion(r)
  \/ \E working_set \in WorkingSets : FlushHuge(working_set)
  \/ FlushNew

Spec == Init /\ [][Next]_vars

-----------------------------------------------------------------------------
(* Properties. *)

InBlock(start, size) ==
  \E n \in DOMAIN blocks :
    /\ blocks[n].start <= start
    /\ start + size <= blocks[n].start + blocks[n].size

(* util.cpp:94-255: whatever is lent, in whatever order the storages came  *)
(* to be, lies in one allocated block: after the shift of new_huge_ptr and *)
(* the padding of align, and with the offset of shuffled_region, which may *)
(* be negative and reach in front of what new_huge_ptr returned.           *)
LentInBlock ==
  /\ arg.size > 0 => InBlock(arg.start, arg.size)
  /\ region.size > 0 => InBlock(region.start, region.size)
  /\ \A k \in Allocator :
       buffer[k].size > 0 => InBlock(buffer[k].start - EXTRA_SIZE, buffer[k].size + 2 * EXTRA_SIZE)

(* "The pointers cover all chunks in a cycle of maximum size"              *)
(* (util.cpp:206-208): following them from the first line comes back to it *)
(* after all the others, and stays so until the next shuffled_region or a  *)
(* store to the region itself, whatever is lent, stored elsewhere or       *)
(* flushed in between.                                                     *)
RegionLines == {region.start + n * UB_CACHE_LINE_SIZE :
                  n \in 0 .. (region.size \div UB_CACHE_LINE_SIZE) - 1}
Walk[n \in Nat] == IF n = 0 THEN region.start ELSE cells[Walk[n - 1]][2]
RegionIntact ==
  region.size > 0 =>
    LET lines == region.size \div UB_CACHE_LINE_SIZE
    IN /\ \A line \in RegionLines : \A a \in Addresses(line, UB_CACHE_LINE_SIZE) :
            cells[a] = cells[line] /\ cells[a][1] = "next"
       /\ {Walk[n] : n \in 0 .. lines - 1} = RegionLines
       /\ Walk[lines] = region.start

(* flush_caches (util.cpp:270-313) reads every line of both working sets,  *)
(* also when a buffer is left from a larger one, and nothing outside.      *)
FlushCovers ==
  flushing = 0 /\ flushed # 0 =>
    \A k \in Allocator :
      LET lines == 0 .. (flushed - 1) \div UB_CACHE_LINE_SIZE
      IN /\ reads[k] \subseteq Addresses(buffer[k].start, flushed)
         /\ \A n \in lines : reads[k] \cap
              Addresses(buffer[k].start + n * UB_CACHE_LINE_SIZE, UB_CACHE_LINE_SIZE) # {}

(* new_huge_ptr (util.cpp:105-136) reports on the memory it returns, all   *)
(* of it and nothing else, also when its size is not a whole number of     *)
(* pages: a privileged process gets the flag of every page, because the    *)
(* memory has been written by then, and any other process of none.         *)
PagesReported ==
  report.on.size > 0 =>
    LET own == {a \div PageSize : a \in Addresses(report.on.start, report.on.size)}
    IN report.count =
         [pages_set |-> IF may = Privilege THEN Cardinality(own \cap Backed) ELSE 0,
          pages_available |-> IF may = Privilege THEN Cardinality(own) ELSE 0,
          pages_total |-> Cardinality(own)]
=============================================================================
