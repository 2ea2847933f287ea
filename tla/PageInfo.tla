------------------------------ MODULE PageInfo ------------------------------
(***************************************************************************)
(* page-info.c: what the kernel tells of the pages of a range of memory.   *)
(* /proc/self/pagemap has an entry for every page, with a frame number if  *)
(* the page is present and the process may see it; /proc/kpageflags has    *)
(* the flags of every frame, for a process that can open it.  Both files   *)
(* are external, and so is the flag of a frame that is looked for.  A      *)
(* file that fails in another way than by a kpageflags that may not be     *)
(* opened (a pagemap that cannot be opened or read, a seek, a short read   *)
(* of either) ends the process by err before anything is reported or lent, *)
(* and is left out.                                                        *)
(***************************************************************************)
EXTENDS Naturals, FiniteSets

CONSTANTS
  PageSize,
  Privileges    \* what the process may do, a set of combinations

Privilege == {"see frames", "open kpageflags"}

ASSUME PageAssumption == PageSize \in Nat \ {0} /\ Privileges \subseteq SUBSET Privilege

pagedown(p) == p - (p % PageSize)

(* A range that takes the page of its end as a page of its own. *)
Mut_pages_EndIncluded(start, end) ==
  IF start < end THEN pagedown(start) \div PageSize .. pagedown(end) \div PageSize ELSE {}

(* The pages from that of start to that of the last byte. *)
pages(start, end) ==
  IF start < end
  THEN pagedown(start) \div PageSize .. (pagedown(end - 1) + PageSize) \div PageSize - 1
  ELSE {}

(* Per page, what get_info_for_range keeps of both files.  A frame number  *)
(* of 0 is one that cannot be seen; kpageflags is tried once.              *)
get_info_for_range(start, end, may, present, flagged) ==
  [page \in pages(start, end) |->
     LET pfn == page \in present /\ "see frames" \in may
     IN [kpageflags_ok |-> pfn /\ "open kpageflags" \in may, kpageflags |-> page \in flagged]]

(* Only the pages with flags are available, and only they are counted. *)
get_flag_count(info) ==
  LET available == {page \in DOMAIN info : info[page].kpageflags_ok}
  IN [pages_set |-> Cardinality({page \in available : info[page].kpageflags}),
      pages_available |-> Cardinality(available),
      pages_total |-> Cardinality(DOMAIN info)]
=============================================================================
