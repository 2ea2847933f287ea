--------------------------- MODULE MCSharedStorage ---------------------------
(* Values for TLC of the constants of SharedStorage: lines of 2 bytes, and *)
(* storages of a few lines.                                                *)
EXTENDS SharedStorage

MCRequest(base_alignment, required_size, misalignment, set_zero) ==
  [base_alignment |-> base_alignment, required_size |-> required_size,
   misalignment |-> misalignment, set_zero |-> set_zero]

MCAlignedRequests == {MCRequest(2, 4, 1, FALSE), MCRequest(4, 8, 0, TRUE)}
MCAlignedRequests4k == {MCRequest(4, 8, 0, TRUE)}
(* Of the offsets the callers use, 0 and -1, each once. *)
MCRegionRequests == {[size |-> 6, offset |-> 0], [size |-> 4, offset |-> -1]}

(* Of the huge pages of TWO_MB = 4 bytes every second one. *)
MCBacked == {page \in 0..50 : (page \div 2) % 2 = 0}
MCPrivileges == {{}, {"see frames", "open kpageflags"}}
=============================================================================
