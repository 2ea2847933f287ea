---------------------------- MODULE SettingLease ----------------------------
(***************************************************************************)
(* What the wrapper script promises about one machine-wide setting (the    *)
(* cpufreq governor, the no_turbo switch): a run may borrow it, which sets *)
(* it to Target, and a borrower hands it back at the value it had before   *)
(* anyone borrowed it (README.md:82-83, "restoring your previous setting   *)
(* after it completes").  A borrower that dies defaults on its debt.       *)
(***************************************************************************)
CONSTANTS
  Borrower,   \* the runs of the script
  Value,      \* the values the setting can have
  Target      \* the one a run needs while it measures

VARIABLES
  original,   \* the value the administrator had chosen
  value,      \* the setting
  owed,       \* the borrowers that still have to hand it back
  lost        \* TRUE once a borrower died owing

vars == <<original, value, owed, lost>>

TypeOK ==
  /\ original \in Value
  /\ value \in {Target, original}
  /\ owed \subseteq Borrower
  /\ lost \in BOOLEAN

Init ==
  /\ original \in Value
  /\ value = original
  /\ owed = {}
  /\ lost = FALSE

(* A borrower changes the setting and from now on owes its return. *)
Borrow(b) ==
  /\ value' = Target
  /\ owed' = owed \union {b}
  /\ UNCHANGED <<original, lost>>

(* A borrower hands the setting back, whoever else still relies on it. *)
Return(b) ==
  /\ b \in owed
  /\ value' = original
  /\ owed' = owed \ {b}
  /\ UNCHANGED <<original, lost>>

(* A borrower dies: nobody will hand the setting back in its place. *)
Default(b) ==
  /\ b \in owed
  /\ owed' = owed \ {b}
  /\ lost' = TRUE
  /\ UNCHANGED <<original, value>>

Next == \E b \in Borrower : Borrow(b) \/ Return(b) \/ Default(b)

Spec == Init /\ [][Next]_vars

-----------------------------------------------------------------------------

(* When nobody owes a return, and nobody died owing one, the setting is    *)
(* what it was at the start, for any number of overlapping borrowers.      *)
RestoredWhenNoneOwed == owed = {} /\ ~lost => value = original

=============================================================================
