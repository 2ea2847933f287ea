---------------------------- MODULE MetricTable ----------------------------
(***************************************************************************)
(* What a timer with extra events promises: a table whose columns are      *)
(* fixed once, before anything is measured, with the cycles first, and     *)
(* whose rows hold under each column the number of times that very event   *)
(* happened between the two readings of the row.                           *)
(***************************************************************************)
EXTENDS Naturals, Sequences

CONSTANTS Event, Cycles

VARIABLES
  count,    \* how often each event has happened so far
  columns,  \* the events of the columns
  start,    \* the counts at the first reading of a row
  row       \* the last row

tvars == <<count, columns, start, row>>

Init ==
  /\ count \in [Event -> Nat]
  /\ columns = <<>>
  /\ start = count
  /\ row = <<>>

(* Events happen. *)
Count ==
  /\ count' \in [Event -> Nat]
  /\ \A e \in Event : count'[e] >= count[e]
  /\ UNCHANGED <<columns, start, row>>

Program ==
  /\ columns = <<>>
  /\ columns' \in Seq(Event) /\ Len(columns') > 0 /\ columns'[1] = Cycles
  /\ UNCHANGED <<count, start, row>>

Begin ==
  /\ columns # <<>>
  /\ start' = count
  /\ UNCHANGED <<count, columns, row>>

End ==
  /\ columns # <<>>
  /\ row' = [n \in DOMAIN columns |-> count[columns[n]] - start[columns[n]]]
  /\ UNCHANGED <<count, columns, start>>

Next == Count \/ Program \/ Begin \/ End

Spec == Init /\ [][Next]_tvars
=============================================================================
