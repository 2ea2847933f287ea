---------------------------- MODULE MCDeltaBench ----------------------------
(* Values for TLC of the constants of DeltaBench. *)
EXTENDS DeltaBench

CONSTANTS method, dummy_bench, empty

MCMethod == {method, dummy_bench, empty}
MCPerLoop == [m \in MCMethod |-> IF m = method THEN 3 ELSE 0]
MCFixed == [m \in MCMethod |-> CASE m = method -> 3 [] m = dummy_bench -> 2 [] OTHER -> 0]
=============================================================================
