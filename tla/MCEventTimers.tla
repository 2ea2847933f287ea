--------------------------- MODULE MCEventTimers ---------------------------
(* Values for TLC of the constants of EventTimers.  For perf: strings that *)
(* ask for more and for less events than there is room for, with an empty  *)
(* token, a repeated event, a header, a comma between slashes, a second #  *)
(* and one event of its own user mode.  For libpfc: lists that overflow the counters, a name with two       *)
(* codes, one with none, an empty token.  The bounds of the clock timer    *)
(* are in the cfg: a processor that warms up in the round not used, and an *)
(* even number of samples, as the 1000 of the code.                        *)
EXTENDS EventTimers

CONSTANTS x, y, a, b

(* "Cycles", "x" and "p/q,r/", whose header is "p/". *)
MCCycles == <<"Cycles">>
MCx == <<"x">>
MCp == <<"p", "/", "q", ",", "r", "/">>
MCEvent == {MCCycles, MCx, MCp}
MCUserEvents == {MCx}
(* "x,,p/q,r/", "x,p/q,r/#h,x", "p/q,r/,x#h,x,p/q,r/", "x#h#h". *)
MCRequests ==
  {MCx \o <<",", ",">> \o MCp,
   MCx \o <<",">> \o MCp \o <<"#", "h", ",">> \o MCx,
   MCp \o <<",">> \o MCx \o <<"#", "h", ",">> \o MCx \o <<",">> \o MCp,
   MCx \o <<"#", "h", "#", "h">>}

MCName == {a, b}
MCCode == {LCycles, x, y}
MCLRequests == {<<Empty>>, <<a, Empty, b>>, <<b, a, a>>}
MCResolutions ==
  {r \in [MCName -> {<<>>, <<x>>, <<y, x>>}] : r[a] # r[b]}
=============================================================================
