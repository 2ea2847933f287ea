---------------------------- MODULE MCUarchBench ----------------------------
(* Values for TLC of the constants of UarchBench: a clock timer with two   *)
(* groups and a grid, a perf timer with one more benchmark, as the raw     *)
(* benchmarks of libpfc are.                                               *)
EXTENDS UarchBench, FiniteSets

CONSTANTS b1, b2, b3, b4, s1, s2, fake

MCBench == {b1, b2, b3, b4, s1, s2, fake}
MCTimers == <<"clock", "perf">>
MCGroup(id, benches_) == [id |-> id, benches |-> benches_, grid |-> FALSE, fake |-> fake]
MCGrid == [id |-> "load", benches |-> <<s1, s2>>, grid |-> TRUE, fake |-> fake]
MCGroups ==
  [clock |-> <<MCGroup("basic", <<b1, b2>>), MCGrid, MCGroup("oneshot", <<b3>>)>>,
   perf |-> <<MCGroup("basic", <<b1, b2>>), MCGroup("oneshot", <<b3, b4>>), MCGrid>>]
MCCPU == {0, 1}
MCPath ==
  (b1 :> <<"b", "/", "x">> @@ b2 :> <<"b", "/", "x", "y">> @@ b3 :> <<"o", "/", "x">>
   @@ b4 :> <<"o", "/", "y">> @@ s1 :> <<"l", "/", "x">> @@ s2 :> <<"l", "/", "y">>
   @@ fake :> <<"l", "/", "fake">>)
MCTags ==
  (b1 :> <<<<"default">>>> @@ b2 :> <<>> @@ b3 :> <<<<"slow">>, <<"default">>>>
   @@ b4 :> <<<<"slow", "er">>>> @@ s1 :> <<>> @@ s2 :> <<>> @@ fake :> <<>>)
(* "b/x", "*x", "l*", "o/*y*". *)
MCNamePatterns ==
  {<<"b", "/", "x">>, <<"*", "x">>, <<"l", "*">>, <<"o", "/", "*", "y", "*">>}
(* "default,~slow", "~slow*", "*er", "slow,". *)
MCTagPatterns ==
  {<<"default", ",", "~", "slow">>, <<"~", "slow", "*">>, <<"*", "er">>, <<"slow", ",">>}
MCFlagSets == {F \in SUBSET Flag : Cardinality(F) <= 2}

MCMachine(regex, online, affinity, supported, clash, init_fails, list_fails) ==
  [regex |-> regex, online |-> online, affinity |-> affinity, supported |-> supported,
   clash |-> clash, init_fails |-> init_fails, list_fails |-> list_fails]

MCMachines ==
  {MCMachine(TRUE, {0, 1}, {0, 1}, {b1, b3, s1}, {}, {}, {}),
   MCMachine(FALSE, {1}, {1}, MCBench, {}, {"perf"}, {}),
   MCMachine(TRUE, {0, 1}, {1}, MCBench, {"perf"}, {}, {}),
   MCMachine(FALSE, {0}, {0}, {b2, b4}, {}, {}, {"perf"})}

(* What the theorem on the report takes for granted holds of these values. *)
ASSUME MCMatchersRight == MatchersRight
=============================================================================
