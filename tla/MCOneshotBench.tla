--------------------------- MODULE MCOneshotBench ---------------------------
(* Values for TLC of the constants of OneshotBench: a default benchmark, a *)
(* warmed one and a raw one.                                               *)
EXTENDS OneshotBench

CONSTANTS method, touch, empty, dummy, noisy, AVX2

MCTag == {noisy}
MCFeature == {AVX2}

MCMethod == {method, touch, empty, dummy}
MCPerLoop == [m \in MCMethod |-> CASE m = method -> 2 [] m = touch -> 1 [] OTHER -> 0]
MCFixed == [m \in MCMethod |-> IF m = empty THEN 0 ELSE 1]

Set(option, value) == [option |-> option, value |-> value]
End(calls, end) == [calls |-> calls, end |-> end, method |-> method]

(* Benchmarks whose setters come in orders in which one could undo another: *)
(* a warmed one, one that is not warmed, a raw one.                         *)
MCProgram ==
  <<End(<<Set("setTags", {noisy}), Set("setFeatures", {AVX2})>>, "assign"),
    End(<<Set("setLoopCount", 2), Set("withTouch", touch), Set("withWarm", touch),
          Set("setTags", {noisy})>>, "make"),
    End(<<>>, "make"),
    End(<<Set("withWarm", touch), Set("withOverhead", "raw")>>, "make_raw")>>
=============================================================================
