---------------------------- MODULE OneshotMaker ----------------------------
(***************************************************************************)
(* The registration of a group of one-shot benchmarks: statements that     *)
(* call setters on a maker and end in make or make_raw, or assign what the *)
(* setters return to the maker itself.  A setter returns a new maker; what *)
(* it carries over differs from setter to setter.                          *)
(***************************************************************************)
EXTENDS TimeOne, Sequences, FiniteSets

CONSTANTS
  Program,         \* the statements, in order
  inlined_empty,
  Tag, Feature     \* what setTags and setFeatures are called with

Option == {"setTags", "setFeatures", "setLoopCount", "withTouch", "withWarm", "withOverhead"}

(* The type of a maker names its warm-up methods: only a maker of the same *)
(* type can be assigned to it.                                             *)
SameType == Option \ {"withTouch", "withWarm"}

(* A call of a setter. *)
Setting ==
  [option : {"setTags"}, value : SUBSET Tag]
    \union [option : {"setFeatures"}, value : SUBSET Feature]
    \union [option : {"setLoopCount"}, value : Nat \ {0}]
    \union [option : {"withTouch", "withWarm"}, value : Method]
    \union [option : {"withOverhead"}, value : {"default", "raw"}]

(* A statement: the calls in it, how it ends, and what make or make_raw is *)
(* given.                                                                  *)
Statement == [calls : Seq(Setting), end : {"assign", "make", "make_raw"}, method : Method]

ASSUME MakerAssumption ==
  /\ inlined_empty \in Method
  /\ Program \in Seq(Statement)
  /\ \A s \in DOMAIN Program : Program[s].end = "assign" =>
       \A c \in DOMAIN Program[s].calls : Program[s].calls[c].option \in SameType
  /\ \E s \in DOMAIN Program : Program[s].end # "assign"

VARIABLES
  statement,  \* the position in Program
  called,     \* the calls of the statement made so far
  maker,      \* the maker of the function that registers
  temporary,  \* what the last call of the statement returned
  benches     \* BenchmarkGroup::benches_

registration == <<statement, called, maker, temporary, benches>>

Maker ==
  [loop_count : Nat \ {0}, overhead : {"default", "raw"}, touch : Method, warm : Method,
   tags : SUBSET Tag, features : SUBSET Feature]

Benchmark ==
  [method : Method, warm_once : Method, warm_every : Method, loop_count : Nat \ {0},
   calibration : {"default", "raw"}, tags : SUBSET Tag, features : SUBSET Feature]

MakerOK ==
  /\ statement \in 1 .. Len(Program) + 1
  /\ called \in Nat
  /\ maker \in Maker /\ temporary \in Maker
  /\ benches \in Seq(Benchmark)

-----------------------------------------------------------------------------

(* The constructor: the parent, a loop count and an overhead; tags and     *)
(* features start empty.                                                   *)
NewMaker(loop_count, overhead, touch, warm) ==
  [loop_count |-> loop_count, overhead |-> overhead, touch |-> touch, warm |-> warm,
   tags |-> {}, features |-> {}]

Current == Program[statement]
Calling == statement <= Len(Program) /\ called < Len(Current.calls)
Given == Current.calls[called + 1].value

MakerInit ==
  /\ statement = 1 /\ called = 0
  /\ maker = NewMaker(1, "default", inlined_empty, inlined_empty)
  /\ temporary = maker
  /\ benches = <<>>

(* The next call of the statement, of a setter that returns m. *)
Return(option, m) ==
  /\ Calling /\ Current.calls[called + 1].option = option
  /\ temporary' = m
  /\ called' = called + 1
  /\ UNCHANGED <<statement, maker, benches>>

(* These copy the maker and change the copy. *)
setTags == Return("setTags", [temporary EXCEPT !.tags = Given])
setFeatures == Return("setFeatures", [temporary EXCEPT !.features = Given])
setLoopCount == Return("setLoopCount", [temporary EXCEPT !.loop_count = Given])

(* These construct a maker of another type: tags and features are not      *)
(* handed on.                                                              *)
withTouch ==
  Return("withTouch", NewMaker(temporary.loop_count, temporary.overhead, Given, temporary.warm))

withWarm ==
  Return("withWarm", NewMaker(temporary.loop_count, temporary.overhead, temporary.touch, Given))

withOverhead ==
  Return("withOverhead", NewMaker(temporary.loop_count, Given, temporary.touch, temporary.warm))

(* The statement ends, and the next one starts from the maker m. *)
EndStatement(m) ==
  /\ maker' = m /\ temporary' = m
  /\ statement' = statement + 1 /\ called' = 0

Ready(end) == statement <= Len(Program) /\ ~Calling /\ Current.end = end

Assign == Ready("assign") /\ EndStatement(temporary) /\ UNCHANGED benches

(* make2. *)
Add(warm_once, warm_every) ==
  benches' = Append(benches,
    [method |-> Current.method, warm_once |-> warm_once, warm_every |-> warm_every,
     loop_count |-> temporary.loop_count, calibration |-> temporary.overhead,
     tags |-> temporary.tags, features |-> temporary.features])

(* Setters that change the maker they are called on. *)
Mut_Make_InPlace ==
  Ready("make") /\ Add(temporary.touch, temporary.warm) /\ EndStatement(temporary)

Make == Ready("make") /\ Add(temporary.touch, temporary.warm) /\ EndStatement(maker)

(* A raw method brings its own measuring loop: libpfc_raw_adapt, which has *)
(* no warm-up unless it is given one.                                      *)
MakeRaw == Ready("make_raw") /\ Add(inlined_empty, inlined_empty) /\ EndStatement(maker)

Register ==
  \/ setTags \/ setFeatures \/ setLoopCount \/ withTouch \/ withWarm \/ withOverhead
  \/ Assign \/ Make \/ MakeRaw

Registered == statement > Len(Program)

-----------------------------------------------------------------------------
(* Properties. *)

(* The statements that register a benchmark. *)
Makes == {s \in DOMAIN Program : Program[s].end # "assign"}

(* The calls, by statement and position, of the assignments before s, and  *)
(* with them those the benchmark of statement s results from.              *)
Assigned(s) ==
  UNION {{t} \X DOMAIN Program[t].calls :
           t \in {u \in DOMAIN Program : u < s /\ Program[u].end = "assign"}}

Chain(s) == Assigned(s) \union {s} \X DOMAIN Program[s].calls

OptionOf(x) == Program[x[1]].calls[x[2]].option
ValueOf(x) == Program[x[1]].calls[x[2]].value
Earlier(x, y) == x[1] < y[1] \/ (x[1] = y[1] /\ x[2] < y[2])

(* v is what the last call of the option in the chain says, and default if *)
(* there is none since the last call of an option that drops it.           *)
LastSays(v, chain, option, drops, default) ==
  \/ \E x \in chain :
       /\ OptionOf(x) = option /\ v = ValueOf(x)
       /\ \A y \in chain : Earlier(x, y) => OptionOf(y) \notin {option} \union drops
  \/ /\ v = default
     /\ \A x \in chain : OptionOf(x) = option =>
          \E y \in chain : Earlier(x, y) /\ OptionOf(y) \in drops

Asked(v, chain, option, default) == LastSays(v, chain, option, {}, default)

AskedLate(v, chain, option) ==
  LastSays(v, chain, option, {"withTouch", "withWarm", "withOverhead"}, {})

(* How the benchmark of statement s is to be measured. *)
AsAsked(bench, s) ==
  LET chain == Chain(s)
      raw == Program[s].end = "make_raw"
  IN /\ bench.method = Program[s].method
     /\ Asked(bench.loop_count, chain, "setLoopCount", 1)
     /\ Asked(bench.calibration, chain, "withOverhead", "default")
     /\ IF raw THEN bench.warm_once = inlined_empty /\ bench.warm_every = inlined_empty
               ELSE /\ Asked(bench.warm_once, chain, "withTouch", inlined_empty)
                    /\ Asked(bench.warm_every, chain, "withWarm", inlined_empty)
     /\ AskedLate(bench.tags, chain, "setTags")
     /\ AskedLate(bench.features, chain, "setFeatures")

(* A benchmark is measured the way its own statement says, and what is     *)
(* assigned to the maker before it: the loop count, the calibration and    *)
(* the warm-up survive every other setter, and the warm-up of one          *)
(* benchmark is not that of the next ("trained" and "untrained loads",     *)
(* mem-benches-oneshot.cpp:149-152; the setters return copies,             *)
(* benchmark.hpp:423, oneshot.hpp:214-229).                                *)
MeasuredAsAsked ==
  \A k \in DOMAIN benches :
    \E s \in Makes : Cardinality({t \in Makes : t <= s}) = k /\ AsAsked(benches[k], s)
=============================================================================
