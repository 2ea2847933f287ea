-------------------------- MODULE EventTimersProofs --------------------------
(***************************************************************************)
(* Proofs about the timers of a process.  The libpfc timer's invariants    *)
(* are stated with the names of LibpfcTimer, under Libpfc!, and hold       *)
(* whichever timer is used: the others leave its variables alone.          *)
(***************************************************************************)
EXTENDS EventTimers, FiniteSetTheorems, WellFoundedInduction, TLAPS

-----------------------------------------------------------------------------
(* The element that has a given rank when finitely many integers are       *)
(* sorted: that there is one, and which one it is when most of them are    *)
(* equal.  The median of the calibrated clock is such an element.          *)
(*                                                                         *)
(* The library's induction theorems take an operator as a parameter, so    *)
(* every element with an extreme count is found by the well-foundedness of *)
(* the naturals.                                                           *)

LEMMA LeastCount ==
  ASSUME NEW S, S # {}, NEW tally, \A x \in S : tally[x] \in Nat
  PROVE  \E x \in S : \A y \in S : tally[x] <= tally[y]
<1> DEFINE T == {tally[x] : x \in S}
<1>1. T \subseteq Nat /\ T # {}
  OBVIOUS
<1>2. PICK t \in T : \A u \in T : ~ (<<u, t>> \in OpToRel(<, Nat))
  BY <1>1, NatLessThanWellFounded, WFMin
<1>3. \A u \in T : ~ (u < t)
  BY <1>2 DEF OpToRel
<1>4. \A u \in T : t <= u
  <2> HIDE DEF T
  <2> QED BY <1>1, <1>3
<1> QED BY <1>4

LEMMA TwoParts ==
  ASSUME NEW S, IsFiniteSet(S), NEW A, NEW B, S = A \union B, A \cap B = {}
  PROVE  /\ Cardinality(S) \in Nat /\ Cardinality(A) \in Nat /\ Cardinality(B) \in Nat
         /\ Cardinality(S) = Cardinality(A) + Cardinality(B)
<1>1. A \in SUBSET S /\ B \in SUBSET S
  OBVIOUS
<1>2. IsFiniteSet(A) /\ IsFiniteSet(B)
  BY <1>1, FS_Subset
<1>3. Cardinality(S) \in Nat /\ Cardinality(A) \in Nat /\ Cardinality(B) \in Nat
  BY <1>2, FS_CardinalityType
<1>4. Cardinality(A \union B) = Cardinality(A) + Cardinality(B) - Cardinality(A \cap B)
  BY <1>2, FS_Union
<1>5. Cardinality(A \cap B) = 0 /\ Cardinality(A \union B) = Cardinality(S)
  BY FS_EmptySet
<1>6. \A a, b \in Nat : a + b - 0 = a + b
  OBVIOUS
<1> QED BY <1>3, <1>4, <1>5, <1>6

(* The indices below, and not above, the value of n in the order of key. *)
Below(S, key, m) == {k \in S : key[k] < key[m]}
UpTo(S, key, m) == {k \in S : key[k] <= key[m]}

LEMMA Counts ==
  ASSUME NEW S, IsFiniteSet(S), NEW key, NEW m
  PROVE  /\ IsFiniteSet(Below(S, key, m)) /\ IsFiniteSet(UpTo(S, key, m))
         /\ Cardinality(Below(S, key, m)) \in Nat
         /\ Cardinality(UpTo(S, key, m)) \in 0 .. Cardinality(S)
         /\ Cardinality(S) \in Nat
<1>1. Below(S, key, m) \in SUBSET S /\ UpTo(S, key, m) \in SUBSET S
  BY DEF Below, UpTo
<1>2. IsFiniteSet(Below(S, key, m)) /\ IsFiniteSet(UpTo(S, key, m))
  BY <1>1, FS_Subset
<1> QED BY <1>1, <1>2, FS_Subset, FS_CardinalityType

(* Of two indices the lower one has fewer below it. *)
LEMMA FewerBelow ==
  ASSUME NEW S, IsFiniteSet(S), NEW key \in [S -> Int], NEW m \in S, NEW k \in S,
         key[k] < key[m]
  PROVE  /\ Cardinality(Below(S, key, k)) < Cardinality(Below(S, key, m))
         /\ Cardinality(UpTo(S, key, k)) < Cardinality(UpTo(S, key, m))
<1>1. /\ Below(S, key, k) \in SUBSET Below(S, key, m)
      /\ k \in Below(S, key, m) /\ k \notin Below(S, key, k)
  BY DEF Below
<1>2. /\ UpTo(S, key, k) \in SUBSET UpTo(S, key, m)
      /\ m \in UpTo(S, key, m) /\ m \notin UpTo(S, key, k)
  BY DEF UpTo
<1>3. /\ IsFiniteSet(Below(S, key, m)) /\ IsFiniteSet(UpTo(S, key, m))
      /\ Cardinality(Below(S, key, m)) \in Nat /\ Cardinality(UpTo(S, key, m)) \in Nat
      /\ Cardinality(Below(S, key, k)) \in Nat /\ Cardinality(UpTo(S, key, k)) \in Nat
  BY Counts
<1>4. /\ Cardinality(Below(S, key, k)) <= Cardinality(Below(S, key, m))
      /\ Cardinality(Below(S, key, k)) # Cardinality(Below(S, key, m))
  BY <1>1, <1>3, FS_Subset
<1>5. /\ Cardinality(UpTo(S, key, k)) <= Cardinality(UpTo(S, key, m))
      /\ Cardinality(UpTo(S, key, k)) # Cardinality(UpTo(S, key, m))
  BY <1>2, <1>3, FS_Subset
<1> QED BY <1>3, <1>4, <1>5

(* In every non-empty part of S some index has the least key. *)
LEMMA LeastKey ==
  ASSUME NEW S, IsFiniteSet(S), NEW key \in [S -> Int], NEW T \in SUBSET S, T # {}
  PROVE  \E m \in T : \A k \in T : key[m] <= key[k]
<1> DEFINE tally == [m \in T |-> Cardinality(Below(S, key, m))]
<1>1. \A m \in T : tally[m] \in Nat
  BY Counts
<1>2. PICK m \in T : \A k \in T : tally[m] <= tally[k]
  <2> HIDE DEF tally
  <2> QED BY <1>1, LeastCount
<1>3. SUFFICES ASSUME NEW k \in T, key[k] < key[m] PROVE FALSE
  OBVIOUS
<1>4. tally[k] < tally[m]
  BY <1>3, FewerBelow
<1> QED BY <1>1, <1>2, <1>4

(* For every rank there is an element that has it. *)
LEMMA ElementOfRank ==
  ASSUME NEW S, IsFiniteSet(S), NEW key \in [S -> Int],
         NEW rank \in Nat, rank < Cardinality(S)
  PROVE  \E m \in S : /\ Cardinality(Below(S, key, m)) <= rank
                      /\ Cardinality(UpTo(S, key, m)) > rank
<1>1. Cardinality(S) \in Nat /\ S # {}
  BY FS_CardinalityType, FS_EmptySet
<1> DEFINE Low == {m \in S : Cardinality(Below(S, key, m)) <= rank}
<1>2. Low # {}
  <2>1. PICK m \in S : \A k \in S : key[m] <= key[k]
    BY <1>1, LeastKey
  <2>2. Below(S, key, m) = {}
    BY <2>1 DEF Below
  <2> QED BY <2>2, FS_EmptySet
<1> DEFINE room == [m \in Low |-> Cardinality(S) - Cardinality(UpTo(S, key, m))]
<1>3. \A m \in Low : room[m] \in Nat
  BY Counts
<1>4. PICK m \in Low : \A k \in Low : room[m] <= room[k]
  <2> HIDE DEF Low, room
  <2> QED BY <1>2, <1>3, LeastCount
<1>5. CASE Cardinality(UpTo(S, key, m)) <= rank
  <2> DEFINE Above == S \ UpTo(S, key, m)
  <2>1. Above # {}
    <3>1. UpTo(S, key, m) # S
      BY <1>1, <1>5
    <3> QED BY <3>1 DEF UpTo
  <2>2. PICK k \in Above : \A j \in Above : key[k] <= key[j]
    BY <2>1, LeastKey
  <2>3. key[m] < key[k] /\ k \in S /\ m \in S
    BY DEF UpTo
  <2>4. Below(S, key, k) = UpTo(S, key, m)
    BY <2>2, <2>3 DEF Below, UpTo
  <2>5. k \in Low
    BY <1>5, <2>3, <2>4
  <2>6. Cardinality(UpTo(S, key, m)) < Cardinality(UpTo(S, key, k))
    BY <2>3, FewerBelow
  <2>7. room[k] < room[m]
    BY <1>1, <2>5, <2>6, Counts
  <2> QED BY <1>3, <1>4, <2>5, <2>7
<1>6. CASE ~(Cardinality(UpTo(S, key, m)) <= rank)
  BY <1>6, Counts
<1> QED BY <1>5, <1>6

(* When all but a few are equal, so is every element of a middle rank. *)
LEMMA MajorityRank ==
  ASSUME NEW S, IsFiniteSet(S), NEW key \in [S -> Int], NEW truth \in Int,
         NEW D \in SUBSET S, \A m \in S \ D : key[m] = truth,
         NEW rank \in Nat, Cardinality(D) <= rank, rank + Cardinality(D) < Cardinality(S),
         NEW v \in Int, Cardinality({k \in S : key[k] < v}) <= rank,
         Cardinality({k \in S : key[k] <= v}) > rank
  PROVE  v = truth
<1> DEFINE Low == {k \in S : key[k] < v}
           LowOrMiddle == {k \in S : key[k] <= v}
<1>1. /\ IsFiniteSet(D) /\ IsFiniteSet(S \ D) /\ IsFiniteSet(Low) /\ IsFiniteSet(LowOrMiddle)
      /\ Cardinality(D) \in Nat /\ Cardinality(S \ D) \in Nat /\ Cardinality(Low) \in Nat
      /\ Cardinality(LowOrMiddle) \in Nat
  <2>1. Low \in SUBSET S /\ LowOrMiddle \in SUBSET S /\ S \ D \in SUBSET S
    OBVIOUS
  <2> HIDE DEF Low, LowOrMiddle
  <2> QED BY <2>1, FS_Subset, FS_CardinalityType
<1>2. CASE v < truth
  <2>1. LowOrMiddle \in SUBSET D
    BY <1>2
  <2> HIDE DEF LowOrMiddle
  <2>2. Cardinality(LowOrMiddle) <= Cardinality(D)
    BY <1>1, <2>1, FS_Subset
  <2> QED BY <1>1, <2>2 DEF LowOrMiddle
<1>3. CASE v > truth
  <2>1. S \ D \in SUBSET Low
    BY <1>3
  <2>2. S = D \union (S \ D) /\ D \cap (S \ D) = {}
    OBVIOUS
  <2> HIDE DEF Low
  <2>3. Cardinality(S) = Cardinality(D) + Cardinality(S \ D)
    BY <2>2, TwoParts
  <2>4. Cardinality(S \ D) <= Cardinality(Low)
    BY <1>1, <2>1, FS_Subset
  <2>5. Cardinality(Low) <= rank
    BY DEF Low
  <2> QED BY <1>1, <2>3, <2>4, <2>5
<1> QED BY <1>2, <1>3

-----------------------------------------------------------------------------
(* The libpfc timer. *)

(* What its init has done by when: the cycles event is given its fixed     *)
(* slot first, and messages are about names until the slots are assigned.  *)
LStarted == lpc # "pfcInit"
LReady == lpc \in {"ready", "begun", "ended"}

LPhases ==
  /\ lpc \in {"pfm_initialize", "parse"} =>
       lall_events = <<[code |-> LCycles, slot |-> CLK_UNHALTED]>>
  /\ lpc \in {"pfcInit", "pfm_initialize", "parse"} =>
       /\ lmetric_names = <<>>
       /\ \A k \in DOMAIN lerrors : lerrors[k] \in Name
  /\ lpc = "pfcInit" => lall_events = <<>>

(* Position and slot of an event determine each other. *)
LSlots ==
  Libpfc!Assigned =>
    /\ Len(lall_events) >= 1 /\ lall_events[1] = [code |-> LCycles, slot |-> CLK_UNHALTED]
    /\ \A k \in DOMAIN lall_events : k > 1 => lall_events[k].slot = FIXED_COUNTERS + k - 2
    /\ Len(lall_events) - 1 <= GP_COUNTERS
    /\ lmetric_names = [k \in DOMAIN lall_events |-> lall_events[k].code]
    /\ Len(lall_events) - 1 + Cardinality({k \in DOMAIN lerrors : lerrors[k] \in Code})
         = Len(lextra_events)

(* The counter of a slot counts the event of the slot, *)
LProgrammed ==
  LReady => \A k \in DOMAIN lall_events : lcfg[lall_events[k].slot] = lall_events[k].code

(* and the first reading holds the counts that were noted. *)
LBegun ==
  lpc = "begun" =>
    \A s \in Libpfc!Slot : lt0[s] = IF lcfg[s] = Off THEN 0 ELSE lstart[lcfg[s]]

LInv == Libpfc!TypeOK /\ LPhases /\ LSlots /\ LProgrammed /\ LBegun

LEMMA LibpfcInit == Libpfc!Init => LInv
<1> SUFFICES ASSUME Libpfc!Init PROVE LInv
  OBVIOUS
<1> USE LibpfcAssumption DEF Libpfc!ConstantsOK
<1>1. Libpfc!TypeOK
  <2>1. largs \in LRequests /\ Len(largs) \in Nat /\ ln \in 1 .. Len(largs) + 1
    BY DEF Libpfc!Init
  <2>2. lcount \in [Code -> 0 .. LMaxCount] /\ lstart \in [Code -> 0 .. LMaxCount]
    BY DEF Libpfc!Init
  <2>3. {lt0, lt1} \subseteq [Libpfc!Slot -> Int] /\ lcfg \in [Libpfc!Slot -> Code \union {Off}]
    BY DEF Libpfc!Init
  <2>4. /\ lextra_events \in Seq(Code) /\ lmetric_names \in Seq(Code)
        /\ lerrors \in Seq(Name \union Code) /\ lresults \in Seq(Int)
    BY DEF Libpfc!Init
  <2>5. lall_events \in Seq([code : Code, slot : Libpfc!Slot])
    BY DEF Libpfc!Init
  <2>6. lcodes \in Resolutions /\ lbroken \in SUBSET Libpfc!Call /\ lpfmIsInit \in BOOLEAN
        /\ lpc \in {"pfcInit", "pfm_initialize", "parse", "program", "ready", "begun", "ended", "failed"}
    BY DEF Libpfc!Init
  <2> QED
    BY <2>1, <2>2, <2>3, <2>4, <2>5, <2>6 DEF Libpfc!Init, Libpfc!TypeOK
<1> QED
  BY <1>1 DEF Libpfc!Init, LInv, LPhases, LSlots, LProgrammed, LBegun, Libpfc!Assigned, LReady

(* The messages about codes are the ones added last. *)
LEMMA CodeMessages ==
  ASSUME NEW said \in Seq(Name), NEW more \in Seq(Code)
  PROVE  Cardinality({k \in DOMAIN (said \o more) : (said \o more)[k] \in Code}) = Len(more)
<1> DEFINE all == said \o more
           new == Len(said) + 1 .. Len(said) + Len(more)
<1>1. Name \cap Code = {}
  BY LibpfcAssumption DEF Libpfc!ConstantsOK
<1>2. {k \in DOMAIN all : all[k] \in Code} = new
  <2>1. Len(said) \in Nat /\ Len(more) \in Nat /\ DOMAIN all = 1 .. Len(said) + Len(more)
    OBVIOUS
  <2>2. \A k \in 1 .. Len(said) : all[k] \in Name
    OBVIOUS
  <2>3. \A k \in new : all[k] \in Code
    <3> TAKE k \in new
    <3>1. all[k] = more[k - Len(said)] /\ k - Len(said) \in 1 .. Len(more)
      BY <2>1
    <3> QED BY <3>1
  <2> HIDE DEF all
  <2> QED BY <1>1, <2>1, <2>2, <2>3
<1>3. Cardinality(new) = Len(more)
  <2>1. Len(said) \in Nat /\ Len(more) \in Nat /\ Len(said) + 1 \in Int
        /\ Len(said) + Len(more) \in Int
    OBVIOUS
  <2>2. Cardinality(new) = IF Len(said) + 1 > Len(said) + Len(more) THEN 0
                           ELSE (Len(said) + Len(more)) - (Len(said) + 1) + 1
    BY <2>1, FS_Interval
  <2> QED BY <2>1, <2>2
<1> QED BY <1>2, <1>3

LEMMA PfcInitStep == LInv /\ Libpfc!PfcInit => LInv'
<1> SUFFICES ASSUME LInv, Libpfc!PfcInit PROVE LInv'
  OBVIOUS
<1> USE LibpfcAssumption DEF Libpfc!ConstantsOK
<1> USE DEF Libpfc!PfcInit, Libpfc!Continue, Libpfc!machine, Libpfc!reading, LInv
<1>1. Libpfc!TypeOK'
  <2>1. CLK_UNHALTED \in Libpfc!Slot
    BY DEF Libpfc!Slot, Libpfc!TOTAL_COUNTERS
  <2>2. <<[code |-> LCycles, slot |-> CLK_UNHALTED]>> \in Seq([code : Code, slot : Libpfc!Slot])
    <3>1. [code |-> LCycles, slot |-> CLK_UNHALTED] \in [code : Code, slot : Libpfc!Slot]
      BY <2>1
    <3> QED BY <3>1
  <2>3. lall_events' \in Seq([code : Code, slot : Libpfc!Slot])
    BY <2>2 DEF Libpfc!TypeOK
  <2> QED
    BY <2>3 DEF Libpfc!TypeOK
<1> QED
  BY <1>1 DEF LPhases, LSlots, LProgrammed, LBegun, Libpfc!Assigned, LReady

LEMMA InitPfmStep == LInv /\ Libpfc!InitPfm => LInv'
<1> SUFFICES ASSUME LInv, Libpfc!InitPfm PROVE LInv'
  OBVIOUS
<1> USE DEF Libpfc!InitPfm, Libpfc!Continue, Libpfc!machine, Libpfc!reading, LInv
<1>1. Libpfc!TypeOK'
  BY DEF Libpfc!TypeOK
<1> QED
  BY <1>1 DEF LPhases, LSlots, LProgrammed, LBegun, Libpfc!Assigned, LReady

(* The loop of parseExtraEvents. *)
LEMMA ParseStep ==
  LInv /\ (Libpfc!SkipEmpty \/ Libpfc!RejectEvent \/ Libpfc!ResolveEvent) => LInv'
<1> SUFFICES ASSUME LInv, Libpfc!SkipEmpty \/ Libpfc!RejectEvent \/ Libpfc!ResolveEvent
             PROVE  LInv'
  OBVIOUS
<1> USE LibpfcAssumption DEF Libpfc!ConstantsOK
<1>1. /\ Libpfc!Parsing /\ Libpfc!PassToken
      /\ \/ UNCHANGED lextra_events
         \/ lextra_events' = lextra_events \o lcodes[largs[ln]] /\ largs[ln] # Empty
      /\ \/ UNCHANGED lerrors
         \/ lerrors' = Append(lerrors, largs[ln]) /\ largs[ln] # Empty
  BY DEF Libpfc!SkipEmpty, Libpfc!RejectEvent, Libpfc!ResolveEvent
<1>2. Libpfc!TypeOK
  BY DEF LInv
<1>3. largs[ln] \in Name \union {Empty} /\ ln' \in 1 .. Len(largs) + 1
  BY <1>1, <1>2 DEF Libpfc!TypeOK, Libpfc!Parsing, Libpfc!PassToken
<1>4. largs[ln] # Empty => lcodes[largs[ln]] \in Seq(Code)
  BY <1>2, <1>3 DEF Libpfc!TypeOK
<1>5. lextra_events' \in Seq(Code)
  <2>1. lextra_events \in Seq(Code)
    BY <1>2 DEF Libpfc!TypeOK
  <2>2. \A a, b \in Seq(Code) : a \o b \in Seq(Code)
    OBVIOUS
  <2> QED BY <1>1, <1>4, <2>1, <2>2
<1>6. lerrors' \in Seq(Name \union Code)
  <2>1. lerrors \in Seq(Name \union Code)
    BY <1>2 DEF Libpfc!TypeOK
  <2> QED BY <1>1, <1>3, <2>1
<1>7. Libpfc!TypeOK'
  BY <1>1, <1>2, <1>3, <1>5, <1>6 DEF Libpfc!TypeOK, Libpfc!PassToken, Libpfc!machine, Libpfc!reading
<1>8. \A k \in DOMAIN lerrors' : lerrors'[k] \in Name
  <2>1. lerrors \in Seq(Name \union Code) /\ \A k \in DOMAIN lerrors : lerrors[k] \in Name
    BY <1>1, <1>2 DEF LInv, LPhases, Libpfc!TypeOK, Libpfc!Parsing
  <2> QED
    BY <2>1, <1>1, <1>3
<1> QED
  BY <1>1, <1>7, <1>8 DEF LInv, LPhases, LSlots, LProgrammed, LBegun, Libpfc!Assigned, LReady,
       Libpfc!Parsing, Libpfc!PassToken, Libpfc!machine, Libpfc!reading

LEMMA EventFields ==
  ASSUME NEW list \in Seq([code : Code, slot : Libpfc!Slot]), NEW k \in DOMAIN list
  PROVE  list[k].code \in Code /\ list[k].slot \in Libpfc!Slot
<1> DEFINE D == [code : Code, slot : Libpfc!Slot]
<1>1. list[k] \in D
  <2> HIDE DEF D
  <2>1. list \in Seq(D)
    BY DEF D
  <2> QED BY <2>1
<1> QED BY <1>1

(* The slots are given in order, after the fixed ones. *)
LEMMA AssignSlotsStep == LInv /\ Libpfc!AssignSlots => LInv'
<1> SUFFICES ASSUME LInv, Libpfc!AssignSlots PROVE LInv'
  OBVIOUS
<1> USE LibpfcAssumption DEF Libpfc!ConstantsOK
<1> DEFINE extra == Len(lextra_events)
           kept == IF extra < GP_COUNTERS THEN extra ELSE GP_COUNTERS
           given == [k \in 1 .. kept |->
                       [code |-> lextra_events[k], slot |-> Libpfc!Slotted(k - 1)]]
           names == [k \in DOMAIN lall_events' |-> lall_events'[k].code]
           dropped == SubSeq(lextra_events, kept + 1, extra)
           first == [code |-> LCycles, slot |-> CLK_UNHALTED]
           Event_ == [code : Code, slot : Libpfc!Slot]
<1>1. /\ lpc = "parse" /\ lpc' = "program" /\ lall_events' = lall_events \o given
      /\ lmetric_names' = lmetric_names \o names /\ lerrors' = lerrors \o dropped
      /\ UNCHANGED <<largs, lcodes, lbroken, lpfmIsInit, ln, lextra_events, lcfg, lcount,
                     lt0, lt1, lstart, lresults>>
  BY DEF Libpfc!AssignSlots, Libpfc!machine, Libpfc!reading
<1>2. Libpfc!TypeOK /\ lextra_events \in Seq(Code) /\ extra \in Nat
  BY DEF LInv, Libpfc!TypeOK
<1>3. lall_events = <<first>> /\ lmetric_names = <<>> /\ lerrors \in Seq(Name)
  BY <1>1 DEF LInv, LPhases, Libpfc!TypeOK
<1>4. kept \in 0 .. GP_COUNTERS /\ kept <= extra
  BY <1>2
<1>5. given \in Seq(Event_) /\ Len(given) = kept /\ first \in Event_
  <2>1. \A k \in 1 .. kept : given[k] \in Event_
    <3> TAKE k \in 1 .. kept
    <3>1. lextra_events[k] \in Code
      BY <1>2, <1>4
    <3>2. Libpfc!Slotted(k - 1) \in Libpfc!Slot
      BY <1>4 DEF Libpfc!Slotted, Libpfc!Slot, Libpfc!TOTAL_COUNTERS
    <3> QED BY <3>1, <3>2
  <2>2. CLK_UNHALTED \in Libpfc!Slot
    BY DEF Libpfc!Slot, Libpfc!TOTAL_COUNTERS
  <2> HIDE DEF Event_
  <2>3. first \in Event_
    BY <2>2 DEF Event_
  <2>4. given \in [1 .. kept -> Event_]
    <3> HIDE DEF Event_
    <3> QED BY <2>1
  <2> HIDE DEF given, kept
  <2>5. kept \in Nat
    BY <1>4
  <2>6. given \in Seq(Event_) /\ Len(given) = kept
    BY <2>4, <2>5
  <2> QED BY <2>3, <2>6
<1>6. /\ lall_events' \in Seq(Event_) /\ Len(lall_events') = 1 + kept
      /\ DOMAIN lall_events' = 1 .. 1 + kept /\ lall_events'[1] = first
      /\ \A k \in 2 .. 1 + kept : lall_events'[k] = given[k - 1]
  <2> HIDE DEF given, kept, first, Event_
  <2>1. <<first>> \in Seq(Event_)
    BY <1>5
  <2> QED BY <1>1, <1>3, <1>4, <1>5, <2>1
<1>7. \A k \in DOMAIN lall_events' : k > 1 => lall_events'[k].slot = FIXED_COUNTERS + k - 2
  <2> SUFFICES ASSUME NEW k \in 2 .. 1 + kept
               PROVE  lall_events'[k].slot = FIXED_COUNTERS + k - 2
    BY <1>4, <1>6
  <2>1. k - 1 \in 1 .. kept /\ lall_events'[k] = given[k - 1]
    <3> HIDE DEF given, kept
    <3> QED BY <1>4, <1>6
  <2>2. lall_events'[k].slot = Libpfc!Slotted((k - 1) - 1)
    BY <2>1
  <2> QED BY <1>4, <2>2 DEF Libpfc!Slotted
<1>8. lmetric_names' = names /\ names \in Seq(Code)
  <2>1. names \in [1 .. 1 + kept -> Code]
    <3> HIDE DEF kept, given
    <3>1. \A k \in DOMAIN lall_events' : lall_events'[k].code \in Code
      BY <1>6, EventFields
    <3> QED BY <1>6, <3>1
  <2>2. names \in Seq(Code)
    <3> HIDE DEF kept, names
    <3> QED BY <2>1, <1>4
  <2> HIDE DEF names
  <2> QED BY <1>1, <1>3, <2>2
<1>9. dropped \in Seq(Code) /\ Len(dropped) = extra - kept
  <2> HIDE DEF kept
  <2> QED BY <1>2, <1>4
<1>10. /\ lerrors' \in Seq(Name \union Code)
       /\ Cardinality({k \in DOMAIN lerrors' : lerrors'[k] \in Code}) = extra - kept
  <2> HIDE DEF dropped, kept
  <2>1. lerrors \in Seq(Name \union Code) /\ dropped \in Seq(Name \union Code)
    BY <1>3, <1>9
  <2>2. \A a, b \in Seq(Name \union Code) : a \o b \in Seq(Name \union Code)
    OBVIOUS
  <2>3. lerrors' \in Seq(Name \union Code)
    BY <1>1, <2>1, <2>2
  <2>4. Cardinality({k \in DOMAIN (lerrors \o dropped) : (lerrors \o dropped)[k] \in Code})
          = Len(dropped)
    BY <1>3, <1>9, CodeMessages
  <2> QED BY <1>1, <1>9, <2>3, <2>4
<1>11. Libpfc!TypeOK'
  BY <1>1, <1>2, <1>6, <1>8, <1>10 DEF Libpfc!TypeOK
<1>12. LSlots'
  <2> HIDE DEF kept, given, names, dropped
  <2>0. Len(lall_events') = 1 + kept
    BY <1>6
  <2>1. kept \in Nat /\ extra \in Nat
        /\ 1 + kept - 1 + (extra - kept) = extra /\ 1 + kept >= 1 /\ 1 + kept - 1 <= GP_COUNTERS
    BY <1>2, <1>4
  <2>2. lmetric_names' = [k \in DOMAIN lall_events' |-> lall_events'[k].code]
    BY <1>8 DEF names
  <2> DEFINE codes_ == Cardinality({k \in DOMAIN lerrors' : lerrors'[k] \in Code})
  <2>3. Len(lall_events') - 1 + codes_ = Len(lextra_events')
    <3>1. codes_ = extra - kept
      BY <1>10
    <3>2. Len(lextra_events') = extra
      BY <1>1
    <3> HIDE DEF codes_
    <3> QED BY <2>0, <2>1, <3>1, <3>2
  <2>4. Len(lall_events') >= 1 /\ Len(lall_events') - 1 <= GP_COUNTERS
    BY <2>0, <2>1
  <2> QED BY <1>6, <1>7, <2>2, <2>3, <2>4 DEF LSlots
<1> QED
  BY <1>1, <1>11, <1>12 DEF LInv, LPhases, LProgrammed, LBegun, LReady

(* Two events have no slot in common. *)
LEMMA OneEventPerSlot ==
  ASSUME LInv, Libpfc!Assigned
  PROVE  \A k, l \in DOMAIN lall_events : lall_events[k].slot = lall_events[l].slot => k = l
<1> USE LibpfcAssumption DEF Libpfc!ConstantsOK
<1> SUFFICES ASSUME NEW k \in DOMAIN lall_events, NEW l \in DOMAIN lall_events,
                    lall_events[k].slot = lall_events[l].slot
             PROVE  k = l
  OBVIOUS
<1>1. DOMAIN lall_events = 1 .. Len(lall_events) /\ Len(lall_events) \in Nat
  BY DEF LInv, Libpfc!TypeOK
<1>2. \A j \in DOMAIN lall_events :
        lall_events[j].slot = IF j = 1 THEN CLK_UNHALTED ELSE FIXED_COUNTERS + j - 2
  BY <1>1 DEF LInv, LSlots
<1> QED BY <1>1, <1>2

LEMMA ProgramCountersStep == LInv /\ Libpfc!ProgramCounters => LInv'
<1> SUFFICES ASSUME LInv, Libpfc!ProgramCounters PROVE LInv'
  OBVIOUS
<1>1. /\ lpc = "program" /\ lpc' \in {"ready", "failed"}
      /\ UNCHANGED <<largs, lcodes, lbroken, lpfmIsInit, ln, lextra_events, lall_events,
                     lmetric_names, lerrors, lcount, lt0, lt1, lstart, lresults>>
  BY DEF Libpfc!ProgramCounters, Libpfc!Continue, Libpfc!machine, Libpfc!reading
<1>2. Libpfc!TypeOK /\ Libpfc!Assigned
  BY <1>1 DEF LInv, Libpfc!Assigned
<1>3. \A s \in Libpfc!Slot : (\E k \in DOMAIN lall_events : lall_events[k].slot = s) =>
        Libpfc!InSlot(s) \in DOMAIN lall_events /\ lall_events[Libpfc!InSlot(s)].slot = s
  <2> SUFFICES ASSUME NEW s \in Libpfc!Slot, NEW k \in DOMAIN lall_events, lall_events[k].slot = s
               PROVE  Libpfc!InSlot(s) \in DOMAIN lall_events
                      /\ lall_events[Libpfc!InSlot(s)].slot = s
    OBVIOUS
  <2>1. DOMAIN lall_events = 1 .. Len(lall_events) /\ Len(lall_events) \in Nat
    BY <1>2 DEF Libpfc!TypeOK
  <2>2. \A l \in k + 1 .. Len(lall_events) : lall_events[l].slot # s
    BY <1>2, <2>1, OneEventPerSlot
  <2> QED BY <2>2 DEF Libpfc!InSlot
<1>4. lcfg' \in [Libpfc!Slot -> Code \union {Off}]
  <2>1. lcfg \in [Libpfc!Slot -> Code \union {Off}]
    BY <1>2 DEF Libpfc!TypeOK
  <2>2. \A k \in DOMAIN lall_events : lall_events[k].code \in Code
    BY <1>2, EventFields DEF Libpfc!TypeOK
  <2> QED BY <1>3, <2>1, <2>2 DEF Libpfc!ProgramCounters
<1>5. LProgrammed'
  <2> SUFFICES ASSUME lpc' = "ready", NEW k \in DOMAIN lall_events
               PROVE  lcfg'[lall_events[k].slot] = lall_events[k].code
    BY <1>1 DEF LProgrammed, LReady
  <2>1. lall_events[k].slot \in Libpfc!Slot
    BY <1>2, EventFields DEF Libpfc!TypeOK
  <2>2. Libpfc!InSlot(lall_events[k].slot) = k
    BY <1>2, <1>3, <2>1, OneEventPerSlot
  <2>3. lcfg' = [s \in Libpfc!Slot |->
                   IF \E l \in DOMAIN lall_events : lall_events[l].slot = s
                   THEN lall_events[Libpfc!InSlot(s)].code ELSE Off]
    BY DEF Libpfc!ProgramCounters, Libpfc!Continue
  <2> QED BY <2>1, <2>2, <2>3
<1>6. Libpfc!TypeOK'
  BY <1>1, <1>2, <1>4 DEF Libpfc!TypeOK
<1> QED
  BY <1>1, <1>5, <1>6 DEF LInv, LPhases, LSlots, LBegun, Libpfc!Assigned

(* A step that leaves everything but the counts and the readings alone. *)
LEMMA LibpfcKept ==
  ASSUME LInv, Libpfc!TypeOK', lpc' # "begun" \/ LBegun', lpc # "pfcInit",
         lpc' = lpc \/ (LReady /\ lpc' \in {"begun", "ended"}),
         UNCHANGED <<largs, lcodes, lbroken, lpfmIsInit, ln, lextra_events, lall_events,
                     lmetric_names, lcfg, lerrors>>
  PROVE  LInv'
<1>1. LPhases' /\ LSlots' /\ LProgrammed' /\ LBegun'
  BY DEF LInv, LPhases, LSlots, LProgrammed, LBegun, Libpfc!Assigned, LReady
<1> QED BY <1>1 DEF LInv

LEMMA NowType ==
  ASSUME Libpfc!TypeOK
  PROVE  Libpfc!now \in [Libpfc!Slot -> Int]
<1>1. \A s \in Libpfc!Slot : lcfg[s] # Off => lcount[lcfg[s]] \in Int
  BY LibpfcAssumption DEF Libpfc!TypeOK, Libpfc!ConstantsOK
<1> QED BY <1>1 DEF Libpfc!now

LEMMA LibpfcBeginStep == LInv /\ Libpfc!Begin => LInv'
<1> SUFFICES ASSUME LInv, Libpfc!Begin PROVE LInv'
  OBVIOUS
<1>1. /\ LReady /\ lpc' = "begun" /\ lt0' = Libpfc!now /\ lstart' = lcount
      /\ UNCHANGED <<largs, lcodes, lbroken, lpfmIsInit, ln, lextra_events, lall_events,
                     lmetric_names, lcfg, lerrors, lcount, lt1, lresults>>
  BY DEF Libpfc!Begin, Libpfc!machine, LReady
<1>2. Libpfc!TypeOK'
  <2>1. Libpfc!TypeOK /\ Libpfc!now \in [Libpfc!Slot -> Int]
    BY NowType DEF LInv
  <2> QED BY <1>1, <2>1 DEF Libpfc!TypeOK
<1>3. LBegun'
  BY <1>1 DEF LBegun, Libpfc!now
<1> QED BY <1>1, <1>2, <1>3, LibpfcKept DEF LReady

(* What End computes is what the events counted. *)
LEMMA LibpfcRow ==
  ASSUME LInv, Libpfc!End
  PROVE  /\ lmetric_names # <<>> /\ lmetric_names \in Seq(Code)
         /\ lresults' = [k \in DOMAIN lmetric_names |->
                           lcount[lmetric_names[k]] - lstart[lmetric_names[k]]]
<1>1. lpc = "begun" /\ Libpfc!Assigned /\ LReady /\ lt1' = Libpfc!now
      /\ lresults' = Libpfc!to_result(Libpfc!delta(lt1', lt0))
  BY DEF Libpfc!End, Libpfc!Assigned, LReady
<1>2. /\ Len(lall_events) >= 1
      /\ lmetric_names = [k \in DOMAIN lall_events |-> lall_events[k].code]
  BY <1>1 DEF LInv, LSlots
<1>3. lall_events \in Seq([code : Code, slot : Libpfc!Slot]) /\ Libpfc!TypeOK
  BY DEF LInv, Libpfc!TypeOK
<1>4. lmetric_names # <<>>
  <2>1. 1 \in DOMAIN lmetric_names
    BY <1>2, <1>3
  <2> QED BY <2>1
<1>5. \A k \in DOMAIN lall_events :
        Libpfc!delta(lt1', lt0)[lall_events[k].slot]
          = lcount[lmetric_names[k]] - lstart[lmetric_names[k]]
  <2> SUFFICES ASSUME NEW k \in DOMAIN lall_events
               PROVE  Libpfc!delta(lt1', lt0)[lall_events[k].slot]
                        = lcount[lmetric_names[k]] - lstart[lmetric_names[k]]
    OBVIOUS
  <2>1. lall_events[k].slot \in Libpfc!Slot /\ lall_events[k].code \in Code
    BY <1>3, EventFields
  <2>2. lcfg[lall_events[k].slot] = lall_events[k].code /\ lall_events[k].code # Off
    BY <1>1, <2>1, LibpfcAssumption DEF LInv, LProgrammed, Libpfc!ConstantsOK
  <2>3. lt0[lall_events[k].slot] = lstart[lall_events[k].code]
    BY <1>1, <2>1, <2>2 DEF LInv, LBegun
  <2>4. lt1'[lall_events[k].slot] = lcount[lall_events[k].code]
    BY <1>1, <2>1, <2>2 DEF Libpfc!now
  <2>5. Libpfc!delta(lt1', lt0)[lall_events[k].slot]
          = lt1'[lall_events[k].slot] - lt0[lall_events[k].slot]
    BY <2>1 DEF Libpfc!delta
  <2>6. lmetric_names[k] = lall_events[k].code
    BY <1>2
  <2> QED BY <2>3, <2>4, <2>5, <2>6
<1>6. lmetric_names \in Seq(Code)
  BY <1>3 DEF Libpfc!TypeOK
<1>7. DOMAIN lmetric_names = DOMAIN lall_events
  BY <1>2
<1> QED BY <1>1, <1>4, <1>5, <1>6, <1>7 DEF Libpfc!to_result

LEMMA LibpfcEndStep == LInv /\ Libpfc!End => LInv'
<1> SUFFICES ASSUME LInv, Libpfc!End PROVE LInv'
  OBVIOUS
<1>1. /\ LReady /\ lpc # "pfcInit" /\ lpc' = "ended" /\ lt1' = Libpfc!now
      /\ UNCHANGED <<largs, lcodes, lbroken, lpfmIsInit, ln, lextra_events, lall_events,
                     lmetric_names, lcfg, lerrors, lcount, lt0, lstart>>
  BY DEF Libpfc!End, Libpfc!machine, LReady
<1>2. Libpfc!TypeOK /\ Libpfc!now \in [Libpfc!Slot -> Int]
  BY NowType DEF LInv
<1>3. lresults' \in Seq(Int)
  <2>1. \A e \in Code : lcount[e] - lstart[e] \in Int
    BY <1>2, LibpfcAssumption DEF Libpfc!TypeOK, Libpfc!ConstantsOK
  <2>2. lmetric_names \in Seq(Code)
    BY <1>2 DEF Libpfc!TypeOK
  <2>3. lresults' \in [1 .. Len(lmetric_names) -> Int] /\ Len(lmetric_names) \in Nat
    BY <2>1, <2>2, LibpfcRow
  <2> QED BY <2>3
<1>4. Libpfc!TypeOK'
  BY <1>1, <1>2, <1>3 DEF Libpfc!TypeOK
<1> QED BY <1>1, <1>4, LibpfcKept

LEMMA LibpfcHappenStep == LInv /\ Libpfc!Happen => LInv'
<1> SUFFICES ASSUME LInv, Libpfc!Happen PROVE LInv'
  OBVIOUS
<1>1. /\ LReady /\ lpc # "pfcInit" /\ lpc' = lpc
      /\ \E e \in Code : lcount[e] < LMaxCount /\ lcount' = [lcount EXCEPT ![e] = @ + 1]
      /\ UNCHANGED <<largs, lcodes, lbroken, lpfmIsInit, ln, lextra_events, lall_events,
                     lmetric_names, lcfg, lerrors, lt0, lt1, lstart, lresults>>
  BY DEF Libpfc!Happen, Libpfc!machine, Libpfc!reading, LReady
<1>2. lcount' \in [Code -> 0 .. LMaxCount]
  <2>1. lcount \in [Code -> 0 .. LMaxCount] /\ LMaxCount \in Nat
    BY LibpfcAssumption DEF LInv, Libpfc!TypeOK, Libpfc!ConstantsOK
  <2> QED BY <1>1, <2>1
<1>3. Libpfc!TypeOK'
  BY <1>1, <1>2 DEF LInv, Libpfc!TypeOK
<1>4. LBegun'
  BY <1>1 DEF LInv, LBegun
<1> QED BY <1>1, <1>3, <1>4, LibpfcKept

LEMMA LibpfcStep == LInv /\ (Libpfc!Next \/ UNCHANGED libpfc_vars) => LInv'
<1> SUFFICES ASSUME LInv, Libpfc!Next \/ UNCHANGED libpfc_vars PROVE LInv'
  OBVIOUS
<1>1. CASE UNCHANGED libpfc_vars
  BY <1>1 DEF libpfc_vars, LInv, Libpfc!TypeOK, LPhases, LSlots, LProgrammed, LBegun,
    Libpfc!Assigned, LReady
<1>2. CASE Libpfc!Next
  BY <1>2, PfcInitStep, InitPfmStep, ParseStep, AssignSlotsStep, ProgramCountersStep,
    LibpfcBeginStep, LibpfcEndStep, LibpfcHappenStep DEF Libpfc!Next
<1> QED BY <1>1, <1>2

LEMMA LibpfcInvariant == TimersSpec => []LInv
<1>1. TimersInit => LInv
  BY LibpfcInit DEF TimersInit
<1>2. LInv /\ [TimersNext]_all_vars => LInv'
  BY LibpfcStep DEF TimersNext, all_vars
<1> QED BY <1>1, <1>2, PTL DEF TimersSpec

(* "assign slots consecutively starting after FIXED_COUNTERS slots"        *)
(* (libpfc-timer.cpp:65), for any numbers of counters, any list of events  *)
(* and whatever each of them resolves to: no two events share a counter,   *)
(* no extra event takes a fixed one, none is dropped without a word, and   *)
(* every column reads a counter that was programmed with its code.         *)
THEOREM SlotsAlwaysDisjoint == TimersSpec => []SlotsDisjoint
<1>1. LInv => SlotsDisjoint
  <2> SUFFICES ASSUME LInv, Libpfc!Assigned PROVE SlotsDisjoint
    BY DEF SlotsDisjoint, Libpfc!SlotsDisjoint
  <2>1. lall_events \in Seq([code : Code, slot : Libpfc!Slot])
    BY DEF LInv, Libpfc!TypeOK
  <2>2. \A k \in DOMAIN lall_events : k > 1 => lall_events[k].slot = FIXED_COUNTERS + k - 2
    BY DEF LInv, LSlots
  <2>3. \A k \in DOMAIN lall_events :
          /\ lall_events[k].slot < Libpfc!TOTAL_COUNTERS
          /\ k > 1 => lall_events[k].slot >= FIXED_COUNTERS
    <3> TAKE k \in DOMAIN lall_events
    <3>1. lall_events[k].slot \in Libpfc!Slot
      BY <2>1, EventFields
    <3>2. Libpfc!TOTAL_COUNTERS \in Int
      BY LibpfcAssumption DEF Libpfc!ConstantsOK, Libpfc!TOTAL_COUNTERS
    <3>3. k \in Nat /\ (k > 1 => lall_events[k].slot = FIXED_COUNTERS + k - 2)
      <4>1. DOMAIN lall_events = 1 .. Len(lall_events) /\ Len(lall_events) \in Nat
        BY <2>1
      <4> QED BY <2>2, <4>1
    <3> QED BY <3>1, <3>2, <3>3, LibpfcAssumption DEF Libpfc!Slot, Libpfc!ConstantsOK
  <2>4. Len(lall_events) - 1 + Cardinality({k \in DOMAIN lerrors : lerrors[k] \in Code})
          = Len(lextra_events)
    BY DEF LInv, LSlots
  <2>5. \A k, l \in DOMAIN lall_events : lall_events[k].slot = lall_events[l].slot => k = l
    BY OneEventPerSlot
  <2>6. \A S : Libpfc!Cardinality(S) = Cardinality(S)
    BY DEF Libpfc!Cardinality, Cardinality
  <2>7. \A k \in DOMAIN lall_events : lall_events[k].code = lmetric_names[k]
    BY DEF LInv, LSlots
  <2>8. lpc # "program" => \A k \in DOMAIN lall_events :
          lall_events[k].code = lmetric_names[k] /\ lcfg[lall_events[k].slot] = lmetric_names[k]
    BY <2>7 DEF LInv, LProgrammed, LReady, Libpfc!Assigned
  <2> QED BY <2>3, <2>4, <2>5, <2>6, <2>8 DEF SlotsDisjoint, Libpfc!SlotsDisjoint
<1> QED BY <1>1, LibpfcInvariant, PTL

(* The steps of the table that a libpfc timer fills. *)
LEMMA LibpfcTableInit == Libpfc!Init => Libpfc!Table!Init
<1>1. LMaxCount \in Nat
  BY LibpfcAssumption DEF Libpfc!ConstantsOK
<1> QED BY <1>1 DEF Libpfc!Init, Libpfc!Table!Init

LEMMA LibpfcTableStep ==
  ASSUME LInv, LInv', Libpfc!Next \/ UNCHANGED libpfc_vars
  PROVE  [Libpfc!Table!Next]_(Libpfc!Table!tvars)
<1>1. CASE UNCHANGED <<lcount, lmetric_names, lstart, lresults>>
  BY <1>1 DEF Libpfc!Table!tvars
<1>2. CASE Libpfc!AssignSlots
  <2>1. lmetric_names = <<>> /\ UNCHANGED <<lcount, lstart, lresults>> /\ lpc' = "program"
    BY <1>2 DEF Libpfc!AssignSlots, Libpfc!reading, LInv, LPhases
  <2>2. lmetric_names' \in Seq(Code)
    BY DEF LInv, Libpfc!TypeOK
  <2>3. /\ Len(lall_events') >= 1 /\ lall_events'[1] = [code |-> LCycles, slot |-> CLK_UNHALTED]
        /\ lmetric_names' = [k \in DOMAIN lall_events' |-> lall_events'[k].code]
    BY <2>1 DEF LInv, LSlots, Libpfc!Assigned
  <2>4. 1 \in DOMAIN lall_events'
    <3>1. lall_events' \in Seq([code : Code, slot : Libpfc!Slot])
      BY DEF LInv, Libpfc!TypeOK
    <3> QED BY <2>3, <3>1
  <2>5. lmetric_names'[1] = LCycles /\ 1 \in DOMAIN lmetric_names'
    BY <2>3, <2>4
  <2>6. Len(lmetric_names') > 0
    BY <2>2, <2>5
  <2> QED BY <2>1, <2>2, <2>5, <2>6 DEF Libpfc!Table!Next, Libpfc!Table!Program
<1>3. CASE Libpfc!Begin
  <2>1. /\ lpc' = "begun" /\ lstart' = lcount
        /\ UNCHANGED <<lcount, lmetric_names, lresults>>
    BY <1>3 DEF Libpfc!Begin
  <2>2. lmetric_names' # <<>>
    <3>1. Len(lall_events') >= 1 /\ lall_events' \in Seq([code : Code, slot : Libpfc!Slot])
      BY <2>1 DEF LInv, LSlots, Libpfc!Assigned, Libpfc!TypeOK
    <3>2. lmetric_names' = [k \in DOMAIN lall_events' |-> lall_events'[k].code]
      BY <2>1 DEF LInv, LSlots, Libpfc!Assigned
    <3>3. 1 \in DOMAIN lmetric_names'
      BY <3>1, <3>2
    <3> QED BY <3>3
  <2> QED BY <2>1, <2>2 DEF Libpfc!Table!Next, Libpfc!Table!Begin
<1>4. CASE Libpfc!End
  <2>1. UNCHANGED <<lcount, lmetric_names, lstart>>
    BY <1>4 DEF Libpfc!End
  <2> QED BY <1>4, <2>1, LibpfcRow DEF Libpfc!Table!Next, Libpfc!Table!End
<1>5. CASE Libpfc!Happen
  <2>1. /\ \E e \in Code : lcount' = [lcount EXCEPT ![e] = @ + 1]
        /\ UNCHANGED <<lmetric_names, lstart, lresults>>
    BY <1>5 DEF Libpfc!Happen, Libpfc!reading
  <2>2. lcount \in [Code -> Nat] /\ lcount' \in [Code -> Nat]
    <3>1. lcount \in [Code -> 0 .. LMaxCount] /\ lcount' \in [Code -> 0 .. LMaxCount]
      BY DEF LInv, Libpfc!TypeOK
    <3>2. 0 .. LMaxCount \subseteq Nat
      BY LibpfcAssumption DEF Libpfc!ConstantsOK
    <3> QED BY <3>1, <3>2
  <2>3. \A e \in Code : lcount'[e] >= lcount[e]
    BY <2>1, <2>2
  <2> QED BY <2>1, <2>2, <2>3 DEF Libpfc!Table!Next, Libpfc!Table!Count
<1> QED
  BY <1>1, <1>2, <1>3, <1>4, <1>5 DEF Libpfc!Next, libpfc_vars, Libpfc!PfcInit, Libpfc!InitPfm,
    Libpfc!SkipEmpty, Libpfc!RejectEvent, Libpfc!ResolveEvent, Libpfc!PassToken,
    Libpfc!ProgramCounters, Libpfc!reading

LEMMA LibpfcImplementsTable == TimersSpec => Libpfc!ImplementsTable
<1>1. TimersInit => Libpfc!Table!Init
  BY LibpfcTableInit DEF TimersInit
<1>2. LInv /\ LInv' /\ [TimersNext]_all_vars => [Libpfc!Table!Next]_(Libpfc!Table!tvars)
  BY LibpfcTableStep DEF TimersNext, all_vars
<1> QED BY <1>1, <1>2, LibpfcInvariant, PTL DEF TimersSpec, Libpfc!ImplementsTable, Libpfc!Table!Spec

-----------------------------------------------------------------------------
(* The perf timer. *)

IsSequence(s) == \E S : s \in Seq(S)

LEMMA SequenceLength ==
  ASSUME NEW s, IsSequence(s)
  PROVE  Len(s) \in Nat /\ DOMAIN s = 1 .. Len(s)
BY DEF IsSequence

LEMMA OneMore ==
  ASSUME NEW s, NEW e, IsSequence(s)
  PROVE  /\ IsSequence(Append(s, e)) /\ Len(Append(s, e)) = Len(s) + 1
         /\ DOMAIN Append(s, e) = 1 .. Len(s) + 1
         /\ \A k \in 1 .. Len(s) : Append(s, e)[k] = s[k]
         /\ Append(s, e)[Len(s) + 1] = e
<1>1. PICK S : s \in Seq(S)
  BY DEF IsSequence
<1>2. s \in Seq(S \union {e}) /\ e \in S \union {e}
  BY <1>1
<1>3. Append(s, e) \in Seq(S \union {e})
  BY <1>2
<1> QED BY <1>2, <1>3 DEF IsSequence

(* Between the steps of parsePerfEvents and of init. *)
PParsed ==
  /\ IsSequence(args) /\ IsSequence(errors)
  /\ pc \in {"init", "parse"} => errors = <<>>
  /\ pc = "extra" => Len(errors) < n
  /\ Len(errors) <= Len(args)

(* The cycles are the first event that runs, there is a reading and a      *)
(* descriptor for every event, and a name after init.                      *)
PEvents ==
  /\ IsSequence(running_events) /\ Len(running_events) <= READING_COUNT
  /\ fds = Len(running_events)
  /\ pc = "init" => running_events = <<>>
  /\ pc \notin {"init", "failed"} => Len(running_events) >= 1 /\ running_events[1].name = Cycles
  /\ ~Initialised => metric_names = <<>>
  /\ Initialised => metric_names = Headers(running_events)

PRows ==
  /\ pc = "begun" => \A k \in DOMAIN running_events : t0[k] = start[running_events[k].name]
  /\ pc = "ended" => DOMAIN results = DOMAIN running_events
                     /\ \A k \in DOMAIN results : results[k] \in Int

PInv == TypeOK /\ PParsed /\ PEvents /\ PRows

LEMMA Empties == IsSequence(<<>>) /\ Len(<<>>) = 0
<1>1. <<>> \in Seq({})
  OBVIOUS
<1> QED BY <1>1 DEF IsSequence

LEMMA PerfInit == Init => PInv
<1> SUFFICES ASSUME Init PROVE PInv
  OBVIOUS
<1> USE PerfAssumption
<1>1. Len(extra_events) \in Nat /\ READING_COUNT \in Nat
  BY DEF Init, READING_COUNT
<1>2. count \in [Event -> 0 .. MaxCount] /\ start \in [Event -> 0 .. MaxCount]
  BY DEF Init
<1>3. {t0, t1} \subseteq [Reading -> Nat \union {Garbage}] /\ results \in Seq(Int \union {Garbage})
  BY DEF Init
<1>4. TypeOK
  <2>1. pmu \in [Event \ {Cycles} -> Fate] /\ paranoid \in {"all", "user", "none"}
        /\ extra_events \in Requests /\ pc = "init" /\ n = 1 /\ fds = 0
        /\ inslash \in BOOLEAN /\ user_only \in BOOLEAN
    BY DEF Init
  <2>2. args = <<>> /\ errors = <<>> /\ running_events = <<>> /\ metric_names = <<>>
    BY DEF Init
  <2>3. DOMAIN <<>> = {}
    OBVIOUS
  <2>4. /\ \A k \in DOMAIN args : DOMAIN args[k] = {"name", "header"}
        /\ \A k \in DOMAIN running_events :
             running_events[k].name \in Event /\ running_events[k].exclude_kernel \in BOOLEAN
        /\ Len(metric_names) <= READING_COUNT /\ Len(errors) <= Len(args)
    BY <1>1, <2>2, <2>3, Empties
  <2> QED BY <1>1, <1>2, <1>3, <2>1, <2>4 DEF TypeOK
<1> QED
  BY <1>1, <1>4, Empties DEF Init, PInv, PParsed, PEvents, PRows, Initialised

LEMMA InitCyclesStep == PInv /\ InitCycles => PInv'
<1> SUFFICES ASSUME PInv, InitCycles PROVE PInv'
  OBVIOUS
<1> USE PerfAssumption
<1>1. /\ pc = "init" /\ pc' \in {"parse", "failed"}
      /\ UNCHANGED <<pmu, paranoid, extra_events, inslash, current_event, args, n,
                     metric_names, errors, count, t0, t1, start, results>>
  BY DEF InitCycles, machine, parser, reading
<1>2. TypeOK /\ running_events = <<>> /\ fds = 0 /\ metric_names = <<>> /\ errors = <<>>
      /\ READING_COUNT \in Nat /\ READING_COUNT >= 1
  BY <1>1, Empties DEF PInv, PEvents, PParsed, Initialised, READING_COUNT
<1>3. CASE pc' = "failed"
  <2>1. UNCHANGED <<user_only, running_events, fds>>
    BY <1>3 DEF InitCycles
  <2>2. TypeOK'
    BY <1>1, <1>2, <1>3, <2>1 DEF TypeOK
  <2> QED BY <1>1, <1>3, <2>1, <2>2 DEF PInv, PParsed, PEvents, PRows, Initialised
<1>4. CASE pc' = "parse"
  <2> DEFINE cycles == [name |-> Cycles, header |-> make_header(Cycles),
                        exclude_kernel |-> paranoid = "user"]
  <2>1. /\ user_only' \in BOOLEAN /\ running_events' = <<cycles>> /\ fds' = 1
    <3>1. paranoid # "none"
      BY <1>4 DEF InitCycles
    <3>2. /\ user_only' = (paranoid = "user") /\ running_events' = <<cycles>>
          /\ fds' = fds + 1
      BY <3>1 DEF InitCycles
    <3> QED BY <1>2, <3>2
  <2>2. IsSequence(<<cycles>>) /\ Len(<<cycles>>) = 1 /\ DOMAIN <<cycles>> = {1}
        /\ <<cycles>>[1] = cycles
    <3> HIDE DEF cycles
    <3>1. <<cycles>> \in Seq({cycles})
      OBVIOUS
    <3>2. IsSequence(<<cycles>>)
      BY <3>1 DEF IsSequence
    <3>3. Len(<<cycles>>) = 1 /\ DOMAIN <<cycles>> = {1} /\ <<cycles>>[1] = cycles
      OBVIOUS
    <3> QED BY <3>2, <3>3
  <2>3. cycles.name = Cycles /\ cycles.exclude_kernel \in BOOLEAN
    OBVIOUS
  <2> HIDE DEF cycles
  <2>4. TypeOK'
    BY <1>1, <1>2, <1>4, <2>1, <2>2, <2>3 DEF TypeOK
  <2>5. PEvents'
    BY <1>1, <1>2, <1>4, <2>1, <2>2, <2>3 DEF PEvents, Initialised
  <2> QED BY <1>1, <1>4, <2>4, <2>5 DEF PInv, PParsed, PRows
<1> QED BY <1>1, <1>3, <1>4

LEMMA NamedEventFields == \A token : DOMAIN NamedEvent(token) = {"name", "header"}
BY DEF NamedEvent

LEMMA StringType == TypeOK => Len(extra_events) \in Nat
BY PerfAssumption DEF TypeOK

LEMMA ReadSymbolStep == PInv /\ ReadSymbol => PInv'
<1> SUFFICES ASSUME PInv, ReadSymbol PROVE PInv'
  OBVIOUS
<1>1. /\ pc = "parse" /\ n <= Len(extra_events) /\ n' = n + 1
      /\ inslash' = (IF extra_events[n] = "/" THEN ~inslash ELSE inslash)
      /\ UNCHANGED <<pmu, paranoid, extra_events, args, pc, user_only, running_events,
                     metric_names, fds, errors, count, t0, t1, start, results>>
  BY DEF ReadSymbol, Parsing, ParseOnly, machine, reading
<1>2. TypeOK /\ n \in Nat \ {0} /\ Len(extra_events) \in Nat
  BY StringType DEF PInv, TypeOK
<1>3. TypeOK'
  <2>1. inslash' \in BOOLEAN
    BY <1>1, <1>2 DEF TypeOK
  <2>2. n' \in Nat \ {0} /\ n' <= Len(extra_events') + 1
    BY <1>1, <1>2
  <2> QED BY <1>1, <1>2, <2>1, <2>2 DEF TypeOK
<1> QED
  BY <1>1, <1>3 DEF PInv, PParsed, PEvents, PRows, Initialised

(* A token that is cut adds an event, or throws. *)
LEMMA AddTokenStep ==
  ASSUME PInv, pc = "parse", NEW next \in {"parse", "extra"}, add_event(next), ParseOnly,
         inslash' = inslash, n' \in Nat \ {0}, next = "parse" => n' <= Len(extra_events) + 1,
         next = "extra" => n' = 1
  PROVE  PInv'
<1>1. /\ UNCHANGED <<pmu, paranoid, extra_events, inslash, user_only, running_events,
                     metric_names, fds, errors, count, t0, t1, start, results>>
  BY DEF ParseOnly, machine, reading
<1>2. TypeOK /\ IsSequence(args) /\ errors = <<>>
  BY DEF PInv, PParsed
<1>3. CASE pc' = "failed" /\ args' = args
  <2>1. TypeOK'
    BY <1>1, <1>2, <1>3 DEF TypeOK
  <2> QED BY <1>1, <1>3, <2>1 DEF PInv, PParsed, PEvents, PRows, Initialised
<1>4. CASE pc' = next /\ args' = Append(args, NamedEvent(current_event))
  <2>1. /\ IsSequence(args') /\ Len(args') \in Nat /\ Len(args') >= 1
        /\ \A k \in DOMAIN args' : DOMAIN args'[k] = {"name", "header"}
    <3> DEFINE event == NamedEvent(current_event)
    <3>1. /\ IsSequence(Append(args, event)) /\ Len(Append(args, event)) = Len(args) + 1
          /\ DOMAIN Append(args, event) = 1 .. Len(args) + 1
          /\ \A k \in 1 .. Len(args) : Append(args, event)[k] = args[k]
          /\ Append(args, event)[Len(args) + 1] = event
      BY <1>2, OneMore
    <3>2. Len(args) \in Nat /\ DOMAIN args = 1 .. Len(args)
      BY <1>2, SequenceLength
    <3>3. \A k \in DOMAIN args : DOMAIN args[k] = {"name", "header"}
      BY <1>2 DEF TypeOK
    <3>4. DOMAIN event = {"name", "header"}
      BY NamedEventFields
    <3> HIDE DEF event
    <3>5. ASSUME NEW k \in 1 .. Len(args) + 1
          PROVE  DOMAIN Append(args, event)[k] = {"name", "header"}
      <4>1. CASE k = Len(args) + 1
        BY <4>1, <3>1, <3>4
      <4>2. CASE k \in 1 .. Len(args)
        BY <4>2, <3>1, <3>2, <3>3
      <4> QED BY <4>1, <4>2, <3>2
    <3>6. args' = Append(args, event)
      BY <1>4 DEF event
    <3> QED BY <3>1, <3>2, <3>5, <3>6
  <2>2. Len(errors') = 0
    BY <1>1, <1>2, Empties
  <2>3. TypeOK'
    BY <1>1, <1>2, <1>4, <2>1, <2>2 DEF TypeOK
  <2>4. PParsed'
    BY <1>1, <1>2, <1>4, <2>1, <2>2 DEF PInv, PParsed
  <2> QED BY <1>1, <1>4, <2>3, <2>4 DEF PInv, PEvents, PRows, Initialised
<1> QED BY <1>3, <1>4 DEF add_event

LEMMA TokenStep == PInv /\ (EndToken \/ EndString) => PInv'
<1> SUFFICES ASSUME PInv, EndToken \/ EndString PROVE PInv'
  OBVIOUS
<1>1. n \in Nat \ {0} /\ Len(extra_events) \in Nat
  BY StringType DEF PInv, TypeOK
<1>2. CASE EndToken
  <2>1. /\ pc = "parse" /\ add_event("parse") /\ ParseOnly /\ inslash' = inslash
        /\ n' = n + 1 /\ n <= Len(extra_events)
    BY <1>2 DEF EndToken, Parsing
  <2>2. n' \in Nat \ {0} /\ n' <= Len(extra_events) + 1
    BY <1>1, <2>1
  <2> QED BY <2>1, <2>2, AddTokenStep
<1>3. CASE EndString
  <2>1. /\ pc = "parse" /\ add_event("extra") /\ ParseOnly /\ inslash' = inslash /\ n' = 1
    BY <1>3 DEF EndString
  <2> QED BY <2>1, AddTokenStep
<1> QED BY <1>2, <1>3

(* A position of the loop over the extra events is passed, with a message  *)
(* or without. *)
LEMMA PassStep ==
  ASSUME PInv, Programming, Pass,
         UNCHANGED errors \/ \E e : errors' = Append(errors, e)
  PROVE  /\ n' \in Nat \ {0} /\ pc' = "extra" /\ n' <= Len(args') + 1
         /\ PParsed' /\ Len(errors') <= Len(args')
<1>1. /\ pc = "extra" /\ n <= Len(args) /\ n' = n + 1 /\ UNCHANGED <<args, pc>>
  BY DEF Programming, Pass
<1>2. /\ n \in Nat \ {0} /\ IsSequence(args) /\ IsSequence(errors) /\ Len(errors) < n
  BY <1>1 DEF PInv, TypeOK, PParsed
<1>3. Len(args) \in Nat /\ Len(errors) \in Nat
  BY <1>2, SequenceLength
<1>4. IsSequence(errors') /\ Len(errors') <= Len(errors) + 1
  <2>1. CASE UNCHANGED errors
    BY <1>2, <1>3, <2>1
  <2>2. ASSUME NEW e, errors' = Append(errors, e)
        PROVE  IsSequence(errors') /\ Len(errors') <= Len(errors) + 1
    BY <1>2, <1>3, <2>2, OneMore
  <2> QED BY <2>1, <2>2
<1>5. Len(errors') \in Nat
  BY <1>4, SequenceLength
<1> QED BY <1>1, <1>2, <1>3, <1>4, <1>5 DEF PParsed

LEMMA RejectedStep == PInv /\ (SkipEmpty \/ RejectEvent \/ CloseEvent) => PInv'
<1> SUFFICES ASSUME PInv, SkipEmpty \/ RejectEvent \/ CloseEvent PROVE PInv'
  OBVIOUS
<1>1. /\ Programming /\ Pass /\ UNCHANGED running_events
      /\ UNCHANGED fds \/ fds' = (fds + 1) - 1
      /\ UNCHANGED errors \/ \E e : errors' = Append(errors, e)
  BY DEF SkipEmpty, RejectEvent, CloseEvent
<1>2. /\ pc = "extra"
      /\ UNCHANGED <<pmu, paranoid, extra_events, inslash, current_event, args, pc, user_only,
                     running_events, metric_names, count, t0, t1, start, results>>
  BY <1>1 DEF Programming, Pass, machine, parser, reading
<1>3. fds' = fds
  <2>1. fds \in Nat
    BY DEF PInv, TypeOK
  <2> QED BY <1>1, <2>1
<1>4. /\ n' \in Nat \ {0} /\ pc' = "extra" /\ n' <= Len(args') + 1
      /\ PParsed' /\ Len(errors') <= Len(args')
  BY <1>1, PassStep
<1>5. TypeOK'
  BY <1>2, <1>3, <1>4 DEF PInv, TypeOK
<1> QED
  BY <1>2, <1>3, <1>4, <1>5 DEF PInv, PEvents, PRows, Initialised

LEMMA AddEventStep == PInv /\ AddEvent => PInv'
<1> SUFFICES ASSUME PInv, AddEvent PROVE PInv'
  OBVIOUS
<1> DEFINE event == Running(args[n], user_only)
<1>1. /\ Programming /\ Pass /\ ~Full /\ fate(args[n].name) = "programmed"
      /\ fds' = fds + 1 /\ running_events' = Append(running_events, event) /\ UNCHANGED errors
  BY DEF AddEvent
<1>2. /\ pc = "extra"
      /\ UNCHANGED <<pmu, paranoid, extra_events, inslash, current_event, args, pc, user_only,
                     metric_names, count, t0, t1, start, results>>
  BY <1>1 DEF Programming, Pass, machine, parser, reading
<1>3. /\ n' \in Nat \ {0} /\ pc' = "extra" /\ n' <= Len(args') + 1
      /\ PParsed' /\ Len(errors') <= Len(args')
  BY <1>1, PassStep
<1>4. event.name \in Event /\ event.exclude_kernel \in BOOLEAN
  <2>1. pmu \in [Event \ {Cycles} -> Fate] /\ user_only \in BOOLEAN
    BY DEF PInv, TypeOK
  <2>2. args[n].name \in DOMAIN pmu
    BY <1>1 DEF fate
  <2> QED BY <2>1, <2>2 DEF Running
<1>5. /\ IsSequence(running_events) /\ Len(running_events) \in Nat
      /\ Len(running_events) < READING_COUNT /\ READING_COUNT \in Nat
      /\ fds = Len(running_events)
      /\ Len(running_events) >= 1 /\ running_events[1].name = Cycles
      /\ DOMAIN running_events = 1 .. Len(running_events)
  <2>1. READING_COUNT \in Nat
    BY PerfAssumption DEF READING_COUNT
  <2>2. IsSequence(running_events) /\ Len(running_events) <= READING_COUNT
        /\ fds = Len(running_events) /\ Len(running_events) >= 1 /\ running_events[1].name = Cycles
    BY <1>2 DEF PInv, PEvents
  <2>3. Len(running_events) \in Nat /\ DOMAIN running_events = 1 .. Len(running_events)
    BY <2>2, SequenceLength
  <2> QED BY <1>1, <2>1, <2>2, <2>3 DEF Full
<1>6. /\ IsSequence(running_events') /\ Len(running_events') = Len(running_events) + 1
      /\ DOMAIN running_events' = 1 .. Len(running_events) + 1
      /\ \A k \in 1 .. Len(running_events) : running_events'[k] = running_events[k]
      /\ running_events'[Len(running_events) + 1] = event
  <2> HIDE DEF event
  <2> QED BY <1>1, <1>5, OneMore
<1> HIDE DEF event
<1>7. \A k \in DOMAIN running_events' :
        running_events'[k].name \in Event /\ running_events'[k].exclude_kernel \in BOOLEAN
  <2>1. \A k \in DOMAIN running_events :
          running_events[k].name \in Event /\ running_events[k].exclude_kernel \in BOOLEAN
    BY DEF PInv, TypeOK
  <2>2. ASSUME NEW k \in 1 .. Len(running_events) + 1
        PROVE  running_events'[k].name \in Event /\ running_events'[k].exclude_kernel \in BOOLEAN
    <3>1. CASE k = Len(running_events) + 1
      BY <3>1, <1>4, <1>6
    <3>2. CASE k \in 1 .. Len(running_events)
      BY <3>2, <2>1, <1>5, <1>6
    <3> QED BY <3>1, <3>2, <1>5
  <2> QED BY <2>2, <1>6
<1>8. fds' \in Nat /\ fds' = Len(running_events') /\ Len(running_events') <= READING_COUNT
      /\ Len(running_events') >= 1
  BY <1>1, <1>5, <1>6
<1>9. running_events'[1].name = Cycles
  BY <1>5, <1>6
<1>10. TypeOK'
  BY <1>2, <1>3, <1>7, <1>8 DEF PInv, TypeOK
<1>11. PEvents'
  BY <1>2, <1>6, <1>8, <1>9 DEF PInv, PEvents, Initialised
<1> QED
  BY <1>2, <1>3, <1>10, <1>11 DEF PInv, PRows

LEMMA HeadersLength ==
  ASSUME NEW list, IsSequence(list)
  PROVE  Len(Headers(list)) = Len(list) /\ <<>> \o Headers(list) = Headers(list)
<1> DEFINE S == {list[k].header : k \in DOMAIN list}
           h == Headers(list)
<1>1. Len(list) \in Nat /\ DOMAIN list = 1 .. Len(list)
  BY SequenceLength
<1>2. h \in [1 .. Len(list) -> S]
  BY <1>1 DEF Headers
<1> HIDE DEF S, h
<1>3. h \in Seq(S) /\ Len(h) = Len(list)
  BY <1>1, <1>2
<1>4. <<>> \o h = h
  BY <1>3
<1> QED BY <1>3, <1>4 DEF h

LEMMA NameMetricsStep == PInv /\ NameMetrics => PInv'
<1> SUFFICES ASSUME PInv, NameMetrics PROVE PInv'
  OBVIOUS
<1>1. /\ pc = "extra" /\ pc' = "ready" /\ metric_names' = metric_names \o Headers(running_events)
      /\ UNCHANGED <<pmu, paranoid, extra_events, inslash, current_event, args, n, user_only,
                     running_events, fds, errors, count, t0, t1, start, results>>
  BY DEF NameMetrics, machine, parser, reading
<1>2. /\ IsSequence(running_events) /\ Len(running_events) <= READING_COUNT /\ metric_names = <<>>
  BY <1>1 DEF PInv, PEvents, Initialised
<1>3. Len(running_events) \in Nat /\ DOMAIN running_events = 1 .. Len(running_events)
  BY <1>2, SequenceLength
<1>4. metric_names' = Headers(running_events) /\ Len(metric_names') = Len(running_events)
  BY <1>1, <1>2, HeadersLength
<1>5. TypeOK'
  BY <1>1, <1>2, <1>4 DEF PInv, TypeOK
<1>6. PEvents'
  BY <1>1, <1>4 DEF PInv, PEvents, Initialised
<1> QED
  BY <1>1, <1>5, <1>6 DEF PInv, PParsed, PRows

LEMMA PerfCounts ==
  ASSUME PInv
  PROVE  /\ \A e \in Event : count[e] \in Nat /\ start[e] \in Nat
         /\ Garbage \notin Int /\ READING_COUNT \in Nat
         /\ now \in [Reading -> Nat \union {Garbage}]
<1>1. \A e \in Event : count[e] \in Nat /\ start[e] \in Nat
  BY PerfAssumption DEF PInv, TypeOK
<1>2. READING_COUNT \in Nat /\ Garbage \notin Int
  BY PerfAssumption DEF READING_COUNT
<1>3. ASSUME NEW k \in Reading, k <= Len(running_events)
      PROVE  count[running_events[k].name] \in Nat \union {Garbage}
  <2>1. k \in DOMAIN running_events
    <3>1. Len(running_events) \in Nat /\ DOMAIN running_events = 1 .. Len(running_events)
      BY SequenceLength DEF PInv, PEvents
    <3> QED BY <1>2, <1>3, <3>1 DEF Reading
  <2>2. running_events[k].name \in Event
    BY <2>1 DEF PInv, TypeOK
  <2> QED BY <1>1, <2>2
<1> QED BY <1>1, <1>2, <1>3 DEF now

(* A step that leaves all but the counts and the readings alone. *)
LEMMA PerfKept ==
  ASSUME PInv, TypeOK', PRows', pc \in {"ready", "begun", "ended"},
         pc' \in {"ready", "begun", "ended"},
         UNCHANGED <<args, n, running_events, metric_names, fds, errors>>
  PROVE  PInv'
BY DEF PInv, PParsed, PEvents, Initialised

LEMMA PerfBeginStep == PInv /\ Begin => PInv'
<1> SUFFICES ASSUME PInv, Begin PROVE PInv'
  OBVIOUS
<1>1. /\ pc \in {"ready", "ended"} /\ pc' = "begun" /\ t0' = now /\ start' = count
      /\ UNCHANGED <<pmu, paranoid, extra_events, inslash, current_event, args, n, user_only,
                     running_events, metric_names, fds, errors, count, t1, results>>
  BY DEF Begin, machine, parser
<1>2. TypeOK'
  <2>1. TypeOK /\ now \in [Reading -> Nat \union {Garbage}]
    BY PerfCounts DEF PInv
  <2> QED BY <1>1, <2>1 DEF TypeOK
<1>3. PRows'
  <2>1. Len(running_events) \in Nat /\ DOMAIN running_events = 1 .. Len(running_events)
        /\ Len(running_events) <= READING_COUNT /\ READING_COUNT \in Nat
    BY SequenceLength, PerfCounts DEF PInv, PEvents
  <2>2. \A k \in DOMAIN running_events : now[k] = count[running_events[k].name]
    BY <2>1 DEF now, Reading
  <2> QED BY <1>1, <2>2 DEF PRows
<1> QED BY <1>1, <1>2, <1>3, PerfKept

(* What End computes is what the events counted. *)
LEMMA PerfRow ==
  ASSUME PInv, End
  PROVE  /\ results' = [k \in DOMAIN running_events |->
                           count[running_events[k].name] - start[running_events[k].name]]
         /\ \A k \in DOMAIN running_events :
              count[running_events[k].name] - start[running_events[k].name] \in Int
<1>1. /\ pc = "begun" /\ t1' = now /\ results' = to_result(delta(t1', t0))
  BY DEF End
<1>2. Len(running_events) \in Nat /\ DOMAIN running_events = 1 .. Len(running_events)
      /\ Len(running_events) <= READING_COUNT /\ READING_COUNT \in Nat
  BY SequenceLength, PerfCounts DEF PInv, PEvents
<1>3. ASSUME NEW k \in DOMAIN running_events
      PROVE  /\ count[running_events[k].name] - start[running_events[k].name] \in Int
             /\ delta(t1', t0)[k]
                  = count[running_events[k].name] - start[running_events[k].name]
  <2>1. k \in Reading /\ k <= Len(running_events)
    BY <1>2 DEF Reading
  <2>2. running_events[k].name \in Event
    BY DEF PInv, TypeOK
  <2>3. /\ count[running_events[k].name] \in Nat /\ start[running_events[k].name] \in Nat
        /\ Garbage \notin Int
    BY <2>2, PerfCounts
  <2>4. t0[k] = start[running_events[k].name]
    BY <1>1 DEF PInv, PRows
  <2>5. t1'[k] = count[running_events[k].name]
    BY <1>1, <2>1 DEF now
  <2>6. Garbage \notin {t1'[k], t0[k]}
    BY <2>3, <2>4, <2>5
  <2>7. delta(t1', t0)[k] = t1'[k] - t0[k]
    BY <2>1, <2>6 DEF delta
  <2> QED BY <2>3, <2>4, <2>5, <2>7
<1> QED BY <1>1, <1>3 DEF to_result

LEMMA PerfEndStep == PInv /\ End => PInv'
<1> SUFFICES ASSUME PInv, End PROVE PInv'
  OBVIOUS
<1>1. /\ pc = "begun" /\ pc' = "ended" /\ t1' = now
      /\ UNCHANGED <<pmu, paranoid, extra_events, inslash, current_event, args, n, user_only,
                     running_events, metric_names, fds, errors, count, t0, start>>
  BY DEF End, machine, parser
<1>2. Len(running_events) \in Nat /\ DOMAIN running_events = 1 .. Len(running_events)
  BY SequenceLength DEF PInv, PEvents
<1>3. /\ results' \in [1 .. Len(running_events) -> Int]
      /\ DOMAIN results' = DOMAIN running_events
  BY <1>2, PerfRow
<1>4. results' \in Seq(Int \union {Garbage})
  <2>1. results' \in [1 .. Len(running_events) -> Int \union {Garbage}]
    BY <1>3
  <2> QED BY <1>2, <2>1
<1>5. TypeOK'
  <2>1. TypeOK /\ now \in [Reading -> Nat \union {Garbage}]
    BY PerfCounts DEF PInv
  <2> QED BY <1>1, <1>4, <2>1 DEF TypeOK
<1>6. PRows'
  BY <1>1, <1>3 DEF PRows
<1> QED BY <1>1, <1>5, <1>6, PerfKept

LEMMA PerfHappenStep == PInv /\ Happen => PInv'
<1> SUFFICES ASSUME PInv, Happen PROVE PInv'
  OBVIOUS
<1>1. /\ pc \in {"ready", "begun", "ended"} /\ pc' = pc
      /\ \E e \in Event : count[e] < MaxCount /\ count' = [count EXCEPT ![e] = @ + 1]
      /\ UNCHANGED <<pmu, paranoid, extra_events, inslash, current_event, args, n, user_only,
                     running_events, metric_names, fds, errors, t0, t1, start, results>>
  BY DEF Happen, machine, parser, reading
<1>2. count' \in [Event -> 0 .. MaxCount]
  <2>1. count \in [Event -> 0 .. MaxCount] /\ MaxCount \in Nat
    BY PerfAssumption DEF PInv, TypeOK
  <2> QED BY <1>1, <2>1
<1>3. TypeOK'
  BY <1>1, <1>2 DEF PInv, TypeOK
<1>4. PRows'
  BY <1>1 DEF PInv, PRows
<1> QED BY <1>1, <1>3, <1>4, PerfKept

LEMMA PerfStep == PInv /\ (Next \/ UNCHANGED perf_vars) => PInv'
<1> SUFFICES ASSUME PInv, Next \/ UNCHANGED perf_vars PROVE PInv'
  OBVIOUS
<1>1. CASE UNCHANGED perf_vars
  <2>1. UNCHANGED <<pmu, paranoid, extra_events, inslash, current_event, args, pc, n, user_only,
                    running_events, metric_names, fds, errors, count, t0, t1, start, results>>
    BY <1>1 DEF perf_vars, vars, machine, parser, reading
  <2>2. TypeOK'
    BY <2>1 DEF PInv, TypeOK
  <2> QED BY <2>1, <2>2 DEF PInv, PParsed, PEvents, PRows, Initialised
<1>2. CASE Next
  BY <1>2, InitCyclesStep, ReadSymbolStep, TokenStep, RejectedStep, AddEventStep,
    NameMetricsStep, PerfBeginStep, PerfEndStep, PerfHappenStep DEF Next
<1> QED BY <1>1, <1>2

LEMMA PerfInvariant == TimersSpec => []PInv
<1>1. TimersInit => PInv
  BY PerfInit DEF TimersInit
<1>2. PInv /\ [TimersNext]_all_vars => PInv'
  BY PerfStep DEF TimersNext, all_vars
<1> QED BY <1>1, <1>2, PTL DEF TimersSpec

(* Whatever fails in the loop of perf-timer.cpp:239-269, for any string,   *)
(* any number of readings and whatever becomes of the events, every open   *)
(* descriptor belongs to an event that runs.                               *)
THEOREM DescriptorsAlwaysOwned == TimersSpec => []DescriptorsOwned
<1>1. PInv => DescriptorsOwned
  BY DEF PInv, PEvents, DescriptorsOwned
<1> QED BY <1>1, PerfInvariant, PTL

(* A row has a value for every name (benchmark.hpp:122), and none that     *)
(* now() left as it was (perf-timer.cpp:305-315).                          *)
THEOREM RowsAlwaysComplete == TimersSpec => []RowsComplete
<1>1. PInv => RowsComplete
  <2> SUFFICES ASSUME PInv, pc = "ended" PROVE RowsComplete
    BY DEF RowsComplete
  <2>1. /\ metric_names = Headers(running_events) /\ results \in Seq(Int \union {Garbage})
        /\ DOMAIN results = DOMAIN running_events
        /\ \A k \in DOMAIN results : results[k] \in Int
    BY DEF PInv, PEvents, PRows, Initialised, TypeOK
  <2>2. Len(running_events) \in Nat /\ DOMAIN running_events = 1 .. Len(running_events)
    BY SequenceLength DEF PInv, PEvents
  <2>3. Len(results) = Len(running_events)
    BY <2>1, <2>2
  <2>4. Len(metric_names) = Len(running_events)
    BY <2>1, HeadersLength DEF PInv, PEvents
  <2>5. Garbage \notin Int
    BY PerfAssumption
  <2> QED BY <2>1, <2>3, <2>4, <2>5 DEF RowsComplete
<1> QED BY <1>1, PerfInvariant, PTL

(* The steps of the table that a perf timer fills. *)
LEMMA ColumnsOf ==
  ASSUME NEW list, IsSequence(list), Len(list) >= 1, list[1].name = Cycles,
         \A k \in DOMAIN list : list[k].name \in Event
  PROVE  /\ Names(list) \in Seq(Event) /\ Len(Names(list)) > 0 /\ Names(list)[1] = Cycles
         /\ Names(list) # <<>> /\ Headers(list) # <<>>
<1>1. Len(list) \in Nat /\ DOMAIN list = 1 .. Len(list)
  BY SequenceLength
<1>2. Headers(list) # <<>>
  <2>1. Len(Headers(list)) >= 1
    BY HeadersLength
  <2> QED BY <2>1, Empties
<1>3. Names(list) \in [1 .. Len(list) -> Event]
  BY <1>1 DEF Names
<1>4. Names(list)[1] = Cycles
  BY <1>1 DEF Names
<1> HIDE DEF Names
<1>5. Names(list) \in Seq(Event) /\ Len(Names(list)) > 0
  BY <1>1, <1>3
<1> QED BY <1>2, <1>4, <1>5, Empties

LEMMA PerfTableInit == Init => Table!Init
<1>1. MaxCount \in Nat
  BY PerfAssumption
<1> QED BY <1>1 DEF Init, Table!Init

LEMMA PerfTableStep ==
  ASSUME PInv, PInv', Next \/ UNCHANGED perf_vars
  PROVE  [Table!Next]_(Table!tvars)
<1> DEFINE columns == IF metric_names = <<>> THEN <<>> ELSE Names(running_events)
<1>1. /\ Initialised => columns = Names(running_events) /\ columns # <<>>
      /\ ~Initialised => columns = <<>>
      /\ ~Initialised' => columns' = <<>>
  <2>1. /\ Initialised => /\ metric_names = Headers(running_events) /\ IsSequence(running_events)
                         /\ Len(running_events) >= 1 /\ running_events[1].name = Cycles
        /\ ~Initialised => metric_names = <<>>
    BY DEF PInv, PEvents, Initialised
  <2>2. \A k \in DOMAIN running_events : running_events[k].name \in Event
    BY DEF PInv, TypeOK
  <2>3. ~Initialised' => metric_names' = <<>>
    BY DEF PInv, PEvents
  <2> QED BY <2>1, <2>2, <2>3, ColumnsOf
<1>2. CASE UNCHANGED <<count, columns, start, results>>
  BY <1>2 DEF Table!tvars
<1>3. CASE NameMetrics
  <2>1. ~Initialised /\ Initialised' /\ UNCHANGED <<count, start, results>>
    BY <1>3 DEF NameMetrics, Initialised, reading
  <2>2. /\ metric_names' = Headers(running_events') /\ IsSequence(running_events')
        /\ Len(running_events') >= 1 /\ running_events'[1].name = Cycles
        /\ \A k \in DOMAIN running_events' : running_events'[k].name \in Event
    BY <2>1 DEF PInv, PEvents, Initialised, Headers, TypeOK
  <2>3. /\ Names(running_events') \in Seq(Event) /\ Len(Names(running_events')) > 0
        /\ Names(running_events')[1] = Cycles /\ metric_names' # <<>>
    BY <2>2, ColumnsOf
  <2>4. columns' = Names(running_events')
    BY <2>3 DEF Names
  <2>5. columns = <<>> /\ columns' \in Seq(Event) /\ Len(columns') > 0 /\ columns'[1] = Cycles
    BY <1>1, <2>1, <2>3, <2>4
  <2> QED BY <2>1, <2>5 DEF Table!Next, Table!Program
<1>4. CASE Begin
  <2>1. /\ Initialised /\ start' = count
        /\ UNCHANGED <<count, running_events, metric_names, results>>
    BY <1>4 DEF Begin, Initialised
  <2>2. columns # <<>> /\ columns' = columns
    BY <1>1, <2>1
  <2> QED BY <2>1, <2>2 DEF Table!Next, Table!Begin
<1>5. CASE End
  <2>1. Initialised /\ UNCHANGED <<count, running_events, metric_names, start>>
    BY <1>5 DEF End, Initialised
  <2>2. columns = Names(running_events) /\ columns # <<>> /\ columns' = columns
    BY <1>1, <2>1
  <2>3. results' = [k \in DOMAIN columns |-> count[columns[k]] - start[columns[k]]]
    BY <1>5, <2>2, PerfRow DEF Names
  <2> HIDE DEF columns
  <2>4. Table!End
    BY <2>1, <2>2, <2>3 DEF Table!End, columns
  <2> QED BY <2>4 DEF Table!Next
<1>6. CASE Happen
  <2>1. /\ \E e \in Event : count' = [count EXCEPT ![e] = @ + 1]
        /\ UNCHANGED <<running_events, metric_names, start, results>>
    BY <1>6 DEF Happen, reading
  <2>2. count \in [Event -> Nat] /\ count' \in [Event -> Nat]
    <3>1. count \in [Event -> 0 .. MaxCount] /\ count' \in [Event -> 0 .. MaxCount]
      BY DEF PInv, TypeOK
    <3>2. 0 .. MaxCount \subseteq Nat
      BY PerfAssumption
    <3> QED BY <3>1, <3>2
  <2>3. \A e \in Event : count'[e] >= count[e]
    BY <2>1, <2>2
  <2>4. columns' = columns
    BY <2>1
  <2> QED BY <2>1, <2>2, <2>3, <2>4 DEF Table!Next, Table!Count
<1>7. CASE UNCHANGED <<count, metric_names, start, results>> /\ ~Initialised /\ ~Initialised'
  BY <1>1, <1>2, <1>7
<1>8. CASE UNCHANGED perf_vars
  BY <1>2, <1>8 DEF perf_vars, vars, reading
<1> HIDE DEF columns
<1> QED
  BY <1>3, <1>4, <1>5, <1>6, <1>7, <1>8 DEF Next, InitCycles, ReadSymbol, EndToken, EndString,
    Parsing, ParseOnly, add_event, SkipEmpty, RejectEvent, CloseEvent, AddEvent, Programming,
    Pass, Initialised, reading

LEMMA PerfImplementsTable == TimersSpec => ImplementsTable
<1>1. TimersInit => Table!Init
  BY PerfTableInit DEF TimersInit
<1>2. PInv /\ PInv' /\ [TimersNext]_all_vars => [Table!Next]_(Table!tvars)
  BY PerfTableStep DEF TimersNext, all_vars
<1> QED BY <1>1, <1>2, PerfInvariant, PTL DEF TimersSpec, ImplementsTable, Table!Spec

-----------------------------------------------------------------------------
(* The clock timer. *)

LEMMA ClockConstants ==
  /\ ITERS \in Nat /\ ITERS > 0 /\ ITERS % 4 = 0
  /\ TRIES \in Nat /\ TRIES >= 1 /\ WARMUP \in Nat
  /\ Period \in Nat /\ Period > 0 /\ SlowRuns \in Nat /\ CallTime \in Nat
  /\ MHz \subseteq Nat /\ NotSet \notin Nat
  /\ Disturbances \subseteq Nat \ {0} /\ MaxDisturbances \in Nat
BY ClockAssumption DEF Clock!ConstantsOK

(* What the difference of the two runs of a sample should be. *)
Truth == ITERS * Period

Once == CallTime + Clock!LoopCycles(ITERS) * Period
Twice == CallTime + Clock!LoopCycles(ITERS * 2) * Period

LEMMA Products ==
  /\ \A a, b \in Nat : a * b \in Nat
  /\ \A a, b \in Nat : a * (b + 1) = a * b + a
  /\ \A a, b, c \in Nat : (a + b) * c = a * c + b * c
OBVIOUS

(* Either loop: the second run takes ITERS cycles more. *)
LEMMA LoopDifference ==
  ASSUME portable \in BOOLEAN
  PROVE  /\ Clock!LoopCycles(ITERS) \in Nat /\ Clock!LoopCycles(ITERS * 2) \in Nat
         /\ Once \in Nat /\ Twice \in Nat /\ Truth \in Nat /\ Twice - Once = Truth
<1>1. /\ Clock!LoopCycles(ITERS) \in Nat
      /\ Clock!LoopCycles(ITERS * 2) = Clock!LoopCycles(ITERS) + ITERS
  BY ClockConstants DEF Clock!LoopCycles
<1> DEFINE c == Clock!LoopCycles(ITERS)
<1>2. /\ c * Period \in Nat /\ ITERS * Period \in Nat
      /\ (c + ITERS) * Period = c * Period + ITERS * Period
  BY <1>1, Products, ClockConstants
<1>3. Once = CallTime + c * Period /\ Twice = CallTime + (c + ITERS) * Period
  BY <1>1 DEF Once, Twice
<1>4. Clock!LoopCycles(ITERS * 2) \in Nat
  BY <1>1, ClockConstants
<1> HIDE DEF c
<1>5. \A x, y \in Nat : (CallTime + (x + y)) - (CallTime + x) = y
  BY ClockConstants
<1>6. \A x \in Nat : CallTime + x \in Nat
  BY ClockConstants
<1> QED BY <1>1, <1>2, <1>3, <1>4, <1>5, <1>6, ClockConstants DEF Truth, c

Looping == cpc \in {"t0", "once", "t1", "twice", "t2"}

(* The runs of the loop so far: TRIES times two in a round. *)
CRounds ==
  /\ cpc = "getenv" => cw = 0 /\ cr = 0
  /\ Looping => cw <= WARMUP
  /\ cpc \in {"t0", "once"} => runs >= 2 * TRIES * cw + 2 * cr
  /\ cpc \in {"t1", "twice"} => runs >= 2 * TRIES * cw + 2 * cr + 1
  /\ cpc = "t2" => runs >= 2 * TRIES * cw + 2 * cr + 2

WarmEnough == SlowRuns <= 2 * TRIES * WARMUP
Warm == WarmEnough /\ cw = WARMUP

(* Where the sample being taken stands, when nothing interrupted it. *)
CReading ==
  Warm /\ cr \notin disturbed =>
    /\ cpc = "once" => nanos = ct0
    /\ cpc = "t1" => nanos = ct0 + Once
    /\ cpc = "twice" => nanos = ct1 /\ ct1 - ct0 = Once
    /\ cpc = "t2" => nanos = ct1 + Twice /\ ct1 - ct0 = Once

(* The samples of the last round that nothing interrupted are right. *)
CSamples ==
  /\ Warm /\ Looping => \A k \in Clock!Try : k < cr /\ k \notin disturbed => csample[k] = Truth
  /\ WarmEnough /\ cpc = "stats" => \A k \in Clock!Try \ disturbed : csample[k] = Truth

CResult ==
  cpc = "done" /\ clock_mhz = NotSet /\ WarmEnough /\ 2 * (Cardinality(disturbed) + 1) <= TRIES =>
    ghz = <<ITERS, Truth>>

CInv == Clock!TypeOK /\ CRounds /\ CReading /\ CSamples /\ CResult

LEMMA ClockInit == Clock!Init => CInv
<1> SUFFICES ASSUME Clock!Init PROVE CInv
  OBVIOUS
<1>1. Clock!TypeOK
  <2>1. csample \in [Clock!Try -> Int] /\ cr \in Clock!Try /\ cw \in 0 .. WARMUP + 1
    BY ClockConstants DEF Clock!Init, Clock!Try
  <2>2. {ct0, ct1} \subseteq 0 .. nanos /\ nanos \in Nat /\ runs \in Nat
    BY DEF Clock!Init
  <2>3. disturbed \subseteq Clock!Try /\ events \in 0 .. MaxDisturbances /\ ghz \in Int \X Int
    BY ClockConstants DEF Clock!Init
  <2>4. /\ clock_mhz \in MHz \union {NotSet} /\ portable \in BOOLEAN
        /\ cpc \in {"getenv", "t0", "once", "t1", "twice", "t2", "stats", "done"}
    BY DEF Clock!Init
  <2> QED BY <2>1, <2>2, <2>3, <2>4 DEF Clock!TypeOK
<1>2. cpc = "getenv" /\ cw = 0 /\ cr = 0
  BY DEF Clock!Init
<1> QED BY <1>1, <1>2 DEF CInv, CRounds, CReading, CSamples, CResult, Looping

LEMMA GetEnvStep == CInv /\ Clock!GetEnv => CInv'
<1> SUFFICES ASSUME CInv, Clock!GetEnv PROVE CInv'
  OBVIOUS
<1>1. /\ cpc = "getenv"
      /\ UNCHANGED <<clock_mhz, portable, nanos, runs, cw, cr, ct0, ct1, csample, disturbed, events>>
      /\ \/ clock_mhz # NotSet /\ ghz' = <<clock_mhz, 1000>> /\ cpc' = "done"
         \/ cpc' = "t0" /\ ghz' = ghz
  BY DEF Clock!GetEnv, Clock!machine
<1>2. Clock!TypeOK'
  <2>1. clock_mhz # NotSet => clock_mhz \in Int
    BY ClockConstants DEF CInv, Clock!TypeOK
  <2>2. ghz' \in Int \X Int
    BY <1>1, <2>1 DEF CInv, Clock!TypeOK
  <2> QED BY <1>1, <2>2 DEF CInv, Clock!TypeOK
<1>3. (2 * TRIES) * 0 = 0
  BY ClockConstants
<1>4. cw' = 0 /\ cr' = 0 /\ runs' \in Nat
  BY <1>1 DEF CInv, CRounds, Clock!TypeOK
<1>5. CRounds'
  BY <1>1, <1>3, <1>4, ClockConstants DEF CRounds, Looping
<1>6. CReading' /\ CResult'
  BY <1>1 DEF CReading, CResult
<1>7. CSamples'
  <2>1. \A k \in Clock!Try : ~(k < 0)
    BY ClockConstants DEF Clock!Try
  <2> QED BY <1>1, <1>4, <2>1 DEF CSamples
<1> QED BY <1>2, <1>5, <1>6, <1>7 DEF CInv

LEMMA ReadT0Step == CInv /\ Clock!ReadT0 => CInv'
<1> SUFFICES ASSUME CInv, Clock!ReadT0 PROVE CInv'
  OBVIOUS
<1>1. /\ cpc = "t0" /\ cpc' = "once" /\ ct0' = nanos
      /\ disturbed' = IF cr = 0 THEN {} ELSE disturbed
      /\ UNCHANGED <<clock_mhz, portable, nanos, runs, cw, cr, ct1, csample, ghz, events>>
  BY DEF Clock!ReadT0, Clock!machine
<1>2. Clock!TypeOK'
  BY <1>1 DEF CInv, Clock!TypeOK
<1>3. CRounds'
  BY <1>1 DEF CInv, CRounds, Looping
<1>4. CReading' /\ CResult'
  BY <1>1 DEF CReading, CResult
<1>5. CSamples'
  <2>1. cr = 0 => \A k \in Clock!Try : ~(k < cr)
    BY ClockConstants DEF Clock!Try
  <2> QED BY <1>1, <2>1 DEF CInv, CSamples, Looping, Warm, WarmEnough
<1> QED BY <1>2, <1>3, <1>4, <1>5 DEF CInv

(* After the rounds that warm the processor up the loop runs at its speed. *)
LEMMA SpeedReached ==
  CInv /\ Warm /\ cpc \in {"once", "twice"} => ~(runs < SlowRuns)
<1> SUFFICES ASSUME CInv, Warm, cpc \in {"once", "twice"} PROVE ~(runs < SlowRuns)
  OBVIOUS
<1> DEFINE before == (2 * TRIES) * cw
<1>1. before \in Nat /\ cr \in Nat /\ runs \in Nat
  BY ClockConstants, Products DEF CInv, Clock!TypeOK, Clock!Try
<1>2. SlowRuns <= before
  BY DEF Warm, WarmEnough
<1>3. runs >= before + 2 * cr \/ runs >= before + 2 * cr + 1
  BY DEF CInv, CRounds
<1> HIDE DEF before
<1> QED BY <1>1, <1>2, <1>3, ClockConstants

LEMMA SameLength == UNCHANGED portable => Once' = Once /\ Twice' = Twice
BY DEF Once, Twice, Clock!LoopCycles

LEMMA CalOnceStep == CInv /\ Clock!CalOnce => CInv'
<1> SUFFICES ASSUME CInv, Clock!CalOnce PROVE CInv'
  OBVIOUS
<1> DEFINE speed == IF runs < SlowRuns THEN 2 * Period ELSE Period
<1>1. /\ cpc = "once" /\ cpc' = "t1" /\ runs' = runs + 1
      /\ nanos' = nanos + CallTime + Clock!LoopCycles(ITERS) * speed
      /\ UNCHANGED <<clock_mhz, portable, cw, cr, ct0, ct1, csample, ghz, disturbed, events>>
  BY DEF Clock!CalOnce, Clock!Cal, Clock!machine
<1>2. /\ portable \in BOOLEAN /\ nanos \in Nat /\ runs \in Nat
      /\ {ct0, ct1} \subseteq 0 .. nanos
  BY DEF CInv, Clock!TypeOK
<1>3. nanos' \in Nat /\ nanos <= nanos'
  <2>1. speed \in Nat
    BY ClockConstants
  <2> HIDE DEF speed
  <2>2. Clock!LoopCycles(ITERS) * speed \in Nat
    BY <1>2, <2>1, LoopDifference, Products
  <2> DEFINE p == Clock!LoopCycles(ITERS) * speed
  <2> HIDE DEF p
  <2> QED BY <1>1, <1>2, <2>2, ClockConstants DEF p
<1>4. Warm => nanos' = nanos + Once
  <2> SUFFICES ASSUME Warm PROVE nanos' = nanos + Once
    OBVIOUS
  <2>1. speed = Period
    BY <1>1, SpeedReached
  <2>2. Clock!LoopCycles(ITERS) * Period \in Nat
    BY <1>2, LoopDifference, Products, ClockConstants
  <2> DEFINE p == Clock!LoopCycles(ITERS) * Period
  <2>3. nanos' = nanos + CallTime + p /\ Once = CallTime + p /\ p \in Nat
    BY <1>1, <2>1, <2>2 DEF Once
  <2> HIDE DEF p
  <2> QED BY <1>2, <2>3, ClockConstants
<1> HIDE DEF speed
<1>5. Clock!TypeOK'
  <2>1. {ct0', ct1'} \subseteq 0 .. nanos' /\ runs' \in Nat
    BY <1>1, <1>2, <1>3
  <2> QED BY <1>1, <1>3, <2>1 DEF CInv, Clock!TypeOK
<1>6. CRounds'
  <2> DEFINE before == (2 * TRIES) * cw
  <2>1. before \in Nat /\ cr \in Nat
    BY ClockConstants, Products DEF CInv, Clock!TypeOK, Clock!Try
  <2>2. runs >= before + 2 * cr /\ cw <= WARMUP
    BY <1>1 DEF CInv, CRounds, Looping
  <2>3. runs' >= before + 2 * cr + 1
    <3> HIDE DEF before
    <3> QED BY <1>1, <1>2, <2>1, <2>2
  <2> QED BY <1>1, <2>2, <2>3 DEF CRounds
<1>7. CReading'
  BY <1>1, <1>4, SameLength DEF CInv, CReading, Warm, WarmEnough
<1>8. CSamples' /\ CResult'
  BY <1>1 DEF CInv, CSamples, CResult, Looping, Warm, WarmEnough
<1> QED BY <1>5, <1>6, <1>7, <1>8 DEF CInv

LEMMA ReadT1Step == CInv /\ Clock!ReadT1 => CInv'
<1> SUFFICES ASSUME CInv, Clock!ReadT1 PROVE CInv'
  OBVIOUS
<1>1. /\ cpc = "t1" /\ cpc' = "twice" /\ ct1' = nanos
      /\ UNCHANGED <<clock_mhz, portable, nanos, runs, cw, cr, ct0, csample, ghz, disturbed, events>>
  BY DEF Clock!ReadT1, Clock!machine
<1>2. Clock!TypeOK'
  BY <1>1 DEF CInv, Clock!TypeOK
<1>3. CRounds'
  BY <1>1 DEF CInv, CRounds, Looping
<1>4. CReading'
  <2>1. Once \in Nat /\ ct0 \in Nat
    BY LoopDifference DEF CInv, Clock!TypeOK
  <2>2. (ct0 + Once) - ct0 = Once
    BY <2>1
  <2> QED BY <1>1, <2>2, SameLength DEF CInv, CReading, Warm, WarmEnough
<1>5. CSamples' /\ CResult'
  BY <1>1 DEF CInv, CSamples, CResult, Looping, Warm, WarmEnough
<1> QED BY <1>2, <1>3, <1>4, <1>5 DEF CInv

LEMMA CalTwiceStep == CInv /\ Clock!CalTwice => CInv'
<1> SUFFICES ASSUME CInv, Clock!CalTwice PROVE CInv'
  OBVIOUS
<1> DEFINE speed == IF runs < SlowRuns THEN 2 * Period ELSE Period
           cycles == Clock!LoopCycles(ITERS * 2)
<1>1. /\ cpc = "twice" /\ cpc' = "t2" /\ runs' = runs + 1
      /\ nanos' = nanos + CallTime + cycles * speed
      /\ UNCHANGED <<clock_mhz, portable, cw, cr, ct0, ct1, csample, ghz, disturbed, events>>
  BY DEF Clock!CalTwice, Clock!Cal, Clock!machine
<1>2. /\ portable \in BOOLEAN /\ nanos \in Nat /\ runs \in Nat
      /\ {ct0, ct1} \subseteq 0 .. nanos
  BY DEF CInv, Clock!TypeOK
<1>3. nanos' \in Nat /\ nanos <= nanos'
  <2>1. speed \in Nat
    BY ClockConstants
  <2> HIDE DEF speed
  <2>2. cycles * speed \in Nat
    BY <1>2, <2>1, LoopDifference, Products
  <2> DEFINE p == cycles * speed
  <2> HIDE DEF p
  <2> QED BY <1>1, <1>2, <2>2, ClockConstants DEF p
<1>4. Warm => nanos' = nanos + Twice
  <2> SUFFICES ASSUME Warm PROVE nanos' = nanos + Twice
    OBVIOUS
  <2>1. speed = Period
    BY <1>1, SpeedReached
  <2>2. cycles * Period \in Nat
    BY <1>2, LoopDifference, Products, ClockConstants
  <2> DEFINE p == cycles * Period
  <2>3. nanos' = nanos + CallTime + p /\ Twice = CallTime + p /\ p \in Nat
    BY <1>1, <2>1, <2>2 DEF Twice
  <2> HIDE DEF p
  <2> QED BY <1>2, <2>3, ClockConstants
<1> HIDE DEF speed, cycles
<1>5. Clock!TypeOK'
  <2>1. {ct0', ct1'} \subseteq 0 .. nanos' /\ runs' \in Nat
    BY <1>1, <1>2, <1>3
  <2> QED BY <1>1, <1>3, <2>1 DEF CInv, Clock!TypeOK
<1>6. CRounds'
  <2> DEFINE before == (2 * TRIES) * cw
  <2>1. before \in Nat /\ cr \in Nat
    BY ClockConstants, Products DEF CInv, Clock!TypeOK, Clock!Try
  <2>2. runs >= before + 2 * cr + 1 /\ cw <= WARMUP
    BY <1>1 DEF CInv, CRounds, Looping
  <2>3. runs' >= before + 2 * cr + 2
    <3> HIDE DEF before
    <3> QED BY <1>1, <1>2, <2>1, <2>2
  <2> QED BY <1>1, <2>2, <2>3 DEF CRounds
<1>7. CReading'
  BY <1>1, <1>4, SameLength DEF CInv, CReading, Warm, WarmEnough
<1>8. CSamples' /\ CResult'
  BY <1>1 DEF CInv, CSamples, CResult, Looping, Warm, WarmEnough
<1> QED BY <1>5, <1>6, <1>7, <1>8 DEF CInv

LEMMA ReadT2Step == CInv /\ Clock!ReadT2 => CInv'
<1> SUFFICES ASSUME CInv, Clock!ReadT2 PROVE CInv'
  OBVIOUS
<1>1. /\ cpc = "t2"
      /\ csample' = [csample EXCEPT ![cr] = (nanos - ct1) - (ct1 - ct0)]
      /\ \/ cr < TRIES - 1 /\ cr' = cr + 1 /\ cpc' = "t0" /\ cw' = cw
         \/ /\ ~(cr < TRIES - 1) /\ cr' = 0 /\ cw' = cw + 1
            /\ cpc' = IF cw < WARMUP THEN "t0" ELSE "stats"
      /\ UNCHANGED <<clock_mhz, portable, nanos, runs, ct0, ct1, ghz, disturbed, events>>
  BY DEF Clock!ReadT2, Clock!NextSample, Clock!machine
<1>2. /\ cr \in Nat /\ cr <= TRIES - 1 /\ cr \in Clock!Try
      /\ cw \in Nat /\ cw <= WARMUP /\ runs \in Nat /\ portable \in BOOLEAN
      /\ csample \in [Clock!Try -> Int]
      /\ {ct0, ct1} \subseteq 0 .. nanos /\ nanos \in Nat
  BY <1>1, ClockConstants DEF CInv, Clock!TypeOK, Clock!Try, CRounds, Looping
<1>3. Clock!TypeOK'
  <2>1. cr' \in Clock!Try /\ cw' \in 0 .. WARMUP + 1 /\ cpc' \in {"t0", "stats"}
    BY <1>1, <1>2, ClockConstants DEF Clock!Try
  <2>2. (nanos - ct1) - (ct1 - ct0) \in Int
    BY <1>2
  <2>3. csample' \in [Clock!Try -> Int]
    BY <1>1, <1>2, <2>2
  <2>4. /\ nanos' \in Nat /\ runs' \in Nat /\ {ct0', ct1'} \subseteq 0 .. nanos'
        /\ ghz' \in Int \X Int
    BY <1>1 DEF CInv, Clock!TypeOK
  <2>5. /\ clock_mhz' \in MHz \union {NotSet} /\ portable' \in BOOLEAN
        /\ disturbed' \subseteq Clock!Try /\ events' \in 0 .. MaxDisturbances
    BY <1>1 DEF CInv, Clock!TypeOK
  <2> QED BY <2>1, <2>3, <2>4, <2>5 DEF Clock!TypeOK
<1>4. CRounds'
  <2> DEFINE before == (2 * TRIES) * cw
  <2>1. /\ before \in Nat /\ runs >= before + 2 * cr + 2
        /\ (2 * TRIES) * (cw + 1) = before + 2 * TRIES
    BY <1>1, <1>2, ClockConstants, Products DEF CInv, CRounds
  <2>2. CASE cr < TRIES - 1 /\ cr' = cr + 1 /\ cpc' = "t0" /\ cw' = cw
    <3>1. runs' >= before + 2 * cr'
      <4> HIDE DEF before
      <4> QED BY <1>1, <1>2, <2>1, <2>2
    <3> QED BY <1>2, <2>2, <3>1 DEF CRounds, Looping
  <2>3. CASE /\ ~(cr < TRIES - 1) /\ cr' = 0 /\ cw' = cw + 1
             /\ cpc' = IF cw < WARMUP THEN "t0" ELSE "stats"
    <3>1. cr = TRIES - 1
      BY <1>2, <2>3, ClockConstants
    <3>2. runs' >= (2 * TRIES) * cw' + 2 * cr'
      <4>1. runs >= before + 2 * TRIES
        <5> HIDE DEF before
        <5> QED BY <1>2, <2>1, <3>1, ClockConstants
      <4>2. (2 * TRIES) * cw' = before + 2 * TRIES
        BY <2>1, <2>3
      <4> HIDE DEF before
      <4> QED BY <1>1, <2>1, <2>3, <4>1, <4>2, ClockConstants
    <3>3. cpc' = "t0" => cw' <= WARMUP
      BY <1>2, <2>3, ClockConstants
    <3>4. cpc' \in {"t0", "stats"}
      BY <2>3
    <3> QED BY <3>2, <3>3, <3>4 DEF CRounds, Looping
  <2> QED BY <1>1, <2>2, <2>3
<1>5. CReading' /\ CResult'
  BY <1>1 DEF CReading, CResult
<1>6. CSamples'
  <2>1. Warm /\ cr \notin disturbed => csample'[cr] = Truth
    <3> SUFFICES ASSUME Warm, cr \notin disturbed PROVE csample'[cr] = Truth
      OBVIOUS
    <3>1. nanos = ct1 + Twice /\ ct1 - ct0 = Once
      BY <1>1 DEF CInv, CReading
    <3>2. (nanos - ct1) - (ct1 - ct0) = Truth
      BY <1>2, <3>1, LoopDifference
    <3> QED BY <1>1, <1>2, <3>2
  <2>2. Warm => \A k \in Clock!Try : k < cr /\ k \notin disturbed => csample'[k] = Truth
    BY <1>1, <1>2 DEF CInv, CSamples, Looping, Clock!Try
  <2>3. Warm => \A k \in Clock!Try : k <= cr /\ k \notin disturbed => csample'[k] = Truth
    BY <1>2, <2>1, <2>2 DEF Clock!Try
  <2>4. CASE cr < TRIES - 1 /\ cr' = cr + 1 /\ cpc' = "t0" /\ cw' = cw
    <3>1. \A k \in Clock!Try : k < cr' => k <= cr
      BY <1>2, <2>4, ClockConstants DEF Clock!Try
    <3> QED BY <1>1, <2>3, <2>4, <3>1 DEF CSamples, Warm, WarmEnough, Truth
  <2>5. CASE /\ ~(cr < TRIES - 1) /\ cr' = 0 /\ cw' = cw + 1
             /\ cpc' = IF cw < WARMUP THEN "t0" ELSE "stats"
    <3>1. cpc' = "stats" => cw = WARMUP
      BY <1>2, <2>5, ClockConstants
    <3>2. \A k \in Clock!Try : k <= cr /\ ~(k < cr')
      BY <1>2, <2>5, ClockConstants DEF Clock!Try
    <3> QED BY <1>1, <2>3, <2>5, <3>1, <3>2 DEF CSamples, Warm, WarmEnough, Truth
  <2> QED BY <1>1, <2>4, <2>5
<1> QED BY <1>3, <1>4, <1>5, <1>6 DEF CInv

LEMMA TryFinite ==
  /\ IsFiniteSet(Clock!Try) /\ Cardinality(Clock!Try) = TRIES
  /\ \A S : Clock!Cardinality(S) = Cardinality(S)
<1>1. IsFiniteSet(0 .. TRIES - 1) /\ Cardinality(0 .. TRIES - 1) = TRIES
  BY ClockConstants, FS_Interval
<1> QED BY <1>1 DEF Clock!Try, Clock!Cardinality, Cardinality

(* What ranked returns is the element of that rank. *)
LEMMA Ranked ==
  ASSUME NEW samples \in [Clock!Try -> Int], NEW rank \in Nat, rank < TRIES
  PROVE  /\ Clock!ranked(samples, rank) \in Int
         /\ Cardinality({k \in Clock!Try : samples[k] < Clock!ranked(samples, rank)}) <= rank
         /\ Cardinality({k \in Clock!Try : samples[k] <= Clock!ranked(samples, rank)}) > rank
<1> DEFINE Has(v) == /\ Cardinality({k \in Clock!Try : samples[k] < v}) <= rank
                     /\ Cardinality({k \in Clock!Try : samples[k] <= v}) > rank
           Values == {samples[k] : k \in Clock!Try}
<1>1. \E v \in Values : Has(v)
  <2>1. IsFiniteSet(Clock!Try) /\ rank < Cardinality(Clock!Try)
    BY TryFinite
  <2>2. PICK n0 \in Clock!Try : /\ Cardinality(Below(Clock!Try, samples, n0)) <= rank
                               /\ Cardinality(UpTo(Clock!Try, samples, n0)) > rank
    BY <2>1, ElementOfRank
  <2>3. Has(samples[n0]) /\ samples[n0] \in Values
    BY <2>2 DEF Below, UpTo
  <2> HIDE DEF Has, Values
  <2> QED BY <2>3
<1>2. Clock!ranked(samples, rank) = CHOOSE v \in Values : Has(v)
  BY TryFinite DEF Clock!ranked
<1>3. Values \subseteq Int
  OBVIOUS
<1>4. Clock!ranked(samples, rank) \in Values /\ Has(Clock!ranked(samples, rank))
  <2> HIDE DEF Has, Values
  <2> QED BY <1>1, <1>2
<1> QED BY <1>3, <1>4

LEMMA MedianType ==
  ASSUME NEW samples \in [Clock!Try -> Int]
  PROVE  Clock!median(samples) \in Int
<1> DEFINE half == TRIES \div 2
<1>1. half \in Nat /\ half < TRIES /\ (TRIES % 2 # 1 => half - 1 \in Nat /\ half - 1 < TRIES)
  BY ClockConstants
<1> HIDE DEF half
<1>2. Clock!ranked(samples, half) \in Int
  BY <1>1, Ranked
<1>3. TRIES % 2 # 1 => Clock!ranked(samples, half - 1) \in Int
  BY <1>1, Ranked
<1>4. \A x \in Int : Clock!Quotient(x, 2) \in Int
  BY DEF Clock!Quotient
<1>5. TRIES % 2 # 1 => Clock!ranked(samples, half - 1) + Clock!ranked(samples, half) \in Int
  BY <1>2, <1>3
<1> QED BY <1>2, <1>4, <1>5 DEF Clock!median, half

(* Fewer than half of the samples do not move the median. *)
LEMMA MedianOfMost ==
  ASSUME NEW samples \in [Clock!Try -> Int], NEW truth \in Nat,
         NEW D \in SUBSET Clock!Try, 2 * (Cardinality(D) + 1) <= TRIES,
         \A k \in Clock!Try \ D : samples[k] = truth
  PROVE  Clock!median(samples) = truth
<1> DEFINE half == TRIES \div 2
<1>1. Cardinality(D) \in Nat
  BY TryFinite, FS_Subset, FS_CardinalityType
<1>2. \A rank \in Nat : Cardinality(D) <= rank /\ rank + Cardinality(D) < TRIES
        => Clock!ranked(samples, rank) = truth
  <2> SUFFICES ASSUME NEW rank \in Nat, Cardinality(D) <= rank, rank + Cardinality(D) < TRIES
               PROVE  Clock!ranked(samples, rank) = truth
    OBVIOUS
  <2>1. rank < TRIES /\ truth \in Int
    BY <1>1, ClockConstants
  <2> DEFINE v == Clock!ranked(samples, rank)
  <2>2. /\ v \in Int /\ Cardinality({k \in Clock!Try : samples[k] < v}) <= rank
        /\ Cardinality({k \in Clock!Try : samples[k] <= v}) > rank
    BY <2>1, Ranked
  <2> HIDE DEF v
  <2>3. v = truth
    BY <2>1, <2>2, TryFinite, MajorityRank
  <2> QED BY <2>3 DEF v
<1>3. /\ half \in Nat /\ half - 1 \in Nat
      /\ Cardinality(D) <= half - 1 /\ Cardinality(D) <= half
      /\ half + Cardinality(D) < TRIES /\ half - 1 + Cardinality(D) < TRIES
  BY <1>1, ClockConstants
<1> HIDE DEF half
<1>4. Clock!ranked(samples, half) = truth /\ Clock!ranked(samples, half - 1) = truth
  BY <1>2, <1>3
<1>5. Clock!Quotient(truth + truth, 2) = truth
  BY DEF Clock!Quotient
<1> QED BY <1>4, <1>5 DEF Clock!median, half

LEMMA SetGHzStep == CInv /\ Clock!SetGHz => CInv'
<1> SUFFICES ASSUME CInv, Clock!SetGHz PROVE CInv'
  OBVIOUS
<1>1. /\ cpc = "stats" /\ cpc' = "done" /\ ghz' = <<ITERS, Clock!median(csample)>>
      /\ UNCHANGED <<clock_mhz, portable, nanos, runs, cw, cr, ct0, ct1, csample, disturbed, events>>
  BY DEF Clock!SetGHz, Clock!machine
<1>2. csample \in [Clock!Try -> Int] /\ disturbed \subseteq Clock!Try /\ portable \in BOOLEAN
  BY DEF CInv, Clock!TypeOK
<1>3. Clock!TypeOK'
  <2>1. ghz' \in Int \X Int
    BY <1>1, <1>2, MedianType, ClockConstants
  <2> QED BY <1>1, <2>1 DEF CInv, Clock!TypeOK
<1>4. CRounds' /\ CReading' /\ CSamples'
  BY <1>1 DEF CRounds, CReading, CSamples, Looping
<1>5. CResult'
  <2> SUFFICES ASSUME WarmEnough, 2 * (Cardinality(disturbed) + 1) <= TRIES
               PROVE  ghz' = <<ITERS, Truth>>
    BY <1>1 DEF CResult, WarmEnough, Truth
  <2>1. \A k \in Clock!Try \ disturbed : csample[k] = Truth
    BY <1>1 DEF CInv, CSamples
  <2>2. Truth \in Nat
    BY <1>2, LoopDifference
  <2> HIDE DEF Truth
  <2>3. Clock!median(csample) = Truth
    BY <1>2, <2>1, <2>2, MedianOfMost
  <2> QED BY <1>1, <2>3
<1> QED BY <1>3, <1>4, <1>5 DEF CInv

LEMMA DisturbStep == CInv /\ Clock!Disturb => CInv'
<1> SUFFICES ASSUME CInv, Clock!Disturb PROVE CInv'
  OBVIOUS
<1>1. PICK time \in Disturbances : nanos' = nanos + time
  BY DEF Clock!Disturb
<1>2. /\ cpc \in {"once", "t1", "twice", "t2"} /\ events < MaxDisturbances
      /\ events' = events + 1 /\ disturbed' = disturbed \union {cr}
      /\ UNCHANGED <<clock_mhz, portable, cpc, runs, cw, cr, ct0, ct1, csample, ghz>>
  BY DEF Clock!Disturb, Clock!machine
<1>3. Clock!TypeOK'
  <2>1. nanos \in Nat /\ time \in Nat /\ {ct0, ct1} \subseteq 0 .. nanos
    BY ClockConstants DEF CInv, Clock!TypeOK
  <2>2. nanos' \in Nat /\ {ct0', ct1'} \subseteq 0 .. nanos'
    BY <1>1, <1>2, <2>1
  <2>3. events' \in 0 .. MaxDisturbances /\ disturbed' \subseteq Clock!Try
    BY <1>2, ClockConstants DEF CInv, Clock!TypeOK
  <2> QED BY <1>2, <2>2, <2>3 DEF CInv, Clock!TypeOK
<1>4. CRounds'
  BY <1>2 DEF CInv, CRounds, Looping
<1>5. CReading' /\ CResult'
  BY <1>2 DEF CReading, CResult
<1>6. CSamples'
  BY <1>2 DEF CInv, CSamples, Looping, Warm, WarmEnough, Truth
<1> QED BY <1>3, <1>4, <1>5, <1>6 DEF CInv

LEMMA ClockStutter == CInv /\ UNCHANGED clock_vars => CInv'
BY DEF clock_vars, CInv, Clock!TypeOK, CRounds, CReading, CSamples, CResult, Looping,
   Warm, WarmEnough, Truth, Once, Twice, Clock!LoopCycles

LEMMA ClockInvariant == TimersSpec => []CInv
<1>1. TimersInit => CInv
  BY ClockInit DEF TimersInit
<1>2. CInv /\ [TimersNext]_all_vars => CInv'
  <2> SUFFICES ASSUME CInv, [TimersNext]_all_vars PROVE CInv'
    OBVIOUS
  <2>1. CASE UNCHANGED clock_vars
    BY <2>1, ClockStutter
  <2>2. CASE Clock!Next
    BY <2>2, GetEnvStep, ReadT0Step, CalOnceStep, ReadT1Step, CalTwiceStep, ReadT2Step,
       SetGHzStep, DisturbStep DEF Clock!Next
  <2> QED BY <2>1, <2>2 DEF TimersNext, all_vars
<1> QED BY <1>1, <1>2, PTL DEF TimersSpec

(* FrequencyRight: when fewer than half of the samples of the last round   *)
(* were interrupted, and the rounds before it warmed the processor up, the *)
(* clock timer converts a Period to exactly one cycle, for every number of *)
(* tries and of rounds, every length and period of the loop, and           *)
(* disturbances of any length (timers.cpp:36-76).                          *)
THEOREM FrequencyAlwaysRight == TimersSpec => []FrequencyRight
<1>1. CInv => FrequencyRight
  <2> SUFFICES ASSUME CInv, cpc = "done", clock_mhz = NotSet, WarmEnough,
                      2 * (Cardinality(disturbed) + 1) <= TRIES
               PROVE  LET cycles == Clock!to_result(Period)
                      IN cycles[2] > 0 /\ cycles[1] = cycles[2]
    BY TryFinite, ClockConstants DEF FrequencyRight, Clock!FrequencyRight, WarmEnough
  <2>1. ghz = <<ITERS, Truth>>
    BY DEF CInv, CResult
  <2>2. Clock!to_result(Period) = <<Period * ITERS, Truth>>
    BY <2>1 DEF Clock!to_result
  <2>3. Period * ITERS = Truth /\ Truth > 0
    BY ClockConstants DEF Truth
  <2> QED BY <2>2, <2>3
<1> QED BY <1>1, ClockInvariant, PTL

-----------------------------------------------------------------------------
(* The timers together. *)

(* TimersTypeOK: whichever timer is used, and however long, the variables  *)
(* of all three keep their types (perf-timer.cpp:204-276,                  *)
(* libpfc-timer.cpp:49-89, timers.cpp:42-76).                              *)
THEOREM TimersTypeCorrect == TimersSpec => []TimersTypeOK
<1>1. TimersInit => timer_name \in {"perf", "libpfc", "clock"}
  BY DEF TimersInit
<1>2. timer_name \in {"perf", "libpfc", "clock"} /\ [TimersNext]_all_vars
        => (timer_name \in {"perf", "libpfc", "clock"})'
  BY DEF TimersNext, all_vars
<1>3. timer_name \in {"perf", "libpfc", "clock"} /\ PInv /\ LInv /\ CInv => TimersTypeOK
  BY DEF TimersTypeOK, PInv, LInv, CInv
<1> QED BY <1>1, <1>2, <1>3, PerfInvariant, LibpfcInvariant, ClockInvariant, PTL DEF TimersSpec

(* ImplementTable: whatever either timer is asked for and whatever opens,  *)
(* its columns are made once, with the cycles first and before anything is *)
(* measured, and every row holds under each column how often that event    *)
(* happened between the two readings: it implements MetricTable            *)
(* (perf-timer.cpp:130-146, 204-276, libpfc-timer.cpp:29-89).              *)
THEOREM TimersImplementTable == TimersSpec => ImplementTable
BY PerfImplementsTable, LibpfcImplementsTable DEF ImplementTable

-----------------------------------------------------------------------------
(* What a string of events asks the perf timer for.  EventsAccounted says  *)
(* it with the marks that cut a text; the code reads the text symbol by    *)
(* symbol, and split_on_string folds over it.  Both are related to the     *)
(* pieces of a prefix, which the next symbol extends.                      *)

(* The members of a finite set of numbers, counted from the least. *)
LEMMA NthUnique ==
  ASSUME NEW S, IsFiniteSet(S), \A s \in S : s \in Int, NEW k, NEW m \in S,
         Cardinality({l \in S : l < m}) = k - 1
  PROVE  Nth(S, k) = m
<1>1. Nth(S, k) \in S /\ Cardinality({l \in S : l < Nth(S, k)}) = k - 1
  BY DEF Nth
<1>2. ASSUME NEW x \in S, NEW y \in S, x < y
      PROVE  Cardinality({l \in S : l < x}) # Cardinality({l \in S : l < y})
  <2>1. {l \in S : l < x} \in SUBSET {l \in S : l < y}
    <3>1. x \in Int /\ y \in Int
      OBVIOUS
    <3>2. \A l \in S : l < x => l < y
      BY <1>2, <3>1
    <3> QED BY <3>2
  <2>2. x \in {l \in S : l < y} /\ x \notin {l \in S : l < x}
    BY <1>2
  <2>3. IsFiniteSet({l \in S : l < y})
    BY FS_Subset
  <2> QED BY <2>1, <2>2, <2>3, FS_Subset
<1>3. ~(Nth(S, k) < m) /\ ~(m < Nth(S, k))
  BY <1>1, <1>2
<1>4. Nth(S, k) \in Int /\ m \in Int
  BY <1>1
<1> QED BY <1>3, <1>4

LEMMA NthMember ==
  ASSUME NEW S, IsFiniteSet(S), \A s \in S : s \in Int, NEW k \in 1 .. Cardinality(S)
  PROVE  Nth(S, k) \in S /\ Cardinality({l \in S : l < Nth(S, k)}) = k - 1
<1> DEFINE key == [s \in S |-> s]
<1>1. Cardinality(S) \in Nat /\ k - 1 \in Nat /\ k - 1 < Cardinality(S)
  BY FS_CardinalityType
<1>2. PICK m \in S : Cardinality(Below(S, key, m)) <= k - 1 /\ Cardinality(UpTo(S, key, m)) > k - 1
  <2>1. key \in [S -> Int]
    OBVIOUS
  <2> HIDE DEF key
  <2> QED BY <1>1, <2>1, ElementOfRank
<1>3. Below(S, key, m) = {l \in S : l < m} /\ UpTo(S, key, m) = {l \in S : l < m} \union {m}
  <2>1. \A l \in S : l <= m <=> (l < m \/ l = m)
    <3>1. m \in Int
      OBVIOUS
    <3> QED BY <3>1
  <2>2. UpTo(S, key, m) = {l \in S : l <= m}
    BY DEF UpTo
  <2> QED BY <2>1, <2>2 DEF Below
<1>4. IsFiniteSet({l \in S : l < m}) /\ m \notin {l \in S : l < m}
  BY FS_Subset
<1>5. Cardinality({l \in S : l < m} \union {m}) = Cardinality({l \in S : l < m}) + 1
      /\ Cardinality({l \in S : l < m}) \in Nat
  BY <1>4, FS_AddElement, FS_CardinalityType
<1>6. Cardinality({l \in S : l < m}) = k - 1
  <2>1. Cardinality({l \in S : l < m}) <= k - 1
    BY <1>2, <1>3
  <2>2. Cardinality({l \in S : l < m} \union {m}) > k - 1
    BY <1>2, <1>3
  <2> QED BY <1>1, <1>5, <2>1, <2>2
<1>7. Nth(S, k) = m
  BY <1>6, NthUnique
<1> QED BY <1>6, <1>7

LEMMA NthAdd ==
  ASSUME NEW S, IsFiniteSet(S), \A s \in S : s \in Int, NEW x \in Int, \A s \in S : s < x
  PROVE  /\ IsFiniteSet(S \union {x}) /\ Cardinality(S \union {x}) = Cardinality(S) + 1
         /\ Cardinality(S) \in Nat
         /\ \A k \in 1 .. Cardinality(S) : Nth(S \union {x}, k) = Nth(S, k)
         /\ Nth(S \union {x}, Cardinality(S) + 1) = x
<1>1. x \notin S /\ Cardinality(S) \in Nat
  BY FS_CardinalityType
<1>2. /\ IsFiniteSet(S \union {x}) /\ Cardinality(S \union {x}) = Cardinality(S) + 1
      /\ \A s \in S \union {x} : s \in Int
  BY <1>1, FS_AddElement
<1>3. ASSUME NEW k \in 1 .. Cardinality(S)
      PROVE  Nth(S \union {x}, k) = Nth(S, k)
  <2>1. Nth(S, k) \in S /\ Cardinality({l \in S : l < Nth(S, k)}) = k - 1
    BY NthMember
  <2>2. ~(x < Nth(S, k))
    <3>1. Nth(S, k) < x /\ Nth(S, k) \in Int
      BY <2>1
    <3> QED BY <3>1
  <2>3. {l \in S \union {x} : l < Nth(S, k)} = {l \in S : l < Nth(S, k)}
    BY <2>2
  <2> QED BY <1>2, <2>1, <2>3, NthUnique
<1>4. Nth(S \union {x}, Cardinality(S) + 1) = x
  <2>1. ~(x < x)
    OBVIOUS
  <2>2. {l \in S \union {x} : l < x} = S
    BY <2>1
  <2>3. Cardinality({l \in S \union {x} : l < x}) = (Cardinality(S) + 1) - 1
    BY <1>1, <2>2
  <2> QED BY <1>2, <2>3, NthUnique
<1> QED BY <1>1, <1>2, <1>3, <1>4

LEMMA SameSequence ==
  ASSUME NEW s, IsSequence(s), NEW t, IsSequence(t), Len(s) = Len(t),
         \A k \in 1 .. Len(s) : s[k] = t[k]
  PROVE  s = t
BY DEF IsSequence

LEMMA SliceFacts ==
  ASSUME NEW s, IsSequence(s), NEW from \in Nat \ {0}, NEW to \in 0 .. Len(s), from <= to + 1
  PROVE  /\ IsSequence(SubSeq(s, from, to)) /\ Len(SubSeq(s, from, to)) = to - from + 1
         /\ \A k \in 1 .. to - from + 1 : SubSeq(s, from, to)[k] = s[from + k - 1]
<1>1. PICK S : s \in Seq(S)
  BY DEF IsSequence
<1>2. SubSeq(s, from, to) \in Seq(S)
  BY <1>1
<1> QED BY <1>1, <1>2 DEF IsSequence

LEMMA PrefixFacts ==
  ASSUME NEW s, IsSequence(s), NEW to \in 0 .. Len(s)
  PROVE  /\ IsSequence(SubSeq(s, 1, to)) /\ Len(SubSeq(s, 1, to)) = to
         /\ \A k \in 1 .. to : SubSeq(s, 1, to)[k] = s[k]
<1>1. PICK S : s \in Seq(S)
  BY DEF IsSequence
<1>2. SubSeq(s, 1, to) \in Seq(S)
  BY <1>1
<1> QED BY <1>1, <1>2 DEF IsSequence

LEMMA EmptySlice ==
  ASSUME NEW s, IsSequence(s), NEW k \in Nat
  PROVE  SubSeq(s, k + 1, k) = <<>>
BY DEF IsSequence

(* The first p symbols of a text, cut at the places among them. *)
Bounds(places, p) == {0} \union {k \in places : k <= p}
PrefixCut(text, places, p) ==
  [k \in 1 .. Cardinality(Bounds(places, p)) |->
     SubSeq(text, Nth(Bounds(places, p) \union {p + 1}, k) + 1,
                  Nth(Bounds(places, p) \union {p + 1}, k + 1) - 1)]

BoundedBy(B, p) ==
  /\ IsFiniteSet(B) /\ \A s \in B : s \in 0 .. p
  /\ Cardinality(B) \in Nat /\ Cardinality(B) >= 1
  /\ \A k \in 1 .. Cardinality(B) :
       Nth(B, k) \in 0 .. p /\ Nth(B \union {p + 1}, k) = Nth(B, k)
  /\ Nth(B \union {p + 1}, Cardinality(B) + 1) = p + 1

LEMMA BoundsFacts ==
  ASSUME NEW places, \A k \in places : k \in Nat, NEW p \in Nat
  PROVE  BoundedBy(Bounds(places, p), p)
<1> DEFINE B == Bounds(places, p)
<1>1. \A s \in B : s \in 0 .. p
  BY DEF Bounds
<1>2. 0 \in B
  BY DEF Bounds
<1>3. IsFiniteSet(B)
  <2>1. B \in SUBSET (0 .. p) /\ IsFiniteSet(0 .. p)
    BY <1>1, FS_Interval
  <2> QED BY <2>1, FS_Subset
<1> HIDE DEF B
<1>4. Cardinality(B) \in Nat /\ Cardinality(B) >= 1
  <2>1. Cardinality(B) \in Nat /\ Cardinality(B) # 0
    BY <1>2, <1>3, FS_CardinalityType, FS_EmptySet
  <2> QED BY <2>1
<1>5. \A s \in B : s \in Int /\ s < p + 1
  BY <1>1
<1>6. \A k \in 1 .. Cardinality(B) : Nth(B, k) \in B
  BY <1>3, <1>5, NthMember
<1>7. /\ \A k \in 1 .. Cardinality(B) : Nth(B \union {p + 1}, k) = Nth(B, k)
      /\ Nth(B \union {p + 1}, Cardinality(B) + 1) = p + 1
  <2>1. p + 1 \in Int
    OBVIOUS
  <2> QED BY <1>3, <1>5, <2>1, NthAdd
<1>8. BoundedBy(B, p)
  BY <1>1, <1>3, <1>4, <1>6, <1>7 DEF BoundedBy
<1> QED BY <1>8 DEF B

LEMMA CutStart ==
  ASSUME NEW places, \A k \in places : k \in Nat \ {0}, NEW text, IsSequence(text)
  PROVE  PrefixCut(text, places, 0) = <<<<>>>>
<1>1. Bounds(places, 0) = {0}
  <2>1. \A k \in places : ~(k <= 0)
    OBVIOUS
  <2> QED BY <2>1 DEF Bounds
<1>2. BoundedBy({0}, 0) /\ Cardinality({0}) = 1
  <2>1. BoundedBy(Bounds(places, 0), 0)
    BY BoundsFacts
  <2> QED BY <1>1, <2>1, FS_Singleton
<1>3. 1 \in 1 .. Cardinality({0}) /\ Cardinality({0}) + 1 = 2 /\ 0 + 1 = 1
  BY <1>2
<1>4. Nth({0} \union {0 + 1}, 1) = 0 /\ Nth({0} \union {0 + 1}, 2) = 1
  <2>1. Nth({0}, 1) \in 0 .. 0 /\ Nth({0} \union {0 + 1}, 1) = Nth({0}, 1)
        /\ Nth({0} \union {0 + 1}, 2) = 0 + 1
    BY <1>2, <1>3 DEF BoundedBy
  <2> QED BY <2>1
<1>5. SubSeq(text, 1, 0) = <<>>
  BY DEF IsSequence
<1>6. PrefixCut(text, places, 0) = [k \in 1 .. 1 |-> <<>>]
  <2>1. ASSUME NEW k \in 1 .. 1
        PROVE  SubSeq(text, Nth({0} \union {0 + 1}, k) + 1, Nth({0} \union {0 + 1}, k + 1) - 1) = <<>>
    <3>1. k = 1 /\ k + 1 = 2
      OBVIOUS
    <3>2. 0 + 1 = 1 /\ 1 - 1 = 0
      OBVIOUS
    <3> QED BY <1>4, <1>5, <3>1, <3>2
  <2> QED BY <1>1, <1>2, <2>1 DEF PrefixCut
<1> QED BY <1>6

(* The k-th piece of the first p symbols, from the marks before it and     *)
(* after it.                                                               *)
Piece(text, B, p, k) ==
  SubSeq(text, Nth(B, k) + 1, IF k = Cardinality(B) THEN p ELSE Nth(B, k + 1) - 1)

LEMMA PieceOf ==
  ASSUME NEW text, NEW places, \A k \in places : k \in Nat, NEW p \in Nat
  PROVE  /\ IsSequence(PrefixCut(text, places, p))
         /\ Len(PrefixCut(text, places, p)) = Cardinality(Bounds(places, p))
         /\ \A k \in 1 .. Cardinality(Bounds(places, p)) :
              PrefixCut(text, places, p)[k] = Piece(text, Bounds(places, p), p, k)
<1> DEFINE B == Bounds(places, p)
           c == Cardinality(B)
           cut == PrefixCut(text, places, p)
           S == {Piece(text, B, p, k) : k \in 1 .. c}
<1>1. BoundedBy(B, p)
  BY BoundsFacts
<1>2. ASSUME NEW k \in 1 .. c
      PROVE  SubSeq(text, Nth(B \union {p + 1}, k) + 1, Nth(B \union {p + 1}, k + 1) - 1)
               = Piece(text, B, p, k)
  <2> HIDE DEF B
  <2>1. c \in Nat /\ Nth(B \union {p + 1}, k) = Nth(B, k) /\ p + 1 - 1 = p
    BY <1>1 DEF BoundedBy
  <2>2. CASE k = c
    <3>1. Nth(B \union {p + 1}, k + 1) = p + 1
      BY <1>1, <2>2 DEF BoundedBy
    <3>2. Piece(text, B, p, k) = SubSeq(text, Nth(B, k) + 1, p)
      BY <2>2 DEF Piece
    <3>3. Nth(B \union {p + 1}, k + 1) - 1 = p
      BY <3>1
    <3>4. Nth(B \union {p + 1}, k) = Nth(B, k)
      BY <2>1
    <3> QED BY <3>2, <3>3, <3>4
  <2>3. CASE k # c
    <3>1. k + 1 \in 1 .. c
      BY <2>1, <2>3
    <3>2. Nth(B \union {p + 1}, k + 1) = Nth(B, k + 1)
      BY <1>1, <3>1 DEF BoundedBy
    <3>3. Piece(text, B, p, k) = SubSeq(text, Nth(B, k) + 1, Nth(B, k + 1) - 1)
      BY <2>3 DEF Piece
    <3> QED BY <2>1, <3>2, <3>3
  <2> QED BY <2>2, <2>3
<1>3. cut = [k \in 1 .. c |-> Piece(text, B, p, k)]
  BY <1>2 DEF PrefixCut
<1>4. c \in Nat
  BY <1>1 DEF BoundedBy
<1> HIDE DEF cut, c, B
<1>5. cut \in [1 .. c -> S]
  BY <1>3
<1> HIDE DEF S
<1>6. cut \in Seq(S) /\ Len(cut) = c
  BY <1>4, <1>5
<1>7. IsSequence(cut) /\ \A k \in 1 .. c : cut[k] = Piece(text, B, p, k)
  BY <1>3, <1>6 DEF IsSequence
<1> QED BY <1>6, <1>7 DEF cut, c, B

(* The next symbol is put to the last piece, or ends it. *)
IsCut(text, places, p, pieces, last) ==
  IsSequence(pieces) /\ PrefixCut(text, places, p) = Append(pieces, last)

LEMMA CutNext ==
  ASSUME NEW text, IsSequence(text), NEW places, \A k \in places : k \in Nat \ {0},
         NEW p \in Nat, p < Len(text),
         NEW pieces, NEW last, IsCut(text, places, p, pieces, last)
  PROVE  /\ p + 1 \in places => IsCut(text, places, p + 1, Append(pieces, last), <<>>)
         /\ p + 1 \notin places => IsCut(text, places, p + 1, pieces, Append(last, text[p + 1]))
<1> DEFINE B == Bounds(places, p)
           c == Cardinality(B)
           C == Bounds(places, p + 1)
<1>1. BoundedBy(B, p) /\ BoundedBy(C, p + 1)
  BY BoundsFacts
<1>2. Len(text) \in Nat /\ DOMAIN text = 1 .. Len(text)
      /\ Len(pieces) \in Nat /\ DOMAIN pieces = 1 .. Len(pieces)
  BY SequenceLength DEF IsCut
<1>3. C = IF p + 1 \in places THEN B \union {p + 1} ELSE B
  <2>1. \A k \in places : k <= p + 1 <=> (k <= p \/ k = p + 1)
    OBVIOUS
  <2> QED BY <2>1 DEF Bounds
<1>4. c \in Nat /\ c >= 1 /\ \A s \in B : s < p + 1
  BY <1>1 DEF BoundedBy
<1> DEFINE cut == PrefixCut(text, places, p)
           next == PrefixCut(text, places, p + 1)
<1>5. ASSUME NEW q \in {p, p + 1}
      PROVE  /\ IsSequence(PrefixCut(text, places, q))
             /\ Len(PrefixCut(text, places, q)) = Cardinality(Bounds(places, q))
             /\ \A k \in 1 .. Cardinality(Bounds(places, q)) :
                  PrefixCut(text, places, q)[k] = Piece(text, Bounds(places, q), q, k)
  <2>1. q \in Nat /\ \A k \in places : k \in Nat
    OBVIOUS
  <2> QED BY <2>1, PieceOf
<1>6. /\ IsSequence(cut) /\ Len(cut) = c
      /\ \A k \in 1 .. c : cut[k] = Piece(text, B, p, k)
  BY <1>5
<1>7. /\ IsSequence(next) /\ Len(next) = Cardinality(C)
      /\ \A k \in 1 .. Cardinality(C) : next[k] = Piece(text, C, p + 1, k)
  BY <1>5
<1> HIDE DEF B, c, C, cut, next
<1>8. /\ IsSequence(pieces) /\ cut = Append(pieces, last) /\ IsSequence(Append(pieces, last))
      /\ Len(pieces) + 1 = c /\ Len(pieces) = c - 1 /\ cut[c] = last
      /\ \A k \in 1 .. c - 1 : cut[k] = pieces[k]
  <2>1. cut = Append(pieces, last)
    BY DEF cut, IsCut
  <2>2. Len(pieces) + 1 = c
    <3>1. IsSequence(pieces)
      BY DEF IsCut
    <3>2. Len(Append(pieces, last)) = Len(pieces) + 1
      BY <3>1, OneMore
    <3> QED BY <1>6, <2>1, <3>2
  <2>3. Len(pieces) = c - 1
    BY <1>2, <1>4, <2>2
  <2>4. IsSequence(pieces)
    BY DEF IsCut
  <2>5. /\ IsSequence(Append(pieces, last)) /\ Append(pieces, last)[Len(pieces) + 1] = last
        /\ \A k \in 1 .. Len(pieces) : Append(pieces, last)[k] = pieces[k]
    BY <2>4, OneMore
  <2> QED BY <2>1, <2>2, <2>3, <2>4, <2>5
<1>9. \A k \in 1 .. c : Nth(B, k) \in Nat /\ Nth(B, k) <= p
  BY <1>1 DEF BoundedBy, c
<1>10. ASSUME p + 1 \in places
      PROVE  next = Append(cut, <<>>)
  <2>1. /\ C = B \union {p + 1} /\ Cardinality(C) = c + 1
        /\ \A k \in 1 .. c : Nth(C, k) = Nth(B, k)
        /\ Nth(C, c + 1) = p + 1
    <3>1. /\ C = B \union {p + 1} /\ IsFiniteSet(B) /\ \A s \in B : s \in Int
          /\ p + 1 \in Int
      BY <1>1, <1>3, <1>4, <1>10 DEF BoundedBy, c
    <3>2. IsFiniteSet(B) /\ (\A s \in B : s \in Int) /\ p + 1 \in Int /\ \A s \in B : s < p + 1
      BY <1>4, <3>1
    <3> QED BY <3>1, <3>2, NthAdd DEF c
  <2>2. ASSUME NEW k \in 1 .. c
        PROVE  Piece(text, C, p + 1, k) = Piece(text, B, p, k)
    <3>1. k # c + 1 /\ Nth(C, k) = Nth(B, k)
      <4>1. k # c + 1
        BY <1>4
      <4>2. Nth(C, k) = Nth(B, k)
        BY <2>1
      <4> QED BY <4>1, <4>2
    <3>2. CASE k = c
      <4>1. Nth(C, k + 1) - 1 = p
        BY <2>1, <3>2
      <4> QED BY <2>1, <3>1, <3>2, <4>1 DEF Piece, c
    <3>3. CASE k # c
      <4>1. Nth(C, k + 1) = Nth(B, k + 1)
        <5>1. k + 1 \in 1 .. c
          BY <1>4, <3>3
        <5> QED BY <2>1, <5>1
      <4> QED BY <2>1, <3>1, <3>3, <4>1 DEF Piece, c
    <3> QED BY <3>2, <3>3
  <2>3. Piece(text, C, p + 1, c + 1) = <<>>
    <3>1. Piece(text, C, p + 1, c + 1) = SubSeq(text, p + 1 + 1, p + 1)
      BY <2>1 DEF Piece, c
    <3>2. p + 1 \in Nat
      OBVIOUS
    <3> QED BY <3>1, <3>2, EmptySlice
  <2>4. ASSUME NEW k \in 1 .. c + 1
        PROVE  next[k] = Append(cut, <<>>)[k]
    <3>1. CASE k = c + 1
      <4>1. Append(cut, <<>>)[c + 1] = <<>>
        BY <1>6, OneMore
      <4>2. next[c + 1] = <<>>
        <5>1. c + 1 \in 1 .. Cardinality(C)
          BY <1>4, <2>1
        <5> QED BY <1>7, <2>3, <5>1
      <4> QED BY <3>1, <4>1, <4>2
    <3>2. CASE k # c + 1
      <4>1. k \in 1 .. c
        BY <1>4, <3>2
      <4>2. Append(cut, <<>>)[k] = cut[k]
        BY <1>6, <4>1, OneMore
      <4> QED BY <1>6, <1>7, <2>1, <2>2, <4>1, <4>2
    <3> QED BY <3>1, <3>2
  <2>5. /\ IsSequence(Append(cut, <<>>)) /\ Len(Append(cut, <<>>)) = c + 1
    BY <1>6, OneMore
  <2> QED BY <1>7, <2>1, <2>4, <2>5, SameSequence DEF c
<1>11. ASSUME p + 1 \notin places
       PROVE  next = Append(pieces, Append(last, text[p + 1]))
  <2>1. C = B
    BY <1>3, <1>11
  <2>2. ASSUME NEW k \in 1 .. c - 1
        PROVE  Piece(text, C, p + 1, k) = pieces[k]
    <3>1. k # c /\ k \in 1 .. c
      BY <1>4
    <3>2. Piece(text, C, p + 1, k) = Piece(text, B, p, k)
      BY <2>1, <3>1 DEF Piece, c
    <3> QED BY <1>6, <1>8, <3>1, <3>2
  <2>3. Piece(text, C, p + 1, c) = Append(last, text[p + 1])
    <3> DEFINE from == Nth(B, c) + 1
    <3>1. last = SubSeq(text, from, p) /\ Piece(text, C, p + 1, c) = SubSeq(text, from, p + 1)
      <4>1. c \in 1 .. c
        BY <1>4
      <4> QED BY <1>6, <1>8, <2>1, <4>1 DEF Piece, c
    <3>2. from \in Nat \ {0} /\ from <= p + 1
      <4>1. c \in 1 .. c
        BY <1>4
      <4> QED BY <1>9, <4>1
    <3> HIDE DEF from
    <3>3. /\ IsSequence(SubSeq(text, from, p)) /\ Len(SubSeq(text, from, p)) = p - from + 1
          /\ \A k \in 1 .. p - from + 1 : SubSeq(text, from, p)[k] = text[from + k - 1]
      <4>1. p \in 0 .. Len(text) /\ from <= p + 1
        BY <1>2, <3>2
      <4> QED BY <3>2, <4>1, SliceFacts
    <3>4. /\ IsSequence(SubSeq(text, from, p + 1))
          /\ Len(SubSeq(text, from, p + 1)) = p + 1 - from + 1
          /\ \A k \in 1 .. p + 1 - from + 1 : SubSeq(text, from, p + 1)[k] = text[from + k - 1]
      <4>1. p + 1 \in 0 .. Len(text) /\ from <= p + 1 + 1
        BY <1>2, <3>2
      <4> QED BY <3>2, <4>1, SliceFacts
    <3>5. SubSeq(text, from, p + 1) = Append(SubSeq(text, from, p), text[p + 1])
      <4> DEFINE s == SubSeq(text, from, p)
                 t == SubSeq(text, from, p + 1)
                 l == p - from + 1
      <4>1. l \in Nat /\ p + 1 - from + 1 = l + 1 /\ from + (l + 1) - 1 = p + 1
        BY <3>2
      <4>2. /\ IsSequence(Append(s, text[p + 1])) /\ Len(Append(s, text[p + 1])) = l + 1
            /\ \A k \in 1 .. l : Append(s, text[p + 1])[k] = s[k]
            /\ Append(s, text[p + 1])[l + 1] = text[p + 1]
        <5>1. IsSequence(s) /\ Len(s) = l
          BY <3>3
        <5> HIDE DEF s, l
        <5> QED BY <5>1, OneMore
      <4>3. IsSequence(t) /\ Len(t) = l + 1 /\ \A k \in 1 .. l + 1 : t[k] = text[from + k - 1]
        BY <3>4, <4>1
      <4>4. \A k \in 1 .. l : s[k] = text[from + k - 1]
        BY <3>3
      <4> HIDE DEF s, t, l
      <4>5. ASSUME NEW k \in 1 .. l + 1
            PROVE  t[k] = Append(s, text[p + 1])[k]
        <5>1. CASE k = l + 1
          BY <4>1, <4>2, <4>3, <5>1
        <5>2. CASE k # l + 1
          <6>1. k \in 1 .. l
            BY <4>1, <5>2
          <6> QED BY <4>2, <4>3, <4>4, <6>1
        <5> QED BY <5>1, <5>2
      <4>6. t = Append(s, text[p + 1])
        BY <4>2, <4>3, <4>5, SameSequence
      <4> QED BY <4>6 DEF s, t
    <3> QED BY <3>1, <3>5
  <2> DEFINE longer == Append(last, text[p + 1])
  <2>4. /\ IsSequence(Append(pieces, longer)) /\ Len(Append(pieces, longer)) = c
        /\ \A k \in 1 .. c - 1 : Append(pieces, longer)[k] = pieces[k]
        /\ Append(pieces, longer)[c] = longer
    <3> HIDE DEF longer
    <3> QED BY <1>8, OneMore
  <2> HIDE DEF longer
  <2>5. ASSUME NEW k \in 1 .. c
        PROVE  next[k] = Append(pieces, longer)[k]
    <3>1. next[k] = Piece(text, C, p + 1, k)
      BY <1>7, <2>1 DEF c
    <3>2. CASE k = c
      BY <2>3, <2>4, <3>1, <3>2 DEF longer
    <3>3. CASE k # c
      <4>1. k \in 1 .. c - 1
        BY <1>4, <3>3
      <4> QED BY <2>2, <2>4, <3>1, <4>1
    <3> QED BY <3>2, <3>3
  <2>6. next = Append(pieces, longer)
    BY <1>7, <2>1, <2>4, <2>5, SameSequence DEF c
  <2> QED BY <2>6 DEF longer
<1> QED BY <1>8, <1>10, <1>11 DEF next, IsCut

(* The whole text is cut into the pieces of EventsAccounted. *)
LEMMA CutEnd ==
  ASSUME NEW text, IsSequence(text), NEW places \in SUBSET DOMAIN text
  PROVE  PrefixCut(text, places, Len(text)) = Cut(text, places)
<1> DEFINE N == Len(text)
           B == Bounds(places, N)
<1>1. N \in Nat /\ DOMAIN text = 1 .. N
  BY SequenceLength
<1>2. BoundedBy(B, N)
  <2>1. \A k \in places : k \in Nat
    BY <1>1
  <2> QED BY <1>1, <2>1, BoundsFacts
<1>3. places \union {0, N + 1} = B \union {N + 1}
  <2>1. \A k \in places : k <= N
    BY <1>1
  <2> QED BY <2>1 DEF Bounds
<1>4. Cardinality(B \union {N + 1}) - 1 = Cardinality(B)
  <2>1. IsFiniteSet(B) /\ N + 1 \notin B /\ Cardinality(B) \in Nat
    BY <1>1, <1>2 DEF BoundedBy
  <2> HIDE DEF B, N
  <2>2. Cardinality(B \union {N + 1}) = Cardinality(B) + 1
    BY <2>1, FS_AddElement
  <2> QED BY <2>1, <2>2
<1> HIDE DEF B
<1>5. PrefixCut(text, places, N) =
        [k \in 1 .. Cardinality(B) |->
           SubSeq(text, Nth(B \union {N + 1}, k) + 1, Nth(B \union {N + 1}, k + 1) - 1)]
  BY DEF PrefixCut, B
<1>6. Cut(text, places) =
        [k \in 1 .. Cardinality(B \union {N + 1}) - 1 |->
           SubSeq(text, Nth(B \union {N + 1}, k) + 1, Nth(B \union {N + 1}, k + 1) - 1)]
  BY <1>3 DEF Cut
<1> QED BY <1>4, <1>5, <1>6

(* split_on_string, a symbol at a time. *)
Put(sep, tokens, symbol) ==
  IF symbol = sep THEN Append(tokens, <<>>)
  ELSE Front(tokens) \o <<Append(Last(tokens), symbol)>>

LEMMA PutNext ==
  ASSUME NEW pieces, IsSequence(pieces), NEW last, NEW sep, NEW symbol
  PROVE  Put(sep, Append(pieces, last), symbol) =
           IF symbol = sep THEN Append(Append(pieces, last), <<>>)
           ELSE Append(pieces, Append(last, symbol))
<1>1. PICK S : pieces \in Seq(S)
  BY DEF IsSequence
<1> DEFINE longer == Append(last, symbol)
           T == S \union {last, longer}
<1>2. pieces \in Seq(T) /\ last \in T /\ longer \in T
  BY <1>1
<1> HIDE DEF T, longer
<1>3. Front(Append(pieces, last)) = pieces
  BY <1>2 DEF Front
<1>4. Last(Append(pieces, last)) = last
  BY <1>2 DEF Last
<1>5. pieces \o <<longer>> = Append(pieces, longer)
  BY <1>2
<1> QED BY <1>3, <1>4, <1>5 DEF Put, longer

LEMMA GreatestOf ==
  ASSUME NEW N \in Nat, NEW s \in SUBSET (1 .. N), s # {}
  PROVE  Max(s) \in s /\ \A k \in s : k <= Max(s)
<1> DEFINE room == [k \in s |-> N - k]
<1>1. \A k \in s : room[k] \in Nat
  OBVIOUS
<1>2. PICK m \in s : \A k \in s : room[m] <= room[k]
  <2> HIDE DEF room
  <2> QED BY <1>1, LeastCount
<1>3. \A k \in s : m >= k
  BY <1>2
<1>4. \A x, y \in s : x >= y <=> y <= x
  OBVIOUS
<1> QED BY <1>3, <1>4 DEF Max

LEMMA GreatestOfInterval ==
  ASSUME NEW size \in Nat \ {0}
  PROVE  Max(1 .. size) = size /\ (1 .. size) \ {size} = 1 .. size - 1
<1>1. Max(1 .. size) \in 1 .. size /\ size <= Max(1 .. size)
  <2>1. size \in Nat /\ (1 .. size) # {} /\ size \in 1 .. size /\ 1 .. size \in SUBSET (1 .. size)
    OBVIOUS
  <2> QED BY <2>1, GreatestOf
<1> QED BY <1>1

Solves(h, text, sep) ==
  h = [s \in SUBSET DOMAIN text |->
         IF s = {} THEN <<<<>>>> ELSE Put(sep, h[s \ {Max(s)}], text[Max(s)])]

LEMMA SplitIsSolution ==
  ASSUME NEW text, NEW sep
  PROVE  split_on_string(text, sep) = (CHOOSE h : Solves(h, text, sep))[DOMAIN text]
BY DEF split_on_string, FoldLeft, MapThenFoldSet, Solves, Put

(* The recursion has a solution: on the sets of up to any size, the first  *)
(* size without one being contradictory.                                   *)
Small(text, size) == {s \in SUBSET DOMAIN text : Cardinality(s) <= size}
SolvesTo(h, text, sep, size) ==
  h = [s \in Small(text, size) |->
         IF s = {} THEN <<<<>>>> ELSE Put(sep, h[s \ {Max(s)}], text[Max(s)])]

LEMMA SolvesNext ==
  ASSUME NEW text, IsSequence(text), NEW sep, NEW size \in Nat, NEW f, SolvesTo(f, text, sep, size)
  PROVE  \E g : SolvesTo(g, text, sep, size + 1)
<1> DEFINE value(h, s) ==
             IF s = {} THEN <<<<>>>> ELSE Put(sep, h[s \ {Max(s)}], text[Max(s)])
           g == [s \in Small(text, size + 1) |-> value(f, s)]
<1>1. DOMAIN f = Small(text, size) /\ \A s \in Small(text, size) : f[s] = value(f, s)
  BY DEF SolvesTo
<1>2. IsFiniteSet(DOMAIN text)
  BY SequenceLength, FS_Interval
<1>3. ASSUME NEW s \in Small(text, size)
      PROVE  s \in Small(text, size + 1)
  <2>1. s \in SUBSET DOMAIN text /\ Cardinality(s) \in Nat
    BY <1>2, FS_Subset, FS_CardinalityType DEF Small
  <2> QED BY <2>1 DEF Small
<1>4. ASSUME NEW s \in Small(text, size)
      PROVE  g[s] = f[s]
  BY <1>1, <1>3
<1>5. ASSUME NEW s \in Small(text, size + 1), s # {}
      PROVE  s \ {Max(s)} \in Small(text, size)
  <2>1. s \in SUBSET DOMAIN text /\ IsFiniteSet(s) /\ Cardinality(s) \in Nat /\ Cardinality(s) <= size + 1
    BY <1>2, FS_Subset, FS_CardinalityType DEF Small
  <2>2. Max(s) \in s
    <3>1. Len(text) \in Nat /\ s \in SUBSET (1 .. Len(text))
      BY <2>1, SequenceLength
    <3> QED BY <1>5, <3>1, GreatestOf
  <2>3. Cardinality(s \ {Max(s)}) = Cardinality(s) - 1
    BY <2>1, <2>2, FS_RemoveElement
  <2>4. Cardinality(s \ {Max(s)}) <= size
    BY <2>1, <2>3
  <2> QED BY <2>1, <2>4 DEF Small
<1>6. ASSUME NEW s \in Small(text, size + 1)
      PROVE  value(f, s) = value(g, s)
  <2>1. CASE s = {}
    BY <2>1
  <2>2. CASE s # {}
    <3>1. g[s \ {Max(s)}] = f[s \ {Max(s)}]
      BY <1>4, <1>5, <2>2
    <3> HIDE DEF g
    <3> QED BY <2>2, <3>1
  <2> QED BY <2>1, <2>2
<1>7. g = [s \in Small(text, size + 1) |-> value(g, s)]
  <2>1. g = [s \in Small(text, size + 1) |-> value(f, s)]
    OBVIOUS
  <2> HIDE DEF g, value
  <2> QED BY <1>6, <2>1
<1>8. SolvesTo(g, text, sep, size + 1)
  <2> HIDE DEF g
  <2> QED BY <1>7 DEF SolvesTo
<1> QED BY <1>8

LEMMA AllButLast ==
  ASSUME NEW s, IsSequence(s), Len(s) >= 1
  PROVE  \E front, last : IsSequence(front) /\ s = Append(front, last)
<1> DEFINE front == SubSeq(s, 1, Len(s) - 1)
<1>1. Len(s) \in Nat /\ Len(s) - 1 \in 0 .. Len(s) /\ Len(s) - 1 - 1 + 1 = Len(s) - 1
      /\ \A k \in 1 .. Len(s) - 1 : 1 + k - 1 = k
  BY SequenceLength
<1>2. IsSequence(front) /\ Len(front) = Len(s) - 1 /\ \A k \in 1 .. Len(s) - 1 : front[k] = s[k]
  <2>1. /\ IsSequence(front) /\ Len(front) = Len(s) - 1 - 1 + 1
        /\ \A k \in 1 .. Len(s) - 1 - 1 + 1 : front[k] = s[1 + k - 1]
    BY <1>1, SliceFacts
  <2> HIDE DEF front
  <2> QED BY <1>1, <2>1
<1> HIDE DEF front
<1>3. /\ IsSequence(Append(front, s[Len(s)])) /\ Len(Append(front, s[Len(s)])) = Len(s)
      /\ \A k \in 1 .. Len(s) - 1 : Append(front, s[Len(s)])[k] = front[k]
      /\ Append(front, s[Len(s)])[Len(s)] = s[Len(s)]
  <2>1. Len(front) + 1 = Len(s)
    BY <1>1, <1>2
  <2> QED BY <1>2, <2>1, OneMore
<1>4. \A k \in 1 .. Len(s) : k = Len(s) \/ k \in 1 .. Len(s) - 1
  <2>1. \A l \in Nat : \A k \in 1 .. l : k = l \/ k \in 1 .. l - 1
    OBVIOUS
  <2> QED BY <1>1, <2>1
<1>5. s = Append(front, s[Len(s)])
  BY <1>2, <1>3, <1>4, SameSequence
<1> QED BY <1>2, <1>5

LEMMA CutShape ==
  ASSUME NEW text, NEW places, \A k \in places : k \in Nat, NEW p \in Nat
  PROVE  \E pieces, last : IsCut(text, places, p, pieces, last)
<1> DEFINE cut == PrefixCut(text, places, p)
<1>1. IsSequence(cut) /\ Len(cut) = Cardinality(Bounds(places, p))
  BY PieceOf
<1>2. Cardinality(Bounds(places, p)) >= 1
  BY BoundsFacts DEF BoundedBy
<1> HIDE DEF cut
<1>3. \E pieces, last : IsSequence(pieces) /\ cut = Append(pieces, last)
  BY <1>1, <1>2, AllButLast
<1> QED BY <1>3 DEF cut, IsCut

LEMMA LeastBad ==
  ASSUME NEW Bad, \A k \in Bad : k \in Nat, Bad # {}
  PROVE  \E size \in Bad : \A k \in Bad : size <= k
<1> DEFINE key == [k \in Bad |-> k]
<1>1. \A k \in Bad : key[k] \in Nat
  OBVIOUS
<1>2. PICK size \in Bad : \A k \in Bad : key[size] <= key[k]
  <2> HIDE DEF key
  <2> QED BY <1>1, LeastCount
<1> QED BY <1>2

LEMMA SolutionExists ==
  ASSUME NEW text, IsSequence(text), NEW sep
  PROVE  \E h : Solves(h, text, sep)
<1> DEFINE Bad == {size \in Nat : ~\E f : SolvesTo(f, text, sep, size)}
<1>1. Bad = {}
  <2> SUFFICES ASSUME Bad # {} PROVE FALSE
    OBVIOUS
  <2>1. PICK size \in Bad : \A k \in Bad : size <= k
    BY LeastBad
  <2>2. SolvesTo([s \in Small(text, 0) |-> <<<<>>>>], text, sep, 0)
    <3>1. ASSUME NEW s \in Small(text, 0)
          PROVE  s = {}
      <4>1. s \in SUBSET DOMAIN text /\ IsFiniteSet(s) /\ Cardinality(s) \in Nat /\ Cardinality(s) <= 0
        <5>1. IsFiniteSet(DOMAIN text)
          BY SequenceLength, FS_Interval
        <5>2. s \in SUBSET DOMAIN text /\ Cardinality(s) <= 0
          BY DEF Small
        <5> QED BY <5>1, <5>2, FS_Subset, FS_CardinalityType
      <4> QED BY <4>1, FS_EmptySet
    <3> QED BY <3>1 DEF SolvesTo
  <2>3. size - 1 \in Nat
    BY <2>1, <2>2
  <2>4. size - 1 \notin Bad
    <3>1. ~(size <= size - 1)
      BY <2>3
    <3> HIDE DEF Bad
    <3> QED BY <2>1, <3>1
  <2>5. PICK f : SolvesTo(f, text, sep, size - 1)
    BY <2>3, <2>4
  <2>6. (size - 1) + 1 = size
    BY <2>3
  <2>7. \E g : SolvesTo(g, text, sep, (size - 1) + 1)
    BY <2>3, <2>5, SolvesNext
  <2> QED BY <2>1, <2>6, <2>7
<1>2. Len(text) \in Nat
  BY SequenceLength
<1>3. PICK h : SolvesTo(h, text, sep, Len(text))
  BY <1>1, <1>2
<1>4. Small(text, Len(text)) = SUBSET DOMAIN text
  <2>1. ASSUME NEW s \in SUBSET DOMAIN text
        PROVE  Cardinality(s) <= Len(text)
    <3>1. IsFiniteSet(1 .. Len(text)) /\ Cardinality(1 .. Len(text)) = Len(text)
      <4>1. ~(1 > Len(text)) \/ Len(text) = 0
        BY <1>2
      <4>2. Len(text) - 1 + 1 = Len(text) /\ 1 \in Int /\ Len(text) \in Int
        BY <1>2
      <4> QED BY <4>1, <4>2, FS_Interval
    <3>2. s \in SUBSET (1 .. Len(text))
      BY SequenceLength
    <3>3. Cardinality(s) <= Cardinality(1 .. Len(text))
      BY <3>1, <3>2, FS_Subset
    <3> QED BY <3>1, <3>3
  <2> QED BY <2>1 DEF Small
<1> QED BY <1>3, <1>4 DEF Solves, SolvesTo

LEMMA PutIsCut ==
  ASSUME NEW text, IsSequence(text), NEW sep, NEW p \in Nat, p < Len(text)
  PROVE  Put(sep, PrefixCut(text, At(text, sep), p), text[p + 1]) = PrefixCut(text, At(text, sep), p + 1)
<1> DEFINE places == At(text, sep)
           cut == PrefixCut(text, places, p)
           next == PrefixCut(text, places, p + 1)
           symbol == text[p + 1]
<1>1. Len(text) \in Nat /\ DOMAIN text = 1 .. Len(text)
  BY SequenceLength
<1>2. (\A k \in places : k \in Nat \ {0}) /\ (p + 1 \in places <=> symbol = sep)
  BY <1>1 DEF At
<1>3. PICK pieces, last : IsCut(text, places, p, pieces, last)
  <2>1. \A k \in places : k \in Nat
    BY <1>2
  <2> HIDE DEF places
  <2> QED BY <2>1, CutShape
<1> HIDE DEF places
<1>4. /\ IsSequence(pieces) /\ cut = Append(pieces, last)
      /\ p + 1 \in places => next = Append(Append(pieces, last), <<>>)
      /\ p + 1 \notin places => next = Append(pieces, Append(last, symbol))
  <2>1. /\ p + 1 \in places => IsCut(text, places, p + 1, Append(pieces, last), <<>>)
        /\ p + 1 \notin places => IsCut(text, places, p + 1, pieces, Append(last, symbol))
    BY <1>2, <1>3, CutNext
  <2> QED BY <1>3, <2>1 DEF IsCut
<1> HIDE DEF cut, next, symbol
<1>5. Put(sep, cut, symbol) = IF symbol = sep THEN Append(Append(pieces, last), <<>>)
                              ELSE Append(pieces, Append(last, symbol))
  <2>1. Put(sep, Append(pieces, last), symbol) =
          IF symbol = sep THEN Append(Append(pieces, last), <<>>)
          ELSE Append(pieces, Append(last, symbol))
    BY <1>4, PutNext
  <2> QED BY <1>4, <2>1
<1>6. Put(sep, cut, symbol) = next
  BY <1>2, <1>4, <1>5
<1> QED BY <1>6 DEF places, cut, next, symbol

(* split_on_string returns the pieces between the separators. *)
LEMMA SplitIsCut ==
  ASSUME NEW text, IsSequence(text), NEW sep
  PROVE  split_on_string(text, sep) = Cut(text, At(text, sep))
<1> DEFINE h == CHOOSE f : Solves(f, text, sep)
           N == Len(text)
           places == At(text, sep)
           Bad == {p \in 0 .. N : h[1 .. p] # PrefixCut(text, places, p)}
<1>1. Solves(h, text, sep)
  BY SolutionExists
<1>2. N \in Nat /\ DOMAIN text = 1 .. N
  BY SequenceLength
<1> HIDE DEF h
<1>3. h[{}] = <<<<>>>>
  BY <1>1 DEF Solves
<1>4. ASSUME NEW s \in SUBSET DOMAIN text, s # {}
      PROVE  h[s] = Put(sep, h[s \ {Max(s)}], text[Max(s)])
  BY <1>1, <1>4 DEF Solves
<1>5. places \in SUBSET DOMAIN text /\ (\A k \in places : k \in Nat \ {0})
      /\ (\A k \in places : k \in Nat)
      /\ \A k \in DOMAIN text : k \in places <=> text[k] = sep
  BY <1>2 DEF At
<1> HIDE DEF places
<1>6. Bad = {}
  <2> SUFFICES ASSUME Bad # {} PROVE FALSE
    OBVIOUS
  <2>1. PICK p \in Bad : \A k \in Bad : p <= k
    <3>1. \A k \in Bad : k \in Nat
      BY <1>2
    <3> QED BY <3>1, LeastBad
  <2>2. p # 0
    <3>1. 1 .. 0 = {} /\ PrefixCut(text, places, 0) = <<<<>>>>
      BY <1>5, CutStart
    <3> QED BY <1>3, <2>1, <3>1
  <2>3. p \in 1 .. N /\ p \in Nat \ {0} /\ p - 1 \in Nat /\ p - 1 \in 0 .. N /\ (p - 1) + 1 = p
        /\ p - 1 < N
    BY <1>2, <2>1, <2>2
  <2>4. p - 1 \notin Bad
    <3>1. ~(p <= p - 1)
      BY <2>3
    <3> HIDE DEF Bad
    <3> QED BY <2>1, <3>1
  <2>5. h[1 .. p - 1] = PrefixCut(text, places, p - 1)
    BY <2>3, <2>4
  <2>6. h[1 .. p] = Put(sep, h[1 .. p - 1], text[p])
    <3>1. 1 .. p \in SUBSET DOMAIN text /\ 1 .. p # {}
      BY <1>2, <2>3
    <3>2. Max(1 .. p) = p /\ (1 .. p) \ {p} = 1 .. p - 1
      BY <2>3, GreatestOfInterval
    <3> QED BY <1>4, <3>1, <3>2
  <2>7. h[1 .. p] = PrefixCut(text, places, p)
    <3>1. Put(sep, PrefixCut(text, places, p - 1), text[(p - 1) + 1])
            = PrefixCut(text, places, (p - 1) + 1)
      BY <2>3, PutIsCut DEF places
    <3> QED BY <2>3, <2>5, <2>6, <3>1
  <2> QED BY <2>1, <2>7
<1>7. h[1 .. N] = PrefixCut(text, places, N)
  BY <1>2, <1>6
<1>8. PrefixCut(text, places, N) = Cut(text, places)
  BY <1>5, CutEnd
<1> QED BY <1>2, <1>7, <1>8, SplitIsSolution DEF h, places

(* n places make n + 1 pieces. *)
LEMMA CutLength ==
  ASSUME NEW text, IsSequence(text), NEW places \in SUBSET DOMAIN text
  PROVE  /\ IsSequence(Cut(text, places)) /\ Len(Cut(text, places)) = Cardinality(places) + 1
         /\ Cardinality(places) \in Nat /\ IsFiniteSet(places)
<1> DEFINE N == Len(text)
<1>1. N \in Nat /\ DOMAIN text = 1 .. N
  BY SequenceLength
<1>2. \A k \in places : k \in Nat /\ k # 0 /\ k <= N
  BY <1>1
<1>3. /\ IsSequence(PrefixCut(text, places, N))
      /\ Len(PrefixCut(text, places, N)) = Cardinality(Bounds(places, N))
  BY <1>1, <1>2, PieceOf
<1>4. Bounds(places, N) = places \union {0} /\ 0 \notin places
  BY <1>2 DEF Bounds
<1>5. IsFiniteSet(places)
  <2>1. IsFiniteSet(DOMAIN text)
    BY <1>1, FS_Interval
  <2> QED BY <2>1, FS_Subset
<1>6. Cardinality(places \union {0}) = Cardinality(places) + 1 /\ Cardinality(places) \in Nat
  BY <1>4, <1>5, FS_AddElement, FS_CardinalityType
<1>7. PrefixCut(text, places, N) = Cut(text, places)
  BY CutEnd
<1> QED BY <1>3, <1>4, <1>5, <1>6, <1>7

LEMMA UncutText ==
  ASSUME NEW text, IsSequence(text)
  PROVE  Cut(text, {})[1] = text
<1> DEFINE N == Len(text)
           B == Bounds({}, N)
<1>1. N \in Nat
  BY SequenceLength
<1>2. B = {0} /\ IsFiniteSet({0}) /\ Cardinality({0}) = 1 /\ 1 \in 1 .. 1
  BY FS_Singleton DEF Bounds
<1>3. BoundedBy(B, N)
  BY <1>1, BoundsFacts
<1>4. Nth({0}, 1) = 0
  <2>1. \A s \in {0} : s \in Int
    OBVIOUS
  <2>2. 1 \in 1 .. Cardinality({0})
    BY <1>2
  <2>3. Nth({0}, 1) \in {0}
    BY <1>2, <2>1, <2>2, NthMember
  <2> QED BY <2>3
<1>5. PrefixCut(text, {}, N)[1] = Piece(text, B, N, 1)
  <2>1. \A k \in {} : k \in Nat
    OBVIOUS
  <2>2. Cardinality(B) = 1
    BY <1>2
  <2>3. 1 \in 1 .. Cardinality(B)
    BY <1>2, <2>2
  <2> HIDE DEF B, N
  <2> QED BY <1>1, <2>1, <2>3, PieceOf DEF B
<1>6. Piece(text, B, N, 1) = SubSeq(text, 0 + 1, N)
  BY <1>2, <1>4 DEF Piece
<1>7. SubSeq(text, 1, N) = text
  BY DEF IsSequence
<1>8. PrefixCut(text, {}, N) = Cut(text, {})
  BY CutEnd
<1> QED BY <1>5, <1>6, <1>7, <1>8

(* The name and the header of a token are those that the string asks for. *)
Asked(token) == [name |-> AskedName(token), header |-> AskedHeader(token)]

LEMMA NamedEventAsked ==
  ASSUME NEW token, IsSequence(token), ~WrongLooking(token)
  PROVE  NamedEvent(token) = Asked(token)
<1> DEFINE hashes == At(token, "#")
           components == split_on_string(token, "#")
<1>1. components = Cut(token, hashes)
  BY SplitIsCut
<1>2. /\ Len(components) = Cardinality(hashes) + 1 /\ Cardinality(hashes) \in Nat
      /\ IsFiniteSet(hashes)
  <2>1. hashes \in SUBSET DOMAIN token
    BY DEF At
  <2> HIDE DEF hashes, components
  <2> QED BY <1>1, <2>1, CutLength
<1> HIDE DEF hashes, components
<1>3. CASE Len(components) = 1
  <2>1. hashes = {}
    <3>1. Cardinality(hashes) = 0
      BY <1>2, <1>3
    <3> QED BY <1>2, <3>1, FS_EmptySet
  <2>2. AskedName(token) = token
    BY <2>1, UncutText DEF AskedName, hashes
  <2>3. AskedHeader(token) = make_header(token)
    <3> DEFINE width == IF Len(token) < HeaderWidth THEN Len(token) ELSE HeaderWidth
    <3>1. Len(token) \in Nat /\ width \in 0 .. Len(token)
      BY SequenceLength, PerfAssumption
    <3>2. AskedHeader(token) = [k \in 1 .. width |-> token[k]]
      BY <2>1 DEF AskedHeader, hashes
    <3>3. make_header(token) = SubSeq(token, 1, width)
      BY DEF make_header
    <3> HIDE DEF width
    <3>4. SubSeq(token, 1, width) = [k \in 1 .. width |-> token[k]]
      BY <3>1 DEF IsSequence
    <3> QED BY <3>2, <3>3, <3>4
  <2>4. NamedEvent(token) = [name |-> token, header |-> make_header(token)]
    BY <1>3 DEF NamedEvent, components
  <2> QED BY <2>2, <2>3, <2>4 DEF Asked
<1>4. CASE Len(components) # 1
  <2>1. hashes # {}
    <3>1. Cardinality(hashes) # 0
      BY <1>2, <1>4
    <3> QED BY <1>2, <3>1, FS_EmptySet
  <2>2. AskedName(token) = components[1] /\ AskedHeader(token) = components[2]
    BY <1>1, <2>1 DEF AskedName, AskedHeader, hashes
  <2>3. NamedEvent(token) = [name |-> components[1], header |-> components[2]]
    BY <1>4 DEF NamedEvent, components
  <2> QED BY <2>2, <2>3 DEF Asked
<1> QED BY <1>3, <1>4

(* The slashes before a place, by which a comma there separates or not. *)
Slashes(text, p) == {k \in At(text, "/") : k <= p}

LEMMA SlashesNext ==
  ASSUME NEW text, IsSequence(text), NEW p \in Nat, p < Len(text)
  PROVE  /\ Cardinality(Slashes(text, p)) \in Nat
         /\ Cardinality(Slashes(text, p + 1)) =
              IF text[p + 1] = "/" THEN Cardinality(Slashes(text, p)) + 1
              ELSE Cardinality(Slashes(text, p))
<1> DEFINE S == Slashes(text, p)
<1>1. Len(text) \in Nat /\ DOMAIN text = 1 .. Len(text)
  BY SequenceLength
<1>2. IsFiniteSet(S) /\ p + 1 \notin S
  <2>1. IsFiniteSet(DOMAIN text) /\ S \in SUBSET DOMAIN text
    BY <1>1, FS_Interval DEF Slashes, At
  <2>2. p + 1 \notin S
    BY DEF Slashes
  <2> HIDE DEF S
  <2> QED BY <2>1, <2>2, FS_Subset
<1>3. Slashes(text, p + 1) = IF text[p + 1] = "/" THEN S \union {p + 1} ELSE S
  <2>1. \A k \in 1 .. Len(text) : k <= p + 1 <=> (k <= p \/ k = p + 1)
    OBVIOUS
  <2>2. p + 1 \in DOMAIN text
    BY <1>1
  <2> QED BY <1>1, <2>1, <2>2 DEF Slashes, At
<1> HIDE DEF S
<1>4. Cardinality(S) \in Nat /\ Cardinality(S \union {p + 1}) = Cardinality(S) + 1
  BY <1>2, FS_CardinalityType, FS_AddElement
<1> QED BY <1>3, <1>4 DEF S

LEMMA OutsideMeans ==
  ASSUME NEW text, IsSequence(text), NEW p \in Nat, p < Len(text)
  PROVE  p + 1 \in Outside(text)
           <=> (text[p + 1] = "," /\ Cardinality(Slashes(text, p)) % 2 = 0)
<1>1. Len(text) \in Nat /\ DOMAIN text = 1 .. Len(text) /\ p + 1 \in 1 .. Len(text)
  BY SequenceLength
<1>2. SUFFICES ASSUME text[p + 1] = ","
               PROVE  At(SubSeq(text, 1, p + 1), "/") = Slashes(text, p)
  BY <1>1 DEF Outside, At
<1>3. /\ IsSequence(SubSeq(text, 1, p + 1)) /\ Len(SubSeq(text, 1, p + 1)) = p + 1
      /\ \A k \in 1 .. p + 1 : SubSeq(text, 1, p + 1)[k] = text[k]
  <2>1. p + 1 \in 0 .. Len(text) /\ 1 <= p + 1 + 1 /\ p + 1 - 1 + 1 = p + 1
        /\ \A k \in 1 .. p + 1 : 1 + k - 1 = k
    BY <1>1
  <2>2. /\ IsSequence(SubSeq(text, 1, p + 1)) /\ Len(SubSeq(text, 1, p + 1)) = p + 1 - 1 + 1
        /\ \A k \in 1 .. p + 1 - 1 + 1 : SubSeq(text, 1, p + 1)[k] = text[1 + k - 1]
    BY <2>1, SliceFacts
  <2> QED BY <2>1, <2>2
<1>4. DOMAIN SubSeq(text, 1, p + 1) = 1 .. p + 1
  BY <1>3, SequenceLength
<1>5. \A k \in 1 .. p + 1 : text[k] = "/" => k <= p
  <2>1. "," # "/"
    OBVIOUS
  <2>2. \A k \in 1 .. p + 1 : k # p + 1 => k <= p
    OBVIOUS
  <2> QED BY <1>2, <2>1, <2>2
<1>6. \A k : (k \in 1 .. p + 1 /\ k <= p) <=> (k \in 1 .. Len(text) /\ k <= p)
  BY <1>1
<1> QED BY <1>1, <1>3, <1>4, <1>5, <1>6 DEF At, Slashes

LEMMA OutsidePlaces ==
  ASSUME NEW text, IsSequence(text)
  PROVE  Outside(text) \in SUBSET DOMAIN text /\ \A k \in Outside(text) : k \in Nat \ {0}
<1>1. Outside(text) \in SUBSET DOMAIN text
  BY DEF Outside, At
<1>2. DOMAIN text = 1 .. Len(text) /\ Len(text) \in Nat
  BY SequenceLength
<1> QED BY <1>1, <1>2

LEMMA StringIsSequence == TypeOK => IsSequence(extra_events)
<1> SUFFICES ASSUME TypeOK PROVE IsSequence(extra_events)
  OBVIOUS
<1> DEFINE r == extra_events
           S == {r[k] : k \in 1 .. Len(r)}
<1>1. Len(r) \in Nat /\ r = [k \in 1 .. Len(r) |-> r[k]]
  BY PerfAssumption DEF TypeOK
<1> HIDE DEF r
<1>2. r \in [1 .. Len(r) -> S]
  BY <1>1
<1> HIDE DEF S
<1>3. r \in Seq(S)
  BY <1>1, <1>2
<1> QED BY <1>3 DEF IsSequence, r

(* How parsePerfEvents has read the string up to n, and what init loops    *)
(* over.                                                                   *)
AfterParsing == {"extra", "ready", "begun", "ended"}

InSlash == inslash <=> Cardinality(Slashes(extra_events, n - 1)) % 2 # 0
ReadSoFar ==
  \E pieces : /\ IsCut(extra_events, Outside(extra_events), n - 1, pieces, current_event)
              /\ args = [k \in 1 .. Len(pieces) |-> Asked(pieces[k])]
Parsed ==
  /\ pc = "init" => n = 1 /\ inslash = FALSE /\ current_event = <<>> /\ args = <<>>
  /\ pc = "parse" => InSlash /\ IsSequence(current_event) /\ ReadSoFar
  /\ pc \in AfterParsing => args = [k \in DOMAIN AskedTokens |-> Asked(AskedTokens[k])]

LEMMA ParsedInit == Init => Parsed
BY DEF Init, Parsed, AfterParsing

LEMMA ParsedStart == TypeOK /\ Parsed /\ InitCycles => Parsed'
<1> SUFFICES ASSUME TypeOK, Parsed, InitCycles PROVE Parsed'
  OBVIOUS
<1>1. /\ pc = "init" /\ pc' \in {"parse", "failed"}
      /\ UNCHANGED <<extra_events, inslash, current_event, args, n>>
  BY DEF InitCycles, machine, parser
<1>2. n = 1 /\ inslash = FALSE /\ current_event = <<>> /\ args = <<>>
  BY <1>1 DEF Parsed
<1>3. IsSequence(extra_events) /\ \A k \in Outside(extra_events) : k \in Nat \ {0}
  BY StringIsSequence, OutsidePlaces
<1>4. n' - 1 = 0
  BY <1>1, <1>2
<1>5. InSlash'
  <2>1. Slashes(extra_events, 0) = {}
    <3>1. \A k \in DOMAIN extra_events : ~(k <= 0)
      BY <1>3, SequenceLength
    <3> QED BY <3>1 DEF Slashes, At
  <2>2. Cardinality({}) % 2 = 0
    BY FS_EmptySet
  <2> QED BY <1>1, <1>2, <1>4, <2>1, <2>2 DEF InSlash
<1>6. ReadSoFar'
  <2>1. IsCut(extra_events, Outside(extra_events), 0, <<>>, <<>>)
    <3>1. PrefixCut(extra_events, Outside(extra_events), 0) = <<<<>>>>
      BY <1>3, CutStart
    <3>2. <<<<>>>> = Append(<<>>, <<>>)
      OBVIOUS
    <3> QED BY <3>1, <3>2, Empties DEF IsCut
  <2>2. args = [k \in 1 .. Len(<<>>) |-> Asked(<<>>[k])]
    <3>1. 1 .. Len(<<>>) = {} /\ DOMAIN <<>> = {}
      BY Empties
    <3> QED BY <1>2, <3>1
  <2> QED BY <1>1, <1>2, <1>4, <2>1, <2>2 DEF ReadSoFar
<1> QED BY <1>1, <1>2, <1>5, <1>6, Empties DEF Parsed, AfterParsing
(* The comma at n separates just when the pieces are cut there. *)
LEMMA AtSymbol ==
  ASSUME TypeOK, Parsed, Parsing
  PROVE  /\ n - 1 \in Nat /\ n - 1 < Len(extra_events) /\ (n - 1) + 1 = n /\ (n + 1) - 1 = n
         /\ IsSequence(extra_events) /\ Len(extra_events) \in Nat
         /\ \A k \in Outside(extra_events) : k \in Nat \ {0}
         /\ Separates(extra_events[n]) <=> n \in Outside(extra_events)
         /\ Cardinality(Slashes(extra_events, n - 1)) \in Nat
         /\ Cardinality(Slashes(extra_events, n)) =
              IF extra_events[n] = "/" THEN Cardinality(Slashes(extra_events, n - 1)) + 1
              ELSE Cardinality(Slashes(extra_events, n - 1))
<1> DEFINE p == n - 1
<1>1. /\ IsSequence(extra_events) /\ Len(extra_events) \in Nat
      /\ \A k \in Outside(extra_events) : k \in Nat \ {0}
  BY StringIsSequence, SequenceLength, OutsidePlaces
<1>2. n \in Nat \ {0} /\ n <= Len(extra_events) /\ pc = "parse" /\ inslash \in BOOLEAN
  BY DEF TypeOK, Parsing
<1>3. p \in Nat /\ p < Len(extra_events) /\ p + 1 = n /\ (n + 1) - 1 = n
  BY <1>1, <1>2
<1>4. InSlash
  BY <1>2 DEF Parsed
<1> HIDE DEF p
<1>5. p + 1 \in Outside(extra_events)
        <=> (extra_events[p + 1] = "," /\ Cardinality(Slashes(extra_events, p)) % 2 = 0)
  BY <1>1, <1>3, OutsideMeans
<1>6. /\ Cardinality(Slashes(extra_events, p)) \in Nat
      /\ Cardinality(Slashes(extra_events, p + 1)) =
           IF extra_events[p + 1] = "/" THEN Cardinality(Slashes(extra_events, p)) + 1
           ELSE Cardinality(Slashes(extra_events, p))
  BY <1>1, <1>3, SlashesNext
<1>7. Separates(extra_events[n]) <=> n \in Outside(extra_events)
  BY <1>3, <1>4, <1>5 DEF Separates, InSlash, p
<1> QED BY <1>1, <1>3, <1>6, <1>7 DEF p

LEMMA ParsedSymbol == TypeOK /\ Parsed /\ ReadSymbol => Parsed'
<1> SUFFICES ASSUME TypeOK, Parsed, ReadSymbol PROVE Parsed'
  OBVIOUS
<1> DEFINE c == extra_events[n]
           p == n - 1
           slashes == Cardinality(Slashes(extra_events, p))
<1>1. /\ pc = "parse" /\ Parsing /\ n' = n + 1 /\ ~Separates(c)
      /\ inslash' = (IF c = "/" THEN ~inslash ELSE inslash)
      /\ current_event' = Append(current_event, c)
      /\ UNCHANGED <<extra_events, args, pc>>
  BY DEF ReadSymbol, Parsing, ParseOnly, machine
<1>2. /\ p \in Nat /\ p < Len(extra_events) /\ p + 1 = n /\ n' - 1 = n
      /\ IsSequence(extra_events)
      /\ \A k \in Outside(extra_events) : k \in Nat \ {0}
      /\ n \notin Outside(extra_events)
      /\ slashes \in Nat
      /\ Cardinality(Slashes(extra_events, n)) = IF c = "/" THEN slashes + 1 ELSE slashes
  BY <1>1, AtSymbol
<1>3. InSlash /\ IsSequence(current_event) /\ inslash \in BOOLEAN
  BY <1>1 DEF Parsed, TypeOK
<1>4. PICK pieces : /\ IsCut(extra_events, Outside(extra_events), p, pieces, current_event)
                    /\ args = [k \in 1 .. Len(pieces) |-> Asked(pieces[k])]
  BY <1>1 DEF Parsed, ReadSoFar
<1>5. InSlash'
  <2>1. inslash <=> slashes % 2 # 0
    BY <1>3 DEF InSlash
  <2> HIDE DEF slashes
  <2>3. (slashes + 1) % 2 # 0 <=> ~(slashes % 2 # 0)
    BY <1>2
  <2>4. CASE c = "/"
    <3>1. inslash' = ~inslash /\ Cardinality(Slashes(extra_events, n)) = slashes + 1
      BY <1>1, <1>2, <2>4
    <3>2. inslash' <=> (slashes + 1) % 2 # 0
      BY <1>3, <2>1, <2>3, <3>1
    <3> QED BY <1>1, <1>2, <3>1, <3>2 DEF InSlash
  <2>5. CASE c # "/"
    <3>1. inslash' = inslash /\ Cardinality(Slashes(extra_events, n)) = slashes
      BY <1>1, <1>2, <2>5
    <3> QED BY <1>1, <1>2, <2>1, <3>1 DEF InSlash
  <2> QED BY <2>4, <2>5
<1>6. ReadSoFar'
  <2>1. IsCut(extra_events, Outside(extra_events), p + 1, pieces, Append(current_event, extra_events[p + 1]))
    <3> HIDE DEF p
    <3> QED BY <1>2, <1>4, CutNext
  <2>2. IsCut(extra_events, Outside(extra_events), n, pieces, current_event')
    BY <1>1, <1>2, <2>1
  <2> QED BY <1>1, <1>2, <1>4, <2>2 DEF ReadSoFar
<1>7. IsSequence(current_event')
  BY <1>1, <1>3, OneMore
<1> QED BY <1>1, <1>5, <1>6, <1>7 DEF Parsed, AfterParsing

LEMMA AskedNext ==
  ASSUME NEW pieces, IsSequence(pieces), NEW last, NEW list,
         list = [k \in 1 .. Len(pieces) |-> Asked(pieces[k])]
  PROVE  Append(list, Asked(last)) =
           [k \in 1 .. Len(Append(pieces, last)) |-> Asked(Append(pieces, last)[k])]
<1> DEFINE S == {Asked(pieces[k]) : k \in 1 .. Len(pieces)}
           l == Len(pieces)
<1>1. l \in Nat
  BY SequenceLength
<1>2. /\ IsSequence(Append(pieces, last)) /\ Len(Append(pieces, last)) = l + 1
      /\ \A k \in 1 .. l : Append(pieces, last)[k] = pieces[k]
      /\ Append(pieces, last)[l + 1] = last
  BY OneMore
<1>3. list \in Seq(S) /\ Len(list) = l
  <2>1. list \in [1 .. l -> S]
    OBVIOUS
  <2> HIDE DEF S, l
  <2> QED BY <1>1, <2>1
<1>4. IsSequence(list)
  BY <1>3 DEF IsSequence
<1>5. /\ DOMAIN Append(list, Asked(last)) = 1 .. l + 1 /\ IsSequence(Append(list, Asked(last)))
      /\ Len(Append(list, Asked(last))) = l + 1
      /\ \A k \in 1 .. l : Append(list, Asked(last))[k] = list[k]
      /\ Append(list, Asked(last))[l + 1] = Asked(last)
  BY <1>3, <1>4, OneMore
<1> DEFINE longer == [k \in 1 .. l + 1 |-> Asked(Append(pieces, last)[k])]
           T == {Asked(Append(pieces, last)[k]) : k \in 1 .. l + 1}
<1> HIDE DEF l, S
<1>6. IsSequence(longer) /\ Len(longer) = l + 1
      /\ \A k \in 1 .. l + 1 : longer[k] = Asked(Append(pieces, last)[k])
  <2>1. longer \in [1 .. l + 1 -> T]
    OBVIOUS
  <2>2. l + 1 \in Nat
    BY <1>1
  <2>3. \A k \in 1 .. l + 1 : longer[k] = Asked(Append(pieces, last)[k])
    OBVIOUS
  <2> HIDE DEF T, longer
  <2>4. longer \in Seq(T) /\ Len(longer) = l + 1
    BY <2>1, <2>2
  <2> QED BY <2>3, <2>4 DEF IsSequence
<1> HIDE DEF longer, T
<1>7. ASSUME NEW k \in 1 .. l + 1
      PROVE  Append(list, Asked(last))[k] = longer[k]
  <2>1. CASE k = l + 1
    BY <1>2, <1>5, <1>6, <2>1
  <2>2. CASE k # l + 1
    <3>1. k \in 1 .. l
      BY <1>1, <2>2
    <3>2. list[k] = Asked(pieces[k])
      BY <3>1 DEF l
    <3> QED BY <1>2, <1>5, <1>6, <3>1, <3>2
  <2> QED BY <2>1, <2>2
<1>8. Append(list, Asked(last)) = longer
  BY <1>5, <1>6, <1>7, SameSequence
<1> QED BY <1>2, <1>8 DEF longer, l

LEMMA ParsedToken == TypeOK /\ Parsed /\ EndToken => Parsed'
<1> SUFFICES ASSUME TypeOK, Parsed, EndToken PROVE Parsed'
  OBVIOUS
<1> DEFINE c == extra_events[n]
           p == n - 1
<1>1. /\ pc = "parse" /\ Parsing /\ n' = n + 1 /\ Separates(c) /\ add_event("parse")
      /\ UNCHANGED <<extra_events, inslash>>
  BY DEF EndToken, Parsing, ParseOnly, machine
<1>2. CASE WrongLooking(current_event)
  <2>1. pc' = "failed"
    BY <1>1, <1>2 DEF add_event
  <2> QED BY <2>1 DEF Parsed, AfterParsing
<1>3. CASE ~WrongLooking(current_event)
  <2>1. /\ pc' = "parse" /\ args' = Append(args, NamedEvent(current_event))
        /\ current_event' = <<>>
    BY <1>1, <1>3 DEF add_event
  <2>2. /\ p \in Nat /\ p < Len(extra_events) /\ p + 1 = n /\ n' - 1 = n
        /\ IsSequence(extra_events)
        /\ \A k \in Outside(extra_events) : k \in Nat \ {0}
        /\ n \in Outside(extra_events)
        /\ Cardinality(Slashes(extra_events, n)) =
             IF c = "/" THEN Cardinality(Slashes(extra_events, p)) + 1
             ELSE Cardinality(Slashes(extra_events, p))
    BY <1>1, AtSymbol
  <2>3. InSlash /\ IsSequence(current_event)
    BY <1>1 DEF Parsed
  <2>4. PICK pieces : /\ IsCut(extra_events, Outside(extra_events), p, pieces, current_event)
                      /\ args = [k \in 1 .. Len(pieces) |-> Asked(pieces[k])]
    BY <1>1 DEF Parsed, ReadSoFar
  <2>5. InSlash'
    <3>1. c = ","
      BY <1>1 DEF Separates
    <3>2. Cardinality(Slashes(extra_events, n)) = Cardinality(Slashes(extra_events, p))
      BY <2>2, <3>1
    <3> QED BY <1>1, <2>2, <2>3, <3>2 DEF InSlash
  <2>6. ReadSoFar'
    <3> DEFINE more == Append(pieces, current_event)
    <3>1. IsCut(extra_events, Outside(extra_events), p + 1, more, <<>>)
      <4> HIDE DEF p
      <4>1. p + 1 \in Outside(extra_events)
        BY <2>2
      <4> QED BY <2>2, <2>4, <4>1, CutNext
    <3>2. args' = [k \in 1 .. Len(more) |-> Asked(more[k])]
      <4>1. NamedEvent(current_event) = Asked(current_event)
        BY <1>3, <2>3, NamedEventAsked
      <4>2. IsSequence(pieces)
        BY <2>4 DEF IsCut
      <4> QED BY <2>1, <2>4, <4>1, <4>2, AskedNext
    <3> HIDE DEF more
    <3> QED BY <1>1, <2>1, <2>2, <3>1, <3>2 DEF ReadSoFar
  <2> QED BY <2>1, <2>5, <2>6, Empties DEF Parsed, AfterParsing
<1> QED BY <1>2, <1>3

LEMMA ParsedString == TypeOK /\ Parsed /\ EndString => Parsed'
<1> SUFFICES ASSUME TypeOK, Parsed, EndString PROVE Parsed'
  OBVIOUS
<1>1. /\ pc = "parse" /\ n > Len(extra_events) /\ add_event("extra")
      /\ UNCHANGED extra_events
  BY DEF EndString, ParseOnly, machine
<1>2. CASE WrongLooking(current_event)
  <2>1. pc' = "failed"
    BY <1>1, <1>2 DEF add_event
  <2> QED BY <2>1 DEF Parsed, AfterParsing
<1>3. CASE ~WrongLooking(current_event)
  <2>1. /\ pc' = "extra" /\ args' = Append(args, NamedEvent(current_event))
    BY <1>1, <1>3 DEF add_event
  <2>2. n - 1 = Len(extra_events) /\ IsSequence(extra_events)
    <3>1. n \in Nat /\ n <= Len(extra_events) + 1 /\ IsSequence(extra_events)
      BY <1>1, StringIsSequence DEF TypeOK
    <3>2. Len(extra_events) \in Nat
      BY <3>1, SequenceLength
    <3> QED BY <1>1, <3>1, <3>2
  <2>3. IsSequence(current_event)
    BY <1>1 DEF Parsed
  <2>4. PICK pieces : /\ IsCut(extra_events, Outside(extra_events), n - 1, pieces, current_event)
                      /\ args = [k \in 1 .. Len(pieces) |-> Asked(pieces[k])]
    BY <1>1 DEF Parsed, ReadSoFar
  <2> DEFINE more == Append(pieces, current_event)
  <2>5. IsSequence(pieces) /\ AskedTokens = more
    <3>1. PrefixCut(extra_events, Outside(extra_events), Len(extra_events)) = more
      BY <2>2, <2>4 DEF IsCut
    <3>2. PrefixCut(extra_events, Outside(extra_events), Len(extra_events)) = AskedTokens
      BY <2>2, CutEnd, OutsidePlaces DEF AskedTokens
    <3> QED BY <2>4, <3>1, <3>2 DEF IsCut
  <2>6. args' = [k \in 1 .. Len(more) |-> Asked(more[k])]
    <3>1. NamedEvent(current_event) = Asked(current_event)
      BY <1>3, <2>3, NamedEventAsked
    <3> QED BY <2>1, <2>4, <2>5, <3>1, AskedNext
  <2>7. DOMAIN more = 1 .. Len(more)
    BY <2>5, OneMore, SequenceLength
  <2> HIDE DEF more
  <2>8. AskedTokens' = AskedTokens
    BY <1>1 DEF AskedTokens
  <2> QED BY <2>1, <2>5, <2>6, <2>7, <2>8 DEF Parsed, AfterParsing
<1> QED BY <1>2, <1>3

(* What is parsed does not change any more. *)
LEMMA ParsedKept ==
  ASSUME Parsed, pc \in AfterParsing, pc' \in AfterParsing, UNCHANGED <<extra_events, args>>
  PROVE  Parsed'
<1>1. AskedTokens' = AskedTokens
  BY DEF AskedTokens
<1> QED BY <1>1 DEF Parsed, AfterParsing

LEMMA ParsedSame ==
  ASSUME Parsed, UNCHANGED <<extra_events, inslash, current_event, args, pc, n>>
  PROVE  Parsed'
<1>1. AskedTokens' = AskedTokens /\ Outside(extra_events)' = Outside(extra_events)
  BY DEF AskedTokens
<1>2. InSlash' <=> InSlash
  BY DEF InSlash
<1>3. ReadSoFar' <=> ReadSoFar
  BY <1>1 DEF ReadSoFar
<1> QED BY <1>1, <1>2, <1>3 DEF Parsed, AfterParsing

LEMMA ParsedStep == TypeOK /\ Parsed /\ (Next \/ UNCHANGED perf_vars) => Parsed'
<1> SUFFICES ASSUME TypeOK, Parsed, Next \/ UNCHANGED perf_vars PROVE Parsed'
  OBVIOUS
<1>1. CASE UNCHANGED perf_vars
  <2>1. UNCHANGED <<extra_events, inslash, current_event, args, pc, n>>
    BY <1>1 DEF perf_vars, vars, machine, parser
  <2> QED BY <2>1, ParsedSame
<1>2. CASE SkipEmpty \/ RejectEvent \/ CloseEvent \/ AddEvent
  <2>1. pc = "extra" /\ UNCHANGED <<extra_events, args, pc>>
    BY <1>2 DEF SkipEmpty, RejectEvent, CloseEvent, AddEvent, Programming, Pass, machine
  <2> QED BY <2>1, ParsedKept DEF AfterParsing
<1>3. CASE NameMetrics \/ Begin \/ End \/ Happen
  <2>1. pc \in AfterParsing /\ pc' \in AfterParsing /\ UNCHANGED <<extra_events, args>>
    BY <1>3 DEF NameMetrics, Begin, End, Happen, AfterParsing, machine
  <2> QED BY <2>1, ParsedKept
<1> QED BY <1>1, <1>2, <1>3, ParsedStart, ParsedSymbol, ParsedToken, ParsedString DEF Next

(* The places before p. *)
Before(places, p) == {k \in places : k < p}

LEMMA BeforeNext ==
  ASSUME NEW places, \A k \in places : k \in Nat \ {0}, NEW p \in Nat
  PROVE  /\ IsFiniteSet(Before(places, p)) /\ Cardinality(Before(places, p)) \in Nat
         /\ p \notin places => Before(places, p + 1) = Before(places, p)
         /\ p \in places =>
              /\ Cardinality(Before(places, p + 1)) = Cardinality(Before(places, p)) + 1
              /\ \A k \in 1 .. Cardinality(Before(places, p)) :
                   Nth(Before(places, p + 1), k) = Nth(Before(places, p), k)
              /\ Nth(Before(places, p + 1), Cardinality(Before(places, p)) + 1) = p
<1> DEFINE S == Before(places, p)
<1>1. S \in SUBSET (1 .. p) /\ (\A s \in S : s \in Int) /\ (\A s \in S : s < p)
  BY DEF Before
<1>2. IsFiniteSet(S)
  <2>1. IsFiniteSet(1 .. p)
    BY FS_Interval
  <2> HIDE DEF S
  <2> QED BY <1>1, <2>1, FS_Subset
<1>3. Before(places, p + 1) = IF p \in places THEN S \union {p} ELSE S
  <2>1. \A k \in places : k < p + 1 <=> (k < p \/ k = p)
    OBVIOUS
  <2> QED BY <2>1 DEF Before
<1> HIDE DEF S
<1>4. /\ Cardinality(S \union {p}) = Cardinality(S) + 1 /\ Cardinality(S) \in Nat
      /\ \A k \in 1 .. Cardinality(S) : Nth(S \union {p}, k) = Nth(S, k)
      /\ Nth(S \union {p}, Cardinality(S) + 1) = p
  <2>1. p \in Int
    OBVIOUS
  <2> QED BY <1>1, <1>2, <2>1, NthAdd
<1> QED BY <1>2, <1>3, <1>4 DEF S

(* The loop of init: of the names up to n, the first that can be           *)
(* programmed run, as many as there is room for, and a message is printed  *)
(* about every other one.                                                  *)
Room(number) == IF number < MAX_EXTRA_EVENTS THEN number ELSE MAX_EXTRA_EVENTS
EventsUpTo(p) ==
  /\ Len(running_events) = 1 + Room(Cardinality(Before(UsableAt, p)))
  /\ \A k \in 1 .. Len(running_events) - 1 :
       running_events[k + 1] = Running(args[Nth(Before(UsableAt, p), k)], user_only)
  /\ Len(errors) + Len(running_events) = Cardinality(Before(AskedAt, p)) + 1

Counted ==
  /\ pc \notin {"init", "failed"} => running_events[1].exclude_kernel = user_only
  /\ pc = "parse" => Len(running_events) = 1
  /\ pc \in AfterParsing => EventsUpTo(n)
  /\ pc \in AfterParsing \ {"extra"} => n = Len(args) + 1

LEMMA CountedInit == Init => Counted
BY DEF Init, Counted, AfterParsing

LEMMA AskedFacts ==
  ASSUME Parsed, pc \in AfterParsing, IsSequence(args)
  PROVE  /\ DOMAIN args = DOMAIN AskedTokens /\ DOMAIN args = 1 .. Len(args) /\ Len(args) \in Nat
         /\ \A k \in DOMAIN args : args[k] = Asked(AskedTokens[k])
         /\ AskedAt = {k \in DOMAIN args : args[k].name # <<>>}
         /\ UsableAt = {k \in AskedAt : fate(args[k].name) = "programmed"}
         /\ \A k \in AskedAt : k \in Nat \ {0}
         /\ \A k \in UsableAt : k \in Nat \ {0}
<1>1. args = [k \in DOMAIN AskedTokens |-> Asked(AskedTokens[k])]
  BY DEF Parsed
<1>2. /\ DOMAIN args = DOMAIN AskedTokens /\ DOMAIN args = 1 .. Len(args) /\ Len(args) \in Nat
      /\ \A k \in DOMAIN args : args[k] = Asked(AskedTokens[k])
  BY <1>1, SequenceLength
<1>3. \A k \in DOMAIN args : args[k].name = AskedName(AskedTokens[k])
  BY <1>2 DEF Asked
<1>4. AskedAt = {k \in DOMAIN args : args[k].name # <<>>}
  BY <1>2, <1>3 DEF AskedAt
<1>5. UsableAt = {k \in AskedAt : fate(args[k].name) = "programmed"}
  <2>1. ASSUME NEW k \in AskedAt
        PROVE  AskedName(AskedTokens[k]) \in {name \in DOMAIN pmu : pmu[name] = "programmed"}
                 <=> fate(args[k].name) = "programmed"
    <3>1. args[k].name = AskedName(AskedTokens[k])
      BY <1>3, <1>4
    <3>2. "unresolved" # "programmed"
      OBVIOUS
    <3> QED BY <3>1, <3>2 DEF fate
  <2> QED BY <2>1 DEF UsableAt
<1> QED BY <1>2, <1>4, <1>5

LEMMA SameAsked ==
  ASSUME UNCHANGED <<extra_events, pmu>>
  PROVE  AskedTokens' = AskedTokens /\ AskedAt' = AskedAt /\ UsableAt' = UsableAt
<1>1. AskedTokens' = AskedTokens
  BY DEF AskedTokens
<1>2. AskedAt' = AskedAt
  BY <1>1 DEF AskedAt
<1> QED BY <1>1, <1>2 DEF UsableAt

LEMMA AskedPlaces ==
  TypeOK => /\ \A k \in AskedAt : k \in Nat \ {0}
            /\ \A k \in UsableAt : k \in Nat \ {0}
<1> SUFFICES ASSUME TypeOK
             PROVE  AskedAt \subseteq Nat \ {0} /\ UsableAt \subseteq AskedAt
  OBVIOUS
<1>1. IsSequence(AskedTokens)
  BY StringIsSequence, OutsidePlaces, CutLength DEF AskedTokens
<1>2. DOMAIN AskedTokens \subseteq Nat \ {0}
  BY <1>1, SequenceLength
<1> QED BY <1>2 DEF AskedAt, UsableAt

LEMMA CountedStart == Counted /\ InitCycles => Counted'
<1> SUFFICES ASSUME Counted, InitCycles PROVE Counted'
  OBVIOUS
<1>1. CASE pc' = "failed"
  BY <1>1 DEF Counted, AfterParsing
<1>2. CASE pc' # "failed"
  <2>1. /\ pc' = "parse" /\ user_only' = (paranoid = "user")
        /\ running_events' = <<[name |-> Cycles, header |-> make_header(Cycles),
                                exclude_kernel |-> paranoid = "user"]>>
    BY <1>2 DEF InitCycles
  <2>2. running_events'[1].exclude_kernel = (paranoid = "user") /\ Len(running_events') = 1
    BY <2>1
  <2> QED BY <2>1, <2>2 DEF Counted, AfterParsing
<1> QED BY <1>1, <1>2

LEMMA CountedToken ==
  ASSUME TypeOK, Counted, PParsed,
         ReadSymbol \/ EndToken \/ EndString
  PROVE  Counted'
<1>1. /\ pc = "parse" /\ pc' \in {"parse", "failed", "extra"}
      /\ pc' = "extra" => EndString
      /\ UNCHANGED <<extra_events, pmu, running_events, user_only, errors>>
  BY DEF ReadSymbol, EndToken, EndString, add_event, Parsing, ParseOnly, machine
<1>2. running_events[1].exclude_kernel = user_only /\ Len(running_events) = 1 /\ errors = <<>>
  BY <1>1 DEF Counted, PParsed
<1>3. CASE pc' = "extra"
  <2>1. n' = 1
    BY <1>1, <1>3 DEF EndString
  <2>2. /\ \A k \in AskedAt' : k \in Nat \ {0}
        /\ \A k \in UsableAt' : k \in Nat \ {0}
    BY <1>1, AskedPlaces, SameAsked
  <2>3. Before(UsableAt', 1) = {} /\ Before(AskedAt', 1) = {}
    <3>1. \A k \in Nat \ {0} : ~(k < 1)
      OBVIOUS
    <3> QED BY <2>2, <3>1 DEF Before
  <2>4. Room(0) = 0
    BY PerfAssumption DEF Room
  <2>5. EventsUpTo(n)'
    <3>1. Cardinality(Before(UsableAt', n')) = 0 /\ Cardinality(Before(AskedAt', n')) = 0
      BY <2>1, <2>3, FS_EmptySet
    <3>2. Len(running_events') = 1 /\ Len(errors') = 0
      BY <1>1, <1>2, Empties
    <3> QED BY <2>4, <3>1, <3>2 DEF EventsUpTo
  <2> QED BY <1>1, <1>2, <1>3, <2>5 DEF Counted
<1>4. CASE pc' # "extra"
  BY <1>1, <1>2, <1>4 DEF Counted, AfterParsing
<1> QED BY <1>3, <1>4

(* What a position of the loop does to the events and the messages. *)
LEMMA CountedPass ==
  ASSUME TypeOK, Parsed, Counted, PParsed, PEvents, Programming, Pass,
         \/ /\ n \notin AskedAt /\ UNCHANGED <<running_events, errors>>
         \/ /\ n \in AskedAt /\ (n \notin UsableAt \/ Full)
            /\ \E e : errors' = Append(errors, e)
            /\ UNCHANGED running_events
         \/ /\ n \in UsableAt /\ n \in AskedAt /\ ~Full
            /\ running_events' = Append(running_events, Running(args[n], user_only))
            /\ UNCHANGED errors
  PROVE  Counted'
<1> DEFINE usable == Before(UsableAt, n)
           asked == Before(AskedAt, n)
<1>1. /\ pc = "extra" /\ n' = n + 1 /\ UNCHANGED <<extra_events, pmu, args, pc, user_only>>
  BY DEF Programming, Pass, machine
<1>2. AskedAt' = AskedAt /\ UsableAt' = UsableAt
  BY <1>1, SameAsked
<1>3. /\ \A k \in AskedAt : k \in Nat \ {0}
      /\ \A k \in UsableAt : k \in Nat \ {0}
      /\ UsableAt \subseteq AskedAt
      /\ IsSequence(args) /\ DOMAIN args = 1 .. Len(args) /\ Len(args) \in Nat
  BY <1>1, AskedFacts DEF AfterParsing, PParsed
<1>4. EventsUpTo(n) /\ n \in Nat \ {0} /\ n <= Len(args) /\ n \in DOMAIN args
  <2>1. EventsUpTo(n) /\ n \in Nat \ {0} /\ n <= Len(args)
    BY <1>1 DEF Counted, AfterParsing, Programming, TypeOK
  <2> QED BY <1>3, <2>1
<1> DEFINE u == Cardinality(usable)
           a == Cardinality(asked)
           l == Len(running_events)
<1>5. /\ u \in Nat
      /\ n \notin UsableAt => Before(UsableAt, n + 1) = usable
      /\ n \in UsableAt => /\ Cardinality(Before(UsableAt, n + 1)) = u + 1
                           /\ \A k \in 1 .. u : Nth(Before(UsableAt, n + 1), k) = Nth(usable, k)
                           /\ Nth(Before(UsableAt, n + 1), u + 1) = n
  BY <1>3, <1>4, BeforeNext
<1>6. /\ a \in Nat
      /\ n \notin AskedAt => Before(AskedAt, n + 1) = asked
      /\ n \in AskedAt => Cardinality(Before(AskedAt, n + 1)) = a + 1
  BY <1>3, <1>4, BeforeNext
<1>7. /\ l = 1 + Room(u) /\ Len(errors) + l = a + 1
      /\ \A k \in 1 .. l - 1 : running_events[k + 1] = Running(args[Nth(usable, k)], user_only)
      /\ IsSequence(running_events) /\ IsSequence(errors) /\ Len(errors) \in Nat /\ l \in Nat
      /\ l >= 1 /\ running_events[1].exclude_kernel = user_only
  <2>1. IsSequence(running_events) /\ IsSequence(errors)
    BY DEF PEvents, PParsed
  <2>2. Len(errors) \in Nat /\ l \in Nat
    BY <2>1, SequenceLength
  <2>3. Room(u) \in Nat
    BY <1>5, PerfAssumption DEF Room
  <2> QED BY <1>1, <1>4, <2>1, <2>2, <2>3 DEF EventsUpTo, Counted
<1>8. Full <=> u >= MAX_EXTRA_EVENTS
  BY <1>5, <1>7, PerfAssumption DEF Full, READING_COUNT, Room
<1> HIDE DEF usable, asked, u, a, l
<1>9. SUFFICES /\ running_events'[1].exclude_kernel = user_only
               /\ Len(running_events') = 1 + Room(Cardinality(Before(UsableAt, n + 1)))
               /\ \A k \in 1 .. Len(running_events') - 1 :
                    running_events'[k + 1] = Running(args[Nth(Before(UsableAt, n + 1), k)], user_only)
               /\ Len(errors') + Len(running_events') = Cardinality(Before(AskedAt, n + 1)) + 1
  BY <1>1, <1>2 DEF Counted, EventsUpTo, AfterParsing
<1>10. CASE n \notin AskedAt /\ UNCHANGED <<running_events, errors>>
  <2>1. Before(UsableAt, n + 1) = usable /\ Before(AskedAt, n + 1) = asked
    BY <1>3, <1>5, <1>6, <1>10
  <2> QED BY <1>7, <1>10, <2>1 DEF u, a, l
<1>11. CASE /\ n \in AskedAt /\ (n \notin UsableAt \/ Full)
            /\ \E e : errors' = Append(errors, e)
            /\ UNCHANGED running_events
  <2>1. Len(errors') = Len(errors) + 1
    BY <1>7, <1>11, OneMore
  <2>2. Len(errors') + l = (a + 1) + 1
    <3>1. Len(errors) \in Nat /\ l \in Nat /\ Len(errors) + l = a + 1 /\ a \in Nat
      BY <1>6, <1>7
    <3> QED BY <2>1, <3>1
  <2>3. /\ Room(Cardinality(Before(UsableAt, n + 1))) = Room(u)
        /\ \A k \in 1 .. l - 1 : Nth(Before(UsableAt, n + 1), k) = Nth(usable, k)
    <3>1. CASE n \notin UsableAt
      BY <1>5, <3>1 DEF u
    <3>2. CASE n \in UsableAt
      <4>1. u >= MAX_EXTRA_EVENTS
        BY <1>8, <1>11, <3>2
      <4>2. Room(u) = MAX_EXTRA_EVENTS /\ Room(u + 1) = MAX_EXTRA_EVENTS
        BY <1>5, <4>1, PerfAssumption DEF Room
      <4>3. l - 1 <= u
        BY <1>5, <1>7, <4>1, <4>2, PerfAssumption
      <4>4. \A k \in 1 .. l - 1 : k \in 1 .. u
        BY <1>5, <1>7, <4>3
      <4> QED BY <1>5, <3>2, <4>2, <4>4
    <3> QED BY <3>1, <3>2
  <2> QED BY <1>6, <1>7, <1>11, <2>2, <2>3 DEF l
<1>12. CASE /\ n \in UsableAt /\ n \in AskedAt /\ ~Full
            /\ running_events' = Append(running_events, Running(args[n], user_only))
            /\ UNCHANGED errors
  <2> DEFINE event == Running(args[n], user_only)
  <2>1. /\ Len(running_events') = l + 1
        /\ \A k \in 1 .. l : running_events'[k] = running_events[k]
        /\ running_events'[l + 1] = event
    <3> HIDE DEF event
    <3> QED BY <1>7, <1>12, OneMore DEF l, event
  <2>2. Room(u) = u /\ Room(u + 1) = u + 1 /\ l = u + 1
    <3>1. ~(u >= MAX_EXTRA_EVENTS)
      BY <1>8, <1>12
    <3>2. Room(u) = u /\ Room(u + 1) = u + 1
      BY <1>5, <3>1, PerfAssumption DEF Room
    <3> QED BY <1>5, <1>7, <3>2
  <2>3. Len(running_events') = 1 + Room(Cardinality(Before(UsableAt, n + 1)))
    BY <1>5, <1>12, <2>1, <2>2
  <2>4. Len(errors') + Len(running_events') = Cardinality(Before(AskedAt, n + 1)) + 1
    BY <1>6, <1>7, <1>12, <2>1
  <2>5. ASSUME NEW k \in 1 .. Len(running_events') - 1
        PROVE  running_events'[k + 1] = Running(args[Nth(Before(UsableAt, n + 1), k)], user_only)
    <3>1. k \in 1 .. u + 1
      BY <1>5, <2>1, <2>2
    <3>2. CASE k = u + 1
      <4>1. Nth(Before(UsableAt, n + 1), k) = n
        BY <1>5, <1>12, <3>2
      <4>2. k + 1 = l + 1
        BY <2>2, <3>2
      <4> QED BY <2>1, <4>1, <4>2
    <3>3. CASE k # u + 1
      <4>1. k \in 1 .. u /\ k \in 1 .. l - 1 /\ k + 1 \in 1 .. l
        BY <1>5, <2>2, <3>1, <3>3
      <4>2. Nth(Before(UsableAt, n + 1), k) = Nth(usable, k)
        BY <1>5, <1>12, <4>1
      <4>3. running_events'[k + 1] = running_events[k + 1]
        BY <2>1, <4>1
      <4> HIDE DEF event
      <4> QED BY <1>7, <4>1, <4>2, <4>3
    <3> QED BY <3>2, <3>3
  <2>6. running_events'[1].exclude_kernel = user_only
    <3>1. 1 \in 1 .. l
      BY <1>7
    <3> QED BY <1>7, <2>1, <3>1
  <2> QED BY <2>3, <2>4, <2>5, <2>6
<1> QED BY <1>10, <1>11, <1>12

LEMMA CountedLoop ==
  TypeOK /\ PParsed /\ PEvents /\ Parsed /\ Counted
    /\ (SkipEmpty \/ RejectEvent \/ CloseEvent \/ AddEvent) => Counted'
<1> SUFFICES ASSUME TypeOK, PParsed, PEvents, Parsed, Counted,
                    SkipEmpty \/ RejectEvent \/ CloseEvent \/ AddEvent
             PROVE  Counted'
  OBVIOUS
<1>1. Programming /\ Pass
  BY DEF SkipEmpty, RejectEvent, CloseEvent, AddEvent
<1>2. /\ AskedAt = {k \in DOMAIN args : args[k].name # <<>>}
      /\ UsableAt = {k \in AskedAt : fate(args[k].name) = "programmed"}
      /\ n \in DOMAIN args
  <2>1. pc = "extra" /\ n <= Len(args) /\ n \in Nat \ {0}
    BY <1>1 DEF Programming, TypeOK
  <2>2. /\ AskedAt = {k \in DOMAIN args : args[k].name # <<>>}
        /\ UsableAt = {k \in AskedAt : fate(args[k].name) = "programmed"}
        /\ DOMAIN args = 1 .. Len(args) /\ Len(args) \in Nat
    BY <2>1, AskedFacts DEF AfterParsing, PParsed
  <2> QED BY <2>1, <2>2
<1>3. CASE SkipEmpty
  <2>1. n \notin AskedAt /\ UNCHANGED <<running_events, errors>>
    BY <1>2, <1>3 DEF SkipEmpty
  <2> QED BY <1>1, <2>1, CountedPass
<1>4. CASE RejectEvent \/ CloseEvent
  <2>1. /\ n \in AskedAt /\ UNCHANGED running_events /\ \E e : errors' = Append(errors, e)
    BY <1>2, <1>4 DEF RejectEvent, CloseEvent
  <2>2. n \notin UsableAt \/ Full
    BY <1>2, <1>4 DEF RejectEvent, CloseEvent
  <2> QED BY <1>1, <2>1, <2>2, CountedPass
<1>5. CASE AddEvent
  <2>1. /\ n \in UsableAt /\ n \in AskedAt /\ ~Full /\ UNCHANGED errors
        /\ running_events' = Append(running_events, Running(args[n], user_only))
    BY <1>2, <1>5 DEF AddEvent
  <2> QED BY <1>1, <2>1, CountedPass
<1> QED BY <1>3, <1>4, <1>5

LEMMA CountedKept ==
  ASSUME Counted, pc \in AfterParsing, pc' \in AfterParsing, pc' = pc \/ n = Len(args) + 1,
         UNCHANGED <<extra_events, pmu, args, n, user_only, running_events, errors>>
  PROVE  Counted'
<1>1. AskedAt' = AskedAt /\ UsableAt' = UsableAt
  BY SameAsked
<1>2. EventsUpTo(n)'
  BY <1>1 DEF Counted, EventsUpTo
<1>3. running_events'[1].exclude_kernel = user_only'
  BY DEF Counted, AfterParsing
<1> QED BY <1>2, <1>3 DEF Counted, AfterParsing

LEMMA CountedSame ==
  ASSUME Counted, UNCHANGED <<extra_events, pmu, args, pc, n, user_only, running_events, errors>>
  PROVE  Counted'
<1>1. AskedAt' = AskedAt /\ UsableAt' = UsableAt
  BY SameAsked
<1>2. EventsUpTo(n)' <=> EventsUpTo(n)
  BY <1>1 DEF EventsUpTo
<1> QED BY <1>2 DEF Counted, AfterParsing

LEMMA CountedStep ==
  TypeOK /\ PParsed /\ PEvents /\ Parsed /\ Counted /\ (Next \/ UNCHANGED perf_vars) => Counted'
<1> SUFFICES ASSUME TypeOK, PParsed, PEvents, Parsed, Counted, Next \/ UNCHANGED perf_vars
             PROVE  Counted'
  OBVIOUS
<1>1. CASE UNCHANGED perf_vars
  <2>1. UNCHANGED <<extra_events, pmu, args, pc, n, user_only, running_events, errors>>
    BY <1>1 DEF perf_vars, vars, machine
  <2> QED BY <2>1, CountedSame
<1>2. CASE NameMetrics
  <2>1. /\ pc = "extra" /\ pc' = "ready" /\ n > Len(args)
        /\ UNCHANGED <<extra_events, pmu, args, n, user_only, running_events, errors>>
    BY <1>2 DEF NameMetrics, machine
  <2>2. n = Len(args) + 1
    <3>1. n \in Nat /\ n <= Len(args) + 1
      BY <2>1 DEF TypeOK
    <3>2. Len(args) \in Nat
      BY SequenceLength DEF PParsed
    <3> QED BY <2>1, <3>1, <3>2
  <2> QED BY <2>1, <2>2, CountedKept DEF AfterParsing
<1>3. CASE Begin \/ End \/ Happen
  <2>1. /\ pc \in AfterParsing \ {"extra"} /\ pc' \in AfterParsing
        /\ UNCHANGED <<extra_events, pmu, args, n, user_only, running_events, errors>>
    BY <1>3 DEF Begin, End, Happen, AfterParsing, machine
  <2>2. n = Len(args) + 1
    BY <2>1 DEF Counted
  <2> QED BY <2>1, <2>2, CountedKept
<1> QED BY <1>1, <1>2, <1>3, CountedStart, CountedToken, CountedLoop DEF Next

(* When the loop has ended, the events are those that are shown.           *)
LEMMA ColumnsShown ==
  ASSUME TypeOK, PParsed, PEvents, Parsed, Counted, Initialised,
         running_events[1].name = Cycles
  PROVE  /\ \A k \in DOMAIN running_events :
              running_events[k].exclude_kernel =
                (running_events[1].exclude_kernel \/ running_events[k].name \in UserEvents)
         /\ Len(running_events) = Len(Shown) + 1 /\ IsSequence(Shown)
         /\ \A k \in 1 .. Len(Shown) :
              /\ running_events[k + 1].name = AskedName(Shown[k])
              /\ running_events[k + 1].header = AskedHeader(Shown[k])
         /\ Len(errors) + Len(running_events) = Cardinality(AskedAt) + 1
<1> DEFINE u == Cardinality(UsableAt)
           l == Len(running_events)
<1>1. pc \in AfterParsing /\ pc \in AfterParsing \ {"extra"}
  BY DEF Initialised, AfterParsing
<1>2. EventsUpTo(n) /\ n = Len(args) + 1 /\ running_events[1].exclude_kernel = user_only
  BY <1>1 DEF Counted, AfterParsing
<1>3. /\ DOMAIN args = DOMAIN AskedTokens /\ DOMAIN args = 1 .. Len(args) /\ Len(args) \in Nat
      /\ \A k \in DOMAIN args : args[k] = Asked(AskedTokens[k])
      /\ AskedAt \subseteq DOMAIN args /\ UsableAt \subseteq DOMAIN args
  BY <1>1, AskedFacts DEF PParsed
<1>4. Before(UsableAt, n) = UsableAt /\ Before(AskedAt, n) = AskedAt
  <2>1. \A k \in DOMAIN args : k < n
    BY <1>2, <1>3
  <2> QED BY <1>3, <2>1 DEF Before
<1>5. IsFiniteSet(UsableAt) /\ u \in Nat /\ \A k \in UsableAt : k \in Int
  <2>1. IsFiniteSet(DOMAIN args)
    BY <1>3, FS_Interval
  <2>2. IsFiniteSet(UsableAt)
    BY <1>3, <2>1, FS_Subset
  <2> QED BY <1>3, <2>2, FS_CardinalityType
<1>6. /\ IsSequence(running_events) /\ l \in Nat /\ DOMAIN running_events = 1 .. l
      /\ l = 1 + Room(u) /\ Room(u) \in 0 .. u
      /\ \A k \in 1 .. l - 1 : running_events[k + 1] = Running(args[Nth(UsableAt, k)], user_only)
      /\ Len(errors) + l = Cardinality(AskedAt) + 1
  <2>1. IsSequence(running_events)
    BY DEF PEvents
  <2>2. l \in Nat /\ DOMAIN running_events = 1 .. l
    BY <2>1, SequenceLength
  <2>3. Room(u) \in 0 .. u
    BY <1>5, PerfAssumption DEF Room
  <2> QED BY <1>2, <1>4, <2>1, <2>2, <2>3 DEF EventsUpTo
<1> HIDE DEF u, l
<1>7. ASSUME NEW k \in 1 .. Room(u)
      PROVE  /\ running_events[k + 1].name = AskedName(AskedTokens[Nth(UsableAt, k)])
             /\ running_events[k + 1].header = AskedHeader(AskedTokens[Nth(UsableAt, k)])
             /\ running_events[k + 1].exclude_kernel =
                  (user_only \/ running_events[k + 1].name \in UserEvents)
  <2>1. k \in 1 .. u /\ k \in 1 .. l - 1
    BY <1>5, <1>6
  <2>2. Nth(UsableAt, k) \in UsableAt
    BY <1>5, <2>1, NthMember DEF u
  <2>3. args[Nth(UsableAt, k)] = Asked(AskedTokens[Nth(UsableAt, k)])
    BY <1>3, <2>2
  <2>4. running_events[k + 1] = Running(Asked(AskedTokens[Nth(UsableAt, k)]), user_only)
    BY <1>6, <2>1, <2>3
  <2> QED BY <2>4 DEF Running, Asked
<1>8. /\ IsSequence(Usable) /\ Len(Usable) = u
      /\ \A k \in 1 .. u : Usable[k] = AskedTokens[Nth(UsableAt, k)]
  <2> DEFINE S == {AskedTokens[Nth(UsableAt, k)] : k \in 1 .. u}
  <2>1. Usable = [k \in 1 .. u |-> AskedTokens[Nth(UsableAt, k)]]
    BY DEF Usable, Members, u
  <2>2. Usable \in [1 .. u -> S]
    BY <2>1
  <2> HIDE DEF S
  <2>3. Usable \in Seq(S) /\ Len(Usable) = u
    BY <1>5, <2>2
  <2> QED BY <2>1, <2>3 DEF IsSequence
<1>9. /\ IsSequence(Shown) /\ Len(Shown) = Room(u)
      /\ \A k \in 1 .. Room(u) : Shown[k] = AskedTokens[Nth(UsableAt, k)]
  <2>1. Shown = SubSeq(Usable, 1, Room(u))
    BY <1>8 DEF Shown, Room
  <2>2. Room(u) \in 0 .. Len(Usable) /\ \A k \in 1 .. Room(u) : k \in 1 .. u
    BY <1>5, <1>6, <1>8
  <2>3. /\ IsSequence(SubSeq(Usable, 1, Room(u)))
        /\ Len(SubSeq(Usable, 1, Room(u))) = Room(u)
        /\ \A k \in 1 .. Room(u) : SubSeq(Usable, 1, Room(u))[k] = Usable[k]
    BY <1>8, <2>2, PrefixFacts, Zenon
  <2>4. \A k \in 1 .. Room(u) : Usable[k] = AskedTokens[Nth(UsableAt, k)]
    BY <1>8, <2>2
  <2> QED BY <2>1, <2>3, <2>4
<1>10. ASSUME NEW k \in DOMAIN running_events
       PROVE  running_events[k].exclude_kernel =
                (running_events[1].exclude_kernel \/ running_events[k].name \in UserEvents)
  <2>1. CASE k = 1
    <3>1. (running_events[1].name \in UserEvents) = FALSE
      BY <1>2, PerfAssumption
    <3>2. running_events[1].exclude_kernel =
            (running_events[1].exclude_kernel \/ running_events[1].name \in UserEvents)
      <4>1. user_only \in BOOLEAN
        BY DEF TypeOK
      <4>2. CASE user_only = TRUE
        BY <1>2, <4>2, Zenon
      <4>3. CASE user_only = FALSE
        BY <1>2, <3>1, <4>3, Zenon
      <4> QED BY <4>1, <4>2, <4>3
    <3> QED BY <2>1, <3>2
  <2>2. CASE k # 1
    <3>1. k - 1 \in 1 .. Room(u) /\ (k - 1) + 1 = k
      BY <1>5, <1>6, <2>2
    <3> QED BY <1>2, <1>7, <3>1
  <2> QED BY <2>1, <2>2
<1> QED BY <1>6, <1>7, <1>9, <1>10 DEF l

LEMMA HeadOfConcat ==
  ASSUME NEW x, NEW s, IsSequence(s), NEW t, IsSequence(t), Len(t) = Len(s) + 1, t[1] = x,
         \A k \in 1 .. Len(s) : t[k + 1] = s[k]
  PROVE  t = <<x>> \o s
<1>1. PICK S, T : s \in Seq(S) /\ t \in Seq(T)
  BY DEF IsSequence
<1> DEFINE U == S \union T \union {x}
<1>2. s \in Seq(U) /\ t \in Seq(U) /\ x \in U
  BY <1>1
<1> HIDE DEF U
<1> QED BY <1>2

LEMMA TailOfSequence ==
  ASSUME NEW s, IsSequence(s), NEW t, IsSequence(t), Len(t) = Len(s) + 1,
         \A k \in 1 .. Len(s) : t[k + 1] = s[k]
  PROVE  Tail(t) = s
<1>1. PICK S, T : s \in Seq(S) /\ t \in Seq(T)
  BY DEF IsSequence
<1> DEFINE U == S \union T
<1>2. s \in Seq(U) /\ t \in Seq(U)
  BY <1>1
<1> HIDE DEF U
<1> QED BY <1>2

LEMMA FunctionIsSequence ==
  ASSUME NEW l \in Nat, NEW f, f = [k \in 1 .. l |-> f[k]]
  PROVE  IsSequence(f) /\ Len(f) = l
<1> DEFINE S == {f[k] : k \in 1 .. l}
<1>1. f \in [1 .. l -> S]
  OBVIOUS
<1> HIDE DEF S
<1>2. f \in Seq(S) /\ Len(f) = l
  BY <1>1
<1> QED BY <1>2 DEF IsSequence

LEMMA AccountedFor ==
  ASSUME TypeOK, PParsed, PEvents, Parsed, Counted
  PROVE  EventsAccounted
<1> SUFFICES ASSUME Initialised
             PROVE  /\ \A k \in DOMAIN running_events :
                         running_events[k].exclude_kernel =
                           (running_events[1].exclude_kernel \/ running_events[k].name \in UserEvents)
                    /\ Names(running_events) =
                         <<Cycles>> \o [k \in DOMAIN Shown |-> AskedName(Shown[k])]
                    /\ Tail(metric_names) = [k \in DOMAIN Shown |-> AskedHeader(Shown[k])]
                    /\ Len(errors) + Len(running_events) = Cardinality(AskedAt) + 1
  BY DEF EventsAccounted
<1> DEFINE r == running_events
           l == Len(Shown)
           names == [k \in DOMAIN Shown |-> AskedName(Shown[k])]
           headers == [k \in DOMAIN Shown |-> AskedHeader(Shown[k])]
<1>1. /\ IsSequence(r) /\ Len(r) >= 1 /\ r[1].name = Cycles /\ metric_names = Headers(r)
  BY DEF PEvents, Initialised
<1>2. /\ \A k \in DOMAIN r :
           r[k].exclude_kernel = (r[1].exclude_kernel \/ r[k].name \in UserEvents)
      /\ Len(r) = l + 1 /\ IsSequence(Shown)
      /\ \A k \in 1 .. l : r[k + 1].name = AskedName(Shown[k]) /\ r[k + 1].header = AskedHeader(Shown[k])
      /\ Len(errors) + Len(r) = Cardinality(AskedAt) + 1
  BY <1>1, ColumnsShown
<1>3. l \in Nat /\ DOMAIN Shown = 1 .. l /\ DOMAIN r = 1 .. l + 1 /\ l + 1 \in Nat
  BY <1>1, <1>2, SequenceLength
<1> HIDE DEF r, l
<1>4. IsSequence(names) /\ Len(names) = l /\ IsSequence(headers) /\ Len(headers) = l
      /\ \A k \in 1 .. l : names[k] = AskedName(Shown[k]) /\ headers[k] = AskedHeader(Shown[k])
  <2>1. /\ names = [k \in 1 .. l |-> names[k]] /\ headers = [k \in 1 .. l |-> headers[k]]
        /\ \A k \in 1 .. l : names[k] = AskedName(Shown[k]) /\ headers[k] = AskedHeader(Shown[k])
    BY <1>3
  <2> HIDE DEF names, headers
  <2> QED BY <1>3, <2>1, FunctionIsSequence
<1>5. /\ IsSequence(Names(r)) /\ Len(Names(r)) = l + 1
      /\ IsSequence(Headers(r)) /\ Len(Headers(r)) = l + 1
      /\ \A k \in 1 .. l + 1 : Names(r)[k] = r[k].name /\ Headers(r)[k] = r[k].header
  <2> DEFINE a == Names(r)
             b == Headers(r)
  <2>1. a = [k \in 1 .. l + 1 |-> r[k].name] /\ b = [k \in 1 .. l + 1 |-> r[k].header]
    BY <1>3 DEF Names, Headers
  <2> HIDE DEF a, b
  <2>2. /\ a = [k \in 1 .. l + 1 |-> a[k]] /\ b = [k \in 1 .. l + 1 |-> b[k]]
        /\ \A k \in 1 .. l + 1 : a[k] = r[k].name /\ b[k] = r[k].header
    BY <2>1
  <2>3. IsSequence(a) /\ Len(a) = l + 1 /\ IsSequence(b) /\ Len(b) = l + 1
    BY <1>3, <2>2, FunctionIsSequence
  <2> QED BY <2>2, <2>3 DEF a, b
<1> HIDE DEF names, headers
<1>6. \A k \in 1 .. l : k + 1 \in 1 .. l + 1 /\ 1 \in 1 .. l + 1
  BY <1>3
<1>7. Names(r) = <<Cycles>> \o names
  <2>1. Names(r)[1] = Cycles
    BY <1>1, <1>3, <1>5
  <2>2. \A k \in 1 .. l : Names(r)[k + 1] = names[k]
    BY <1>2, <1>4, <1>5, <1>6
  <2> QED BY <1>4, <1>5, <2>1, <2>2, HeadOfConcat
<1>8. Tail(Headers(r)) = headers
  <2>1. \A k \in 1 .. l : Headers(r)[k + 1] = headers[k]
    BY <1>2, <1>4, <1>5, <1>6
  <2> QED BY <1>4, <1>5, <2>1, TailOfSequence
<1> QED BY <1>1, <1>2, <1>7, <1>8 DEF r, names, headers

LEMMA ParsedInvariant == TimersSpec => [](PInv /\ Parsed /\ Counted)
<1>1. TimersInit => PInv /\ Parsed /\ Counted
  BY PerfInit, ParsedInit, CountedInit DEF TimersInit
<1>2. PInv /\ Parsed /\ Counted /\ [TimersNext]_all_vars => (PInv /\ Parsed /\ Counted)'
  BY PerfStep, ParsedStep, CountedStep DEF PInv, TimersNext, all_vars
<1> QED BY <1>1, <1>2, PTL DEF TimersSpec

(* parsePerfEvents and the loop of perf-timer.cpp:239-269 for any string,  *)
(* any number of readings and whatever becomes of the events: the columns  *)
(* are the first events of the string that can be programmed, under the    *)
(* headers it gives, and there is a message about every other one.         *)
THEOREM EventsAlwaysAccounted == TimersSpec => []EventsAccounted
<1>1. PInv /\ Parsed /\ Counted => EventsAccounted
  BY AccountedFor DEF PInv
<1> QED BY <1>1, ParsedInvariant, PTL
=============================================================================
