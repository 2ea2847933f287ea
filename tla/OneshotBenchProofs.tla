-------------------------- MODULE OneshotBenchProofs --------------------------
(***************************************************************************)
(* Theorems about OneshotBench for every program that registers            *)
(* benchmarks, every timing of the methods, every number of samples and    *)
(* any number of disturbances.                                             *)
(***************************************************************************)
EXTENDS OneshotBench, TimeOneProofs, FiniteSetTheorems, WellFoundedInduction

-----------------------------------------------------------------------------
(* Facts on finite sets: two parts of one, and that among finitely many    *)
(* integers there is one of every rank.                                    *)

LEMMA TwoParts ==
  ASSUME NEW S, IsFiniteSet(S), NEW A, NEW B, S = A \union B, A \cap B = {}
  PROVE  /\ Cardinality(S) \in Nat /\ Cardinality(A) \in Nat /\ Cardinality(B) \in Nat
         /\ Cardinality(S) = Cardinality(A) + Cardinality(B)
<1>1. IsFiniteSet(A) /\ IsFiniteSet(B)
  <2>1. A \in SUBSET S /\ B \in SUBSET S
    OBVIOUS
  <2> QED BY <2>1, FS_Subset
<1>2. Cardinality(S) \in Nat /\ Cardinality(A) \in Nat /\ Cardinality(B) \in Nat
  BY <1>1, FS_CardinalityType
<1>3. Cardinality(A \union B) = Cardinality(A) + Cardinality(B) - Cardinality(A \cap B)
  BY <1>1, FS_Union
<1>4. Cardinality(A \cap B) = 0 /\ Cardinality(A \union B) = Cardinality(S)
  BY FS_EmptySet
<1>5. \A x, y \in Nat : x + y - 0 = x + y
  OBVIOUS
<1> QED BY <1>2, <1>3, <1>4, <1>5

LEMMA LeastCount ==
  ASSUME NEW S, S # {}, NEW count, \A x \in S : count[x] \in Nat
  PROVE  \E x \in S : \A y \in S : count[x] <= count[y]
<1> DEFINE T == {count[x] : x \in S}
<1>1. T \subseteq Nat /\ T # {}
  OBVIOUS
<1>2. PICK t \in T : \A u \in T : ~ (<<u, t>> \in OpToRel(<, Nat))
  BY <1>1, NatLessThanWellFounded, WFMin
<1>3. \A u \in T : ~ (u < t)
  BY <1>2 DEF OpToRel
<1>4. \A u \in T : t <= u
  <2> HIDE DEF T
  <2> QED BY <1>1, <1>3
<1> QED BY <1>4

(* The indices below, and not above, a value in the order of key: not      *)
(* above the higher of two are more.                                       *)
Below(S, key, v) == {k \in S : key[k] < v}
UpTo(S, key, v) == {k \in S : key[k] <= v}

LEMMA MoreUpTo ==
  ASSUME NEW S, IsFiniteSet(S), NEW key \in [S -> Int]
  PROVE  /\ Cardinality(S) \in Nat
         /\ \A v \in Int : Cardinality(UpTo(S, key, v)) \in 0 .. Cardinality(S)
         /\ \A v \in Int, n \in S :
              v < key[n] => Cardinality(UpTo(S, key, v)) < Cardinality(UpTo(S, key, key[n]))
<1>1. ASSUME NEW v \in Int
      PROVE  /\ IsFiniteSet(UpTo(S, key, v))
             /\ Cardinality(UpTo(S, key, v)) \in 0 .. Cardinality(S)
  <2>1. UpTo(S, key, v) \in SUBSET S
    BY DEF UpTo
  <2>2. IsFiniteSet(UpTo(S, key, v)) /\ Cardinality(UpTo(S, key, v)) <= Cardinality(S)
    BY <2>1, FS_Subset
  <2> QED BY <2>2, FS_CardinalityType
<1>2. ASSUME NEW v \in Int, NEW n \in S, v < key[n]
      PROVE  Cardinality(UpTo(S, key, v)) < Cardinality(UpTo(S, key, key[n]))
  <2>1. /\ UpTo(S, key, v) \in SUBSET UpTo(S, key, key[n])
        /\ n \in UpTo(S, key, key[n]) /\ n \notin UpTo(S, key, v) /\ key[n] \in Int
    BY <1>2 DEF UpTo
  <2>2. /\ Cardinality(UpTo(S, key, v)) <= Cardinality(UpTo(S, key, key[n]))
        /\ Cardinality(UpTo(S, key, v)) # Cardinality(UpTo(S, key, key[n]))
    BY <1>1, <2>1, FS_Subset
  <2> QED BY <1>1, <2>1, <2>2
<1> QED BY <1>1, <1>2, FS_CardinalityType

LEMMA GreatestKey ==
  ASSUME NEW S, IsFiniteSet(S), NEW key \in [S -> Int], NEW T \in SUBSET S, T # {}
  PROVE  \E n \in T : \A k \in T : key[k] <= key[n]
<1> DEFINE room == [n \in T |-> Cardinality(S) - Cardinality(UpTo(S, key, key[n]))]
<1>1. \A n \in T : room[n] \in Nat
  BY MoreUpTo
<1>2. PICK n \in T : \A k \in T : room[n] <= room[k]
  <2> HIDE DEF room
  <2> QED BY <1>1, LeastCount
<1>3. SUFFICES ASSUME NEW k \in T, key[n] < key[k] PROVE FALSE
  OBVIOUS
<1>4. /\ Cardinality(UpTo(S, key, key[n])) < Cardinality(UpTo(S, key, key[k]))
      /\ Cardinality(UpTo(S, key, key[n])) \in Nat /\ Cardinality(UpTo(S, key, key[k])) \in Nat
      /\ Cardinality(S) \in Nat
  BY <1>3, MoreUpTo
<1> QED BY <1>2, <1>4

(* Of every rank there is one: the lowest that more than rank are up to.   *)
LEMMA ElementOfRank ==
  ASSUME NEW S, IsFiniteSet(S), NEW key \in [S -> Int],
         NEW rank \in Nat, rank < Cardinality(S)
  PROVE  \E n \in S : /\ Cardinality(Below(S, key, key[n])) <= rank
                      /\ Cardinality(UpTo(S, key, key[n])) > rank
<1> DEFINE High == {n \in S : Cardinality(UpTo(S, key, key[n])) > rank}
           count == [n \in High |-> Cardinality(UpTo(S, key, key[n]))]
<1>1. High # {}
  <2>1. Cardinality(S) \in Nat /\ S # {}
    BY FS_CardinalityType, FS_EmptySet
  <2>2. PICK n \in S : \A k \in S : key[k] <= key[n]
    BY <2>1, GreatestKey
  <2>3. UpTo(S, key, key[n]) = S
    BY <2>2 DEF UpTo
  <2> QED BY <2>3
<1>2. \A n \in High : count[n] \in Nat
  BY MoreUpTo
<1>3. PICK n \in High : \A k \in High : count[n] <= count[k]
  <2> HIDE DEF High, count
  <2> QED BY <1>1, <1>2, LeastCount
<1>4. n \in S /\ Cardinality(UpTo(S, key, key[n])) > rank
  OBVIOUS
<1> DEFINE low == Below(S, key, key[n])
<1>5. low \in SUBSET S
  BY DEF Below
<1>6. Cardinality(low) \in Nat
  <2> HIDE DEF low
  <2> QED BY <1>5, FS_Subset, FS_CardinalityType
<1>7. ASSUME Cardinality(low) > rank PROVE FALSE
  <2>1. low # {}
    BY <1>7, FS_EmptySet
  <2>2. PICK j \in low : \A k \in low : key[k] <= key[j]
    <3> HIDE DEF low
    <3> QED BY <1>5, <2>1, GreatestKey
  <2>3. j \in S /\ key[j] < key[n] /\ key[j] \in Int
    BY <1>4 DEF Below
  <2>4. UpTo(S, key, key[j]) = low
    BY <1>4, <2>2, <2>3 DEF Below, UpTo
  <2>5. j \in High
    BY <1>7, <2>3, <2>4
  <2>6. count[j] < count[n]
    BY <1>4, <2>3, <2>5, MoreUpTo
  <2> QED BY <1>2, <1>3, <2>5, <2>6
<1> HIDE DEF low
<1>8. Cardinality(low) <= rank
  BY <1>6, <1>7
<1> QED BY <1>4, <1>8 DEF low

-----------------------------------------------------------------------------
(* The median. *)

LEMMA PowerNat == 2 ^ Bits \in Nat \ {0}
<1>1. Bits \in Nat
  BY OneshotAssumption
<1>2. IsFiniteSet(1 .. Bits) /\ Cardinality(1 .. Bits) = Bits
  BY <1>1, FS_Interval
<1>3. IsFiniteSet(SUBSET (1 .. Bits)) /\ Cardinality(SUBSET (1 .. Bits)) = 2 ^ Bits
  BY <1>2, FS_SUBSET
<1>4. SUBSET (1 .. Bits) # {}
  OBVIOUS
<1> QED BY <1>3, <1>4, FS_CardinalityType, FS_EmptySet

LEMMA AggrType ==
  ASSUME NEW delta \in Int
  PROVE  aggr_value(delta) \in Int
<1>1. \A x \in Int, m \in Nat \ {0} : x % m \in Int
  OBVIOUS
<1> QED BY <1>1, PowerNat DEF aggr_value

(* medianf returns one of the deltas, with the middle rank in the order of *)
(* less, signed or unsigned.                                               *)
LEMMA MedianOf ==
  ASSUME NEW S, IsFiniteSet(S), S # {}, NEW deltas, \A n \in S : deltas[n] \in Int
  PROVE  LET m == medianf(deltas, S)
             rank == (Cardinality(S) - 1) \div 2
         IN /\ m \in {deltas[n] : n \in S}
            /\ Cardinality({n \in S : less(deltas[n], m)}) <= rank
            /\ Cardinality({n \in S : ~less(m, deltas[n])}) > rank
<1> DEFINE key == [n \in S |-> aggr_value(deltas[n])]
           rank == (Cardinality(S) - 1) \div 2
           Middle(m) == /\ Cardinality({n \in S : less(deltas[n], m)}) <= rank
                        /\ Cardinality({n \in S : ~less(m, deltas[n])}) > rank
<1>1. Cardinality(S) \in Nat \ {0}
  BY FS_CardinalityType, FS_EmptySet
<1>2. rank \in Nat /\ rank < Cardinality(S)
  BY <1>1
<1>3. key \in [S -> Int]
  BY AggrType
<1>4. PICK n \in S : /\ Cardinality(Below(S, key, key[n])) <= rank
                     /\ Cardinality(UpTo(S, key, key[n])) > rank
  <2> HIDE DEF key, rank
  <2> QED BY <1>2, <1>3, ElementOfRank
<1>5. /\ Below(S, key, key[n]) = {k \in S : less(deltas[k], deltas[n])}
      /\ UpTo(S, key, key[n]) = {k \in S : ~less(deltas[n], deltas[k])}
  <2>1. \A k \in S : key[k] = aggr_value(deltas[k]) /\ key[k] \in Int
    BY <1>3
  <2> HIDE DEF key
  <2> QED BY <2>1 DEF Below, UpTo, less
<1>6. Middle(deltas[n])
  BY <1>4, <1>5
<1> HIDE DEF Middle
<1>7. \E m \in {deltas[k] : k \in S} : Middle(m)
  BY <1>6
<1>8. medianf(deltas, S) = CHOOSE m \in {deltas[k] : k \in S} : Middle(m)
  BY DEF medianf, Middle
<1>9. /\ medianf(deltas, S) \in {deltas[k] : k \in S}
      /\ Middle(medianf(deltas, S))
  BY <1>7, <1>8
<1> QED BY <1>9 DEF Middle

LEMMA MedianType ==
  ASSUME NEW S, IsFiniteSet(S), S # {}, NEW deltas, \A n \in S : deltas[n] \in Int
  PROVE  medianf(deltas, S) \in Int
<1>1. medianf(deltas, S) \in {deltas[n] : n \in S}
  BY MedianOf
<1>2. {deltas[n] : n \in S} \subseteq Int
  OBVIOUS
<1> QED BY <1>1, <1>2

(* The median of signed deltas, in the terms of MedianRight. *)
LEMMA SignedMedian ==
  ASSUME ~UnsignedAggr, NEW S, IsFiniteSet(S), S # {},
         NEW deltas, \A n \in S : deltas[n] \in Int
  PROVE  LET m == medianf(deltas, S)
         IN /\ \E n \in S : deltas[n] = m
            /\ 2 * Cardinality({n \in S : deltas[n] <= m}) >= Cardinality(S)
            /\ 2 * Cardinality({n \in S : deltas[n] >= m}) >= Cardinality(S)
<1> DEFINE m == medianf(deltas, S)
           rank == (Cardinality(S) - 1) \div 2
           Low == {n \in S : deltas[n] < m}
           High == {n \in S : deltas[n] >= m}
           LowOrMiddle == {n \in S : deltas[n] <= m}
<1>1. /\ m \in {deltas[n] : n \in S}
      /\ Cardinality({n \in S : less(deltas[n], m)}) <= rank
      /\ Cardinality({n \in S : ~less(m, deltas[n])}) > rank
  BY MedianOf
<1> HIDE DEF m
<1>2. m \in Int
  BY <1>1
<1>3. /\ {n \in S : less(deltas[n], m)} = Low
      /\ {n \in S : ~less(m, deltas[n])} = LowOrMiddle
  BY <1>2 DEF less, aggr_value
<1>4. Cardinality(Low) <= rank /\ Cardinality(LowOrMiddle) > rank
  BY <1>1, <1>3
<1>5. /\ Low \in SUBSET S /\ High \in SUBSET S /\ LowOrMiddle \in SUBSET S
      /\ Low \union High = S /\ Low \cap High = {}
  BY <1>2
<1> HIDE DEF Low, High, LowOrMiddle
<1>6. /\ IsFiniteSet(Low) /\ IsFiniteSet(High)
      /\ Cardinality(Low) \in Nat /\ Cardinality(High) \in Nat
      /\ Cardinality(LowOrMiddle) \in Nat
  BY <1>5, FS_Subset, FS_CardinalityType
<1>7. Cardinality(S) = Cardinality(Low) + Cardinality(High) /\ Cardinality(S) \in Nat \ {0}
  BY <1>5, TwoParts, FS_EmptySet
<1>8. \A c, l, h, u \in Nat :
        c = l + h /\ c > 0 /\ l <= (c - 1) \div 2 /\ u > (c - 1) \div 2 =>
          2 * u >= c /\ 2 * h >= c
  OBVIOUS
<1>9. 2 * Cardinality(LowOrMiddle) >= Cardinality(S) /\ 2 * Cardinality(High) >= Cardinality(S)
  BY <1>4, <1>6, <1>7, <1>8
<1> QED BY <1>1, <1>9 DEF m, High, LowOrMiddle

(* One side of an odd calibration: if less than half of the deltas are     *)
(* disturbed, the median is what the others say.                           *)
LEMMA QuietMedian ==
  ASSUME ~UnsignedAggr, NEW S, IsFiniteSet(S), NEW half \in Nat,
         Cardinality(S) = 2 * half + 1,
         NEW deltas, \A n \in S : deltas[n] \in Int,
         NEW truth \in Int, NEW D \in SUBSET S, Cardinality(D) <= half,
         \A n \in S : deltas[n] >= truth /\ (n \notin D => deltas[n] = truth)
  PROVE  medianf(deltas, S) = truth
<1> DEFINE m == medianf(deltas, S)
           Low == {n \in S : deltas[n] < m}
<1>0. S # {}
  BY FS_EmptySet
<1>1. /\ m \in {deltas[n] : n \in S}
      /\ Cardinality({n \in S : less(deltas[n], m)}) <= (Cardinality(S) - 1) \div 2
  BY <1>0, MedianOf
<1> HIDE DEF m
<1>2. m \in Int /\ m >= truth
  BY <1>1
<1>3. {n \in S : less(deltas[n], m)} = Low
  BY <1>2 DEF less, aggr_value
<1>4. Cardinality(Low) <= half
  <2>1. \A h \in Nat : ((2 * h + 1) - 1) \div 2 = h
    OBVIOUS
  <2> HIDE DEF Low
  <2> QED BY <1>1, <1>3, <2>1
<1>5. CASE m > truth
  <2>1. S \ D \in SUBSET Low
    BY <1>5
  <2>2. S = D \union (S \ D) /\ D \cap (S \ D) = {}
    OBVIOUS
  <2>3. IsFiniteSet(D) /\ IsFiniteSet(S \ D) /\ IsFiniteSet(Low)
    BY FS_Subset
  <2> HIDE DEF Low
  <2>4. Cardinality(S) = Cardinality(D) + Cardinality(S \ D)
    BY <2>2, TwoParts
  <2>5. Cardinality(S \ D) <= Cardinality(Low)
    BY <2>1, <2>3, FS_Subset
  <2>6. /\ Cardinality(D) \in Nat /\ Cardinality(S \ D) \in Nat /\ Cardinality(Low) \in Nat
    BY <2>3, FS_CardinalityType
  <2> QED BY <1>4, <2>4, <2>5, <2>6
<1> QED BY <1>2, <1>5 DEF m

-----------------------------------------------------------------------------
(* Registration.  A maker says what the calls made on it, and on the makers *)
(* it was assigned from, say together.                                      *)

Says(m, chain) ==
  /\ Asked(m.loop_count, chain, "setLoopCount", 1)
  /\ Asked(m.overhead, chain, "withOverhead", "default")
  /\ Asked(m.touch, chain, "withTouch", inlined_empty)
  /\ Asked(m.warm, chain, "withWarm", inlined_empty)
  /\ AskedLate(m.tags, chain, "setTags")
  /\ AskedLate(m.features, chain, "setFeatures")

(* The calls the temporary results from. *)
SoFar == Assigned(statement) \union {statement} \X (1 .. called)

MadeBefore(s) == {t \in Makes : t < s}

PositionOK ==
  /\ statement <= Len(Program) => called <= Len(Current.calls)
  /\ statement > Len(Program) => called = 0

RegisteredOK ==
  /\ Len(benches) = Cardinality(MadeBefore(statement))
  /\ \A k \in DOMAIN benches :
       \E s \in Makes : /\ s < statement
                        /\ Cardinality({t \in Makes : t <= s}) = k
                        /\ AsAsked(benches[k], s)

RegInv ==
  MakerOK /\ PositionOK /\ Says(maker, Assigned(statement)) /\ Says(temporary, SoFar)
    /\ RegisteredOK

LEMMA ProgramType ==
  /\ Len(Program) \in Nat \ {0} /\ DOMAIN Program = 1 .. Len(Program)
  /\ \A s \in 1 .. Len(Program) :
       /\ Program[s] \in Statement
       /\ Program[s].calls \in Seq(Setting)
       /\ DOMAIN Program[s].calls = 1 .. Len(Program[s].calls)
       /\ Len(Program[s].calls) \in Nat
<1>1. Program \in Seq(Statement) /\ Program # <<>>
  BY MakerAssumption
<1>2. \A s \in 1 .. Len(Program) : Program[s] \in Statement
  BY <1>1
<1>3. \A s \in 1 .. Len(Program) : Program[s].calls \in Seq(Setting)
  BY <1>2 DEF Statement
<1> QED BY <1>1, <1>2, <1>3

(* One more call at the end of a chain: the option it sets has its value,   *)
(* an option it drops is back at the default, the others are as they were.  *)
LEMMA LastSaysMore ==
  ASSUME NEW chain, NEW z, ~Earlier(z, z), \A x \in chain : Earlier(x, z) /\ ~Earlier(z, x),
         NEW option, NEW drops, NEW default, NEW v
  PROVE  /\ OptionOf(z) = option =>
              LastSays(ValueOf(z), chain \union {z}, option, drops, default)
         /\ OptionOf(z) \notin {option} \union drops /\ LastSays(v, chain, option, drops, default)
              => LastSays(v, chain \union {z}, option, drops, default)
         /\ OptionOf(z) \in drops /\ OptionOf(z) # option =>
              LastSays(default, chain \union {z}, option, drops, default)
<1>1. OptionOf(z) = option => LastSays(ValueOf(z), chain \union {z}, option, drops, default)
  BY DEF LastSays
<1>2. OptionOf(z) \notin {option} \union drops /\ LastSays(v, chain, option, drops, default)
        => LastSays(v, chain \union {z}, option, drops, default)
  BY DEF LastSays
<1>3. OptionOf(z) \in drops /\ OptionOf(z) # option =>
        LastSays(default, chain \union {z}, option, drops, default)
  BY DEF LastSays
<1> QED BY <1>1, <1>2, <1>3

(* Nothing is set in an empty chain. *)
LEMMA NothingAsked ==
  Says(NewMaker(1, "default", inlined_empty, inlined_empty), {})
BY DEF Says, NewMaker, Asked, AskedLate, LastSays

LEMMA RegisterInit ==
  ASSUME MakerInit
  PROVE  RegInv
<1>1. statement = 1 /\ called = 0 /\ benches = <<>> /\ temporary = maker
      /\ maker = NewMaker(1, "default", inlined_empty, inlined_empty)
  BY DEF MakerInit
<1>2. maker \in Maker
  BY <1>1, MakerAssumption DEF Maker, NewMaker
<1>3. MakerOK
  BY <1>1, <1>2, ProgramType DEF MakerOK
<1>4. Assigned(statement) = {} /\ SoFar = {}
  BY <1>1, ProgramType DEF Assigned, SoFar
<1>5. MadeBefore(statement) = {}
  BY <1>1, ProgramType DEF MadeBefore, Makes
<1>6. RegisteredOK
  BY <1>1, <1>5, FS_EmptySet DEF RegisteredOK
<1>7. PositionOK
  BY <1>1, ProgramType DEF PositionOK
<1> QED BY <1>1, <1>3, <1>4, <1>6, <1>7, NothingAsked DEF RegInv

(* The next call of a statement, whatever setter it calls. *)
LEMMA NextCall ==
  ASSUME RegInv, Calling
  PROVE  LET z == <<statement, called + 1>>
         IN /\ statement \in 1 .. Len(Program) /\ called + 1 \in DOMAIN Current.calls
            /\ Current.calls[called + 1] \in Setting
            /\ OptionOf(z) = Current.calls[called + 1].option
            /\ ValueOf(z) = Given
            /\ Assigned(statement) \union {statement} \X (1 .. called + 1) = SoFar \union {z}
            /\ ~Earlier(z, z)
            /\ \A x \in SoFar : Earlier(x, z) /\ ~Earlier(z, x)
<1> DEFINE z == <<statement, called + 1>>
<1>1. statement \in 1 .. Len(Program) /\ called \in Nat /\ called < Len(Current.calls)
  BY ProgramType DEF RegInv, MakerOK, Calling
<1>2. /\ called + 1 \in DOMAIN Current.calls /\ Current.calls[called + 1] \in Setting
  BY <1>1, ProgramType DEF Current
<1>3. OptionOf(z) = Current.calls[called + 1].option /\ ValueOf(z) = Given
  BY DEF OptionOf, ValueOf, Current, Given
<1>4. {statement} \X (1 .. called + 1) = ({statement} \X (1 .. called)) \union {z}
  <2>1. 1 .. called + 1 = (1 .. called) \union {called + 1}
    BY <1>1
  <2> QED BY <2>1
<1>5. \A x \in SoFar : /\ x[1] \in Nat /\ x[1] <= statement
                       /\ x[1] = statement => x[2] \in Nat /\ x[2] <= called
  BY <1>1, ProgramType DEF SoFar, Assigned
<1>6. z[1] = statement /\ z[2] = called + 1
  OBVIOUS
<1> HIDE DEF z
<1>7. ~Earlier(z, z)
  BY <1>1, <1>6 DEF Earlier
<1>8. \A x \in SoFar : Earlier(x, z) /\ ~Earlier(z, x)
  BY <1>1, <1>5, <1>6 DEF Earlier
<1> QED BY <1>1, <1>2, <1>3, <1>4, <1>7, <1>8 DEF SoFar, z

LEMMA ReturnStep ==
  ASSUME RegInv, NEW option, NEW m \in Maker, Return(option, m),
         Says(m, SoFar \union {<<statement, called + 1>>})
  PROVE  RegInv'
<1>1. /\ Calling /\ temporary' = m /\ called' = called + 1
      /\ UNCHANGED <<statement, maker, benches>>
  BY DEF Return
<1>2. /\ statement \in 1 .. Len(Program) /\ called + 1 \in DOMAIN Current.calls
      /\ Assigned(statement) \union {statement} \X (1 .. called + 1)
           = SoFar \union {<<statement, called + 1>>}
  BY <1>1, NextCall
<1>3. MakerOK'
  BY <1>1 DEF RegInv, MakerOK
<1>4. SoFar' = SoFar \union {<<statement, called + 1>>} /\ Assigned(statement)' = Assigned(statement)
  BY <1>1, <1>2 DEF SoFar, Assigned
<1>5. Says(maker, Assigned(statement))' /\ Says(temporary, SoFar)'
  BY <1>1, <1>4 DEF RegInv, Says
<1>6. PositionOK'
  BY <1>1, <1>2, ProgramType DEF PositionOK, Current
<1>7. RegisteredOK'
  BY <1>1 DEF RegInv, RegisteredOK, MadeBefore
<1> QED BY <1>3, <1>5, <1>6, <1>7 DEF RegInv

(* Every setter changes what it is for, keeps the loop count, the overhead *)
(* and the two warm-ups otherwise, and drops the tags and features or not. *)
LEMMA SetterStep ==
  ASSUME RegInv,
         setTags \/ setFeatures \/ setLoopCount \/ withTouch \/ withWarm \/ withOverhead
  PROVE  RegInv'
<1> DEFINE z == <<statement, called + 1>>
           chain == SoFar \union {z}
           drops == {"withTouch", "withWarm", "withOverhead"}
<1>1. Calling /\ temporary \in Maker /\ Says(temporary, SoFar)
  BY DEF setTags, setFeatures, setLoopCount, withTouch, withWarm, withOverhead, Return,
         RegInv, MakerOK
<1>2. /\ Current.calls[called + 1] \in Setting
      /\ OptionOf(z) = Current.calls[called + 1].option
      /\ ValueOf(z) = Given
      /\ ~Earlier(z, z)
      /\ \A x \in SoFar : Earlier(x, z) /\ ~Earlier(z, x)
  BY <1>1, NextCall
<1> HIDE DEF z
<1>3. ASSUME NEW option, NEW drop, NEW default, NEW v
      PROVE  /\ OptionOf(z) = option =>
                   LastSays(Given, chain, option, drop, default)
             /\ OptionOf(z) \notin {option} \union drop /\ LastSays(v, SoFar, option, drop, default)
                   => LastSays(v, chain, option, drop, default)
             /\ OptionOf(z) \in drop /\ OptionOf(z) # option =>
                   LastSays(default, chain, option, drop, default)
  BY <1>2, LastSaysMore
<1> HIDE DEF chain
<1>4. ASSUME NEW m \in Maker, NEW option, Return(option, m), Says(m, chain)
      PROVE  RegInv'
  BY <1>4, ReturnStep DEF chain, z
<1>5. CASE setTags
  <2> DEFINE m == [temporary EXCEPT !.tags = Given]
  <2>1. Return("setTags", m) /\ OptionOf(z) = "setTags"
    BY <1>2, <1>5 DEF setTags, Return
  <2>2. Given \in SUBSET Tag
    BY <1>2, <2>1 DEF Setting, Given
  <2>3. m \in Maker
    BY <1>1, <2>2 DEF Maker
  <2>4. /\ m.tags = Given
        /\ m.loop_count = temporary.loop_count /\ m.overhead = temporary.overhead
        /\ m.touch = temporary.touch /\ m.warm = temporary.warm
        /\ m.features = temporary.features
    BY <1>1 DEF Maker
  <2> HIDE DEF m
  <2>5. Says(m, chain)
    BY <1>1, <1>3, <2>1, <2>4 DEF Says, Asked, AskedLate
  <2> QED BY <1>4, <2>1, <2>3, <2>5
<1>6. CASE setFeatures
  <2> DEFINE m == [temporary EXCEPT !.features = Given]
  <2>1. Return("setFeatures", m) /\ OptionOf(z) = "setFeatures"
    BY <1>2, <1>6 DEF setFeatures, Return
  <2>2. Given \in SUBSET Feature
    BY <1>2, <2>1 DEF Setting, Given
  <2>3. m \in Maker
    BY <1>1, <2>2 DEF Maker
  <2>4. /\ m.features = Given
        /\ m.loop_count = temporary.loop_count /\ m.overhead = temporary.overhead
        /\ m.touch = temporary.touch /\ m.warm = temporary.warm
        /\ m.tags = temporary.tags
    BY <1>1 DEF Maker
  <2> HIDE DEF m
  <2>5. Says(m, chain)
    BY <1>1, <1>3, <2>1, <2>4 DEF Says, Asked, AskedLate
  <2> QED BY <1>4, <2>1, <2>3, <2>5
<1>7. CASE setLoopCount
  <2> DEFINE m == [temporary EXCEPT !.loop_count = Given]
  <2>1. Return("setLoopCount", m) /\ OptionOf(z) = "setLoopCount"
    BY <1>2, <1>7 DEF setLoopCount, Return
  <2>2. Given \in Nat \ {0}
    BY <1>2, <2>1 DEF Setting, Given
  <2>3. m \in Maker
    BY <1>1, <2>2 DEF Maker
  <2>4. /\ m.loop_count = Given /\ m.overhead = temporary.overhead
        /\ m.touch = temporary.touch /\ m.warm = temporary.warm
        /\ m.tags = temporary.tags /\ m.features = temporary.features
    BY <1>1 DEF Maker
  <2> HIDE DEF m
  <2>5. Says(m, chain)
    BY <1>1, <1>3, <2>1, <2>4 DEF Says, Asked, AskedLate
  <2> QED BY <1>4, <2>1, <2>3, <2>5
<1>8. CASE withTouch
  <2> DEFINE m == NewMaker(temporary.loop_count, temporary.overhead, Given, temporary.warm)
  <2>1. Return("withTouch", m) /\ OptionOf(z) = "withTouch"
    BY <1>2, <1>8 DEF withTouch, Return
  <2>2. Given \in Method
    BY <1>2, <2>1 DEF Setting, Given
  <2>3. m \in Maker
    BY <1>1, <2>2 DEF Maker, NewMaker
  <2>4. /\ m.loop_count = temporary.loop_count /\ m.overhead = temporary.overhead
        /\ m.touch = Given /\ m.warm = temporary.warm /\ m.tags = {} /\ m.features = {}
    BY DEF NewMaker
  <2> HIDE DEF m
  <2>5. Says(m, chain)
    BY <1>1, <1>3, <2>1, <2>4 DEF Says, Asked, AskedLate
  <2> QED BY <1>4, <2>1, <2>3, <2>5
<1>9. CASE withWarm
  <2> DEFINE m == NewMaker(temporary.loop_count, temporary.overhead, temporary.touch, Given)
  <2>1. Return("withWarm", m) /\ OptionOf(z) = "withWarm"
    BY <1>2, <1>9 DEF withWarm, Return
  <2>2. Given \in Method
    BY <1>2, <2>1 DEF Setting, Given
  <2>3. m \in Maker
    BY <1>1, <2>2 DEF Maker, NewMaker
  <2>4. /\ m.loop_count = temporary.loop_count /\ m.overhead = temporary.overhead
        /\ m.touch = temporary.touch /\ m.warm = Given /\ m.tags = {} /\ m.features = {}
    BY DEF NewMaker
  <2> HIDE DEF m
  <2>5. Says(m, chain)
    BY <1>1, <1>3, <2>1, <2>4 DEF Says, Asked, AskedLate
  <2> QED BY <1>4, <2>1, <2>3, <2>5
<1>10. CASE withOverhead
  <2> DEFINE m == NewMaker(temporary.loop_count, Given, temporary.touch, temporary.warm)
  <2>1. Return("withOverhead", m) /\ OptionOf(z) = "withOverhead"
    BY <1>2, <1>10 DEF withOverhead, Return
  <2>2. Given \in {"default", "raw"}
    BY <1>2, <2>1 DEF Setting, Given
  <2>3. m \in Maker
    BY <1>1, <2>2 DEF Maker, NewMaker
  <2>4. /\ m.loop_count = temporary.loop_count /\ m.overhead = Given
        /\ m.touch = temporary.touch /\ m.warm = temporary.warm
        /\ m.tags = {} /\ m.features = {}
    BY DEF NewMaker
  <2> HIDE DEF m
  <2>5. Says(m, chain)
    BY <1>1, <1>3, <2>1, <2>4 DEF Says, Asked, AskedLate
  <2> QED BY <1>4, <2>1, <2>3, <2>5
<1> QED BY <1>5, <1>6, <1>7, <1>8, <1>9, <1>10

(* A statement whose calls have all been made. *)
LEMMA StatementEnds ==
  ASSUME RegInv, NEW end, Ready(end)
  PROVE  /\ statement \in 1 .. Len(Program) /\ Current = Program[statement]
         /\ Current.end = end /\ Current \in Statement
         /\ SoFar = Chain(statement)
         /\ Assigned(statement + 1) = IF end = "assign" THEN Chain(statement)
                                      ELSE Assigned(statement)
         /\ MadeBefore(statement + 1) = {t \in Makes : t <= statement}
         /\ MadeBefore(statement + 1)
              = MadeBefore(statement) \union (IF end = "assign" THEN {} ELSE {statement})
         /\ IsFiniteSet(MadeBefore(statement)) /\ statement \notin MadeBefore(statement)
<1>1. /\ statement \in 1 .. Len(Program) /\ statement \in Nat /\ ~Calling /\ Current.end = end
      /\ Current = Program[statement] /\ called \in Nat
  BY ProgramType DEF RegInv, MakerOK, Ready, Current
<1>2. called = Len(Current.calls)
  BY <1>1, ProgramType DEF RegInv, PositionOK, Calling
<1>3. SoFar = Chain(statement)
  BY <1>1, <1>2, ProgramType DEF SoFar, Chain
<1>4. Assigned(statement + 1) = IF end = "assign" THEN Chain(statement) ELSE Assigned(statement)
  <2>1. {u \in DOMAIN Program : u < statement + 1 /\ Program[u].end = "assign"}
          = {u \in DOMAIN Program : u < statement /\ Program[u].end = "assign"}
              \union (IF end = "assign" THEN {statement} ELSE {})
    BY <1>1, ProgramType
  <2> QED BY <1>1, <2>1 DEF Assigned, Chain
<1>5. MadeBefore(statement + 1) = {t \in Makes : t <= statement}
  BY <1>1, ProgramType DEF MadeBefore, Makes
<1>6. MadeBefore(statement + 1)
        = MadeBefore(statement) \union (IF end = "assign" THEN {} ELSE {statement})
  BY <1>1, ProgramType DEF MadeBefore, Makes
<1>7. IsFiniteSet(MadeBefore(statement))
  <2>1. IsFiniteSet(1 .. Len(Program))
    BY ProgramType, FS_Interval
  <2>2. MadeBefore(statement) \in SUBSET (1 .. Len(Program))
    BY ProgramType DEF MadeBefore, Makes
  <2> QED BY <2>1, <2>2, FS_Subset
<1>8. statement \notin MadeBefore(statement)
  BY <1>1 DEF MadeBefore
<1> QED BY <1>1, <1>3, <1>4, <1>5, <1>6, <1>7, <1>8, ProgramType

LEMMA AssignStep ==
  ASSUME RegInv, Assign
  PROVE  RegInv'
<1>1. /\ Ready("assign") /\ maker' = temporary /\ temporary' = temporary
      /\ statement' = statement + 1 /\ called' = 0 /\ UNCHANGED benches
  BY DEF Assign, EndStatement
<1>2. /\ statement \in 1 .. Len(Program)
      /\ Assigned(statement + 1) = SoFar
      /\ MadeBefore(statement + 1) = MadeBefore(statement)
  BY <1>1, StatementEnds
<1>3. MakerOK'
  BY <1>1, <1>2, ProgramType DEF RegInv, MakerOK
<1>4. PositionOK'
  BY <1>1, <1>2, ProgramType DEF PositionOK, Current
<1>5. Assigned(statement)' = SoFar /\ SoFar' = SoFar
  <2>1. 1 .. 0 = {}
    OBVIOUS
  <2> QED BY <1>1, <1>2, <2>1 DEF SoFar, Assigned
<1>6. Says(maker, Assigned(statement))' /\ Says(temporary, SoFar)'
  BY <1>1, <1>5 DEF RegInv, Says
<1>7. RegisteredOK'
  BY <1>1, <1>2, ProgramType DEF RegInv, RegisteredOK, MadeBefore
<1> QED BY <1>3, <1>4, <1>6, <1>7 DEF RegInv

LEMMA MakeStep ==
  ASSUME RegInv, Make \/ MakeRaw
  PROVE  RegInv'
<1>1. PICK end \in {"make", "make_raw"}, warm_once \in Method, warm_every \in Method :
         /\ Ready(end) /\ Add(warm_once, warm_every) /\ EndStatement(maker)
         /\ IF end = "make_raw" THEN warm_once = inlined_empty /\ warm_every = inlined_empty
            ELSE warm_once = temporary.touch /\ warm_every = temporary.warm
  BY MakerAssumption DEF Make, MakeRaw, RegInv, MakerOK, Maker
<1>2. /\ maker' = maker /\ temporary' = maker
      /\ statement' = statement + 1 /\ called' = 0
  BY <1>1 DEF EndStatement
<1> DEFINE new == [method |-> Current.method, warm_once |-> warm_once,
                   warm_every |-> warm_every, loop_count |-> temporary.loop_count,
                   calibration |-> temporary.overhead, tags |-> temporary.tags,
                   features |-> temporary.features]
<1>3. benches' = Append(benches, new)
  BY <1>1 DEF Add
<1>4. /\ statement \in 1 .. Len(Program) /\ Current = Program[statement]
      /\ Current.end = end /\ Current \in Statement
      /\ SoFar = Chain(statement)
      /\ Assigned(statement + 1) = Assigned(statement)
      /\ MadeBefore(statement + 1) = {t \in Makes : t <= statement}
      /\ MadeBefore(statement + 1) = MadeBefore(statement) \union {statement}
      /\ IsFiniteSet(MadeBefore(statement)) /\ statement \notin MadeBefore(statement)
  BY <1>1, StatementEnds
<1>5. new \in Benchmark
  BY <1>1, <1>4 DEF RegInv, MakerOK, Maker, Benchmark, Statement
<1>6. AsAsked(new, statement)
  <2>1. Says(temporary, Chain(statement))
    BY <1>4 DEF RegInv
  <2> QED BY <1>1, <1>4, <2>1 DEF AsAsked, Says
<1> HIDE DEF new
<1>7. benches \in Seq(Benchmark) /\ Len(benches) \in Nat
  BY DEF RegInv, MakerOK
<1>8. MakerOK'
  <2>1. benches' \in Seq(Benchmark)
    BY <1>3, <1>5, <1>7
  <2> QED BY <1>2, <1>4, <2>1, ProgramType DEF RegInv, MakerOK
<1>9. PositionOK'
  BY <1>2, <1>4, ProgramType DEF PositionOK, Current
<1>10. Assigned(statement)' = Assigned(statement) /\ SoFar' = Assigned(statement)
  <2>1. 1 .. 0 = {}
    OBVIOUS
  <2> QED BY <1>2, <1>4, <2>1 DEF SoFar, Assigned
<1>11. Says(maker, Assigned(statement))' /\ Says(temporary, SoFar)'
  BY <1>2, <1>10 DEF RegInv, Says
<1>12. RegisteredOK'
  <2>1. Cardinality(MadeBefore(statement + 1)) = Cardinality(MadeBefore(statement)) + 1
    BY <1>4, FS_AddElement
  <2>2. Len(benches) = Cardinality(MadeBefore(statement))
    BY DEF RegInv, RegisteredOK
  <2>3. Len(benches') = Len(benches) + 1 /\ benches'[Len(benches) + 1] = new
    BY <1>3, <1>7
  <2>4. MadeBefore(statement)' = MadeBefore(statement + 1)
    BY <1>2 DEF MadeBefore
  <2>5. \A k \in DOMAIN benches : benches'[k] = benches[k]
    BY <1>3, <1>7
  <2>6. DOMAIN benches' = DOMAIN benches \union {Len(benches) + 1}
    BY <1>3, <1>7
  <2>7. statement \in Makes /\ statement < statement + 1
    BY <1>1, <1>4, ProgramType DEF Makes
  <2>8. \A s \in Makes : s < statement => s < statement + 1
    BY <1>4, ProgramType DEF Makes
  <2>9. Cardinality({t \in Makes : t <= statement}) = Len(benches) + 1
    BY <1>4, <2>1, <2>2
  <2>10. ASSUME NEW k \in DOMAIN benches'
         PROVE  \E s \in Makes : /\ s < statement + 1
                                 /\ Cardinality({t \in Makes : t <= s}) = k
                                 /\ AsAsked(benches'[k], s)
    <3>1. CASE k \in DOMAIN benches
      BY <2>5, <2>8, <3>1 DEF RegInv, RegisteredOK
    <3>2. CASE k = Len(benches) + 1
      BY <1>6, <2>3, <2>7, <2>9, <3>2
    <3> QED BY <2>6, <2>10, <3>1, <3>2
  <2> QED BY <1>2, <2>1, <2>2, <2>3, <2>4, <2>10 DEF RegisteredOK
<1> QED BY <1>8, <1>9, <1>11, <1>12 DEF RegInv

LEMMA RegisterStep ==
  ASSUME RegInv, Register
  PROVE  RegInv'
BY SetterStep, AssignStep, MakeStep DEF Register

LEMMA RegistrationStays ==
  ASSUME RegInv, UNCHANGED registration
  PROVE  RegInv'
BY DEF registration, RegInv, MakerOK, PositionOK, Current, Says, SoFar, Assigned,
       RegisteredOK, MadeBefore

(* Every statement that makes a benchmark has registered one at the end. *)
LEMMA SomethingRegistered ==
  ASSUME RegInv, Registered
  PROVE  Len(benches) \in Nat \ {0}
<1>1. PICK s \in DOMAIN Program : Program[s].end # "assign"
  BY MakerAssumption
<1>2. s \in MadeBefore(statement)
  BY <1>1, ProgramType DEF MadeBefore, Makes, Registered, RegInv, MakerOK
<1>3. IsFiniteSet(MadeBefore(statement))
  <2>1. IsFiniteSet(1 .. Len(Program))
    BY ProgramType, FS_Interval
  <2>2. MadeBefore(statement) \in SUBSET (1 .. Len(Program))
    BY ProgramType DEF MadeBefore, Makes
  <2> QED BY <2>1, <2>2, FS_Subset
<1> QED BY <1>2, <1>3, FS_EmptySet, FS_CardinalityType DEF RegInv, RegisteredOK

-----------------------------------------------------------------------------
(* The measurements, in the order runAndPrintInner takes them.             *)

(* Registration is over before anything is measured. *)
PhaseOK == IF pc = "register" THEN b = 1 ELSE Registered

(* The job of time_one, and when it calibrates. *)
JobOK ==
  /\ pc = "measure" => job = BenchJob
  /\ pc = "calibrate" => /\ job = OverheadJob(Bench.calibration)
                         /\ Bench.calibration = "default" => overhead = Unset

(* What is kept of the samples, as SamplesSound has it for time_one. *)
KeptSample(n) == Overhead + Cost(Bench.method, Bench.loop_count) + Cold(n)

KeptOK ==
  pc \in {"overhead", "calibrate", "subtract"} =>
    \A n \in Sample : /\ raw[n] >= KeptSample(n)
                      /\ n \notin spoiled => raw[n] = KeptSample(n)

(* The static is what every benchmark with the default calibration uses. *)
UsedOK ==
  /\ used \subseteq {overhead} /\ Unset \notin used
  /\ pc = "subtract" /\ Kind = "default" => overhead = current /\ overhead # Unset

IInv ==
  TypeOK /\ SamplesSound /\ ReadingOK /\ RegInv /\ PhaseOK /\ JobOK /\ KeptOK /\ UsedOK

LEMMA OverheadTotal ==
  /\ ONESHOT_OVERHEAD_TOTAL \in Nat \ {0} /\ ONESHOT_OVERHEAD_WARMUP \in Nat
  /\ ONESHOT_OVERHEAD_REAL \in Nat
  /\ Calibrating \subseteq 1 .. ONESHOT_OVERHEAD_TOTAL /\ Calibrating # {}
  /\ IsFiniteSet(Calibrating) /\ Cardinality(Calibrating) = ONESHOT_OVERHEAD_REAL
<1>1. /\ ONESHOT_OVERHEAD_WARMUP \in Nat /\ ONESHOT_OVERHEAD_REAL \in Nat
      /\ ONESHOT_OVERHEAD_REAL # 0
  BY OneshotAssumption
<1>2. ONESHOT_OVERHEAD_TOTAL \in Nat \ {0}
  BY <1>1 DEF ONESHOT_OVERHEAD_TOTAL
<1>3. Calibrating \subseteq 1 .. ONESHOT_OVERHEAD_TOTAL /\ Calibrating # {}
  <2>1. ONESHOT_OVERHEAD_TOTAL \in Calibrating
    BY <1>1 DEF Calibrating, ONESHOT_OVERHEAD_TOTAL
  <2> QED BY <1>1, <2>1 DEF Calibrating, ONESHOT_OVERHEAD_TOTAL
<1>4. IsFiniteSet(Calibrating) /\ Cardinality(Calibrating) = ONESHOT_OVERHEAD_REAL
  <2> DEFINE a == ONESHOT_OVERHEAD_WARMUP + 1
             c == ONESHOT_OVERHEAD_WARMUP + ONESHOT_OVERHEAD_REAL
  <2>1. a \in Int /\ c \in Int /\ ~(a > c) /\ c - a + 1 = ONESHOT_OVERHEAD_REAL
    BY <1>1
  <2>2. Calibrating = a .. c
    BY DEF Calibrating, ONESHOT_OVERHEAD_TOTAL
  <2> HIDE DEF a, c
  <2> QED BY <2>1, <2>2, FS_Interval
<1> QED BY <1>1, <1>2, <1>3, <1>4

LEMMA CalibrationJob ==
  ASSUME NEW kind
  PROVE  /\ OverheadJob(kind) \in Job
         /\ OverheadJob(kind).samples = ONESHOT_OVERHEAD_TOTAL
         /\ CalibrationMethod(kind) \in Method
<1>1. CalibrationMethod(kind) \in Method /\ inlined_empty \in Method
  BY OneshotAssumption, MakerAssumption DEF CalibrationMethod
<1> QED BY <1>1, OverheadTotal DEF OverheadJob, Job

LEMMA BenchType ==
  ASSUME IInv, pc # "register"
  PROVE  /\ b \in 1 .. Len(benches) /\ Bench \in Benchmark
         /\ BenchJob \in Job /\ BenchJob.samples = samples
         /\ samples \in Nat \ {0} /\ IsFiniteSet(Sample) /\ Cardinality(Sample) = samples
         /\ Sample # {}
<1>1. b \in 1 .. Len(benches) /\ benches \in Seq(Benchmark)
  BY DEF IInv, TypeOK, MakerOK
<1>2. Bench \in Benchmark
  BY <1>1 DEF Bench
<1>3. samples \in Nat \ {0}
  BY OneshotAssumption
<1>4. BenchJob \in Job /\ BenchJob.samples = samples
  BY <1>2, <1>3 DEF Benchmark, BenchJob, Job
<1>5. IsFiniteSet(Sample) /\ Cardinality(Sample) = samples
  <2>1. ~(1 > samples) /\ samples - 1 + 1 = samples
    BY <1>3
  <2> QED BY <1>3, <2>1, FS_Interval DEF Sample
<1>6. Sample # {}
  BY <1>3 DEF Sample
<1> QED BY <1>1, <1>2, <1>3, <1>4, <1>5, <1>6

LEMMA InitIInv == Init => IInv
<1> SUFFICES ASSUME Init PROVE IInv
  OBVIOUS
<1>1. RegInv
  BY RegisterInit DEF Init
<1>2. job \in Job /\ job.samples \in Nat \ {0}
  BY CalibrationJob, OverheadTotal DEF Init
<1>3. TimingOK
  BY <1>2, TimingAssumption DEF Init, TimingInit, TimingOK
<1>4. TypeOK
  BY <1>1, <1>3 DEF Init, TypeOK, RegInv
<1>5. SamplesSound /\ ReadingOK
  BY DEF Init, TimingInit, SamplesSound, ReadingOK, Taken, Loop
<1>6. PhaseOK /\ JobOK /\ KeptOK /\ UsedOK
  BY DEF Init, PhaseOK, JobOK, KeptOK, UsedOK
<1> QED BY <1>1, <1>4, <1>5, <1>6 DEF IInv

-----------------------------------------------------------------------------
(* The steps. *)

LEMMA RegisteringStep ==
  ASSUME IInv, Register, UNCHANGED measuring
  PROVE  IInv'
<1>1. statement <= Len(Program)
  BY DEF Register, setTags, setFeatures, setLoopCount, withTouch, withWarm, withOverhead,
         Return, Calling, Assign, Make, MakeRaw, Ready
<1>2. pc = "register" /\ UNCHANGED <<timing, process>>
  BY <1>1, ProgramType DEF IInv, PhaseOK, Registered, RegInv, MakerOK, measuring
<1>3. RegInv'
  BY RegisterStep DEF IInv
<1>4. TimingOK' /\ SamplesSound' /\ ReadingOK'
  BY <1>2, TimingStays DEF IInv, TypeOK
<1>5. b = 1
  BY <1>2 DEF IInv, PhaseOK
<1>6. TypeOK'
  BY <1>2, <1>3, <1>4, <1>5 DEF IInv, TypeOK, RegInv, process
<1>7. PhaseOK' /\ JobOK' /\ KeptOK' /\ UsedOK'
  BY <1>2 DEF IInv, PhaseOK, JobOK, KeptOK, UsedOK, process
<1> QED BY <1>3, <1>4, <1>6, <1>7 DEF IInv

LEMMA StartRunStep ==
  ASSUME IInv, StartRun, UNCHANGED registration
  PROVE  IInv'
<1>1. pc = "register" /\ pc' = "run" /\ Registered
      /\ UNCHANGED <<timing, b, raw, overhead, current, median, spoiled, sound, used>>
  BY DEF StartRun
<1>2. RegInv'
  BY RegistrationStays DEF IInv
<1>3. TimingOK' /\ SamplesSound' /\ ReadingOK'
  BY <1>1, TimingStays DEF IInv, TypeOK
<1>4. b' \in 1 .. Len(benches)'
  BY <1>1, SomethingRegistered DEF IInv, TypeOK, registration
<1>5. TypeOK'
  BY <1>1, <1>2, <1>3, <1>4 DEF IInv, TypeOK, RegInv
<1>6. PhaseOK' /\ JobOK' /\ KeptOK' /\ UsedOK'
  BY <1>1 DEF IInv, PhaseOK, JobOK, KeptOK, UsedOK, Registered, registration
<1> QED BY <1>2, <1>3, <1>5, <1>6 DEF IInv

LEMMA RunStep ==
  ASSUME IInv, Run, UNCHANGED registration
  PROVE  IInv'
<1>1. /\ pc = "run" /\ pc' = "measure" /\ Call(BenchJob)
      /\ UNCHANGED <<clock, events, b, raw, overhead, current, median, spoiled, sound, used>>
  BY DEF Run
<1>2. BenchJob \in Job /\ BenchJob' = BenchJob /\ job' = BenchJob
  BY <1>1, BenchType DEF BenchJob, Bench, registration, Call
<1>3. RegInv'
  BY RegistrationStays DEF IInv
<1>4. TimingOK' /\ SamplesSound' /\ ReadingOK'
  BY <1>1, <1>2, CallStep DEF IInv, TypeOK
<1>5. TypeOK'
  BY <1>1, <1>3, <1>4 DEF IInv, TypeOK, RegInv, registration
<1>6. PhaseOK' /\ JobOK' /\ KeptOK' /\ UsedOK'
  BY <1>1, <1>2 DEF IInv, PhaseOK, JobOK, KeptOK, UsedOK, Registered, registration
<1> QED BY <1>3, <1>4, <1>5, <1>6 DEF IInv

LEMMA MeasuredStep ==
  ASSUME IInv, Measured, UNCHANGED registration
  PROVE  IInv'
<1>1. /\ pc = "measure" /\ step = "returned" /\ pc' = "overhead"
      /\ raw' = result /\ spoiled' = disturbed
      /\ UNCHANGED <<timing, b, overhead, current, median, sound, used>>
  BY DEF Measured
<1>2. RegInv'
  BY RegistrationStays DEF IInv
<1>3. TimingOK' /\ SamplesSound' /\ ReadingOK'
  BY <1>1, TimingStays DEF IInv, TypeOK
<1>4. job = BenchJob /\ job.samples = samples
  BY <1>1, BenchType DEF IInv, JobOK
<1>5. TypeOK'
  BY <1>1, <1>2, <1>3, <1>4 DEF IInv, TypeOK, TimingOK, RegInv, Sample, registration
<1>6. KeptOK'
  <2>1. \A n \in Sample : /\ result[n] >= Undisturbed(n)
                          /\ n \notin disturbed => result[n] = Undisturbed(n)
    BY <1>1, <1>4 DEF IInv, SamplesSound, Taken, Sample
  <2>2. \A n \in Sample : Undisturbed(n) = KeptSample(n)
    BY <1>4 DEF Undisturbed, KeptSample, BenchJob
  <2>3. \A n \in Sample : KeptSample(n)' = KeptSample(n)
    BY <1>1 DEF KeptSample, Bench, registration
  <2> QED BY <1>1, <2>1, <2>2, <2>3 DEF KeptOK
<1>7. PhaseOK' /\ JobOK' /\ UsedOK'
  BY <1>1 DEF IInv, PhaseOK, JobOK, UsedOK, Registered, registration
<1> QED BY <1>2, <1>3, <1>5, <1>6, <1>7 DEF IInv

(* What is kept stays as it is while the calibration runs. *)
LEMMA KeptStays ==
  ASSUME IInv, pc \in {"overhead", "calibrate"}, UNCHANGED <<b, raw, spoiled, registration>>
  PROVE  \A n \in Sample : /\ raw'[n] >= KeptSample(n)'
                           /\ n \notin spoiled' => raw'[n] = KeptSample(n)'
BY DEF IInv, KeptOK, KeptSample, Bench, registration

LEMMA ReuseOverheadStep ==
  ASSUME IInv, ReuseOverhead, UNCHANGED registration
  PROVE  IInv'
<1>1. /\ pc = "overhead" /\ Kind = "default" /\ overhead # Unset
      /\ current' = overhead /\ pc' = "subtract"
      /\ UNCHANGED <<timing, b, raw, overhead, median, spoiled, sound, used>>
  BY DEF ReuseOverhead, Kind
<1>2. RegInv'
  BY RegistrationStays DEF IInv
<1>3. TimingOK' /\ SamplesSound' /\ ReadingOK'
  BY <1>1, TimingStays DEF IInv, TypeOK
<1>4. TypeOK'
  BY <1>1, <1>2, <1>3 DEF IInv, TypeOK, RegInv, registration
<1>5. KeptOK'
  BY <1>1, KeptStays DEF KeptOK
<1>6. PhaseOK' /\ JobOK' /\ UsedOK'
  BY <1>1 DEF IInv, PhaseOK, JobOK, UsedOK, Registered, registration
<1> QED BY <1>2, <1>3, <1>4, <1>5, <1>6 DEF IInv

LEMMA CalibrateStep ==
  ASSUME IInv, Calibrate, UNCHANGED registration
  PROVE  IInv'
<1>1. /\ pc = "overhead" /\ pc' = "calibrate"
      /\ Bench.calibration = "default" => overhead = Unset
      /\ Call(OverheadJob(Bench.calibration))
      /\ UNCHANGED <<clock, events, b, raw, overhead, current, median, spoiled, sound, used>>
  BY DEF Calibrate
<1>2. Bench' = Bench
  BY <1>1 DEF Bench, registration
<1>3. OverheadJob(Bench.calibration) \in Job /\ job' = OverheadJob(Bench.calibration)
  BY <1>1, CalibrationJob DEF Call
<1>4. RegInv'
  BY RegistrationStays DEF IInv
<1>5. TimingOK' /\ SamplesSound' /\ ReadingOK'
  BY <1>1, <1>3, CallStep DEF IInv, TypeOK
<1>6. TypeOK'
  BY <1>1, <1>4, <1>5 DEF IInv, TypeOK, RegInv, registration
<1>7. KeptOK'
  BY <1>1, KeptStays DEF KeptOK
<1>8. PhaseOK' /\ JobOK' /\ UsedOK'
  BY <1>1, <1>2, <1>3 DEF IInv, PhaseOK, JobOK, UsedOK, Registered, registration, OverheadJob,
                          CalibrationMethod
<1> QED BY <1>4, <1>5, <1>6, <1>7, <1>8 DEF IInv

(* The deltas of a calibration that has returned. *)
LEMMA CalibrationDone ==
  ASSUME IInv, pc = "calibrate", step = "returned"
  PROVE  /\ \A n \in Calibrating : result[n] \in Int
         /\ \A n \in Calibrating : /\ result[n] >= Undisturbed(n)
                                   /\ n \notin disturbed => result[n] = Undisturbed(n)
         /\ medianf(result, Calibrating) \in Int
<1>1. job.samples = ONESHOT_OVERHEAD_TOTAL
  BY CalibrationJob DEF IInv, JobOK
<1>2. \A n \in Calibrating : n \in 1 .. job.samples
  BY <1>1, OverheadTotal
<1>3. \A n \in Calibrating : result[n] \in Int
  BY <1>2 DEF IInv, TypeOK, TimingOK
<1>4. \A n \in Calibrating : /\ result[n] >= Undisturbed(n)
                             /\ n \notin disturbed => result[n] = Undisturbed(n)
  BY <1>2 DEF IInv, SamplesSound, Taken
<1>5. medianf(result, Calibrating) \in Int
  BY <1>3, MedianType, OverheadTotal
<1> QED BY <1>3, <1>4, <1>5

LEMMA CalibratedStep ==
  ASSUME IInv, Calibrated, UNCHANGED registration
  PROVE  IInv'
<1>1. /\ pc = "calibrate" /\ step = "returned" /\ pc' = "subtract"
      /\ current' = medianf(result, Calibrating)
      /\ overhead' = IF Kind = "default" THEN current' ELSE overhead
      /\ sound' \in {sound \union {Kind}, sound \ {Kind}}
      /\ UNCHANGED <<timing, b, raw, median, spoiled, used>>
  BY DEF Calibrated, Kind
<1>2. RegInv'
  BY RegistrationStays DEF IInv
<1>3. TimingOK' /\ SamplesSound' /\ ReadingOK'
  BY <1>1, TimingStays DEF IInv, TypeOK
<1>4. current' \in Int /\ current' # Unset
  BY <1>1, CalibrationDone, OneshotAssumption
<1>5. Kind \in {"default", "raw"} /\ Kind' = Kind
  BY <1>1, BenchType DEF Kind, Benchmark, Bench, registration
<1>6. TypeOK'
  BY <1>1, <1>2, <1>3, <1>4, <1>5 DEF IInv, TypeOK, RegInv, registration
<1>7. KeptOK'
  BY <1>1, KeptStays DEF KeptOK
<1>8. UsedOK'
  <2>1. Kind = "default" => used = {}
    BY <1>1 DEF IInv, JobOK, UsedOK, Kind
  <2> QED BY <1>1, <1>4, <1>5, <2>1 DEF IInv, UsedOK
<1>9. PhaseOK' /\ JobOK'
  BY <1>1 DEF IInv, PhaseOK, JobOK, Registered, registration
<1> QED BY <1>2, <1>3, <1>6, <1>7, <1>8, <1>9 DEF IInv

LEMMA PrintingSteps ==
  ASSUME IInv, RemoveOverhead \/ PrintSamples \/ NextBench, UNCHANGED registration
  PROVE  IInv'
<1>1. /\ UNCHANGED <<timing, overhead, current, spoiled, sound>>
      /\ pc \in {"subtract", "print", "next"} /\ pc' \in {"print", "next", "run", "done"}
  BY DEF RemoveOverhead, PrintSamples, NextBench
<1>2. RegInv'
  BY RegistrationStays DEF IInv
<1>3. TimingOK' /\ SamplesSound' /\ ReadingOK'
  BY <1>1, TimingStays DEF IInv, TypeOK
<1>4. b \in 1 .. Len(benches) /\ Len(benches) \in Nat
  BY <1>1, BenchType DEF IInv, RegInv, MakerOK
<1>5. b' \in 1 .. Len(benches)'
  BY <1>4 DEF RemoveOverhead, PrintSamples, NextBench, registration
<1>6. raw' \in [Sample -> Int] /\ used' \subseteq Int
  <2>1. raw \in [Sample -> Int] /\ used \subseteq Int /\ current \in Int
    BY DEF IInv, TypeOK
  <2>2. \A n \in Sample : raw[n] - current \in Int
    BY <2>1
  <2>3. CASE RemoveOverhead
    BY <2>1, <2>2, <2>3 DEF RemoveOverhead
  <2>4. CASE PrintSamples \/ NextBench
    BY <2>1, <2>4 DEF PrintSamples, NextBench
  <2> QED BY <2>3, <2>4
<1>7. median' \in Int
  <2>1. CASE PrintSamples
    <3>1. raw \in [Sample -> Int]
      BY DEF IInv, TypeOK
    <3>2. medianf(raw, Sample) \in Int
      BY <1>1, <3>1, BenchType, MedianType
    <3> QED BY <2>1, <3>2 DEF PrintSamples
  <2>2. CASE RemoveOverhead \/ NextBench
    BY <2>2 DEF RemoveOverhead, NextBench, IInv, TypeOK
  <2> QED BY <2>1, <2>2
<1>8. TypeOK'
  BY <1>1, <1>2, <1>3, <1>5, <1>6, <1>7 DEF IInv, TypeOK, RegInv
<1>9. UsedOK'
  BY <1>1 DEF IInv, UsedOK, RemoveOverhead, PrintSamples, NextBench, Kind
<1>10. PhaseOK' /\ JobOK' /\ KeptOK'
  BY <1>1 DEF IInv, PhaseOK, JobOK, KeptOK, Registered, registration
<1> QED BY <1>2, <1>3, <1>8, <1>9, <1>10 DEF IInv

LEMMA TimingStepStep ==
  ASSUME IInv, TimingStep, UNCHANGED registration
  PROVE  IInv'
<1>1. LoopStep \/ Disturb
  BY DEF TimingStep
<1>2. pc \in {"measure", "calibrate"} /\ UNCHANGED process
  BY DEF TimingStep
<1>3. TimingOK' /\ SamplesSound' /\ ReadingOK' /\ UNCHANGED job
  BY <1>1, LoopKeepsSamplesSound DEF IInv, TypeOK
<1>4. RegInv'
  BY RegistrationStays DEF IInv
<1>5. TypeOK'
  BY <1>2, <1>3, <1>4 DEF IInv, TypeOK, RegInv, process, registration
<1>6. PhaseOK' /\ JobOK' /\ UsedOK'
  BY <1>2, <1>3 DEF IInv, PhaseOK, JobOK, UsedOK, BenchJob, OverheadJob, CalibrationMethod,
                    Bench, Kind, Registered, process, registration
<1>7. KeptOK'
  BY <1>2, KeptStays DEF KeptOK, process
<1> QED BY <1>3, <1>4, <1>5, <1>6, <1>7 DEF IInv

LEMMA NextIInv == IInv /\ [Next]_vars => IInv'
<1> SUFFICES ASSUME IInv, [Next]_vars PROVE IInv'
  OBVIOUS
<1>1. CASE Register /\ UNCHANGED measuring
  BY <1>1, RegisteringStep
<1>2. CASE Measure /\ UNCHANGED registration
  BY <1>2, StartRunStep, RunStep, MeasuredStep, ReuseOverheadStep, CalibrateStep,
     CalibratedStep, PrintingSteps, TimingStepStep DEF Measure
<1>3. CASE UNCHANGED vars
  <2>1. UNCHANGED <<timing, process, registration>>
    BY <1>3 DEF vars, measuring
  <2>2. TimingOK' /\ SamplesSound' /\ ReadingOK' /\ RegInv'
    BY <2>1, TimingStays, RegistrationStays DEF IInv, TypeOK
  <2>3. TypeOK'
    BY <2>1, <2>2 DEF IInv, TypeOK, RegInv, process, registration
  <2>4. PhaseOK' /\ JobOK' /\ KeptOK' /\ UsedOK'
    BY <2>1 DEF IInv, PhaseOK, JobOK, KeptOK, UsedOK, KeptSample, BenchJob, OverheadJob,
                CalibrationMethod, Bench, Kind, Registered, process, registration, timing
  <2> QED BY <2>2, <2>3, <2>4 DEF IInv
<1> QED BY <1>1, <1>2, <1>3 DEF Next

(* The strengthening the theorems below rest on: what a maker says at each *)
(* call, which job time_one runs, what each sample is made of, and that    *)
(* what was subtracted so far is the static.                               *)
THEOREM IInvInvariant == Spec => []IInv
BY InitIInv, NextIInv, PTL DEF Spec

(* Every variable keeps its type: there is always a median, signed or      *)
(* unsigned, and a run has a benchmark to measure.                         *)
THEOREM TypeCorrect == Spec => []TypeOK
<1>1. IInv => TypeOK
  BY DEF IInv
<1> QED BY <1>1, IInvInvariant, PTL

(* Every benchmark is registered the way its own statement and the         *)
(* assignments before it say, for every program of setters: loop count,    *)
(* calibration and warm-up survive the other setters (oneshot.hpp:214-233) *)
(* and do not leak from one benchmark into the next.                       *)
THEOREM AlwaysMeasuredAsAsked == Spec => []MeasuredAsAsked
<1>1. IInv => MeasuredAsAsked
  BY DEF IInv, RegInv, RegisteredOK, MeasuredAsAsked
<1> QED BY <1>1, IInvInvariant, PTL

(* oneshot.hpp:157-167: the static is filled in once, so that all          *)
(* benchmarks with the default calibration have the same number            *)
(* subtracted, whatever disturbed it.                                      *)
THEOREM AlwaysSameOverhead == Spec => []SameOverhead
<1>1. IInv => SameOverhead
  <2> SUFFICES ASSUME IInv PROVE Cardinality(used) <= 1
    BY DEF SameOverhead
  <2>1. used = {} \/ used = {overhead}
    BY DEF IInv, UsedOK
  <2>2. Cardinality({}) = 0 /\ Cardinality({overhead}) = 1
    BY FS_EmptySet, FS_Singleton
  <2>3. CASE used = {}
    BY <2>2, <2>3
  <2>4. CASE used = {overhead}
    BY <2>2, <2>4
  <2> QED BY <2>1, <2>3, <2>4
<1> QED BY <1>1, IInvInvariant, PTL

-----------------------------------------------------------------------------
(* Exact samples.  A calibration whose majority is quiet is exact when its *)
(* comparisons are signed, and what is subtracted then leaves METHOD.      *)

WarmEnough == ColdCalls <= ONESHOT_OVERHEAD_WARMUP

CalibrationTime(kind) == Overhead + Cost(CalibrationMethod(kind), 0)

CalibrationOK ==
  /\ "default" \in sound /\ WarmEnough => overhead = CalibrationTime("default")
  /\ pc = "subtract" /\ Kind \in sound /\ WarmEnough => current = CalibrationTime(Kind)

ExactOK ==
  pc \in {"print", "next"} /\ Kind \in sound /\ WarmEnough =>
    \A n \in Sample : /\ raw[n] >= TrueSample(n)
                      /\ n \notin spoiled => raw[n] = TrueSample(n)

SignedInv == CalibrationOK /\ ExactOK /\ MedianRight

LEMMA CalibrationTimeType ==
  ASSUME NEW kind
  PROVE  CalibrationTime(kind) \in Nat
<1>1. Cost(CalibrationMethod(kind), 0) \in Nat /\ Overhead \in Nat
  BY CalibrationJob, CostType, TimingAssumption
<1> QED BY <1>1 DEF CalibrationTime

LEMMA CalibrationExact ==
  ASSUME ~UnsignedAggr, IInv, pc = "calibrate", step = "returned", WarmEnough,
         Cardinality(disturbed \cap Calibrating) <= ONESHOT_OVERHEAD_REAL \div 2
  PROVE  medianf(result, Calibrating) = CalibrationTime(Kind)
<1> DEFINE truth == CalibrationTime(Kind)
           half == ONESHOT_OVERHEAD_REAL \div 2
           D == disturbed \cap Calibrating
<1>1. half \in Nat /\ Cardinality(Calibrating) = 2 * half + 1
  <2>1. ONESHOT_OVERHEAD_REAL \in Nat /\ ONESHOT_OVERHEAD_REAL % 2 = 1
    BY OneshotAssumption
  <2>2. \A r \in Nat : r % 2 = 1 => r \div 2 \in Nat /\ r = 2 * (r \div 2) + 1
    OBVIOUS
  <2> QED BY <2>1, <2>2, OverheadTotal
<1>2. \A n \in Calibrating : Cold(n) = 0
  BY OverheadTotal, TimingAssumption DEF WarmEnough, Calibrating, Cold
<1>3. truth \in Int
  BY CalibrationTimeType
<1>4. \A n \in Calibrating : Undisturbed(n) = truth
  <2>1. job.method = CalibrationMethod(Kind) /\ job.loop_count = 0
    BY DEF IInv, JobOK, OverheadJob, Kind
  <2>2. Overhead \in Nat /\ Cost(CalibrationMethod(Kind), 0) \in Nat
    BY CalibrationJob, CostType, TimingAssumption
  <2> QED BY <1>2, <2>1, <2>2 DEF Undisturbed, CalibrationTime
<1>5. \A n \in Calibrating : /\ result[n] \in Int
                             /\ result[n] >= truth
                             /\ n \notin D => result[n] = truth
  BY <1>4, CalibrationDone
<1>6. D \in SUBSET Calibrating /\ Cardinality(D) <= half
  OBVIOUS
<1> HIDE DEF truth, half, D
<1>7. medianf(result, Calibrating) = truth
  BY <1>1, <1>3, <1>5, <1>6, QuietMedian, OverheadTotal
<1> QED BY <1>7 DEF truth

LEMMA SignedStep ==
  ASSUME ~UnsignedAggr, IInv, SignedInv, [Next]_vars
  PROVE  SignedInv'
<1>1. CASE Register /\ UNCHANGED measuring
  <2>1. statement <= Len(Program)
    BY <1>1 DEF Register, setTags, setFeatures, setLoopCount, withTouch, withWarm,
         withOverhead, Return, Calling, Assign, Make, MakeRaw, Ready
  <2>2. pc = "register" /\ UNCHANGED process
    BY <1>1, <2>1, ProgramType DEF IInv, PhaseOK, Registered, RegInv, MakerOK, measuring
  <2> QED BY <2>2 DEF SignedInv, CalibrationOK, ExactOK, MedianRight, process
<1>2. CASE /\ UNCHANGED registration
           /\ \/ StartRun \/ Run \/ Measured \/ Calibrate \/ NextBench \/ TimingStep
  <2>1. /\ UNCHANGED <<overhead, sound>>
        /\ pc' \notin {"subtract", "print", "next"}
    BY <1>2 DEF StartRun, Run, Measured, Calibrate, NextBench, TimingStep, process
  <2> QED BY <2>1 DEF SignedInv, CalibrationOK, ExactOK, MedianRight
<1>3. CASE ReuseOverhead /\ UNCHANGED registration
  <2>1. /\ Kind = "default" /\ Kind' = Kind /\ current' = overhead /\ pc' = "subtract"
        /\ UNCHANGED <<overhead, sound>>
    BY <1>3 DEF ReuseOverhead, Kind, Bench, registration
  <2> QED BY <2>1 DEF SignedInv, CalibrationOK, ExactOK, MedianRight
<1>4. CASE Calibrated /\ UNCHANGED registration
  <2> DEFINE quiet == Cardinality(disturbed \cap Calibrating) <= ONESHOT_OVERHEAD_REAL \div 2
  <2>1. /\ pc = "calibrate" /\ step = "returned" /\ pc' = "subtract"
        /\ current' = medianf(result, Calibrating)
        /\ overhead' = IF Kind = "default" THEN current' ELSE overhead
        /\ sound' = IF quiet THEN sound \union {Kind} ELSE sound \ {Kind}
        /\ Kind' = Kind
    BY <1>4 DEF Calibrated, Kind, Bench, registration
  <2>2. quiet /\ WarmEnough => current' = CalibrationTime(Kind)
    BY <2>1, CalibrationExact
  <2> HIDE DEF quiet
  <2>3. Kind \in sound' => quiet
    BY <2>1
  <2>4. "default" \in sound' /\ WarmEnough => overhead' = CalibrationTime("default")
    <3>1. CASE Kind = "default"
      BY <2>1, <2>2, <2>3, <3>1
    <3>2. CASE Kind # "default"
      BY <2>1, <3>2 DEF SignedInv, CalibrationOK
    <3> QED BY <3>1, <3>2
  <2> QED BY <2>1, <2>2, <2>3, <2>4 DEF SignedInv, CalibrationOK, ExactOK, MedianRight
<1>5. CASE RemoveOverhead /\ UNCHANGED registration
  <2>1. /\ pc = "subtract" /\ pc' = "print"
        /\ raw' = [n \in Sample |-> raw[n] - current]
        /\ UNCHANGED <<overhead, spoiled, sound>>
        /\ Kind' = Kind /\ Bench' = Bench
    BY <1>5 DEF RemoveOverhead, Kind, Bench, registration
  <2>2. ASSUME Kind \in sound, WarmEnough, NEW n \in Sample
        PROVE  /\ raw'[n] >= TrueSample(n)
               /\ n \notin spoiled => raw'[n] = TrueSample(n)
    <3>1. current = CalibrationTime(Kind)
      BY <2>1, <2>2 DEF SignedInv, CalibrationOK
    <3>2. /\ raw[n] >= KeptSample(n)
          /\ n \notin spoiled => raw[n] = KeptSample(n)
          /\ raw[n] \in Int
      BY <2>1 DEF IInv, KeptOK, TypeOK
    <3> DEFINE C == Cost(Bench.method, Bench.loop_count)
               D == Cost(CalibrationMethod(Kind), 0)
    <3>3. C \in Nat /\ D \in Nat /\ Overhead \in Nat /\ Cold(n) \in Nat
      BY <2>1, BenchType, CalibrationJob, CostType, ColdType, TimingAssumption DEF Benchmark
    <3>4. /\ KeptSample(n) = Overhead + C + Cold(n)
          /\ CalibrationTime(Kind) = Overhead + D
          /\ TrueSample(n) = C + Cold(n) - D
      BY DEF KeptSample, CalibrationTime, TrueSample
    <3>5. raw'[n] = raw[n] - current
      BY <2>1
    <3> HIDE DEF C, D
    <3> QED BY <3>1, <3>2, <3>3, <3>4, <3>5
  <2>3. \A n : TrueSample(n)' = TrueSample(n)
    BY <2>1 DEF TrueSample, Kind
  <2>4. ExactOK'
    BY <2>1, <2>2, <2>3 DEF ExactOK
  <2> QED BY <2>1, <2>4 DEF SignedInv, CalibrationOK, MedianRight
<1>6. CASE PrintSamples /\ UNCHANGED registration
  <2>1. /\ pc = "print" /\ pc' = "next" /\ median' = medianf(raw, Sample)
        /\ UNCHANGED <<raw, overhead, spoiled, sound>>
        /\ Kind' = Kind /\ Bench' = Bench
    BY <1>6 DEF PrintSamples, Kind, Bench, registration
  <2>2. \A n : TrueSample(n)' = TrueSample(n)
    BY <2>1 DEF TrueSample, Kind
  <2>3. ExactOK'
    BY <2>1, <2>2 DEF SignedInv, ExactOK
  <2>4. MedianRight'
    <3>1. /\ IsFiniteSet(Sample) /\ Sample # {} /\ Cardinality(Sample) = samples
          /\ \A n \in Sample : raw[n] \in Int
      BY <2>1, BenchType DEF IInv, TypeOK
    <3> QED BY <2>1, <3>1, SignedMedian DEF MedianRight
  <2> QED BY <2>1, <2>3, <2>4 DEF SignedInv, CalibrationOK
<1>7. CASE UNCHANGED vars
  BY <1>7 DEF vars, measuring, process, registration, SignedInv, CalibrationOK, ExactOK,
              MedianRight, TrueSample, Kind, Bench
<1> QED BY <1>1, <1>2, <1>3, <1>4, <1>5, <1>6, <1>7 DEF Next, Measure

LEMMA SignedInvariant ==
  ASSUME ~UnsignedAggr
  PROVE  Spec => []SignedInv
<1>1. Init => SignedInv
  BY DEF Init, SignedInv, CalibrationOK, ExactOK, MedianRight
<1>2. IInv /\ SignedInv /\ [Next]_vars => SignedInv'
  BY SignedStep
<1> QED BY <1>1, <1>2, IInvInvariant, PTL DEF Spec

(* removeOverhead and the calibration (oneshot.hpp:63-80, 175-187) with a  *)
(* timer whose comparisons are signed: an undisturbed sample shows exactly *)
(* METHOD and no sample less, as long as less than half of the calibration *)
(* was disturbed, for every number and length of disturbances.             *)
THEOREM SamplesAlwaysExact ==
  ASSUME ~UnsignedAggr
  PROVE  Spec => []SamplesExact
<1>1. SignedInv => SamplesExact
  BY DEF SignedInv, ExactOK, SamplesExact, WarmEnough
<1> QED BY <1>1, SignedInvariant, PTL

(* TimerHelper::median with such a timer: what is printed as the median is *)
(* a sample, with at least half of the samples on either side of it, for   *)
(* every number of samples, odd or even.                                   *)
THEOREM MedianAlwaysRight ==
  ASSUME ~UnsignedAggr
  PROVE  Spec => []MedianRight
<1>1. SignedInv => MedianRight
  BY DEF SignedInv
<1> QED BY <1>1, SignedInvariant, PTL

=============================================================================
