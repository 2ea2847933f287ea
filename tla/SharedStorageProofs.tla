------------------------ MODULE SharedStorageProofs ------------------------
(***************************************************************************)
(* Theorems about the memory lent to the benchmarks, for every size of a   *)
(* line, a page, a huge page and the storages, every set of calls with     *)
(* their alignments, sizes and offsets, and every placement of the blocks. *)
(***************************************************************************)
EXTENDS SharedStorage, FiniteSetTheorems, WellFoundedInduction, TLAPS

-----------------------------------------------------------------------------
(* Arithmetic. *)

LEMMA Products ==
  /\ \A a, b \in Nat : a * b \in Nat
  /\ \A a, b \in Int : a * b \in Int /\ a * b = b * a
  /\ \A a, b, c \in Int : (a + b) * c = a * c + b * c
  /\ \A a, b, c \in Int : (a * b) * c = a * (b * c)
  /\ \A a, b, c \in Nat : a <= b => a * c <= b * c
OBVIOUS

LEMMA Division ==
  ASSUME NEW a \in Nat, NEW b \in Nat \ {0}
  PROVE  /\ a \div b \in Nat /\ a % b \in 0 .. b - 1
         /\ a = b * (a \div b) + (a % b)
OBVIOUS

LEMMA Multiple ==
  ASSUME NEW q \in Nat, NEW b \in Nat \ {0}, NEW r \in 0 .. b - 1
  PROVE  (b * q + r) \div b = q /\ (b * q + r) % b = r
<1> DEFINE p == b * q
<1>1. p \in Nat
  BY Products
<1>2. \A a \in Nat : a = b * q + r => a \div b = q /\ a % b = r
  OBVIOUS
<1>3. p + r \in Nat
  BY <1>1
<1> QED BY <1>2, <1>3

LEMMA Aligned ==
  ASSUME NEW a \in Nat, NEW b \in Nat \ {0}
  PROVE  IsAligned(a, b) <=> \E q \in Nat : a = b * q
<1>1. ASSUME IsAligned(a, b) PROVE a = b * (a \div b)
  <2> DEFINE q == a \div b
             p == b * q
  <2>1. a = p + (a % b) /\ p \in Nat /\ a % b = 0
    BY <1>1, Division, Products DEF IsAligned
  <2> HIDE DEF p
  <2>2. a = p
    BY <2>1
  <2> QED BY <2>2 DEF p
<1>2. ASSUME NEW q \in Nat, a = b * q PROVE IsAligned(a, b)
  <2> DEFINE p == b * q
  <2>1. p \in Nat /\ (p + 0) % b = 0
    BY Multiple, Products
  <2> HIDE DEF p
  <2>2. p % b = 0
    BY <2>1
  <2> QED BY <1>2, <2>2 DEF IsAligned, p
<1> QED BY <1>1, <1>2, Division

LEMMA AlignUpFacts ==
  ASSUME NEW a \in Nat, NEW b \in Nat \ {0}
  PROVE  /\ AlignUp(a, b) \in Nat /\ AlignUp(a, b) >= a /\ IsAligned(AlignUp(a, b), b)
         /\ IsAligned(a, b) => AlignUp(a, b) = a
<1> DEFINE n == a + b - 1
           q == n \div b
           p == b * q
<1>1. n \in Nat /\ q \in Nat /\ n % b \in 0 .. b - 1 /\ n = p + (n % b) /\ p \in Nat
  <2>1. n \in Nat
    OBVIOUS
  <2> HIDE DEF n
  <2> QED BY <2>1, Division, Products
<1>2. AlignUp(a, b) = p
  BY <1>1, Products DEF AlignUp
<1>3. p >= a
  <2> DEFINE m == n % b
  <2>1. m \in 0 .. b - 1 /\ a + b - 1 = p + m
    BY <1>1
  <2> HIDE DEF m, p
  <2> QED BY <1>1, <2>1
<1>4. IsAligned(p, b)
  BY <1>1, Aligned
<1>5. ASSUME IsAligned(a, b) PROVE p = a
  <2>1. PICK k \in Nat : a = b * k
    BY <1>5, Aligned
  <2>2. (b * k + (b - 1)) \div b = k
    BY Multiple
  <2>3. n = b * k + (b - 1)
    BY <2>1, Products
  <2>4. q = k
    BY <2>2, <2>3
  <2> QED BY <2>1, <2>4
<1> QED BY <1>1, <1>2, <1>3, <1>4, <1>5

LEMMA AlignedTwice ==
  ASSUME NEW a \in Nat, NEW b \in Nat \ {0}, NEW c \in Nat \ {0},
         IsAligned(a, b), IsAligned(b, c)
  PROVE  IsAligned(a, c)
<1>1. PICK k \in Nat : a = b * k
  BY Aligned
<1>2. PICK m \in Nat : b = c * m
  BY Aligned
<1>3. a = c * (m * k) /\ m * k \in Nat
  BY <1>1, <1>2, Products
<1> QED BY <1>3, Aligned

LEMMA AlignedNext ==
  ASSUME NEW a \in Nat, NEW b \in Nat \ {0}, IsAligned(a, b)
  PROVE  IsAligned(a + b, b)
<1>1. PICK k \in Nat : a = b * k
  BY Aligned
<1>2. a + b = b * (k + 1) /\ k + 1 \in Nat
  BY <1>1, Products
<1>3. a + b \in Nat
  OBVIOUS
<1> QED BY <1>2, <1>3, Aligned

LEMMA Constants ==
  /\ UB_CACHE_LINE_SIZE \in Nat \ {0} /\ UB_CACHE_LINE_SIZE > 1 /\ IsAligned(UB_CACHE_LINE_SIZE, 2)
  /\ TWO_MB \in Nat \ {0} /\ STORAGE_SIZE \in Nat \ {0} /\ MAX_SHUFFLED_REGION_SIZE \in Nat \ {0}
  /\ EXTRA_SIZE \in Nat \ {0} /\ PageAlignment \in Nat \ {0}
  /\ Null \notin Int /\ WorkingSets \subseteq Nat \ {0} /\ Skews \subseteq Nat
  /\ PageSize \in Nat \ {0} /\ Privileges \subseteq SUBSET Privilege
BY StorageAssumption, PageAssumption

-----------------------------------------------------------------------------
(* Memory that is written. *)

(* Cells with their types, and memory that was not written in between. *)
CellsOK(c) == \A a \in DOMAIN c : a \in Nat /\ c[a] \in Value
Kept(c, d, start, size) ==
  \A a \in Addresses(start, size) : a \in DOMAIN c => a \in DOMAIN d /\ d[a] = c[a]

Apart(start1, size1, start2, size2) == start1 + size1 <= start2 \/ start2 + size2 <= start1

LEMMA ApartAddresses ==
  ASSUME NEW s \in Nat, NEW n \in Nat, NEW start \in Nat, NEW size \in Nat, Apart(s, n, start, size)
  PROVE  \A a \in Addresses(s, n) : a \notin Addresses(start, size)
BY DEF Apart, Addresses

LEMMA FillKeeps ==
  ASSUME NEW c, NEW start \in Nat, NEW size \in Nat, NEW v
  PROVE  /\ DOMAIN Fill(c, start, size, v) = DOMAIN c \union Addresses(start, size)
         /\ CellsOK(c) /\ v \in Value => CellsOK(Fill(c, start, size, v))
         /\ \A s, n \in Nat : Apart(s, n, start, size) => Kept(c, Fill(c, start, size, v), s, n)
<1>1. ASSUME CellsOK(c), v \in Value PROVE CellsOK(Fill(c, start, size, v))
  <2>1. Addresses(start, size) \subseteq Nat
    BY DEF Addresses
  <2> QED BY <1>1, <2>1 DEF CellsOK, Fill
<1>2. ASSUME NEW s \in Nat, NEW n \in Nat, Apart(s, n, start, size)
      PROVE  Kept(c, Fill(c, start, size, v), s, n)
  BY <1>2, ApartAddresses DEF Kept, Fill
<1> QED BY <1>1, <1>2 DEF Fill

LEMMA FillTypes ==
  ASSUME NEW c, CellsOK(c), NEW start \in Nat, NEW size \in Nat, NEW v \in Value
  PROVE  /\ DOMAIN Fill(c, start, size, v) = DOMAIN c \union Addresses(start, size)
         /\ CellsOK(Fill(c, start, size, v))
BY FillKeeps

LEMMA KeptTwice ==
  ASSUME NEW c, NEW d, NEW e, NEW start, NEW size,
         Kept(c, d, start, size), Kept(d, e, start, size)
  PROVE  Kept(c, e, start, size)
BY DEF Kept

LEMMA TouchedKeeps ==
  ASSUME NEW c, NEW start \in Nat, NEW size \in Nat
  PROVE  /\ DOMAIN Touched(c, start, size) = DOMAIN c \union Addresses(start, size)
         /\ CellsOK(c) => CellsOK(Touched(c, start, size))
         /\ \A s, n \in Nat : Apart(s, n, start, size) => Kept(c, Touched(c, start, size), s, n)
<1> DEFINE d == Fill(c, start, size, Fixed(1))
           e == Fill(d, start, size, Fixed(0))
<1>1. Fixed(0) \in Value /\ Fixed(1) \in Value
  BY DEF Fixed, Value
<1>2. Touched(c, start, size) = e
  BY DEF Touched
<1>3. /\ DOMAIN d = DOMAIN c \union Addresses(start, size)
      /\ CellsOK(c) => CellsOK(d)
      /\ \A s, n \in Nat : Apart(s, n, start, size) => Kept(c, d, s, n)
  BY <1>1, FillKeeps
<1> HIDE DEF d
<1>4. /\ DOMAIN e = DOMAIN d \union Addresses(start, size)
      /\ CellsOK(d) => CellsOK(e)
      /\ \A s, n \in Nat : Apart(s, n, start, size) => Kept(d, e, s, n)
  BY <1>1, FillKeeps
<1> HIDE DEF e
<1> QED BY <1>2, <1>3, <1>4, KeptTwice

-----------------------------------------------------------------------------
(* The lines of a region. *)

LEMMA LineFacts ==
  ASSUME NEW start \in Nat, NEW lines \in Nat, NEW i \in 0 .. lines - 1
  PROVE  /\ i * UB_CACHE_LINE_SIZE \in Nat
         /\ Line(start, i) \subseteq Addresses(start, lines * UB_CACHE_LINE_SIZE)
         /\ start + i * UB_CACHE_LINE_SIZE \in Line(start, i)
<1> DEFINE L == UB_CACHE_LINE_SIZE
           p == i * L
           t == lines * L
<1>1. /\ p \in Nat /\ t \in Nat /\ L \in Nat /\ L > 1
      /\ (i + 1) * L <= lines * L /\ (i + 1) * L = p + L
  <2>1. i \in Nat /\ i + 1 \in Nat /\ i + 1 <= lines /\ L \in Nat
    BY Constants
  <2> QED BY <2>1, Products, Constants
<1>2. p + L <= t
  BY <1>1
<1>3. Line(start, i) = start + p .. start + p + L - 1
  BY DEF Line, Addresses
<1>4. Addresses(start, t) = start .. start + t - 1
  BY DEF Addresses
<1> HIDE DEF p, t, L
<1>5. Line(start, i) \subseteq Addresses(start, t) /\ start + p \in Line(start, i)
  BY <1>1, <1>2, <1>3, <1>4
<1> QED BY <1>1, <1>5 DEF p, t, L

(* No address is in two lines. *)
LEMMA LinesApart ==
  ASSUME NEW start \in Nat, NEW i \in Nat, NEW j \in Nat, NEW a \in Line(start, i), a \in Line(start, j)
  PROVE  i = j
<1> DEFINE L == UB_CACHE_LINE_SIZE
<1>1. ASSUME NEW k \in Nat, NEW m \in Nat, k < m, a \in Line(start, k), a \in Line(start, m)
      PROVE  FALSE
  <2> DEFINE p == k * L
             q == m * L
  <2>1. p \in Nat /\ q \in Nat /\ (k + 1) * L <= q /\ (k + 1) * L = p + L /\ L \in Nat
    BY <1>1, Products, Constants
  <2>2. a <= start + p + L - 1 /\ start + q <= a /\ a \in Int
    BY <1>1, <2>1 DEF Line, Addresses
  <2> HIDE DEF p, q, L
  <2> QED BY <2>1, <2>2
<1> QED BY <1>1

-----------------------------------------------------------------------------
(* The chain of a region: every line of it points to the next of its order.*)

NextLine(start, lines, indexes, n) ==
  start + indexes[(n % lines) + 1] * UB_CACHE_LINE_SIZE

Chained(c, start, lines, indexes) ==
  \A n \in 1 .. lines : \A a \in Line(start, indexes[n]) :
    a \in DOMAIN c /\ c[a] = <<"next", NextLine(start, lines, indexes, n)>>

LEMMA ShuffleFacts ==
  ASSUME NEW lines \in Nat \ {0}, NEW indexes \in Shuffles(lines)
  PROVE  /\ \A n \in 1 .. lines : indexes[n] \in 0 .. lines - 1
         /\ \A m, n \in 1 .. lines : indexes[m] = indexes[n] => m = n
         /\ \A i \in 0 .. lines - 1 : \E n \in 1 .. lines : indexes[n] = i
         /\ Len(indexes) = lines
         /\ \A n \in Nat : (n % lines) + 1 \in 1 .. lines
<1>1. indexes \in [1 .. lines -> 0 .. lines - 1]
  BY DEF Shuffles
<1>2. \A m, n \in 1 .. lines : indexes[m] = indexes[n] => m = n
  BY DEF Shuffles
<1>3. /\ IsFiniteSet(1 .. lines) /\ IsFiniteSet(0 .. lines - 1)
      /\ Cardinality(1 .. lines) = lines /\ Cardinality(0 .. lines - 1) = lines
  BY FS_Interval
<1>4. indexes \in Injection(1 .. lines, 0 .. lines - 1)
  BY <1>1, <1>2 DEF Injection, IsInjective
<1>5. indexes \in Surjection(1 .. lines, 0 .. lines - 1)
  BY <1>3, <1>4, FS_Injection
<1>6. \A i \in 0 .. lines - 1 : \E n \in 1 .. lines : indexes[n] = i
  BY <1>5 DEF Surjection
<1>7. Len(indexes) = lines
  BY <1>1
<1>8. \A n \in Nat : (n % lines) + 1 \in 1 .. lines
  OBVIOUS
<1> QED BY <1>1, <1>2, <1>6, <1>7, <1>8

LEMMA NextLineType ==
  ASSUME NEW lines \in Nat \ {0}, NEW indexes \in Shuffles(lines), NEW start \in Nat,
         NEW n \in 1 .. lines
  PROVE  NextLine(start, lines, indexes, n) \in Nat
<1>1. indexes[(n % lines) + 1] \in 0 .. lines - 1
  BY ShuffleFacts
<1>2. indexes[(n % lines) + 1] * UB_CACHE_LINE_SIZE \in Nat
  BY <1>1, LineFacts
<1> QED BY <1>2 DEF NextLine

(* The loop of shuffled_region makes a chain of the lines it is given. *)
LEMMA LinkedChains ==
  ASSUME NEW c, NEW start \in Nat, NEW lines \in Nat \ {0}, NEW indexes \in Shuffles(lines),
         Addresses(start, lines * UB_CACHE_LINE_SIZE) \subseteq DOMAIN c
  PROVE  /\ Chained(Linked(c, start, indexes), start, lines, indexes)
         /\ DOMAIN Linked(c, start, indexes) = DOMAIN c
         /\ CellsOK(c) => CellsOK(Linked(c, start, indexes))
<1> DEFINE d == Linked(c, start, indexes)
           Which(a) == CHOOSE n \in 1 .. Len(indexes) : a \in Line(start, indexes[n])
<1>1. /\ d = [a \in DOMAIN c |->
                IF \E n \in 1 .. Len(indexes) : a \in Line(start, indexes[n])
                THEN <<"next", NextLine(start, Len(indexes), indexes, Which(a))>>
                ELSE c[a]]
      /\ Len(indexes) = lines
  BY ShuffleFacts DEF Linked, NextLine
<1>2. ASSUME NEW n \in 1 .. lines, NEW a \in Line(start, indexes[n])
      PROVE  Which(a) = n /\ a \in DOMAIN c
  <2>1. Which(a) \in 1 .. lines /\ a \in Line(start, indexes[Which(a)])
    BY <1>1, <1>2
  <2> DEFINE m == Which(a)
  <2> HIDE DEF m
  <2>2. indexes[n] \in 0 .. lines - 1 /\ indexes[m] \in 0 .. lines - 1
    BY <2>1, ShuffleFacts DEF m
  <2>3. indexes[m] = indexes[n]
    BY <1>2, <2>1, <2>2, LinesApart DEF m
  <2>4. m = n
    BY <2>1, <2>3, ShuffleFacts DEF m
  <2>5. Line(start, indexes[n]) \subseteq Addresses(start, lines * UB_CACHE_LINE_SIZE)
    BY <2>2, LineFacts
  <2> QED BY <1>2, <2>4, <2>5 DEF m
<1>3. Chained(d, start, lines, indexes)
  <2> SUFFICES ASSUME NEW n \in 1 .. lines, NEW a \in Line(start, indexes[n])
               PROVE  a \in DOMAIN d /\ d[a] = <<"next", NextLine(start, lines, indexes, n)>>
    BY DEF Chained
  <2>1. Which(a) = n /\ a \in DOMAIN c
    BY <1>2
  <2> HIDE DEF Which, d
  <2> QED BY <1>1, <2>1
<1>4. ASSUME CellsOK(c) PROVE CellsOK(d)
  <2>1. \A a : (\E n \in 1 .. lines : a \in Line(start, indexes[n])) => Which(a) \in 1 .. lines
    BY <1>1
  <2> HIDE DEF Which, d
  <2>2. \A n \in 1 .. lines : <<"next", NextLine(start, lines, indexes, n)>> \in Value
    BY NextLineType DEF Value
  <2> QED BY <1>1, <1>4, <2>1, <2>2 DEF CellsOK
<1>5. DOMAIN d = DOMAIN c
  BY <1>1
<1> QED BY <1>3, <1>4, <1>5

LEMMA ChainKept ==
  ASSUME NEW c, NEW d, NEW start \in Nat, NEW lines \in Nat \ {0}, NEW indexes \in Shuffles(lines),
         Chained(c, start, lines, indexes), Kept(c, d, start, lines * UB_CACHE_LINE_SIZE)
  PROVE  Chained(d, start, lines, indexes)
<1>1. \A n \in 1 .. lines :
        Line(start, indexes[n]) \subseteq Addresses(start, lines * UB_CACHE_LINE_SIZE)
  BY ShuffleFacts, LineFacts
<1> QED BY <1>1 DEF Chained, Kept

-----------------------------------------------------------------------------
(* The walk along a chain.  Walk is a recursive function: the walk in      *)
(* order, which is written down without recursion, satisfies its equation, *)
(* and no other function does.                                             *)

LEMMA LeastNat ==
  ASSUME NEW S, S \subseteq Nat, S # {}
  PROVE  \E x \in S : \A y \in S : x <= y
<1>1. PICK x \in S : \A y \in S : ~ (<<y, x>> \in OpToRel(<, Nat))
  BY NatLessThanWellFounded, WFMin
<1>2. \A y \in S : ~ (y < x)
  BY <1>1 DEF OpToRel
<1>3. \A y \in S : x <= y
  BY <1>2
<1> QED BY <1>3

(* Where the walk that begins at position first of the order is after n    *)
(* steps.                                                                  *)
Position(lines, first, n) == ((first - 1 + n) % lines) + 1

LEMMA PositionFacts ==
  ASSUME NEW lines \in Nat \ {0}, NEW first \in 1 .. lines
  PROVE  /\ \A n \in Nat : Position(lines, first, n) \in 1 .. lines
         /\ Position(lines, first, 0) = first /\ Position(lines, first, lines) = first
         /\ \A n \in Nat \ {0} :
              Position(lines, first, n) = (Position(lines, first, n - 1) % lines) + 1
         /\ \A m \in 1 .. lines : \E n \in 0 .. lines - 1 : Position(lines, first, n) = m
<1>1. \A x \in Nat : x % lines \in 0 .. lines - 1
  OBVIOUS
<1>2. \A x \in 0 .. lines - 1 : x % lines = x /\ (x + lines) % lines = x
  OBVIOUS
<1>3. \A x \in Nat : ((x % lines) + 1) % lines = (x + 1) % lines
  <2> SUFFICES ASSUME NEW x \in Nat PROVE ((x % lines) + 1) % lines = (x + 1) % lines
    OBVIOUS
  <2> DEFINE r == x % lines
             q == x \div lines
  <2>1. r \in 0 .. lines - 1 /\ q \in Nat /\ x = lines * q + r
    BY Division
  <2>2. CASE r + 1 < lines
    <3>1. r + 1 \in 0 .. lines - 1
      BY <2>1, <2>2
    <3>2. (lines * q + (r + 1)) % lines = r + 1
      BY <2>1, <3>1, Multiple
    <3>3. x + 1 = lines * q + (r + 1)
      <4> DEFINE p == lines * q
      <4>1. p \in Nat /\ x = p + r
        BY <2>1, Products
      <4> HIDE DEF p, r
      <4>2. x + 1 = p + (r + 1)
        BY <2>1, <4>1
      <4> QED BY <4>2 DEF p
    <3> QED BY <1>2, <3>1, <3>2, <3>3
  <2>3. CASE ~(r + 1 < lines)
    <3>1. r + 1 = lines
      BY <2>1, <2>3
    <3>2. x + 1 = lines * (q + 1) + 0
      <4> DEFINE p == lines * q
      <4>1. p \in Nat /\ x = p + r /\ lines * (q + 1) = p + lines
        BY <2>1, Products
      <4> HIDE DEF p, r
      <4> QED BY <2>1, <3>1, <4>1
    <3>3. (lines * (q + 1) + 0) % lines = 0
      BY <2>1, Multiple
    <3>4. (0 + lines) % lines = 0
      BY <1>2
    <3> QED BY <3>1, <3>2, <3>3, <3>4
  <2> QED BY <2>2, <2>3
<1>4. Position(lines, first, 0) = first /\ Position(lines, first, lines) = first
  BY <1>2 DEF Position
<1>5. ASSUME NEW n \in Nat \ {0}
      PROVE  Position(lines, first, n) = (Position(lines, first, n - 1) % lines) + 1
  <2> DEFINE x == first - 1 + (n - 1)
  <2>1. x \in Nat /\ x + 1 = first - 1 + n
    OBVIOUS
  <2> HIDE DEF x
  <2>2. ((x % lines) + 1) % lines = (x + 1) % lines
    BY <1>3, <2>1
  <2> QED BY <2>1, <2>2 DEF Position, x
<1>6. ASSUME NEW m \in 1 .. lines
      PROVE  \E n \in 0 .. lines - 1 : Position(lines, first, n) = m
  <2>1. CASE m >= first
    <3>1. m - first \in 0 .. lines - 1 /\ first - 1 + (m - first) = m - 1 /\ m - 1 \in 0 .. lines - 1
      BY <2>1
    <3>2. Position(lines, first, m - first) = m
      BY <1>2, <3>1 DEF Position
    <3> QED BY <3>1, <3>2
  <2>2. CASE ~(m >= first)
    <3>1. /\ m - first + lines \in 0 .. lines - 1 /\ m - 1 \in 0 .. lines - 1
          /\ first - 1 + (m - first + lines) = (m - 1) + lines
      BY <2>2
    <3>2. Position(lines, first, m - first + lines) = m
      BY <1>2, <3>1 DEF Position
    <3> QED BY <3>1, <3>2
  <2> QED BY <2>1, <2>2
<1>7. ASSUME NEW n \in Nat PROVE Position(lines, first, n) \in 1 .. lines
  <2>1. first - 1 + n \in Nat
    OBVIOUS
  <2> QED BY <1>1, <2>1 DEF Position
<1> QED BY <1>4, <1>5, <1>6, <1>7

LEMMA WalkInOrder ==
  ASSUME NEW lines \in Nat \ {0}, NEW indexes \in Shuffles(lines),
         NEW first \in 1 .. lines, indexes[first] = 0,
         region.start \in Nat, Chained(cells, region.start, lines, indexes)
  PROVE  \A n \in Nat :
           Walk[n] = region.start + indexes[Position(lines, first, n)] * UB_CACHE_LINE_SIZE
<1> DEFINE W == [n \in Nat |->
                   region.start + indexes[Position(lines, first, n)] * UB_CACHE_LINE_SIZE]
           Solves(f) == f = [n \in Nat |-> IF n = 0 THEN region.start ELSE cells[f[n - 1]][2]]
<1>1. W[0] = region.start
  <2>1. indexes[Position(lines, first, 0)] = 0
    <3>1. Position(lines, first, 0) = first
      BY PositionFacts
    <3> QED BY <3>1
  <2>2. 0 * UB_CACHE_LINE_SIZE = 0 /\ region.start + 0 = region.start
    BY Constants
  <2> QED BY <2>1, <2>2
<1>2. ASSUME NEW n \in Nat \ {0} PROVE W[n] = cells[W[n - 1]][2]
  <2> DEFINE m == Position(lines, first, n - 1)
  <2>1. m \in 1 .. lines /\ n - 1 \in Nat /\ n \in Nat
    <3>1. n - 1 \in Nat /\ n \in Nat
      OBVIOUS
    <3>2. \A k \in Nat : Position(lines, first, k) \in 1 .. lines
      BY PositionFacts
    <3> QED BY <3>1, <3>2
  <2>2. W[n - 1] = region.start + indexes[m] * UB_CACHE_LINE_SIZE
    BY <2>1
  <2>3. W[n - 1] \in Line(region.start, indexes[m])
    BY <2>1, <2>2, ShuffleFacts, LineFacts
  <2>4. cells[W[n - 1]] = <<"next", NextLine(region.start, lines, indexes, m)>>
    <3> HIDE DEF W, m
    <3> QED BY <2>1, <2>3 DEF Chained
  <2>5. cells[W[n - 1]][2] = NextLine(region.start, lines, indexes, m)
    <3> HIDE DEF W, m
    <3> QED BY <2>4
  <2>6. Position(lines, first, n) = (m % lines) + 1
    BY PositionFacts
  <2> HIDE DEF m
  <2> QED BY <2>1, <2>5, <2>6 DEF NextLine
<1>3. Solves(W)
  <2>1. \A n \in Nat : W[n] = IF n = 0 THEN region.start ELSE cells[W[n - 1]][2]
    <3> HIDE DEF W
    <3> QED BY <1>1, <1>2
  <2>2. W = [n \in Nat |-> W[n]]
    OBVIOUS
  <2> HIDE DEF W
  <2> QED BY <2>1, <2>2
<1>4. Solves(Walk)
  <2>1. Walk = CHOOSE f : Solves(f)
    BY DEF Walk
  <2> HIDE DEF Solves, W
  <2> QED BY <1>3, <2>1
<1>5. \A n \in Nat : Walk[n] = IF n = 0 THEN region.start ELSE cells[Walk[n - 1]][2]
  <2>1. \A f : Solves(f) => \A n \in Nat : f[n] = IF n = 0 THEN region.start ELSE cells[f[n - 1]][2]
    OBVIOUS
  <2> HIDE DEF Solves
  <2> QED BY <1>4, <2>1
<1> DEFINE Wrong == {n \in Nat : Walk[n] # W[n]}
<1>6. Wrong = {}
  <2>1. SUFFICES ASSUME Wrong # {} PROVE FALSE
    OBVIOUS
  <2>2. PICK n \in Wrong : \A k \in Wrong : n <= k
    BY <2>1, LeastNat
  <2> HIDE DEF W
  <2>3. n # 0
    BY <1>1, <1>5
  <2>4. n - 1 \in Nat /\ n - 1 \notin Wrong /\ n \in Nat \ {0}
    BY <2>2, <2>3
  <2>5. Walk[n - 1] = W[n - 1]
    BY <2>4
  <2>6. W[n] = cells[W[n - 1]][2]
    BY <1>2, <2>4
  <2>7. Walk[n] = cells[Walk[n - 1]][2]
    BY <1>5, <2>3, <2>4
  <2>8. Walk[n] # W[n]
    BY <2>2
  <2> QED BY <2>5, <2>6, <2>7, <2>8
<1>7. \A n \in Nat : Walk[n] = W[n]
  <2> HIDE DEF W
  <2> QED BY <1>6
<1> QED BY <1>7

(* A chain is a cycle through all lines of its region. *)
RegionChained ==
  region.size > 0 =>
    \E indexes \in Shuffles(region.size \div UB_CACHE_LINE_SIZE) :
      Chained(cells, region.start, region.size \div UB_CACHE_LINE_SIZE, indexes)

LEMMA ChainIsCycle ==
  ASSUME RegionChained,
         region.size > 0 => /\ region.start \in Nat
                            /\ region.size \div UB_CACHE_LINE_SIZE \in Nat \ {0}
  PROVE  RegionIntact
<1> SUFFICES ASSUME region.size > 0
    PROVE LET lines == region.size \div UB_CACHE_LINE_SIZE
          IN /\ \A line \in RegionLines : \A a \in Addresses(line, UB_CACHE_LINE_SIZE) :
                  cells[a] = cells[line] /\ cells[a][1] = "next"
             /\ {Walk[n] : n \in 0 .. lines - 1} = RegionLines
             /\ Walk[lines] = region.start
  BY DEF RegionIntact
<1> DEFINE lines == region.size \div UB_CACHE_LINE_SIZE
<1>1. region.start \in Nat /\ lines \in Nat \ {0}
  OBVIOUS
<1>2. PICK indexes \in Shuffles(lines) : Chained(cells, region.start, lines, indexes)
  BY DEF RegionChained
<1>3. RegionLines = {region.start + i * UB_CACHE_LINE_SIZE : i \in 0 .. lines - 1}
  BY DEF RegionLines
<1> HIDE DEF lines
<1>4. PICK first \in 1 .. lines : indexes[first] = 0
  BY <1>1, <1>2, ShuffleFacts
<1>5. \A n \in Nat :
        Walk[n] = region.start + indexes[Position(lines, first, n)] * UB_CACHE_LINE_SIZE
  BY <1>1, <1>2, <1>4, WalkInOrder
<1>6. ASSUME NEW i \in 0 .. lines - 1,
             NEW a \in Addresses(region.start + i * UB_CACHE_LINE_SIZE, UB_CACHE_LINE_SIZE)
      PROVE  cells[a] = cells[region.start + i * UB_CACHE_LINE_SIZE] /\ cells[a][1] = "next"
  <2>1. PICK n \in 1 .. lines : indexes[n] = i
    BY <1>1, <1>2, ShuffleFacts
  <2>2. a \in Line(region.start, i) /\ region.start + i * UB_CACHE_LINE_SIZE \in Line(region.start, i)
    BY <1>1, <1>6, LineFacts DEF Line
  <2>3. \A b \in Line(region.start, i) :
          cells[b] = <<"next", NextLine(region.start, lines, indexes, n)>>
    BY <1>2, <2>1 DEF Chained
  <2> DEFINE first_byte == region.start + i * UB_CACHE_LINE_SIZE
  <2> HIDE DEF first_byte
  <2>4. /\ cells[a] = <<"next", NextLine(region.start, lines, indexes, n)>>
        /\ cells[first_byte] = <<"next", NextLine(region.start, lines, indexes, n)>>
    BY <2>2, <2>3 DEF first_byte
  <2> QED BY <2>4 DEF first_byte
<1>7. \A n \in 0 .. lines - 1 : Walk[n] \in RegionLines
  <2> SUFFICES ASSUME NEW n \in 0 .. lines - 1 PROVE Walk[n] \in RegionLines
    OBVIOUS
  <2>1. indexes[Position(lines, first, n)] \in 0 .. lines - 1
    <3>1. \A k \in Nat : Position(lines, first, k) \in 1 .. lines
      BY <1>1, <1>4, PositionFacts
    <3>2. n \in Nat
      BY <1>1
    <3> QED BY <1>1, <1>2, <3>1, <3>2, ShuffleFacts
  <2>2. Walk[n] = region.start + indexes[Position(lines, first, n)] * UB_CACHE_LINE_SIZE
    BY <1>5
  <2> QED BY <1>3, <2>1, <2>2
<1>8. \A line \in RegionLines : \E n \in 0 .. lines - 1 : Walk[n] = line
  <2> SUFFICES ASSUME NEW i \in 0 .. lines - 1
               PROVE \E n \in 0 .. lines - 1 : Walk[n] = region.start + i * UB_CACHE_LINE_SIZE
    BY <1>3
  <2>1. PICK m \in 1 .. lines : indexes[m] = i
    BY <1>1, <1>2, ShuffleFacts
  <2>2. PICK n \in 0 .. lines - 1 : Position(lines, first, n) = m
    BY <1>1, <1>4, PositionFacts
  <2>3. Walk[n] = region.start + indexes[Position(lines, first, n)] * UB_CACHE_LINE_SIZE
    BY <1>5
  <2> QED BY <2>1, <2>2, <2>3
<1>9. Walk[lines] = region.start
  <2>1. Position(lines, first, lines) = first /\ 0 * UB_CACHE_LINE_SIZE = 0
    BY <1>1, <1>4, PositionFacts, Constants
  <2>2. Walk[lines] = region.start + 0 * UB_CACHE_LINE_SIZE
    BY <1>1, <1>4, <1>5, <2>1
  <2> QED BY <1>1, <2>1, <2>2
<1>10. \A line \in RegionLines : \A a \in Addresses(line, UB_CACHE_LINE_SIZE) :
         cells[a] = cells[line] /\ cells[a][1] = "next"
  BY <1>3, <1>6
<1>11. {Walk[n] : n \in 0 .. lines - 1} = RegionLines
  BY <1>7, <1>8
<1> QED BY <1>9, <1>10, <1>11 DEF lines

-----------------------------------------------------------------------------
(* The pages of a range are those of its bytes. *)

LEMMA DivisionBounds ==
  ASSUME NEW b \in Nat \ {0}, NEW a \in Nat, NEW q \in Nat
  PROVE  /\ a \div b < q <=> a < b * q
         /\ a \div b >= q <=> a >= b * q
<1> DEFINE d == a \div b
           m == a % b
           p == b * d
           t == b * q
<1>1. d \in Nat /\ m \in 0 .. b - 1 /\ a = p + m /\ p \in Nat /\ t \in Nat
  BY Division, Products
<1>2. ASSUME d < q PROVE p + b <= t
  <2>1. d + 1 \in Nat /\ d + 1 <= q /\ b \in Nat /\ d \in Nat
    BY <1>1, <1>2
  <2>2. (d + 1) * b <= q * b
    BY <2>1, Products
  <2>3. (d + 1) * b = d * b + 1 * b
    BY <2>1, Products
  <2>4. d * b = p /\ q * b = t /\ 1 * b = b
    BY <2>1, Products
  <2> QED BY <2>2, <2>3, <2>4
<1>3. ASSUME d >= q PROVE p >= t
  <2>1. q * b <= d * b
    BY <1>1, <1>3, Products
  <2>2. d * b = p /\ q * b = t
    BY <1>1, Products
  <2> QED BY <2>1, <2>2
<1> HIDE DEF d, m, p, t
<1>4. (d < q <=> a < t) /\ (d >= q <=> a >= t)
  BY <1>1, <1>2, <1>3
<1> QED BY <1>4 DEF d, t

LEMMA PagesOfBytes ==
  ASSUME NEW b \in Nat \ {0}, NEW s \in Nat, NEW e \in Nat, s <= e
  PROVE  {a \div b : a \in s .. e} = s \div b .. e \div b
<1> DEFINE q1 == s \div b
           q2 == e \div b
<1>1. q1 \in Nat /\ q2 \in Nat
  BY Division
<1>2. ASSUME NEW a \in s .. e PROVE a \div b \in q1 .. q2
  <2>1. a \in Nat /\ a \div b \in Nat /\ s <= a /\ a <= e
    BY Division
  <2>2. b * q1 <= s /\ ~ (a < b * q1)
    <3>1. s \div b >= q1
      BY <1>1
    <3>2. s >= b * q1 /\ b * q1 \in Nat
      BY <1>1, <3>1, DivisionBounds, Products
    <3> HIDE DEF q1
    <3>3. \A p \in Nat : s >= p => p <= s /\ ~ (a < p)
      BY <2>1
    <3> QED BY <3>2, <3>3
  <2>3. ~ (a \div b < q1)
    BY <1>1, <2>1, <2>2, DivisionBounds
  <2>4. b * (a \div b) <= a
    <3>1. a \div b >= a \div b
      BY <2>1
    <3> QED BY <2>1, <3>1, DivisionBounds, Products
  <2>5. e >= b * (a \div b)
    <3>1. b * (a \div b) \in Nat
      BY <2>1, Products
    <3>2. \A p \in Nat : p <= a => e >= p
      BY <2>1
    <3> QED BY <2>4, <3>1, <3>2
  <2>6. e \div b >= a \div b
    BY <2>1, <2>5, DivisionBounds
  <2> HIDE DEF q1, q2
  <2>7. q2 >= a \div b
    BY <2>6 DEF q2
  <2> QED BY <1>1, <2>1, <2>3, <2>7
<1>3. ASSUME NEW q \in q1 .. q2 PROVE \E a \in s .. e : a \div b = q
  <2> HIDE DEF q1, q2
  <2>1. q \in Nat /\ q1 <= q /\ q <= q2
    BY <1>1
  <2>2. CASE q = q1
    BY <2>2 DEF q1
  <2>3. CASE q # q1
    <3> DEFINE p == b * q
    <3>1. p \in Nat /\ (p + 0) \div b = q
      BY <2>1, Products, Multiple
    <3>2. s < p
      <4>1. s \div b < q
        BY <1>1, <2>1, <2>3 DEF q1
      <4> QED BY <2>1, <4>1, DivisionBounds
    <3>3. e >= p
      <4>1. e \div b >= q
        BY <1>1, <2>1 DEF q2
      <4> QED BY <2>1, <4>1, DivisionBounds
    <3> HIDE DEF p
    <3>4. p \in s .. e /\ p \div b = q
      BY <3>1, <3>2, <3>3
    <3> QED BY <3>4
  <2> QED BY <2>2, <2>3
<1>4. \A x : x \in {a \div b : a \in s .. e} <=> x \in q1 .. q2
  <2> HIDE DEF q1, q2
  <2> QED BY <1>2, <1>3
<1> QED BY <1>4

LEMMA PageDown ==
  ASSUME NEW p \in Nat
  PROVE  /\ pagedown(p) \in Nat /\ pagedown(p) \div PageSize = p \div PageSize
         /\ (pagedown(p) + PageSize) \div PageSize = (p \div PageSize) + 1
<1> DEFINE b == PageSize
           q == p \div b
           m == p % b
           t == b * q
<1>1. b \in Nat \ {0} /\ q \in Nat /\ m \in 0 .. b - 1 /\ p = t + m /\ t \in Nat
  BY Constants, Division, Products
<1>2. pagedown(p) = p - m
  BY DEF pagedown
<1>3. (t + 0) \div b = q
  BY <1>1, Multiple
<1>4. (b * (q + 1) + 0) \div b = q + 1
  <2>1. q + 1 \in Nat /\ 0 \in 0 .. b - 1
    BY <1>1
  <2> QED BY <1>1, <2>1, Multiple
<1>5. b * (q + 1) = t + b
  BY <1>1, Products
<1> HIDE DEF t, m
<1>6. p - m = t /\ t + 0 = t
  BY <1>1
<1>7. (t + b) + 0 = t + b
  BY <1>1
<1> QED BY <1>1, <1>2, <1>3, <1>4, <1>5, <1>6, <1>7

LEMMA PagesAreOwn ==
  ASSUME NEW start \in Nat, NEW size \in Nat, size > 0
  PROVE  /\ pages(start, start + size) = {a \div PageSize : a \in Addresses(start, size)}
         /\ IsFiniteSet(pages(start, start + size))
<1> DEFINE last == start + size - 1
<1>1. start < start + size /\ last \in Nat /\ start <= last
  OBVIOUS
<1>2. Addresses(start, size) = start .. last
  BY DEF Addresses
<1>3. pages(start, start + size) =
        pagedown(start) \div PageSize .. (pagedown(last) + PageSize) \div PageSize - 1
  BY <1>1 DEF pages
<1>4. pages(start, start + size) = start \div PageSize .. ((last \div PageSize) + 1) - 1
  BY <1>1, <1>3, PageDown
<1>5. start \div PageSize \in Nat /\ last \div PageSize \in Nat
  BY <1>1, Constants, Division
<1>6. ((last \div PageSize) + 1) - 1 = last \div PageSize
  BY <1>5
<1>7. {a \div PageSize : a \in start .. last} = start \div PageSize .. last \div PageSize
  BY <1>1, Constants, PagesOfBytes
<1>8. IsFiniteSet(start \div PageSize .. last \div PageSize)
  BY <1>5, FS_Interval
<1> QED BY <1>2, <1>4, <1>6, <1>7, <1>8

(* The report is right when all of the memory has been written. *)
ReportRight(r, privileges) ==
  r.on.size > 0 =>
    LET own == {a \div PageSize : a \in Addresses(r.on.start, r.on.size)}
    IN r.count =
         [pages_set |-> IF privileges = Privilege THEN Cardinality(own \cap Backed) ELSE 0,
          pages_available |-> IF privileges = Privilege THEN Cardinality(own) ELSE 0,
          pages_total |-> Cardinality(own)]

LEMMA ReportFacts ==
  ASSUME NEW start \in Nat, NEW size \in Nat \ {0}, NEW c, ReportTHP(start, size, c),
         Addresses(start, size) \subseteq DOMAIN c, may \in SUBSET Privilege
  PROVE  /\ report' \in [on : Span, count : [DOMAIN NoPages -> Nat]]
         /\ ReportRight(report', may)
<1> DEFINE own == {a \div PageSize : a \in Addresses(start, size)}
           info == get_info_for_range(start, start + size, may, Present(c), Backed)
           available == {page \in DOMAIN info : info[page].kpageflags_ok}
           set == {page \in available : info[page].kpageflags}
           all == may = Privilege
<1>1. pages(start, start + size) = own /\ IsFiniteSet(own)
  <2>1. size \in Nat /\ size > 0
    OBVIOUS
  <2> QED BY <2>1, PagesAreOwn
<1>2. own \subseteq Present(c)
  BY DEF Present
<1>3. may = Privilege <=> "see frames" \in may /\ "open kpageflags" \in may
  BY DEF Privilege
<1> HIDE DEF own
<1>4. /\ DOMAIN info = own
      /\ \A page \in own : /\ info[page].kpageflags_ok <=> all
                           /\ info[page].kpageflags <=> page \in Backed
  BY <1>1, <1>2, <1>3 DEF get_info_for_range
<1> HIDE DEF info
<1>5. available = (IF all THEN own ELSE {})
  BY <1>4
<1>6. set = (IF all THEN own \cap Backed ELSE {})
  BY <1>4, <1>5
<1>7. Cardinality({}) = 0
  BY FS_EmptySet
<1>8. get_flag_count(info) =
        [pages_set |-> Cardinality(set), pages_available |-> Cardinality(available),
         pages_total |-> Cardinality(DOMAIN info)]
  BY DEF get_flag_count
<1> HIDE DEF available, set, all
<1>9. report' = [on |-> [start |-> start, size |-> size], count |-> get_flag_count(info)]
  BY DEF ReportTHP, info
<1>10. report'.count = [pages_set |-> IF all THEN Cardinality(own \cap Backed) ELSE 0,
                        pages_available |-> IF all THEN Cardinality(own) ELSE 0,
                        pages_total |-> Cardinality(own)]
  BY <1>4, <1>5, <1>6, <1>7, <1>8, <1>9
<1>11. ReportRight(report', may)
  BY <1>9, <1>10 DEF ReportRight, own, all
<1>12. Cardinality(own) \in Nat /\ Cardinality(own \cap Backed) \in Nat
  BY <1>1, FS_CardinalityType, FS_Intersection
<1>13. report'.count \in [DOMAIN NoPages -> Nat]
  BY <1>10, <1>12 DEF NoPages
<1>14. report'.on \in Span
  BY <1>9 DEF Span
<1> QED BY <1>9, <1>11, <1>13, <1>14

-----------------------------------------------------------------------------
(* What flush_helper reads. *)

(* A line n of the working set is read at step 2 * n, and no step reads    *)
(* more than working_set bytes after the start.                            *)
LEMMA ReadCovers ==
  ASSUME NEW start \in Nat, NEW working_set \in Nat \ {0}
  PROVE  /\ ReadBy(start, working_set) \subseteq Addresses(start, working_set)
         /\ \A n \in 0 .. (working_set - 1) \div UB_CACHE_LINE_SIZE :
              ReadBy(start, working_set) \cap
                Addresses(start + n * UB_CACHE_LINE_SIZE, UB_CACHE_LINE_SIZE) # {}
<1> DEFINE L == UB_CACHE_LINE_SIZE
           half == L \div 2
           lines == (working_set + L - 1) \div L
           steps == {n \in 0 .. working_set : \E size \in Passes(working_set) : n * half < size}
<1>1. L \in Nat \ {0} /\ half \in Nat \ {0} /\ L = 2 * half
  <2>1. L \in Nat /\ L > 1 /\ L % 2 = 0
    BY Constants DEF IsAligned
  <2> HIDE DEF L
  <2> QED BY <2>1
<1>2. /\ lines \in Nat \ {0} /\ lines = ((working_set - 1) \div L) + 1
      /\ (working_set - 1) \div L \in Nat
  <2>1. working_set - 1 \in Nat
    OBVIOUS
  <2> DEFINE q == (working_set - 1) \div L
             m == (working_set - 1) % L
             p == L * q
  <2>2. q \in Nat /\ m \in 0 .. L - 1 /\ working_set - 1 = p + m
    BY <1>1, <2>1, Division
  <2>3. p \in Nat /\ L * (q + 1) = p + L
    BY <1>1, <2>2, Products
  <2>4. (L * (q + 1) + m) \div L = q + 1
    <3>1. q + 1 \in Nat
      BY <2>2
    <3> QED BY <1>1, <2>2, <3>1, Multiple
  <2>5. L * (q + 1) + m = working_set + L - 1
    <3> HIDE DEF p, m, q, L
    <3> QED BY <1>1, <2>2, <2>3
  <2>6. lines = q + 1
    BY <2>4, <2>5
  <2> HIDE DEF q
  <2>7. q + 1 \in Nat \ {0}
    BY <2>2
  <2> QED BY <2>2, <2>6, <2>7 DEF q
<1>3. steps = {n \in 0 .. working_set : n * half < working_set}
  <2>1. working_set \in Passes(working_set) /\ Passes(working_set) \subseteq 1 .. working_set
    BY DEF Passes
  <2>2. \A n \in 0 .. working_set : n * half \in Nat
    BY <1>1, Products
  <2> HIDE DEF half
  <2>3. \A n \in 0 .. working_set :
          (\E size \in Passes(working_set) : n * half < size) <=> n * half < working_set
    <3> SUFFICES ASSUME NEW n \in 0 .. working_set, NEW size \in Passes(working_set), n * half < size
                 PROVE  n * half < working_set
      BY <2>1
    <3>1. size \in Nat /\ size <= working_set
      BY <2>1
    <3> DEFINE p == n * half
    <3>2. p \in Nat /\ p < size
      BY <2>2
    <3> HIDE DEF p
    <3>3. p < working_set
      BY <3>1, <3>2
    <3> QED BY <3>3 DEF p
  <2> QED BY <2>3
<1>4. ReadBy(start, working_set) =
        {start + n * half : n \in steps} \union {start + (n % lines) * L : n \in steps}
  BY DEF ReadBy
<1> HIDE DEF half, steps, lines, L
<1>5. ASSUME NEW n \in 0 .. (working_set - 1) \div L
      PROVE  n * L \in Nat /\ n * L < working_set
  <2>1. n \in Nat /\ working_set - 1 \in Nat /\ (working_set - 1) \div L >= n
    BY <1>2
  <2>2. working_set - 1 >= L * n
    BY <1>1, <2>1, DivisionBounds
  <2> DEFINE p == n * L
  <2>3. p \in Nat /\ p = L * n
    BY <1>1, <2>1, Products
  <2> HIDE DEF p
  <2>4. p < working_set
    BY <2>2, <2>3
  <2> QED BY <2>3, <2>4 DEF p
<1>6. \A p \in Nat : p < working_set => start + p \in Addresses(start, working_set)
  BY DEF Addresses
<1>7. ASSUME NEW n \in steps
      PROVE  start + n * half \in Addresses(start, working_set)
  <2>1. n \in Nat /\ n * half < working_set
    BY <1>3
  <2>2. n * half \in Nat
    BY <1>1, <2>1, Products
  <2> QED BY <1>6, <2>1, <2>2
<1>8. ASSUME NEW n \in steps
      PROVE  start + (n % lines) * L \in Addresses(start, working_set)
  <2>1. n \in Nat
    BY <1>3
  <2>2. n % lines \in 0 .. (working_set - 1) \div L
    BY <1>2, <2>1
  <2> QED BY <1>5, <1>6, <2>2
<1>9. ReadBy(start, working_set) \subseteq Addresses(start, working_set)
  BY <1>4, <1>7, <1>8
<1>10. ASSUME NEW n \in 0 .. (working_set - 1) \div L
       PROVE  start + n * L \in ReadBy(start, working_set) \cap Addresses(start + n * L, L)
  <2> DEFINE p == n * L
             m == 2 * n
             t == m * half
  <2>1. n \in Nat /\ m \in Nat /\ p \in Nat /\ p < working_set
    BY <1>2, <1>5
  <2>2. t = p
    <3>1. (n * 2) * half = n * (2 * half) /\ n * 2 = m
      BY <1>1, <2>1, Products
    <3> QED BY <1>1, <3>1
  <2>3. m <= t
    <3>1. 1 * m <= half * m /\ half * m = m * half /\ 1 * m = m
      BY <1>1, <2>1, Products
    <3> QED BY <3>1
  <2>4. m \in steps
    <3>1. m \in 0 .. working_set
      <4> HIDE DEF m, t, p
      <4> QED BY <2>1, <2>2, <2>3
    <3>2. t < working_set
      BY <2>1, <2>2
    <3> QED BY <1>3, <3>1, <3>2
  <2>5. start + t \in ReadBy(start, working_set)
    BY <1>4, <2>4
  <2>6. start + p \in Addresses(start + p, L)
    <3> HIDE DEF p
    <3> QED BY <1>1, <2>1 DEF Addresses
  <2> QED BY <2>2, <2>5, <2>6
<1> QED BY <1>9, <1>10 DEF L

-----------------------------------------------------------------------------
(* The inductive invariant.  Its parts take the variables they speak of as *)
(* arguments, so that a lemma about a part fits the state after a step.    *)

Block == [start : Nat, size : Nat, advice : Advice]

Within(s, n, start, size) == start <= s /\ s + n <= start + size

HeldBy(b, s, n) == \E i \in DOMAIN b : Within(s, n, b[i].start, b[i].size)

TopOf(b) == IF b = <<>> THEN 0 ELSE Last(b).start + Last(b).size

(* No block ends after the last one, so a new one overlaps none of them.   *)
BlocksOK(b) ==
  /\ b \in Seq(Block)
  /\ \A i \in DOMAIN b : b[i].start + b[i].size <= TopOf(b)

(* The block of the regions begins before their storage, by the shift of   *)
(* new_huge_ptr: a region with a negative offset begins in between.        *)
BlockOf(regions) == regions - TWO_MB
RegionBlock == MAX_SHUFFLED_REGION_SIZE + TWO_MB

(* Every storage is one block, aligned, and that of the regions is a block *)
(* of its own.                                                             *)
StoragesOK(b, huge, small, regions) ==
  /\ huge # Null =>
       huge \in Nat /\ IsAligned(huge, TWO_MB) /\ HeldBy(b, huge, STORAGE_SIZE)
  /\ small # Null =>
       small \in Nat /\ IsAligned(small, PageAlignment) /\ HeldBy(b, small, STORAGE_SIZE)
  /\ regions # Null =>
       /\ regions \in Nat /\ BlockOf(regions) \in Nat
       /\ HeldBy(b, BlockOf(regions), RegionBlock)
  /\ regions # Null /\ huge # Null =>
       Apart(BlockOf(regions), RegionBlock, huge, STORAGE_SIZE)
  /\ regions # Null /\ small # Null =>
       Apart(BlockOf(regions), RegionBlock, small, STORAGE_SIZE)

ArgOK(a, huge, small) ==
  /\ a \in [start : Nat, size : Nat]
  /\ a.size > 0 =>
       \/ huge # Null /\ Within(a.start, a.size, huge, STORAGE_SIZE)
       \/ small # Null /\ Within(a.start, a.size, small, STORAGE_SIZE)

(* The region is whole lines of its block, and they are a chain. *)
RegionOK(g, regions, c) ==
  /\ g \in [start : Nat, size : Nat]
  /\ g.size > 0 =>
       /\ regions # Null /\ Within(g.start, g.size, BlockOf(regions), RegionBlock)
       /\ \E lines \in Nat \ {0} : \E indexes \in Shuffles(lines) :
            g.size = lines * UB_CACHE_LINE_SIZE /\ Chained(c, g.start, lines, indexes)

BufferOK(b, f) ==
  /\ f \in [start : Nat, size : WorkingSets \union {0}]
  /\ f.size > 0 =>
       f.start >= EXTRA_SIZE /\ HeldBy(b, f.start - EXTRA_SIZE, f.size + 2 * EXTRA_SIZE)

ReadsOK(sets, buffers, now, last) ==
  /\ sets \in [Allocator -> SUBSET Int]
  /\ {now, last} \subseteq WorkingSets \union {0}
  /\ now # 0 => sets["huge"] = ReadBy(buffers["huge"].start, now)
  /\ now = 0 /\ last # 0 => \A k \in Allocator : sets[k] = ReadBy(buffers[k].start, last)

ReportOK(r, privileges) ==
  r \in [on : Span, count : [DOMAIN NoPages -> Nat]] /\ ReportRight(r, privileges)

SInv ==
  /\ BlocksOK(blocks) /\ CellsOK(cells)
  /\ StoragesOK(blocks, storage_ptr_huge, storage_ptr_4k, storage_)
  /\ ArgOK(arg, storage_ptr_huge, storage_ptr_4k)
  /\ RegionOK(region, storage_, cells)
  /\ buffer \in [Allocator -> [start : Nat, size : WorkingSets \union {0}]]
  /\ \A k \in Allocator : BufferOK(blocks, buffer[k])
  /\ ReadsOK(reads, buffer, flushing, flushed)
  /\ may \in Privileges /\ ReportOK(report, may)

LEMMA RegionBlockType == RegionBlock \in Nat \ {0}
BY Constants DEF RegionBlock

-----------------------------------------------------------------------------
(* Blocks. *)

LEMMA TopFacts ==
  ASSUME NEW b, BlocksOK(b)
  PROVE  /\ TopOf(b) \in Nat
         /\ \A s, n \in Int : HeldBy(b, s, n) => s + n <= TopOf(b)
<1>1. b \in Seq(Block) /\ \A i \in DOMAIN b : b[i] \in Block
  BY DEF BlocksOK
<1>2. TopOf(b) \in Nat
  <2>1. CASE b = <<>>
    BY <2>1 DEF TopOf
  <2>2. CASE b # <<>>
    <3>1. Len(b) \in DOMAIN b /\ Last(b) = b[Len(b)]
      BY <1>1, <2>2 DEF Last
    <3>2. Last(b) \in Block
      BY <1>1, <3>1
    <3> QED BY <2>2, <3>2 DEF TopOf, Block
  <2> QED BY <2>1, <2>2
<1>3. ASSUME NEW s \in Int, NEW n \in Int, HeldBy(b, s, n) PROVE s + n <= TopOf(b)
  <2>1. PICK i \in DOMAIN b : Within(s, n, b[i].start, b[i].size)
    BY <1>3 DEF HeldBy
  <2>2. b[i].start \in Nat /\ b[i].size \in Nat /\ b[i].start + b[i].size <= TopOf(b)
    BY <1>1, <2>1 DEF BlocksOK, Block
  <2> QED BY <1>2, <2>1, <2>2 DEF Within
<1> QED BY <1>2, <1>3

Grown(b, b2) == \A s, n \in Int : HeldBy(b, s, n) => HeldBy(b2, s, n)
Below(b, start) == \A s, n \in Int : HeldBy(b, s, n) => s + n <= start
Holds(b, start, size) == \A s, n \in Int : Within(s, n, start, size) => HeldBy(b, s, n)

(* A block after the last one: what was allocated stays, apart from it.    *)
LEMMA AllocateFacts ==
  ASSUME NEW b, BlocksOK(b), NEW start \in Nat, start >= TopOf(b), NEW size \in Nat,
         NEW advice \in Advice,
         NEW b2, b2 = Append(b, [start |-> start, size |-> size, advice |-> advice])
  PROVE  BlocksOK(b2) /\ Grown(b, b2) /\ Below(b, start) /\ Holds(b2, start, size)
<1> DEFINE new == [start |-> start, size |-> size, advice |-> advice]
<1>1. new \in Block /\ new.start = start /\ new.size = size
  BY DEF Block
<1> HIDE DEF new
<1>2. b \in Seq(Block) /\ b2 = Append(b, new) /\ TopOf(b) \in Nat
  BY TopFacts DEF BlocksOK, new
<1>3. /\ b2 \in Seq(Block) /\ Len(b2) = Len(b) + 1 /\ b2[Len(b2)] = new
      /\ DOMAIN b2 = 1 .. Len(b) + 1 /\ DOMAIN b = 1 .. Len(b) /\ Len(b) \in Nat
      /\ \A i \in DOMAIN b : b2[i] = b[i]
  BY <1>1, <1>2
<1>4. TopOf(b2) = start + size
  <2>1. b2 # <<>> /\ Last(b2) = new
    BY <1>3 DEF Last
  <2> QED BY <1>1, <2>1 DEF TopOf
<1>5. BlocksOK(b2)
  <2> SUFFICES ASSUME NEW i \in DOMAIN b2 PROVE b2[i].start + b2[i].size <= start + size
    BY <1>3, <1>4 DEF BlocksOK
  <2>1. CASE i \in DOMAIN b
    <3>1. b2[i] = b[i] /\ b[i] \in Block /\ b[i].start + b[i].size <= TopOf(b)
      BY <1>2, <1>3, <2>1 DEF BlocksOK
    <3>2. b[i].start \in Nat /\ b[i].size \in Nat
      BY <3>1 DEF Block
    <3> QED BY <1>2, <3>1, <3>2
  <2>2. CASE i \notin DOMAIN b
    <3>1. i = Len(b2)
      BY <1>3, <2>2
    <3> QED BY <1>1, <1>3, <3>1
  <2> QED BY <2>1, <2>2
<1>6. ASSUME NEW s \in Int, NEW n \in Int, HeldBy(b, s, n)
      PROVE  HeldBy(b2, s, n) /\ s + n <= start
  <2>1. HeldBy(b2, s, n)
    BY <1>3, <1>6 DEF HeldBy
  <2>2. s + n <= TopOf(b)
    BY <1>6, TopFacts
  <2> QED BY <1>2, <2>1, <2>2
<1>7. ASSUME NEW s \in Int, NEW n \in Int, Within(s, n, start, size) PROVE HeldBy(b2, s, n)
  <2>1. Len(b2) \in DOMAIN b2
    BY <1>3
  <2> QED BY <1>1, <1>3, <1>7, <2>1 DEF HeldBy
<1> QED BY <1>5, <1>6, <1>7 DEF Grown, Below, Holds

LEMMA PlaceFacts ==
  ASSUME BlocksOK(blocks), NEW alignment \in Nat \ {0}, NEW place \in Places(alignment)
  PROVE  place \in Nat /\ place >= TopOf(blocks) /\ IsAligned(place, alignment)
<1>1. PICK gap \in Skews : place = AlignUp(Top + gap, alignment)
  BY DEF Places
<1>2. Top = TopOf(blocks) /\ TopOf(blocks) \in Nat /\ gap \in Nat
  BY TopFacts, Constants DEF Top, TopOf
<1>3. Top + gap \in Nat /\ Top + gap >= TopOf(blocks)
  BY <1>2
<1>4. place \in Nat /\ place >= Top + gap /\ IsAligned(place, alignment)
  BY <1>1, <1>3, AlignUpFacts
<1> QED BY <1>2, <1>3, <1>4

LEMMA HeldStays ==
  ASSUME NEW b, NEW b2, Grown(b, b2)
  PROVE  /\ \A huge, small, regions :
              StoragesOK(b, huge, small, regions) => StoragesOK(b2, huge, small, regions)
         /\ \A f : BufferOK(b, f) => BufferOK(b2, f)
<1>1. ASSUME NEW huge, NEW small, NEW regions, StoragesOK(b, huge, small, regions)
      PROVE  StoragesOK(b2, huge, small, regions)
  BY <1>1, Constants, RegionBlockType DEF StoragesOK, Grown
<1>2. ASSUME NEW f, BufferOK(b, f) PROVE BufferOK(b2, f)
  <2>1. f.start \in Nat /\ f.size \in Nat /\ EXTRA_SIZE \in Nat
    <3>1. WorkingSets \union {0} \subseteq Nat /\ EXTRA_SIZE \in Nat
      BY Constants
    <3>2. f \in [start : Nat, size : WorkingSets \union {0}]
      BY <1>2 DEF BufferOK
    <3>3. f.start \in Nat /\ f.size \in WorkingSets \union {0}
      BY <3>2
    <3> QED BY <3>1, <3>3
  <2>2. f.start - EXTRA_SIZE \in Int /\ f.size + 2 * EXTRA_SIZE \in Int
    BY <2>1
  <2> QED BY <1>2, <2>2 DEF BufferOK, Grown
<1> QED BY <1>1, <1>2

-----------------------------------------------------------------------------
(* The helpers of the calls. *)

KeptApart(c, d, start, size) ==
  \A s, n \in Nat : Apart(s, n, start, size) => Kept(c, d, s, n)

(* align lends memory of the storage, and writes nothing else. *)
LEMMA LendFacts ==
  ASSUME NEW r \in AlignedRequests \union AlignedRequests4k, NEW ptr \in Nat, NEW c, CellsOK(c),
         IsAligned(ptr, r.base_alignment), Lend(r, ptr, c)
  PROVE  /\ arg' \in [start : Nat, size : Nat] /\ Within(arg'.start, arg'.size, ptr, STORAGE_SIZE)
         /\ CellsOK(cells') /\ KeptApart(c, cells', ptr, STORAGE_SIZE)
<1>1. /\ r.required_size \in Nat /\ r.required_size <= STORAGE_SIZE /\ STORAGE_SIZE \in Nat
      /\ r.base_alignment \in Nat \ {0}
      /\ r.misalignment \in Nat /\ r.misalignment + r.required_size <= STORAGE_SIZE
  BY StorageAssumption
<1>2. AlignUp(ptr, r.base_alignment) = ptr
  BY <1>1, AlignUpFacts
<1>3. /\ arg' = [start |-> ptr + r.misalignment, size |-> r.required_size]
      /\ cells' = IF r.set_zero THEN Fill(c, ptr, r.required_size, Fixed(0)) ELSE c
  BY <1>2 DEF Lend
<1>4. arg' \in [start : Nat, size : Nat] /\ Within(arg'.start, arg'.size, ptr, STORAGE_SIZE)
  BY <1>1, <1>3 DEF Within
<1>5. CASE r.set_zero
  <2>1. Fixed(0) \in Value
    BY DEF Fixed, Value
  <2> DEFINE d == Fill(c, ptr, r.required_size, Fixed(0))
  <2>2. /\ CellsOK(d)
        /\ \A s, n \in Nat : Apart(s, n, ptr, r.required_size) => Kept(c, d, s, n)
    BY <1>1, <2>1, FillKeeps
  <2> HIDE DEF d
  <2>3. \A s, n \in Nat : Apart(s, n, ptr, STORAGE_SIZE) => Apart(s, n, ptr, r.required_size)
    BY <1>1 DEF Apart
  <2>4. cells' = d
    BY <1>3, <1>5 DEF d
  <2> QED BY <1>4, <2>2, <2>3, <2>4 DEF KeptApart
<1>6. CASE ~ r.set_zero
  <2>1. cells' = c
    BY <1>3, <1>6
  <2> QED BY <1>4, <2>1 DEF KeptApart, Kept
<1> QED BY <1>5, <1>6

(* shuffled_region fills its region, of whole lines, and chains it. *)
LEMMA ShuffleMakesChain ==
  ASSUME NEW r \in RegionRequests, NEW ptr \in Nat, BlockOf(ptr) \in Nat,
         NEW c, CellsOK(c), Shuffle(r, ptr, c)
  PROVE  RegionOK(region', ptr, cells') /\ CellsOK(cells')
<1> DEFINE L == UB_CACHE_LINE_SIZE
           lines == r.size \div L
           start == ptr + r.offset
           d == Fill(c, start, r.size, Fixed(-1))
<1>1. /\ r.size \in Nat /\ r.size > 0 /\ r.offset \in Int /\ IsAligned(r.size, L)
      /\ -TWO_MB <= r.offset /\ TWO_MB \in Nat
      /\ r.size + r.offset <= MAX_SHUFFLED_REGION_SIZE /\ MAX_SHUFFLED_REGION_SIZE \in Nat
      /\ L \in Nat \ {0}
  BY StorageAssumption
<1>2. start \in Nat /\ Within(start, r.size, BlockOf(ptr), RegionBlock)
  BY <1>1 DEF Within, BlockOf, RegionBlock
<1>3. lines \in Nat \ {0} /\ r.size = lines * L
  <2>1. PICK q \in Nat : r.size = L * q
    BY <1>1, Aligned
  <2>2. (L * q + 0) \div L = q /\ L * q \in Nat /\ L * q = q * L
    BY <1>1, Multiple, Products
  <2>3. lines = q
    BY <2>1, <2>2
  <2>4. q # 0
    <3>1. L * 0 = 0
      BY <1>1
    <3> QED BY <1>1, <2>1, <3>1
  <2> QED BY <2>1, <2>2, <2>3, <2>4
<1>4. PICK indexes \in Shuffles(lines) :
        /\ cells' = Linked(d, start, indexes)
        /\ region' = [start |-> start, size |-> r.size]
  BY DEF Shuffle
<1>5. CellsOK(d) /\ Addresses(start, lines * L) \subseteq DOMAIN d
  <2>1. Fixed(-1) \in Value
    BY DEF Fixed, Value
  <2>2. /\ DOMAIN d = DOMAIN c \union Addresses(start, r.size)
        /\ CellsOK(d)
    <3> DEFINE size == r.size
               v == Fixed(-1)
    <3> HIDE DEF lines, start, size, v
    <3>1. start \in Nat /\ size \in Nat /\ v \in Value
      BY <1>1, <1>2, <2>1 DEF size, v
    <3>2. /\ DOMAIN Fill(c, start, size, v) = DOMAIN c \union Addresses(start, size)
          /\ CellsOK(Fill(c, start, size, v))
      BY <3>1, FillTypes
    <3> QED BY <3>2 DEF size, v
  <2> QED BY <1>3, <2>2
<1> HIDE DEF d, lines, start
<1>6. /\ Chained(Linked(d, start, indexes), start, lines, indexes)
      /\ CellsOK(Linked(d, start, indexes))
  <2> USE <1>2
  <2> QED BY <1>3, <1>4, <1>5, LinkedChains
<1>7. region'.start = start /\ region'.size = r.size /\ region' \in [start : Nat, size : Nat]
  BY <1>1, <1>2, <1>4
<1>8. \E n \in Nat \ {0} : \E i \in Shuffles(n) :
        region'.size = n * L /\ Chained(cells', region'.start, n, i)
  BY <1>3, <1>4, <1>6, <1>7
<1>9. ptr # Null
  BY Constants
<1> QED BY <1>2, <1>4, <1>6, <1>7, <1>8, <1>9 DEF RegionOK

(* A chain stays while its storage is not written. *)
LEMMA RegionStays ==
  ASSUME NEW g, NEW regions, NEW c, NEW d, RegionOK(g, regions, c),
         regions # Null => BlockOf(regions) \in Nat /\ Kept(c, d, BlockOf(regions), RegionBlock)
  PROVE  RegionOK(g, regions, d)
<1> SUFFICES ASSUME g.size > 0
             PROVE  \E lines \in Nat \ {0} : \E indexes \in Shuffles(lines) :
                      g.size = lines * UB_CACHE_LINE_SIZE /\ Chained(d, g.start, lines, indexes)
  BY DEF RegionOK
<1>1. /\ g.start \in Nat /\ g.size \in Nat /\ regions # Null /\ BlockOf(regions) \in Nat
      /\ Within(g.start, g.size, BlockOf(regions), RegionBlock)
      /\ Kept(c, d, BlockOf(regions), RegionBlock)
  BY DEF RegionOK
<1>2. PICK lines \in Nat \ {0} : \E indexes \in Shuffles(lines) :
        g.size = lines * UB_CACHE_LINE_SIZE /\ Chained(c, g.start, lines, indexes)
  BY DEF RegionOK
<1>3. PICK indexes \in Shuffles(lines) :
        g.size = lines * UB_CACHE_LINE_SIZE /\ Chained(c, g.start, lines, indexes)
  BY <1>2
<1>4. Addresses(g.start, g.size) \subseteq Addresses(BlockOf(regions), RegionBlock)
  BY <1>1, RegionBlockType DEF Within, Addresses
<1>5. Kept(c, d, g.start, g.size)
  BY <1>1, <1>4 DEF Kept
<1>6. Chained(d, g.start, lines, indexes)
  BY <1>1, <1>3, <1>5, ChainKept
<1> QED BY <1>3, <1>6

(* new_huge_ptr returns the part of its block after the shift. *)
LEMMA NewHugeFacts ==
  ASSUME BlocksOK(blocks), CellsOK(cells), may \in Privileges,
         NEW place \in Places(TWO_MB), NEW size \in Nat \ {0}, new_huge_ptr(place, size)
  PROVE  /\ HugeStart(place) \in Nat /\ IsAligned(HugeStart(place), TWO_MB)
         /\ BlocksOK(blocks') /\ Grown(blocks, blocks')
         /\ Holds(blocks', HugeStart(place), size) /\ Below(blocks, HugeStart(place))
         /\ BlockOf(HugeStart(place)) \in Nat /\ Below(blocks, BlockOf(HugeStart(place)))
         /\ Holds(blocks', BlockOf(HugeStart(place)), size + TWO_MB)
         /\ ReportOK(report', may)
<1> DEFINE p == HugeStart(place)
           d == Touched(cells, p, size)
<1>1. place \in Nat /\ place >= TopOf(blocks) /\ IsAligned(place, TWO_MB) /\ TopOf(blocks) \in Nat
  BY PlaceFacts, TopFacts, Constants
<1>2. p \in Nat /\ p = place + TWO_MB /\ IsAligned(p, TWO_MB) /\ p >= TopOf(blocks)
  BY <1>1, AlignedNext, Constants DEF HugeStart
<1>3. Allocate(place, size + TWO_MB, "huge") /\ ReportTHP(p, size, d)
  BY DEF new_huge_ptr
<1>4. /\ blocks' = Append(blocks, [start |-> place, size |-> size + TWO_MB, advice |-> "huge"])
      /\ size + TWO_MB \in Nat /\ "huge" \in Advice
  BY <1>3, Constants DEF Allocate, Advice
<1>5. /\ BlocksOK(blocks') /\ Grown(blocks, blocks')
      /\ Holds(blocks', place, size + TWO_MB)
  BY <1>1, <1>4, AllocateFacts
<1>6. \A s, n \in Int : Within(s, n, p, size) => Within(s, n, place, size + TWO_MB)
  BY <1>1, <1>2, Constants DEF Within
<1>7. DOMAIN d = DOMAIN cells \union Addresses(p, size)
  BY <1>2, TouchedKeeps
<1>8. may \in SUBSET Privilege
  BY Constants
<1> HIDE DEF d, p
<1>9. ReportOK(report', may)
  BY <1>2, <1>3, <1>7, <1>8, ReportFacts DEF ReportOK
<1>10. Holds(blocks', p, size)
  BY <1>5, <1>6 DEF Holds
<1>11. Below(blocks, p)
  BY <1>2, TopFacts DEF Below
<1>12. BlockOf(p) = place
  BY <1>1, <1>2, Constants DEF BlockOf
<1>13. Below(blocks, place)
  BY <1>1, TopFacts DEF Below
<1> QED BY <1>1, <1>2, <1>5, <1>9, <1>10, <1>11, <1>12, <1>13 DEF p

LEMMA KeptApartTwice ==
  ASSUME NEW c, NEW d, NEW e, NEW start, NEW size,
         KeptApart(c, d, start, size), KeptApart(d, e, start, size)
  PROVE  KeptApart(c, e, start, size)
BY KeptTwice DEF KeptApart

LEMMA RegionApart ==
  ASSUME NEW g, NEW regions, NEW c, NEW d, RegionOK(g, regions, c),
         NEW start \in Nat, NEW size \in Nat, KeptApart(c, d, start, size),
         regions # Null => BlockOf(regions) \in Nat /\ Apart(BlockOf(regions), RegionBlock, start, size)
  PROVE  RegionOK(g, regions, d)
<1>1. regions # Null => BlockOf(regions) \in Nat /\ Kept(c, d, BlockOf(regions), RegionBlock)
  BY RegionBlockType DEF KeptApart
<1> QED BY <1>1, RegionStays

(* A new block is apart from the storage of the regions. *)
LEMMA NewIsApart ==
  ASSUME NEW b, NEW huge, NEW small, NEW regions, StoragesOK(b, huge, small, regions),
         NEW start \in Nat, Below(b, start)
  PROVE  /\ regions # Null => BlockOf(regions) \in Nat /\ BlockOf(regions) + RegionBlock <= start
         /\ huge # Null => huge \in Nat /\ huge + STORAGE_SIZE <= start
         /\ small # Null => small \in Nat /\ small + STORAGE_SIZE <= start
BY Constants, RegionBlockType DEF StoragesOK, Below

-----------------------------------------------------------------------------
(* Every call preserves the invariant. *)

LEMMA AlignedPtrKeeps ==
  ASSUME SInv, NEW r \in AlignedRequests, AlignedPtr(r)
  PROVE  SInv'
<1>1. /\ BlocksOK(blocks) /\ CellsOK(cells) /\ may \in Privileges
      /\ StoragesOK(blocks, storage_ptr_huge, storage_ptr_4k, storage_)
      /\ RegionOK(region, storage_, cells)
      /\ \A k \in Allocator : BufferOK(blocks, buffer[k])
      /\ ReportOK(report, may)
  BY DEF SInv
<1>2. /\ storage_ptr_4k' = storage_ptr_4k /\ storage_' = storage_ /\ buffer' = buffer
      /\ region' = region /\ may' = may
      /\ flushing' = flushing /\ reads' = reads /\ flushed' = flushed
  BY DEF AlignedPtr, flush
<1>3. r \in AlignedRequests \union AlignedRequests4k /\ r.base_alignment \in Nat \ {0}
      /\ IsAligned(TWO_MB, r.base_alignment)
  BY StorageAssumption
<1>4. \A p \in Nat : IsAligned(p, TWO_MB) => IsAligned(p, r.base_alignment)
  BY <1>3, AlignedTwice, Constants
<1>5. /\ BlocksOK(blocks') /\ CellsOK(cells') /\ ReportOK(report', may)
      /\ StoragesOK(blocks', storage_ptr_huge', storage_ptr_4k, storage_)
      /\ ArgOK(arg', storage_ptr_huge', storage_ptr_4k)
      /\ RegionOK(region, storage_, cells')
      /\ \A k \in Allocator : BufferOK(blocks', buffer[k])
  <2>1. CASE storage_ptr_huge = Null
    <3>1. PICK place \in Places(TWO_MB) :
            /\ new_huge_ptr(place, STORAGE_SIZE) /\ storage_ptr_huge' = HugeStart(place)
            /\ Lend(r, HugeStart(place), Touched(cells, HugeStart(place), STORAGE_SIZE))
      BY <2>1 DEF AlignedPtr
    <3> DEFINE p == HugeStart(place)
               c == Touched(cells, p, STORAGE_SIZE)
    <3>2. /\ p \in Nat /\ IsAligned(p, TWO_MB) /\ BlocksOK(blocks') /\ Grown(blocks, blocks')
          /\ Holds(blocks', p, STORAGE_SIZE) /\ Below(blocks, p) /\ ReportOK(report', may)
      BY <1>1, <3>1, NewHugeFacts, Constants
    <3> HIDE DEF p
    <3>3. CellsOK(c) /\ KeptApart(cells, c, p, STORAGE_SIZE)
      BY <1>1, <3>2, TouchedKeeps, Constants DEF KeptApart
    <3>4. Lend(r, p, c) /\ storage_ptr_huge' = p
      BY <3>1 DEF p
    <3> HIDE DEF c
    <3>5. /\ arg' \in [start : Nat, size : Nat] /\ Within(arg'.start, arg'.size, p, STORAGE_SIZE)
          /\ CellsOK(cells') /\ KeptApart(c, cells', p, STORAGE_SIZE)
      BY <1>3, <1>4, <3>2, <3>3, <3>4, LendFacts
    <3>6. p # Null /\ storage_ptr_huge' = p
      BY <3>2, <3>4, Constants
    <3>7. storage_ # Null => BlockOf(storage_) \in Nat /\ Apart(BlockOf(storage_), RegionBlock, p, STORAGE_SIZE)
      BY <1>1, <3>2, NewIsApart DEF Apart
    <3>8. RegionOK(region, storage_, cells')
      BY <1>1, <3>2, <3>3, <3>5, <3>7, KeptApartTwice, RegionApart, Constants
    <3>9. HeldBy(blocks', p, STORAGE_SIZE)
      BY <3>2, Constants DEF Holds, Within
    <3>10. /\ StoragesOK(blocks', storage_ptr_huge, storage_ptr_4k, storage_)
           /\ \A k \in Allocator : BufferOK(blocks', buffer[k])
      BY <1>1, <3>2, HeldStays
    <3>11. StoragesOK(blocks', storage_ptr_huge', storage_ptr_4k, storage_)
      BY <3>2, <3>6, <3>7, <3>9, <3>10 DEF StoragesOK
    <3>12. ArgOK(arg', storage_ptr_huge', storage_ptr_4k)
      BY <3>5, <3>6 DEF ArgOK
    <3> QED BY <3>2, <3>5, <3>8, <3>10, <3>11, <3>12
  <2>2. CASE storage_ptr_huge # Null
    <3>1. /\ Lend(r, storage_ptr_huge, cells)
          /\ blocks' = blocks /\ storage_ptr_huge' = storage_ptr_huge /\ report' = report
      BY <2>2 DEF AlignedPtr
    <3>2. storage_ptr_huge \in Nat /\ IsAligned(storage_ptr_huge, TWO_MB)
      BY <1>1, <2>2 DEF StoragesOK
    <3>3. /\ arg' \in [start : Nat, size : Nat]
          /\ Within(arg'.start, arg'.size, storage_ptr_huge, STORAGE_SIZE)
          /\ CellsOK(cells') /\ KeptApart(cells, cells', storage_ptr_huge, STORAGE_SIZE)
      BY <1>1, <1>3, <1>4, <3>1, <3>2, LendFacts
    <3>4. storage_ # Null =>
            /\ BlockOf(storage_) \in Nat
            /\ Apart(BlockOf(storage_), RegionBlock, storage_ptr_huge, STORAGE_SIZE)
      BY <1>1, <2>2 DEF StoragesOK
    <3>5. RegionOK(region, storage_, cells')
      BY <1>1, <3>2, <3>3, <3>4, RegionApart, Constants
    <3>6. ArgOK(arg', storage_ptr_huge', storage_ptr_4k)
      BY <2>2, <3>1, <3>3 DEF ArgOK
    <3> QED BY <1>1, <3>1, <3>3, <3>5, <3>6
  <2> QED BY <2>1, <2>2
<1> QED BY <1>2, <1>5 DEF SInv

LEMMA AlignedPtr4kKeeps ==
  ASSUME SInv, NEW r \in AlignedRequests4k, AlignedPtr4k(r)
  PROVE  SInv'
<1>1. /\ BlocksOK(blocks) /\ CellsOK(cells)
      /\ StoragesOK(blocks, storage_ptr_huge, storage_ptr_4k, storage_)
      /\ RegionOK(region, storage_, cells)
      /\ \A k \in Allocator : BufferOK(blocks, buffer[k])
  BY DEF SInv
<1>2. /\ storage_ptr_huge' = storage_ptr_huge /\ storage_' = storage_ /\ buffer' = buffer
      /\ region' = region /\ may' = may /\ report' = report
      /\ flushing' = flushing /\ reads' = reads /\ flushed' = flushed
  BY DEF AlignedPtr4k, flush
<1>3. r \in AlignedRequests \union AlignedRequests4k /\ r.base_alignment = PageAlignment
  BY StorageAssumption
<1>4. /\ BlocksOK(blocks') /\ CellsOK(cells')
      /\ StoragesOK(blocks', storage_ptr_huge, storage_ptr_4k', storage_)
      /\ ArgOK(arg', storage_ptr_huge, storage_ptr_4k')
      /\ RegionOK(region, storage_, cells')
      /\ \A k \in Allocator : BufferOK(blocks', buffer[k])
  <2>1. CASE storage_ptr_4k = Null
    <3>1. PICK p \in Places(PageAlignment) :
            /\ Allocate(p, STORAGE_SIZE, "default") /\ storage_ptr_4k' = p /\ Lend(r, p, cells)
      BY <1>3, <2>1 DEF AlignedPtr4k
    <3>2. p \in Nat /\ p >= TopOf(blocks) /\ IsAligned(p, PageAlignment)
      BY <1>1, PlaceFacts, Constants
    <3>3. /\ blocks' = Append(blocks, [start |-> p, size |-> STORAGE_SIZE, advice |-> "default"])
          /\ STORAGE_SIZE \in Nat /\ "default" \in Advice
      BY <3>1, Constants DEF Allocate, Advice
    <3>4. /\ BlocksOK(blocks') /\ Grown(blocks, blocks')
          /\ Below(blocks, p) /\ Holds(blocks', p, STORAGE_SIZE)
      BY <1>1, <3>2, <3>3, AllocateFacts
    <3>5. /\ arg' \in [start : Nat, size : Nat] /\ Within(arg'.start, arg'.size, p, STORAGE_SIZE)
          /\ CellsOK(cells') /\ KeptApart(cells, cells', p, STORAGE_SIZE)
      BY <1>1, <1>3, <3>1, <3>2, LendFacts
    <3>6. p # Null /\ storage_ptr_4k' = p
      BY <3>1, <3>2, Constants
    <3>7. storage_ # Null => BlockOf(storage_) \in Nat /\ Apart(BlockOf(storage_), RegionBlock, p, STORAGE_SIZE)
      BY <1>1, <3>2, <3>4, NewIsApart DEF Apart
    <3>8. RegionOK(region, storage_, cells')
      BY <1>1, <3>2, <3>5, <3>7, RegionApart, Constants
    <3>9. HeldBy(blocks', p, STORAGE_SIZE)
      BY <3>2, <3>4, Constants DEF Holds, Within
    <3>10. /\ StoragesOK(blocks', storage_ptr_huge, storage_ptr_4k, storage_)
           /\ \A k \in Allocator : BufferOK(blocks', buffer[k])
      BY <1>1, <3>4, HeldStays
    <3>11. StoragesOK(blocks', storage_ptr_huge, storage_ptr_4k', storage_)
      BY <3>2, <3>6, <3>7, <3>9, <3>10 DEF StoragesOK
    <3>12. ArgOK(arg', storage_ptr_huge, storage_ptr_4k')
      BY <3>5, <3>6 DEF ArgOK
    <3> QED BY <3>4, <3>5, <3>8, <3>10, <3>11, <3>12
  <2>2. CASE storage_ptr_4k # Null
    <3>1. /\ Lend(r, storage_ptr_4k, cells)
          /\ blocks' = blocks /\ storage_ptr_4k' = storage_ptr_4k
      BY <2>2 DEF AlignedPtr4k
    <3>2. storage_ptr_4k \in Nat /\ IsAligned(storage_ptr_4k, r.base_alignment)
      BY <1>1, <1>3, <2>2 DEF StoragesOK
    <3>3. /\ arg' \in [start : Nat, size : Nat]
          /\ Within(arg'.start, arg'.size, storage_ptr_4k, STORAGE_SIZE)
          /\ CellsOK(cells') /\ KeptApart(cells, cells', storage_ptr_4k, STORAGE_SIZE)
      BY <1>1, <1>3, <3>1, <3>2, LendFacts
    <3>4. storage_ # Null =>
            /\ BlockOf(storage_) \in Nat
            /\ Apart(BlockOf(storage_), RegionBlock, storage_ptr_4k, STORAGE_SIZE)
      BY <1>1, <2>2 DEF StoragesOK
    <3>5. RegionOK(region, storage_, cells')
      BY <1>1, <3>2, <3>3, <3>4, RegionApart, Constants
    <3>6. ArgOK(arg', storage_ptr_huge, storage_ptr_4k')
      BY <2>2, <3>1, <3>3 DEF ArgOK
    <3> QED BY <1>1, <3>1, <3>3, <3>5, <3>6
  <2> QED BY <2>1, <2>2
<1> QED BY <1>2, <1>4 DEF SInv

LEMMA BenchStoresKeeps ==
  ASSUME SInv, BenchStores
  PROVE  SInv'
<1>1. /\ CellsOK(cells) /\ StoragesOK(blocks, storage_ptr_huge, storage_ptr_4k, storage_)
      /\ ArgOK(arg, storage_ptr_huge, storage_ptr_4k) /\ RegionOK(region, storage_, cells)
  BY DEF SInv
<1>2. /\ arg.size > 0 /\ cells' = Fill(cells, arg.start, arg.size, <<"data", Null>>)
      /\ UNCHANGED <<blocks, storages, buffer, arg, region, flush, may, report>>
  BY DEF BenchStores
<1>3. arg.start \in Nat /\ arg.size \in Nat
  BY <1>1 DEF ArgOK
<1>4. <<"data", Null>> \in Value
  BY DEF Value
<1>5. CellsOK(cells') /\ KeptApart(cells, cells', arg.start, arg.size)
  BY <1>1, <1>2, <1>3, <1>4, FillKeeps DEF KeptApart
<1>6. storage_ # Null =>
        BlockOf(storage_) \in Nat /\ Apart(BlockOf(storage_), RegionBlock, arg.start, arg.size)
  <2> SUFFICES ASSUME storage_ # Null
               PROVE  BlockOf(storage_) \in Nat /\ Apart(BlockOf(storage_), RegionBlock, arg.start, arg.size)
    OBVIOUS
  <2>1. BlockOf(storage_) \in Nat
    BY <1>1 DEF StoragesOK
  <2>2. PICK ptr \in Nat : /\ Within(arg.start, arg.size, ptr, STORAGE_SIZE)
                           /\ Apart(BlockOf(storage_), RegionBlock, ptr, STORAGE_SIZE)
    BY <1>1, <1>2 DEF StoragesOK, ArgOK
  <2> QED BY <1>3, <2>1, <2>2, Constants, RegionBlockType DEF Within, Apart
<1>7. RegionOK(region, storage_, cells')
  BY <1>1, <1>3, <1>5, <1>6, RegionApart
<1> QED BY <1>2, <1>5, <1>7 DEF SInv, storages, flush

LEMMA RegionStoresKeeps ==
  ASSUME SInv, RegionStores
  PROVE  SInv'
<1>1. CellsOK(cells) /\ RegionOK(region, storage_, cells)
  BY DEF SInv
<1>2. /\ cells' = Fill(cells, region.start, region.size, <<"data", Null>>) /\ region' = NoSpan
      /\ UNCHANGED <<blocks, storages, buffer, arg, flush, may, report>>
  BY DEF RegionStores
<1>3. region.start \in Nat /\ region.size \in Nat
  BY <1>1 DEF RegionOK
<1>4. <<"data", Null>> \in Value
  BY DEF Value
<1>5. CellsOK(cells')
  BY <1>1, <1>2, <1>3, <1>4, FillKeeps
<1>6. RegionOK(region', storage_, cells')
  BY <1>2 DEF RegionOK, NoSpan
<1> QED BY <1>2, <1>5, <1>6 DEF SInv, storages, flush

LEMMA ShuffledRegionKeeps ==
  ASSUME SInv, NEW r \in RegionRequests, ShuffledRegion(r)
  PROVE  SInv'
<1>1. /\ BlocksOK(blocks) /\ CellsOK(cells) /\ may \in Privileges
      /\ StoragesOK(blocks, storage_ptr_huge, storage_ptr_4k, storage_)
      /\ \A k \in Allocator : BufferOK(blocks, buffer[k])
      /\ ReportOK(report, may)
  BY DEF SInv
<1>2. /\ storage_ptr_huge' = storage_ptr_huge /\ storage_ptr_4k' = storage_ptr_4k
      /\ buffer' = buffer /\ arg' = arg /\ may' = may
      /\ flushing' = flushing /\ reads' = reads /\ flushed' = flushed
  BY DEF ShuffledRegion, flush
<1>3. /\ BlocksOK(blocks') /\ CellsOK(cells') /\ ReportOK(report', may)
      /\ StoragesOK(blocks', storage_ptr_huge, storage_ptr_4k, storage_')
      /\ RegionOK(region', storage_', cells')
      /\ \A k \in Allocator : BufferOK(blocks', buffer[k])
  <2>1. CASE storage_ = Null
    <3>1. PICK place \in Places(TWO_MB) :
            /\ new_huge_ptr(place, MAX_SHUFFLED_REGION_SIZE) /\ storage_' = HugeStart(place)
            /\ Shuffle(r, HugeStart(place),
                       Touched(cells, HugeStart(place), MAX_SHUFFLED_REGION_SIZE))
      BY <2>1 DEF ShuffledRegion
    <3> DEFINE p == HugeStart(place)
               c == Touched(cells, p, MAX_SHUFFLED_REGION_SIZE)
    <3>2. /\ p \in Nat /\ BlocksOK(blocks') /\ Grown(blocks, blocks')
          /\ BlockOf(p) \in Nat /\ Holds(blocks', BlockOf(p), RegionBlock)
          /\ Below(blocks, BlockOf(p)) /\ ReportOK(report', may)
      BY <1>1, <3>1, NewHugeFacts, Constants DEF RegionBlock
    <3> HIDE DEF p
    <3>3. CellsOK(c)
      BY <1>1, <3>2, TouchedKeeps, Constants
    <3>4. Shuffle(r, p, c) /\ storage_' = p
      BY <3>1 DEF p
    <3> HIDE DEF c
    <3>5. RegionOK(region', p, cells') /\ CellsOK(cells')
      BY <3>2, <3>3, <3>4, ShuffleMakesChain
    <3>6. p # Null
      BY <3>2, Constants
    <3>7. /\ storage_ptr_huge # Null =>
               Apart(BlockOf(p), RegionBlock, storage_ptr_huge, STORAGE_SIZE)
          /\ storage_ptr_4k # Null =>
               Apart(BlockOf(p), RegionBlock, storage_ptr_4k, STORAGE_SIZE)
      BY <1>1, <3>2, NewIsApart DEF Apart
    <3>8. HeldBy(blocks', BlockOf(p), RegionBlock)
      BY <3>2, RegionBlockType DEF Holds, Within
    <3>9. /\ StoragesOK(blocks', storage_ptr_huge, storage_ptr_4k, storage_)
          /\ \A k \in Allocator : BufferOK(blocks', buffer[k])
      BY <1>1, <3>2, HeldStays
    <3>10. StoragesOK(blocks', storage_ptr_huge, storage_ptr_4k, storage_')
      BY <3>2, <3>4, <3>6, <3>7, <3>8, <3>9 DEF StoragesOK
    <3> QED BY <3>2, <3>4, <3>5, <3>9, <3>10
  <2>2. CASE storage_ # Null
    <3>1. Shuffle(r, storage_, cells) /\ blocks' = blocks /\ storage_' = storage_ /\ report' = report
      BY <2>2 DEF ShuffledRegion
    <3>2. storage_ \in Nat /\ BlockOf(storage_) \in Nat
      BY <1>1, <2>2 DEF StoragesOK
    <3>3. RegionOK(region', storage_, cells') /\ CellsOK(cells')
      BY <1>1, <3>1, <3>2, ShuffleMakesChain
    <3> QED BY <1>1, <3>1, <3>3
  <2> QED BY <2>1, <2>2
<1> QED BY <1>2, <1>3 DEF SInv

(* flush_helper writes only new memory, and reads its own buffer. *)
LEMMA FlushHelperFacts ==
  ASSUME SInv, NEW k \in Allocator, NEW working_set \in WorkingSets,
         NEW place \in Places(IF k = "huge" THEN TWO_MB ELSE 1),
         flush_helper(k, working_set, place)
  PROVE  /\ BlocksOK(blocks') /\ CellsOK(cells') /\ ReportOK(report', may)
         /\ StoragesOK(blocks', storage_ptr_huge, storage_ptr_4k, storage_)
         /\ RegionOK(region, storage_, cells')
         /\ buffer' \in [Allocator -> [start : Nat, size : WorkingSets \union {0}]]
         /\ \A j \in Allocator : BufferOK(blocks', buffer'[j])
         /\ \A j \in Allocator : j # k => buffer'[j] = buffer[j]
         /\ reads' = [reads EXCEPT ![k] = ReadBy(buffer'[k].start, working_set)]
         /\ reads' \in [Allocator -> SUBSET Int]
<1> DEFINE total_size == working_set + 2 * EXTRA_SIZE
           p == AllocStart(k, place)
<1>1. /\ BlocksOK(blocks) /\ CellsOK(cells) /\ may \in Privileges
      /\ StoragesOK(blocks, storage_ptr_huge, storage_ptr_4k, storage_)
      /\ RegionOK(region, storage_, cells)
      /\ buffer \in [Allocator -> [start : Nat, size : WorkingSets \union {0}]]
      /\ \A j \in Allocator : BufferOK(blocks, buffer[j])
      /\ ReportOK(report, may) /\ reads \in [Allocator -> SUBSET Int]
  BY DEF SInv, ReadsOK
<1>2. /\ working_set \in Nat \ {0} /\ EXTRA_SIZE \in Nat \ {0} /\ total_size \in Nat \ {0}
  <2>1. working_set \in Nat \ {0} /\ EXTRA_SIZE \in Nat \ {0}
    BY Constants
  <2> QED BY <2>1
<1>3. /\ BlocksOK(blocks') /\ CellsOK(cells') /\ ReportOK(report', may)
      /\ StoragesOK(blocks', storage_ptr_huge, storage_ptr_4k, storage_)
      /\ RegionOK(region, storage_, cells')
      /\ buffer' \in [Allocator -> [start : Nat, size : WorkingSets \union {0}]]
      /\ \A j \in Allocator : BufferOK(blocks', buffer'[j])
      /\ \A j \in Allocator : j # k => buffer'[j] = buffer[j]
      /\ reads' = [reads EXCEPT ![k] = ReadBy(buffer'[k].start, working_set)]
  <2>1. CASE buffer[k].size < working_set
    <3>1. /\ alloc(k, place, total_size)
          /\ cells' = Fill(cells, p, total_size, Fixed(1))
          /\ buffer' = [buffer EXCEPT ![k] = [start |-> p + EXTRA_SIZE, size |-> working_set]]
          /\ reads' = [reads EXCEPT ![k] = ReadBy(p + EXTRA_SIZE, working_set)]
      BY <2>1 DEF flush_helper
    <3> HIDE DEF total_size
    <3>2. /\ p \in Nat /\ BlocksOK(blocks') /\ Grown(blocks, blocks')
          /\ Holds(blocks', p, total_size) /\ Below(blocks, p)
          /\ ReportOK(report', may)
      <4>1. CASE k = "huge"
        <5>1. place \in Places(TWO_MB) /\ new_huge_ptr(place, total_size) /\ p = HugeStart(place)
          BY <3>1, <4>1 DEF alloc, AllocStart
        <5> HIDE DEF p
        <5> QED BY <1>1, <1>2, <5>1, NewHugeFacts
      <4>2. CASE k # "huge"
        <5>1. /\ place \in Places(1) /\ Allocate(place, total_size, "default") /\ p = place
              /\ report' = report
          BY <3>1, <4>2 DEF alloc, AllocStart
        <5>2. place \in Nat /\ place >= TopOf(blocks)
          BY <1>1, <5>1, PlaceFacts
        <5>3. /\ blocks' = Append(blocks, [start |-> place, size |-> total_size, advice |-> "default"])
              /\ total_size \in Nat /\ "default" \in Advice
          BY <1>2, <5>1 DEF Allocate, Advice
        <5>4. /\ BlocksOK(blocks') /\ Grown(blocks, blocks')
              /\ Below(blocks, place) /\ Holds(blocks', place, total_size)
          BY <1>1, <5>2, <5>3, AllocateFacts
        <5> HIDE DEF p
        <5> QED BY <1>1, <5>1, <5>2, <5>4
      <4> QED BY <4>1, <4>2
    <3> HIDE DEF p
    <3>3. Fixed(1) \in Value
      BY DEF Fixed, Value
    <3>4. CellsOK(cells') /\ KeptApart(cells, cells', p, total_size)
      BY <1>1, <1>2, <3>1, <3>2, <3>3, FillKeeps DEF KeptApart
    <3>5. storage_ # Null => BlockOf(storage_) \in Nat /\ Apart(BlockOf(storage_), RegionBlock, p, total_size)
      BY <1>1, <3>2, NewIsApart DEF Apart
    <3>6. RegionOK(region, storage_, cells')
      BY <1>1, <1>2, <3>2, <3>4, <3>5, RegionApart
    <3>7. /\ StoragesOK(blocks', storage_ptr_huge, storage_ptr_4k, storage_)
          /\ \A j \in Allocator : BufferOK(blocks', buffer[j])
      BY <1>1, <3>2, HeldStays
    <3> DEFINE f == [start |-> p + EXTRA_SIZE, size |-> working_set]
    <3>8. /\ f \in [start : Nat, size : WorkingSets \union {0}]
          /\ f.start >= EXTRA_SIZE /\ f.start - EXTRA_SIZE = p /\ f.size + 2 * EXTRA_SIZE = total_size
      BY <1>2, <3>2 DEF total_size
    <3>9. HeldBy(blocks', p, total_size)
      BY <1>2, <3>2 DEF Holds, Within
    <3>10. BufferOK(blocks', f)
      <4> HIDE DEF f
      <4> QED BY <3>8, <3>9 DEF BufferOK
    <3>11. f.start = p + EXTRA_SIZE
      OBVIOUS
    <3>12. buffer' = [buffer EXCEPT ![k] = f]
      BY <3>1
    <3> HIDE DEF f
    <3>13. /\ buffer'[k] = f /\ \A j \in Allocator : j # k => buffer'[j] = buffer[j]
           /\ buffer' \in [Allocator -> [start : Nat, size : WorkingSets \union {0}]]
      BY <1>1, <3>8, <3>12
    <3>14. \A j \in Allocator : BufferOK(blocks', buffer'[j])
      BY <3>7, <3>10, <3>13
    <3>15. reads' = [reads EXCEPT ![k] = ReadBy(buffer'[k].start, working_set)]
      BY <3>1, <3>11, <3>13
    <3> QED BY <3>2, <3>4, <3>6, <3>7, <3>13, <3>14, <3>15
  <2>2. CASE ~ (buffer[k].size < working_set)
    <3>1. /\ blocks' = blocks /\ cells' = cells /\ buffer' = buffer /\ report' = report
          /\ reads' = [reads EXCEPT ![k] = ReadBy(buffer[k].start, working_set)]
      BY <2>2 DEF flush_helper
    <3> QED BY <1>1, <3>1
  <2> QED BY <2>1, <2>2
<1>4. ReadBy(buffer'[k].start, working_set) \subseteq Int
  <2>1. buffer'[k].start \in Nat
    BY <1>3
  <2>2. Addresses(buffer'[k].start, working_set) \subseteq Int
    BY <1>2, <2>1 DEF Addresses
  <2>3. ReadBy(buffer'[k].start, working_set) \subseteq Addresses(buffer'[k].start, working_set)
    BY <1>2, <2>1, ReadCovers
  <2> QED BY <2>2, <2>3
<1>5. reads' \in [Allocator -> SUBSET Int]
  BY <1>1, <1>3, <1>4
<1> QED BY <1>3, <1>5

LEMMA FlushHugeKeeps ==
  ASSUME SInv, NEW working_set \in WorkingSets, FlushHuge(working_set)
  PROVE  SInv'
<1>1. /\ flushing = 0 /\ flushing' = working_set
      /\ UNCHANGED <<storages, arg, region, flushed, may>>
  BY DEF FlushHuge
<1>2. PICK place \in Places(TWO_MB) : flush_helper("huge", working_set, place)
  BY DEF FlushHuge
<1>3. "huge" \in Allocator /\ working_set # 0
  BY Constants DEF Allocator
<1>4. /\ BlocksOK(blocks') /\ CellsOK(cells') /\ ReportOK(report', may)
      /\ StoragesOK(blocks', storage_ptr_huge, storage_ptr_4k, storage_)
      /\ RegionOK(region, storage_, cells')
      /\ buffer' \in [Allocator -> [start : Nat, size : WorkingSets \union {0}]]
      /\ \A j \in Allocator : BufferOK(blocks', buffer'[j])
      /\ reads' = [reads EXCEPT !["huge"] = ReadBy(buffer'["huge"].start, working_set)]
      /\ reads' \in [Allocator -> SUBSET Int]
  BY <1>2, <1>3, FlushHelperFacts
<1>5. ReadsOK(reads, buffer, flushing, flushed)
  BY DEF SInv
<1>6. reads'["huge"] = ReadBy(buffer'["huge"].start, working_set)
  BY <1>3, <1>4, <1>5 DEF ReadsOK
<1>7. ReadsOK(reads', buffer', flushing', flushed')
  BY <1>1, <1>3, <1>4, <1>5, <1>6 DEF ReadsOK
<1> QED BY <1>1, <1>4, <1>7 DEF SInv, storages

LEMMA FlushNewKeeps ==
  ASSUME SInv, FlushNew
  PROVE  SInv'
<1>1. /\ flushing # 0 /\ flushing' = 0 /\ flushed' = flushing
      /\ UNCHANGED <<storages, arg, region, may>>
  BY DEF FlushNew
<1>2. PICK place \in Places(1) : flush_helper("new", flushing, place)
  BY DEF FlushNew
<1>3. ReadsOK(reads, buffer, flushing, flushed) /\ ArgOK(arg, storage_ptr_huge, storage_ptr_4k)
      /\ may \in Privileges
  BY DEF SInv
<1>4. "new" \in Allocator /\ "huge" \in Allocator /\ "new" # "huge" /\ flushing \in WorkingSets
  BY <1>1, <1>3 DEF Allocator, ReadsOK
<1>5. /\ BlocksOK(blocks') /\ CellsOK(cells') /\ ReportOK(report', may)
      /\ StoragesOK(blocks', storage_ptr_huge, storage_ptr_4k, storage_)
      /\ RegionOK(region, storage_, cells')
      /\ buffer' \in [Allocator -> [start : Nat, size : WorkingSets \union {0}]]
      /\ \A j \in Allocator : BufferOK(blocks', buffer'[j])
      /\ \A j \in Allocator : j # "new" => buffer'[j] = buffer[j]
      /\ reads' = [reads EXCEPT !["new"] = ReadBy(buffer'["new"].start, flushing)]
      /\ reads' \in [Allocator -> SUBSET Int]
  BY <1>2, <1>4, FlushHelperFacts
<1>6. /\ reads'["new"] = ReadBy(buffer'["new"].start, flushing)
      /\ reads'["huge"] = ReadBy(buffer'["huge"].start, flushing)
  <2>1. reads \in [Allocator -> SUBSET Int] /\ reads["huge"] = ReadBy(buffer["huge"].start, flushing)
    BY <1>1, <1>3 DEF ReadsOK
  <2>2. reads'["huge"] = reads["huge"] /\ buffer'["huge"] = buffer["huge"]
    BY <1>4, <1>5, <2>1
  <2>3. reads'["new"] = ReadBy(buffer'["new"].start, flushing)
    BY <1>4, <1>5, <2>1
  <2> QED BY <2>1, <2>2, <2>3
<1>7. ReadsOK(reads', buffer', flushing', flushed')
  BY <1>1, <1>3, <1>5, <1>6 DEF ReadsOK, Allocator
<1> QED BY <1>1, <1>3, <1>5, <1>7 DEF SInv, storages

-----------------------------------------------------------------------------
(* The theorems. *)

LEMMA StorageInitially == Init => SInv
<1> SUFFICES ASSUME Init PROVE SInv
  OBVIOUS
<1>1. BlocksOK(blocks)
  <2>1. blocks = <<>> /\ <<>> \in Seq(Block) /\ DOMAIN <<>> = {}
    BY DEF Init
  <2> QED BY <2>1 DEF BlocksOK
<1>2. CellsOK(cells) /\ StoragesOK(blocks, storage_ptr_huge, storage_ptr_4k, storage_)
  BY DEF Init, CellsOK, StoragesOK
<1>3. ArgOK(arg, storage_ptr_huge, storage_ptr_4k) /\ RegionOK(region, storage_, cells)
  BY DEF Init, ArgOK, RegionOK, NoSpan
<1>4. /\ buffer \in [Allocator -> [start : Nat, size : WorkingSets \union {0}]]
      /\ \A k \in Allocator : BufferOK(blocks, buffer[k])
  BY DEF Init, BufferOK, NoSpan
<1>5. ReadsOK(reads, buffer, flushing, flushed)
  BY DEF Init, ReadsOK
<1>6. may \in Privileges /\ ReportOK(report, may)
  BY DEF Init, ReportOK, ReportRight, NoSpan, NoPages, Span
<1> QED BY <1>1, <1>2, <1>3, <1>4, <1>5, <1>6 DEF SInv

LEMMA StorageStep == SInv /\ [Next]_vars => SInv'
<1> SUFFICES ASSUME SInv, [Next]_vars PROVE SInv'
  OBVIOUS
<1>1. ASSUME NEW r \in AlignedRequests, AlignedPtr(r) PROVE SInv'
  BY <1>1, AlignedPtrKeeps
<1>2. ASSUME NEW r \in AlignedRequests4k, AlignedPtr4k(r) PROVE SInv'
  BY <1>2, AlignedPtr4kKeeps
<1>3. CASE BenchStores
  BY <1>3, BenchStoresKeeps
<1>4. CASE RegionStores
  BY <1>4, RegionStoresKeeps
<1>5. ASSUME NEW r \in RegionRequests, ShuffledRegion(r) PROVE SInv'
  BY <1>5, ShuffledRegionKeeps
<1>6. ASSUME NEW working_set \in WorkingSets, FlushHuge(working_set) PROVE SInv'
  BY <1>6, FlushHugeKeeps
<1>7. CASE FlushNew
  BY <1>7, FlushNewKeeps
<1>8. CASE UNCHANGED vars
  BY <1>8 DEF vars, storages, flush, SInv
<1> QED BY <1>1, <1>2, <1>3, <1>4, <1>5, <1>6, <1>7, <1>8 DEF Next

LEMMA StorageInvariant == Spec => []SInv
BY StorageInitially, StorageStep, PTL DEF Spec

(* The variables of the storages always have their types: every address    *)
(* that was written is a natural number, every report counts pages.        *)
THEOREM StorageTypeCorrect == Spec => []TypeOK
<1>1. SInv => TypeOK
  <2> SUFFICES ASSUME SInv PROVE TypeOK
    OBVIOUS
  <2>1. blocks \in Seq([start : Nat, size : Nat, advice : Advice])
    BY DEF SInv, BlocksOK, Block
  <2>2. \A a \in DOMAIN cells : a \in Nat /\ cells[a] \in Value
    BY DEF SInv, CellsOK
  <2>3. {storage_ptr_huge, storage_ptr_4k, storage_} \subseteq Nat \union {Null}
    BY DEF SInv, StoragesOK
  <2>4. \A k \in Allocator : buffer[k] \in [start : Int, size : WorkingSets \union {0}]
    BY DEF SInv, BufferOK
  <2>5. arg \in Span /\ region \in Span
    BY DEF SInv, ArgOK, RegionOK, Span
  <2>6. reads \in [Allocator -> SUBSET Int] /\ {flushing, flushed} \subseteq WorkingSets \union {0}
    BY DEF SInv, ReadsOK
  <2>7. may \in Privileges /\ report \in [on : Span, count : [DOMAIN NoPages -> Nat]]
    BY DEF SInv, ReportOK
  <2> QED BY <2>1, <2>2, <2>3, <2>4, <2>5, <2>6, <2>7 DEF TypeOK
<1> QED BY <1>1, StorageInvariant, PTL

(* Whatever aligned_ptr, aligned_ptr_4k, shuffled_region and flush_caches  *)
(* lend lies in one allocated block, for every alignment, size and offset  *)
(* the callers may ask for and in whatever order they come: an offset that *)
(* is negative reaches back into the shift of new_huge_ptr, no further.    *)
THEOREM LentAlwaysInBlock == Spec => []LentInBlock
<1>1. SInv => LentInBlock
  <2> SUFFICES ASSUME SInv PROVE LentInBlock
    OBVIOUS
  <2>1. \A s, n : InBlock(s, n) <=> HeldBy(blocks, s, n)
    BY DEF InBlock, HeldBy, Within
  <2>2. \A i \in DOMAIN blocks : blocks[i].start \in Nat /\ blocks[i].size \in Nat
    <3>1. \A i \in DOMAIN blocks : blocks[i] \in Block
      BY DEF SInv, BlocksOK
    <3> QED BY <3>1 DEF Block
  <2>3. ASSUME NEW start \in Nat, NEW size \in Nat, HeldBy(blocks, start, size),
               NEW s \in Nat, NEW n \in Nat, Within(s, n, start, size)
        PROVE  HeldBy(blocks, s, n)
    BY <2>2, <2>3 DEF HeldBy, Within
  <2>4. ASSUME arg.size > 0 PROVE HeldBy(blocks, arg.start, arg.size)
    <3>1. arg.start \in Nat /\ arg.size \in Nat
      BY DEF SInv, ArgOK
    <3>2. PICK ptr \in Nat : HeldBy(blocks, ptr, STORAGE_SIZE)
                             /\ Within(arg.start, arg.size, ptr, STORAGE_SIZE)
      BY <2>4 DEF SInv, ArgOK, StoragesOK
    <3> QED BY <2>3, <3>1, <3>2, Constants
  <2>5. ASSUME region.size > 0 PROVE HeldBy(blocks, region.start, region.size)
    <3>1. region.start \in Nat /\ region.size \in Nat
      BY DEF SInv, RegionOK
    <3>2. /\ BlockOf(storage_) \in Nat /\ HeldBy(blocks, BlockOf(storage_), RegionBlock)
          /\ Within(region.start, region.size, BlockOf(storage_), RegionBlock)
      BY <2>5 DEF SInv, RegionOK, StoragesOK
    <3> QED BY <2>3, <3>1, <3>2, RegionBlockType
  <2>6. \A k \in Allocator : buffer[k].size > 0 =>
          HeldBy(blocks, buffer[k].start - EXTRA_SIZE, buffer[k].size + 2 * EXTRA_SIZE)
    BY DEF SInv, BufferOK
  <2> QED BY <2>1, <2>4, <2>5, <2>6 DEF LentInBlock
<1> QED BY <1>1, StorageInvariant, PTL

(* The pointers of a shuffled region are one cycle through all of its      *)
(* lines, for every number of lines, every shuffle and every offset, also  *)
(* one in front of the storage, until the region is written or shuffled    *)
(* again.                                                                  *)
THEOREM RegionAlwaysIntact == Spec => []RegionIntact
<1>1. SInv => RegionIntact
  <2> SUFFICES ASSUME SInv PROVE RegionIntact
    OBVIOUS
  <2>1. ASSUME region.size > 0
        PROVE  /\ region.start \in Nat /\ region.size \div UB_CACHE_LINE_SIZE \in Nat \ {0}
               /\ \E indexes \in Shuffles(region.size \div UB_CACHE_LINE_SIZE) :
                    Chained(cells, region.start, region.size \div UB_CACHE_LINE_SIZE, indexes)
    <3>1. PICK lines \in Nat \ {0} : \E indexes \in Shuffles(lines) :
            region.size = lines * UB_CACHE_LINE_SIZE /\ Chained(cells, region.start, lines, indexes)
      BY <2>1 DEF SInv, RegionOK
    <3>2. region.start \in Nat
      BY DEF SInv, RegionOK
    <3>3. region.size \div UB_CACHE_LINE_SIZE = lines
      <4>1. (UB_CACHE_LINE_SIZE * lines + 0) \div UB_CACHE_LINE_SIZE = lines
        BY Constants, Multiple
      <4>2. UB_CACHE_LINE_SIZE * lines + 0 = region.size
        BY <3>1, Constants, Products
      <4> QED BY <4>1, <4>2
    <3> QED BY <3>1, <3>2, <3>3
  <2>2. RegionChained
    BY <2>1 DEF RegionChained
  <2> QED BY <2>1, <2>2, ChainIsCycle
<1> QED BY <1>1, StorageInvariant, PTL

(* flush_caches reads every line of its working set in both buffers, also  *)
(* in one that is left from a larger call, and nothing outside, for every  *)
(* size of a working set, multiple of a line or not.                       *)
THEOREM FlushAlwaysCovers == Spec => []FlushCovers
<1>1. SInv => FlushCovers
  <2> SUFFICES ASSUME SInv, flushing = 0, flushed # 0, NEW k \in Allocator
               PROVE  LET lines == 0 .. (flushed - 1) \div UB_CACHE_LINE_SIZE
                      IN /\ reads[k] \subseteq Addresses(buffer[k].start, flushed)
                         /\ \A n \in lines : reads[k] \cap
                              Addresses(buffer[k].start + n * UB_CACHE_LINE_SIZE,
                                        UB_CACHE_LINE_SIZE) # {}
    BY DEF FlushCovers
  <2>1. flushed \in Nat \ {0} /\ reads[k] = ReadBy(buffer[k].start, flushed)
    BY Constants DEF SInv, ReadsOK
  <2>2. buffer[k].start \in Nat
    BY DEF SInv
  <2> QED BY <2>1, <2>2, ReadCovers
<1> QED BY <1>1, StorageInvariant, PTL

(* new_huge_ptr counts the pages of the memory it returns, all and only    *)
(* them, for every size of a page, an address and a number of bytes: with  *)
(* the flag of each of them when the process has the privileges.           *)
THEOREM PagesAlwaysReported == Spec => []PagesReported
<1>1. SInv => PagesReported
  BY DEF SInv, ReportOK, ReportRight, PagesReported
<1> QED BY <1>1, StorageInvariant, PTL
=============================================================================
