----------------------------- MODULE TerminalProofs ----------------------------
(***************************************************************************)
(* Proofs about the live terminal, for every value of the constants:        *)
(* whatever is delivered late or twice, and whenever the parameters are     *)
(* refitted, statistics, intensities, tape and chart are those of the       *)
(* trades that were accepted (SessionExact, ChartExact), and in every size  *)
(* the picture of the chart says what the chart says (PictureExact).        *)
(*                                                                          *)
(* SessionExact and ChartExact speak of all accepted trades at once and the *)
(* code adds one at a time, so their proof is a homomorphism: for each      *)
(* figure a lemma says how its definition over Append(trades, t) follows    *)
(* from that over trades (AddedAppend, HistoryGrows, OrdersAppend,          *)
(* NewestAppend, AcceptedAppend), and IInv says that the state is the       *)
(* figure.                                                                  *)
(*                                                                          *)
(* PictureExact is a fact about every chart, and every history is one       *)
(* (HistoryCharted).  Bars and candles are layers that do not overlap, so   *)
(* a cell shows the layer that has it (PaintingIs); the labels of the time  *)
(* axis are placed one by one beside those before; the dots of the close    *)
(* line are those of an invariant of Bresenham's algorithm (PenAt), at most *)
(* half a dot off after every round.                                        *)
(***************************************************************************)
EXTENDS Terminal, FoldLemmas

(* The extremes of a finite set of numbers.                                  *)
Numbers(S) == S \in SUBSET Int /\ IsFiniteSet(S)

LEMMA MaxIs ==
  ASSUME NEW S, Numbers(S), S # {}
  PROVE  Max(S) \in S /\ Max(S) \in Int /\ \A y \in S : Max(S) >= y
<1>1. \E x \in S : \A y \in S : x >= y
  BY LargestExists DEF Numbers
<1>2. Max(S) \in S /\ \A y \in S : Max(S) >= y
  BY <1>1 DEF Max
<1> QED
  BY <1>2 DEF Numbers

LEMMA MinIs ==
  ASSUME NEW S, Numbers(S), S # {}
  PROVE  Min(S) \in S /\ Min(S) \in Int /\ \A y \in S : Min(S) <= y
<1>1. \E x \in S : \A y \in S : x <= y
  BY SmallestExists DEF Numbers
<1>2. Min(S) \in S /\ \A y \in S : Min(S) <= y
  BY <1>1 DEF Min
<1> QED
  BY <1>2 DEF Numbers

LEMMA Pair ==
  ASSUME NEW a \in Int, NEW b \in Int
  PROVE  /\ Numbers({a, b}) /\ Numbers({a})
         /\ Max({a, b}) = IF a >= b THEN a ELSE b
         /\ Min({a, b}) = IF a <= b THEN a ELSE b
         /\ Max({a}) = a /\ Min({a}) = a
<1>1. Numbers({a, b})
  <2>1. IsFiniteSet({a})
    BY FS_Singleton
  <2>2. IsFiniteSet({a} \cup {b})
    BY <2>1, FS_AddElement
  <2>3. {a} \cup {b} = {a, b}
    OBVIOUS
  <2> QED
    BY <2>2, <2>3 DEF Numbers
<1>2. Numbers({a})
  BY FS_Singleton DEF Numbers
<1>3. Max({a, b}) \in {a, b} /\ Max({a, b}) >= a /\ Max({a, b}) >= b
  BY <1>1, MaxIs
<1>4. Min({a, b}) \in {a, b} /\ Min({a, b}) <= a /\ Min({a, b}) <= b
  BY <1>1, MinIs
<1>5. Max({a}) = a /\ Min({a}) = a
  BY <1>2, MaxIs, MinIs
<1> QED
  BY <1>1, <1>2, <1>3, <1>4, <1>5

LEMMA NumbersAdd ==
  ASSUME NEW S, Numbers(S), S # {}, NEW a \in Int
  PROVE  /\ Numbers(S \cup {a})
         /\ Max(S \cup {a}) = Max({Max(S), a})
         /\ Min(S \cup {a}) = Min({Min(S), a})
<1> DEFINE T == S \cup {a}
<1>1. Numbers(T) /\ T # {} /\ S \subseteq T /\ a \in T /\ \A x \in T : x \in S \/ x = a
  BY FS_AddElement DEF Numbers
<1>2. Max(S) \in S /\ Max(S) \in Int /\ \A y \in S : Max(S) >= y
  BY MaxIs
<1>3. Min(S) \in S /\ Min(S) \in Int /\ \A y \in S : Min(S) <= y
  BY MinIs
<1> HIDE DEF T
<1>4. Max(T) \in T /\ Max(T) \in Int /\ \A y \in T : Max(T) >= y
  BY <1>1, MaxIs
<1>5. Min(T) \in T /\ Min(T) \in Int /\ \A y \in T : Min(T) <= y
  BY <1>1, MinIs
<1>6. Max(T) = IF Max(S) >= a THEN Max(S) ELSE a
  BY <1>1, <1>2, <1>4
<1>7. Min(T) = IF Min(S) <= a THEN Min(S) ELSE a
  BY <1>1, <1>3, <1>5
<1> QED
  BY <1>1, <1>2, <1>3, <1>6, <1>7, Pair DEF T

LEMMA NumbersSubset ==
  ASSUME NEW S, Numbers(S), NEW T \in SUBSET S
  PROVE  /\ Numbers(T) /\ Cardinality(T) \in Nat /\ Cardinality(T) <= Cardinality(S)
         /\ Cardinality(S) = Cardinality(T) => S = T
BY FS_Subset, FS_CardinalityType DEF Numbers

(* The values that the places of a sequence take are finitely many.          *)
LEMMA ValuesFinite ==
  ASSUME NEW n \in Nat, NEW f, NEW S, S = {f[i] : i \in 1 .. n}
  PROVE  IsFiniteSet(S)
<1> DEFINE g == [i \in 1 .. n |-> f[i]]
<1>1. g \in Surjection(1 .. n, S)
  BY DEF Surjection
<1>2. IsFiniteSet(1 .. n)
  BY FS_Interval
<1> QED
  BY <1>1, <1>2, FS_Surjection

-----------------------------------------------------------------------------
(* Sums of numbers.                                                          *)
Itself == [n \in Int |-> n]

LEMMA AddedIs ==
  ASSUME NEW s \in Seq(Int)
  PROVE  Added(s) = Weight(Itself, s)
<1> DEFINE F(h) == [t \in SUBSET DOMAIN s |->
                      IF t = {} THEN 0 ELSE h[t \ {Max(t)}] + s[Max(t)]]
           f == CHOOSE h : h = F(h)
<1>1. Added(s) = f[DOMAIN s]
  BY DEF Added, FoldLeft, MapThenFoldSet
<1>2. \A t \in SUBSET DOMAIN s : t # {} => Itself[s[Max(t)]] = s[Max(t)]
  BY LastPlace DEF Itself
<1>3. \A h : h = F(h) <=> AddsUp(h, Itself, 0, s)
  BY <1>2 DEF AddsUp
<1>4. Summed(Itself, s, Int)
  BY DEF Summed, Itself
<1>5. f = F(f)
  <2>1. PICK h : AddsUp(h, Itself, 0, s)
    BY <1>4, SumExists
  <2>2. h = F(h)
    BY <1>3, <2>1
  <2> QED
    BY <2>2
<1>6. AddsUp(f, Itself, 0, s)
  BY <1>3, <1>5
<1>7. f[DOMAIN s] = 0 + Weight(Itself, s)
  <2> HIDE DEF f
  <2> QED
    BY <1>4, <1>6, SumFrom
<1>8. Weight(Itself, s) \in Int
  BY WeightType DEF Itself
<1> HIDE DEF f
<1> QED
  BY <1>1, <1>7, <1>8

LEMMA AddedEmpty == Added(<<>>) = 0
<1>1. <<>> \in Seq(Int)
  OBVIOUS
<1>2. Weight(Itself, <<>>) = 0
  BY WeightEmpty DEF Itself
<1> QED
  BY <1>1, <1>2, AddedIs

LEMMA AddedAppend ==
  ASSUME NEW s \in Seq(Int), NEW n \in Int
  PROVE  Added(s) \in Int /\ Added(Append(s, n)) = Added(s) + n
<1>1. Itself \in [Int -> Int] /\ Itself[n] = n /\ Append(s, n) \in Seq(Int)
  BY DEF Itself
<1> QED
  BY <1>1, AddedIs, WeightAppend, WeightType

-----------------------------------------------------------------------------
(* The n largest of a set of numbers, the buckets that a history keeps.      *)
Above(B, x) == {c \in B : c > x}

Latest(B, n) == {b \in B : Cardinality(Above(B, b)) < n}

LEMMA LatestFacts ==
  ASSUME NEW B, Numbers(B), NEW n \in Nat \ {0}
  PROVE  /\ Numbers(Latest(B, n)) /\ Latest(B, n) \subseteq B
         /\ Cardinality(Latest(B, n)) \in 0 .. n
         /\ Latest(B, n) # B => Cardinality(Latest(B, n)) = n
         /\ \A x \in Latest(B, n), y \in B : y >= x => y \in Latest(B, n)
         /\ \A x \in Latest(B, n), y \in B \ Latest(B, n) : y < x
         /\ B # {} => Latest(B, n) # {}
<1> DEFINE L == Latest(B, n)
<1>0. \A x \in B : x \in Int
  BY DEF Numbers
<1>1. L \in SUBSET B /\ L \subseteq Int
  BY <1>0 DEF Latest
<1>2. Numbers(L) /\ Cardinality(L) \in Nat
  <2> HIDE DEF L
  <2> QED
    BY <1>1, NumbersSubset
<1>3. \A x \in B : Numbers(Above(B, x)) /\ Cardinality(Above(B, x)) \in Nat
  <2> SUFFICES ASSUME NEW x \in B PROVE Numbers(Above(B, x)) /\ Cardinality(Above(B, x)) \in Nat
    OBVIOUS
  <2>1. Above(B, x) \in SUBSET B
    BY DEF Above
  <2> QED
    BY <2>1, NumbersSubset
<1>4. ASSUME NEW x \in L, NEW y \in B, y >= x PROVE y \in L
  <2>1. Above(B, y) \in SUBSET Above(B, x)
    <3>1. x \in Int /\ y \in Int
      BY <1>0, <1>1, <1>4
    <3>2. \A c \in B : c > y => c > x
      BY <1>0, <1>4, <3>1
    <3> QED
      BY <3>2 DEF Above
  <2>2. Cardinality(Above(B, y)) <= Cardinality(Above(B, x))
    BY <1>1, <1>3, <2>1, NumbersSubset
  <2> QED
    BY <1>1, <1>3, <2>2 DEF Latest
<1>5. Cardinality(L) <= n
  <2>1. CASE L = {}
    BY <2>1, FS_EmptySet
  <2>2. CASE L # {}
    <3>1. PICK m \in L : \A y \in L : m <= y
      <4> HIDE DEF L
      <4> QED
        BY <1>2, <2>2, MinIs
    <3>2. L \ {m} \in SUBSET Above(B, m)
      BY <1>1, <3>1 DEF Above
    <3>3. Cardinality(L \ {m}) <= Cardinality(Above(B, m))
      BY <1>1, <1>3, <3>1, <3>2, NumbersSubset
    <3>4. Cardinality(L \ {m}) = Cardinality(L) - 1
      <4> HIDE DEF L
      <4> QED
        BY <1>2, <3>1, FS_RemoveElement DEF Numbers
    <3>5. Cardinality(Above(B, m)) < n
      BY <3>1 DEF Latest
    <3> HIDE DEF L
    <3> QED
      BY <1>1, <1>2, <1>3, <3>1, <3>3, <3>4, <3>5
  <2> QED
    BY <2>1, <2>2
<1>6. ASSUME NEW y \in B \ L PROVE \A x \in L : y < x
  BY <1>1, <1>4, <1>6 DEF Numbers
<1>7. ASSUME L # B PROVE Cardinality(L) = n
  <2> DEFINE R == B \ L
  <2>1. Numbers(R) /\ R # {}
    <3>1. R \in SUBSET B /\ R # {}
      BY <1>1, <1>7
    <3> HIDE DEF R
    <3> QED
      BY <3>1, NumbersSubset
  <2>2. PICK y \in R : \A z \in R : z <= y
    <3> HIDE DEF R
    <3> QED
      BY <2>1, MaxIs DEF Numbers
  <2>3. Above(B, y) \in SUBSET L
    <3>1. y \in Int /\ \A c \in B : c > y => c \notin R
      <4>1. y \in B
        OBVIOUS
      <4> HIDE DEF R
      <4> QED
        BY <1>0, <2>2, <4>1
    <3>2. \A c \in Above(B, y) : c \in B /\ c \notin R
      BY <3>1 DEF Above
    <3> HIDE DEF L
    <3> QED
      BY <3>2
  <2>4. Cardinality(Above(B, y)) <= Cardinality(L)
    <3> HIDE DEF L
    <3> QED
      BY <1>2, <2>3, NumbersSubset
  <2>5. y \in B /\ ~(Cardinality(Above(B, y)) < n)
    BY <2>2 DEF Latest
  <2> HIDE DEF L, R
  <2> QED
    BY <1>2, <1>3, <1>5, <2>4, <2>5
<1>8. ASSUME B # {} PROVE L # {}
  <2>1. PICK m \in B : \A y \in B : m >= y
    BY <1>8, MaxIs
  <2>2. Above(B, m) = {}
    <3>1. \A c \in B : ~(c > m)
      BY <1>0, <2>1
    <3> QED
      BY <3>1 DEF Above
  <2>3. Cardinality(Above(B, m)) = 0
    BY <2>2, FS_EmptySet
  <2> QED
    BY <2>1, <2>3 DEF Latest
<1> HIDE DEF L
<1>9. /\ Numbers(L) /\ L \subseteq B /\ Cardinality(L) \in 0 .. n
      /\ L # B => Cardinality(L) = n
      /\ \A x \in L, y \in B : y >= x => y \in L
      /\ \A x \in L, y \in B \ L : y < x
      /\ B # {} => L # {}
  BY <1>1, <1>2, <1>4, <1>5, <1>6, <1>7, <1>8
<1> QED
  BY <1>9 DEF L

LEMMA AboveCounts ==
  ASSUME NEW B, Numbers(B), NEW b \in Int, NEW x \in Int
  PROVE  /\ Numbers(B \cup {b})
         /\ Numbers(Above(B, x)) /\ Cardinality(Above(B, x)) \in Nat
         /\ Numbers(Above(B \cup {b}, x)) /\ Cardinality(Above(B \cup {b}, x)) \in Nat
         /\ Above(B, x) \subseteq Above(B \cup {b}, x)
         /\ Cardinality(Above(B, x)) <= Cardinality(Above(B \cup {b}, x))
<1>1. Numbers(B \cup {b})
  BY FS_AddElement DEF Numbers
<1>2. Above(B, x) \in SUBSET B /\ Above(B \cup {b}, x) \in SUBSET (B \cup {b})
        /\ Above(B, x) \in SUBSET Above(B \cup {b}, x)
  BY DEF Above
<1>3. Numbers(Above(B, x)) /\ Cardinality(Above(B, x)) \in Nat
  BY <1>2, NumbersSubset
<1>4. Numbers(Above(B \cup {b}, x)) /\ Cardinality(Above(B \cup {b}, x)) \in Nat
  BY <1>1, <1>2, NumbersSubset
<1> QED
  BY <1>1, <1>2, <1>3, <1>4, NumbersSubset

(* What becomes of the n largest when there is one number more.              *)
Renewed(B, n, b) ==
  LET L == Latest(B, n)
      M == L \cup {b}
  IN IF Cardinality(L) >= n /\ \A x \in L : b < x THEN Latest(B \cup {b}, n) = L
     ELSE b \notin B /\ Latest(B \cup {b}, n) = (IF Cardinality(M) <= n THEN M ELSE M \ {Min(M)})

(* A number too small to be kept.                                            *)
LEMMA LatestIgnores ==
  ASSUME NEW B, Numbers(B), NEW n \in Nat \ {0}, NEW b \in Int,
         b \notin Latest(B, n), Cardinality(Latest(B, n)) >= n,
         \A x \in Latest(B, n) : b < x
  PROVE  Renewed(B, n, b)
<1> DEFINE L == Latest(B, n)
           C == B \cup {b}
<1>1. /\ Numbers(L) /\ L \subseteq B /\ Cardinality(L) \in Nat
      /\ \A x \in L, y \in B \ L : y < x
  BY LatestFacts
<1>2. ASSUME NEW x \in C, x \notin L PROVE x \notin Latest(C, n)
  <2>1. x \in Int
    BY <1>2 DEF Numbers
  <2>2. \A y \in L : x < y
    BY <1>1, <1>2
  <2>3. L \in SUBSET Above(C, x)
    <3> HIDE DEF L
    <3> QED
      BY <1>1, <2>1, <2>2 DEF Above, Numbers
  <2>4. Cardinality(L) <= Cardinality(Above(C, x)) /\ Cardinality(Above(C, x)) \in Nat
    <3>1. Numbers(Above(C, x)) /\ Cardinality(Above(C, x)) \in Nat
      BY <2>1, AboveCounts
    <3> HIDE DEF L, C
    <3> QED
      BY <2>3, <3>1, NumbersSubset
  <2> HIDE DEF C
  <2> QED
    BY <1>1, <2>4 DEF Latest
<1>3. ASSUME NEW x \in L PROVE x \in Latest(C, n)
  <2>1. x \in B /\ x \in Int /\ b < x
    BY <1>1, <1>3 DEF Numbers
  <2>2. Above(C, x) = Above(B, x)
    BY <2>1 DEF Above, Numbers
  <2> QED
    BY <1>3, <2>1, <2>2 DEF Latest
<1>4. Latest(C, n) \subseteq C
  BY DEF Latest
<1>5. L \subseteq C
  BY <1>1
<1> HIDE DEF L, C
<1>6. Latest(C, n) = L
  BY <1>2, <1>3, <1>4, <1>5
<1> QED
  BY <1>6 DEF L, C, Renewed

(* One more while there is room.                                             *)
LEMMA LatestGrows ==
  ASSUME NEW B, Numbers(B), NEW n \in Nat \ {0}, NEW b \in Int, b \notin Latest(B, n),
         Cardinality(Latest(B, n)) < n
  PROVE  Renewed(B, n, b)
<1> DEFINE C == B \cup {b}
<1>1. Latest(B, n) = B
  BY LatestFacts
<1>2. Numbers(C)
  BY AboveCounts
<1>3. Cardinality(C) <= n /\ Cardinality(C) \in Nat
  <2>1. b \notin B /\ Cardinality(B) < n /\ Cardinality(B) \in Nat
    BY <1>1, FS_CardinalityType DEF Numbers
  <2>2. Cardinality(C) = Cardinality(B) + 1
    BY <2>1, FS_AddElement DEF Numbers
  <2> HIDE DEF C
  <2> QED
    BY <2>1, <2>2
<1>4. ASSUME NEW x \in C PROVE x \in Latest(C, n)
  <2>1. Above(C, x) \in SUBSET C /\ x \notin Above(C, x)
    BY <1>2, <1>4 DEF Above, Numbers
  <2>2. Cardinality(Above(C, x)) <= Cardinality(C) /\ Cardinality(Above(C, x)) \in Nat
          /\ Cardinality(Above(C, x)) # Cardinality(C)
    <3> HIDE DEF C
    <3> QED
      BY <1>2, <1>4, <2>1, NumbersSubset
  <2> HIDE DEF C
  <2> QED
    BY <1>3, <2>2 DEF Latest
<1>5. Latest(C, n) \subseteq C
  BY DEF Latest
<1>6. Latest(C, n) = C
  BY <1>4, <1>5
<1>7. b \notin B /\ ~(Cardinality(Latest(B, n)) >= n)
  <2>1. Cardinality(Latest(B, n)) \in 0 .. n
    BY LatestFacts
  <2> QED
    BY <1>1, <2>1
<1> QED
  BY <1>1, <1>3, <1>6, <1>7 DEF Renewed

(* One more, and the smallest leaves.                                        *)
LEMMA LatestReplaces ==
  ASSUME NEW B, Numbers(B), NEW n \in Nat \ {0}, NEW b \in Int, b \notin Latest(B, n),
         Cardinality(Latest(B, n)) >= n, ~ \A x \in Latest(B, n) : b < x
  PROVE  Renewed(B, n, b)
<1> DEFINE L == Latest(B, n)
           C == B \cup {b}
           M == L \cup {b}
           m == Min(M)
<1>1. /\ Numbers(L) /\ L \subseteq B /\ Cardinality(L) = n
      /\ \A x \in L, y \in B : y >= x => y \in L
      /\ \A x \in L, y \in B \ L : y < x
  <2>1. \A k \in 0 .. n : k >= n => k = n
    OBVIOUS
  <2> QED
    BY <2>1, LatestFacts
<1>2. Numbers(C)
  BY AboveCounts
<1>3. Numbers(M) /\ Cardinality(M) = n + 1 /\ M # {}
  <2> HIDE DEF L
  <2> QED
    BY <1>1, FS_AddElement DEF Numbers, L
<1>4. m \in M /\ m \in Int /\ \A y \in M : m <= y
  <2> HIDE DEF M
  <2> QED
    BY <1>3, MinIs
<1>5. PICK z \in L : z < b
  <2>1. L \subseteq Int /\ b \notin L
    BY <1>1 DEF Numbers
  <2>2. PICK z \in L : ~(b < z)
    OBVIOUS
  <2> HIDE DEF L
  <2> QED
    BY <2>1, <2>2
<1>6. m # b /\ m \in L
  <2>1. z \in M /\ z \in Int
    BY <1>1 DEF Numbers
  <2> HIDE DEF m
  <2> QED
    BY <1>4, <1>5, <2>1
<1>7. b \notin B
  BY <1>1, <1>5 DEF Numbers
<1>8. IsFiniteSet(M \ {m}) /\ Cardinality(M \ {m}) = n
  <2>0. n + 1 - 1 = n
    OBVIOUS
  <2> HIDE DEF M, m
  <2>1. IsFiniteSet(M \ {m}) /\ Cardinality(M \ {m}) = Cardinality(M) - 1
    BY <1>3, <1>4, FS_RemoveElement DEF Numbers
  <2> QED
    BY <1>3, <2>0, <2>1
<1>9. \A x \in C : /\ x \in Int /\ Numbers(Above(C, x)) /\ Cardinality(Above(C, x)) \in Nat
                   /\ Above(C, x) = {c \in C : c > x}
  BY <1>2, AboveCounts DEF Above, Numbers
<1>10. L \subseteq Int /\ M \subseteq C
  BY <1>1 DEF Numbers
<1>11. ASSUME NEW x \in C \ M PROVE x \notin Latest(C, n)
  <2>1. x \in B \ L
    BY <1>11
  <2>2. \A y \in L : x < y
    BY <1>1, <2>1
  <2>3. L \in SUBSET Above(C, x)
    <3> HIDE DEF L
    <3> QED
      BY <1>1, <1>9, <1>11, <2>2
  <2>4. Cardinality(L) <= Cardinality(Above(C, x))
    <3> HIDE DEF L, C
    <3> QED
      BY <1>9, <1>11, <2>3, NumbersSubset
  <2> HIDE DEF C
  <2> QED
    BY <1>1, <1>9, <1>11, <2>4 DEF Latest
<1>12. m \notin Latest(C, n)
  <2>1. m \in C /\ M \ {m} \in SUBSET Above(C, m)
    <3>1. m \in C
      BY <1>1, <1>6
    <3>2. \A y \in M \ {m} : y \in C /\ y \in Int /\ y > m
      <4> HIDE DEF m
      <4> QED
        BY <1>1, <1>3, <1>4 DEF Numbers
    <3> HIDE DEF m, M, C
    <3> QED
      BY <1>9, <3>1, <3>2
  <2>2. Cardinality(M \ {m}) <= Cardinality(Above(C, m))
    <3> HIDE DEF m, M, C
    <3> QED
      BY <1>9, <2>1, NumbersSubset
  <2> HIDE DEF m, M, C
  <2> QED
    BY <1>8, <1>9, <2>1, <2>2 DEF Latest
<1>13. ASSUME NEW x \in M \ {m} PROVE x \in Latest(C, n)
  <2>1. x \in C /\ x \in Int /\ x > m
    <3> HIDE DEF m
    <3> QED
      BY <1>1, <1>3, <1>4, <1>13 DEF Numbers
  <2>2. \A y \in B : y > x => y \in L
    <3> HIDE DEF m, L
    <3> QED
      BY <1>1, <1>6, <2>1 DEF Numbers
  <2>3. \A y \in Above(C, x) : y \in M /\ y # m /\ y # x
    <3> SUFFICES ASSUME NEW y \in Above(C, x) PROVE y \in M /\ y # m /\ y # x
      OBVIOUS
    <3>1. y \in C /\ y > x
      BY DEF Above
    <3>2. y \in Int
      <4> HIDE DEF C, m
      <4> QED
        BY <1>9, <3>1
    <3>3. y \in B => y \in L
      BY <2>2, <3>1
    <3>4. y \in M
      BY <3>1, <3>3
    <3> HIDE DEF m, M, C, L
    <3> QED
      BY <1>4, <2>1, <3>1, <3>2, <3>4
  <2>4. Above(C, x) \in SUBSET (M \ {m}) /\ x \in (M \ {m}) /\ x \notin Above(C, x)
    <3> HIDE DEF m, M, C
    <3> QED
      BY <1>13, <2>3
  <2>5. Cardinality(Above(C, x)) < n
    <3>1. Numbers(M \ {m})
      <4> HIDE DEF m
      <4> QED
        BY <1>3, <1>8 DEF Numbers
    <3>2. Cardinality(Above(C, x)) \in Nat
      BY <1>9, <2>1
    <3>3. Cardinality(Above(C, x)) <= n /\ Cardinality(Above(C, x)) # n
      <4> HIDE DEF m, M, C
      <4> QED
        BY <1>8, <2>4, <3>1, NumbersSubset
    <3> HIDE DEF C
    <3> QED
      BY <3>2, <3>3
  <2> HIDE DEF C
  <2> QED
    BY <2>1, <2>5 DEF Latest
<1>14. Latest(C, n) \subseteq C
  BY DEF Latest
<1> HIDE DEF m, M, C, L
<1>15. Latest(C, n) = M \ {m}
  BY <1>10, <1>11, <1>12, <1>13, <1>14
<1>16. ~(Cardinality(M) <= n) /\ b \notin B /\ Latest(C, n) = M \ {m}
  BY <1>3, <1>7, <1>15
<1> QED
  BY <1>16 DEF m, M, C, L, Renewed

LEMMA LatestRenewed ==
  ASSUME NEW B, Numbers(B), NEW n \in Nat \ {0}, NEW b \in Int, b \notin Latest(B, n)
  PROVE  Renewed(B, n, b)
<1>1. Cardinality(Latest(B, n)) \in 0 .. n
  BY LatestFacts
<1>2. Cardinality(Latest(B, n)) < n \/ Cardinality(Latest(B, n)) >= n
  BY <1>1
<1> QED
  BY <1>2, LatestIgnores, LatestGrows, LatestReplaces

-----------------------------------------------------------------------------
(* The candle of a sequence of trades, and of that sequence with one more.   *)
IsTrade(t) ==
  /\ t.ts \in Nat \ {0} /\ t.price \in Nat \ {0} /\ t.qty \in Nat \ {0} /\ t.taker \in Takers

AreTrades(E) == \A t \in E : IsTrade(t)

Times(ts) == {ts[i].ts : i \in DOMAIN ts}
PricesOf(ts) == {ts[i].price : i \in DOMAIN ts}
Opens(ts) == Min({i \in DOMAIN ts : ts[i].ts = Min(Times(ts))})
Closes(ts) == Max({i \in DOMAIN ts : ts[i].ts = Max(Times(ts))})
Parts(ts, taker) == [i \in DOMAIN ts |-> Part(ts[i], taker)]

LEMMA CandleIs ==
  ASSUME NEW ts
  PROVE  CandleOf(ts) =
           [open |-> ts[Opens(ts)].price, high |-> Max(PricesOf(ts)), low |-> Min(PricesOf(ts)),
            close |-> ts[Closes(ts)].price, buy |-> Added(Parts(ts, "buy")),
            sell |-> Added(Parts(ts, "sell")), trades |-> Len(ts),
            first |-> Min(Times(ts)), last |-> Max(Times(ts))]
BY DEF CandleOf, Times, PricesOf, Opens, Closes, Parts

LEMMA AppendIs ==
  ASSUME NEW E, NEW ts \in Seq(E), NEW t \in E
  PROVE  /\ Len(ts) \in Nat /\ DOMAIN ts = 1 .. Len(ts) /\ \A i \in 1 .. Len(ts) : ts[i] \in E
         /\ Append(ts, t) \in Seq(E) /\ Len(Append(ts, t)) = Len(ts) + 1
         /\ DOMAIN Append(ts, t) = 1 .. Len(ts) + 1
         /\ \A i \in 1 .. Len(ts) : Append(ts, t)[i] = ts[i]
         /\ Append(ts, t)[Len(ts) + 1] = t
OBVIOUS

LEMMA TimesAre ==
  ASSUME NEW E, AreTrades(E), NEW ts \in Seq(E), ts # <<>>
  PROVE  /\ Numbers(Times(ts)) /\ Times(ts) # {} /\ Numbers(PricesOf(ts)) /\ PricesOf(ts) # {}
         /\ Times(ts) \subseteq Nat /\ PricesOf(ts) \subseteq Nat \ {0}
<1>1. Len(ts) \in Nat /\ DOMAIN ts = 1 .. Len(ts) /\ 1 \in DOMAIN ts
  OBVIOUS
<1>2. \A i \in DOMAIN ts : IsTrade(ts[i])
  BY DEF AreTrades
<1>3. Times(ts) \subseteq Nat /\ Times(ts) # {} /\ PricesOf(ts) \subseteq Nat \ {0} /\ PricesOf(ts) # {}
  BY <1>1, <1>2 DEF Times, PricesOf, IsTrade
<1>4. IsFiniteSet(Times(ts))
  <2> DEFINE f == [i \in 1 .. Len(ts) |-> ts[i].ts]
  <2>1. Times(ts) = {f[i] : i \in 1 .. Len(ts)}
    BY <1>1 DEF Times
  <2> HIDE DEF f
  <2> QED
    BY <1>1, <2>1, ValuesFinite
<1>5. IsFiniteSet(PricesOf(ts))
  <2> DEFINE f == [i \in 1 .. Len(ts) |-> ts[i].price]
  <2>1. PricesOf(ts) = {f[i] : i \in 1 .. Len(ts)}
    BY <1>1 DEF PricesOf
  <2> HIDE DEF f
  <2> QED
    BY <1>1, <2>1, ValuesFinite
<1> QED
  BY <1>3, <1>4, <1>5 DEF Numbers

LEMMA PlacesFinite ==
  ASSUME NEW n \in Nat, NEW S \in SUBSET (1 .. n)
  PROVE  Numbers(S)
<1>1. IsFiniteSet(1 .. n)
  BY FS_Interval
<1>2. Numbers(1 .. n)
  BY <1>1 DEF Numbers
<1> QED
  BY <1>2, NumbersSubset

(* The first of the earliest, the last of the latest.                        *)
LEMMA OpensIs ==
  ASSUME NEW E, AreTrades(E), NEW ts \in Seq(E), NEW k \in DOMAIN ts,
         \A i \in DOMAIN ts : ts[i].ts >= ts[k].ts /\ (i < k => ts[i].ts > ts[k].ts)
  PROVE  Min(Times(ts)) = ts[k].ts /\ Opens(ts) = k
<1> DEFINE S == {i \in DOMAIN ts : ts[i].ts = Min(Times(ts))}
<1>1. Len(ts) \in Nat /\ DOMAIN ts = 1 .. Len(ts) /\ ts # <<>> /\ \A i \in DOMAIN ts : ts[i].ts \in Nat
  BY DEF AreTrades, IsTrade
<1>2. Min(Times(ts)) \in Times(ts) /\ \A x \in Times(ts) : Min(Times(ts)) <= x
  BY <1>1, TimesAre, MinIs
<1>3. Min(Times(ts)) = ts[k].ts
  <2>1. ts[k].ts \in Times(ts)
    BY DEF Times
  <2>2. PICK i \in DOMAIN ts : Min(Times(ts)) = ts[i].ts
    BY <1>2 DEF Times
  <2>3. ts[i].ts <= ts[k].ts /\ ts[i].ts >= ts[k].ts
    BY <1>2, <2>1, <2>2
  <2> QED
    BY <1>1, <2>2, <2>3
<1>4. k \in S /\ \A i \in S : k <= i
  BY <1>1, <1>3
<1>5. Numbers(S) /\ S # {} /\ S \subseteq Int
  <2>1. S \in SUBSET (1 .. Len(ts))
    BY <1>1
  <2>2. S # {} /\ S \subseteq Int
    BY <1>1, <1>4
  <2> HIDE DEF S
  <2> QED
    BY <1>1, <2>1, <2>2, PlacesFinite
<1>6. Min(S) = k
  <2> HIDE DEF S
  <2>1. Min(S) \in S /\ Min(S) \in Int /\ \A y \in S : Min(S) <= y
    BY <1>5, MinIs
  <2> QED
    BY <1>4, <1>5, <2>1
<1> QED
  BY <1>3, <1>6 DEF Opens

LEMMA OpensExists ==
  ASSUME NEW E, AreTrades(E), NEW ts \in Seq(E), ts # <<>>
  PROVE  /\ Opens(ts) \in DOMAIN ts /\ Min(Times(ts)) = ts[Opens(ts)].ts
         /\ \A i \in DOMAIN ts : /\ ts[i].ts >= ts[Opens(ts)].ts
                                 /\ i < Opens(ts) => ts[i].ts > ts[Opens(ts)].ts
<1> DEFINE S == {i \in DOMAIN ts : ts[i].ts = Min(Times(ts))}
<1>1. Len(ts) \in Nat /\ DOMAIN ts = 1 .. Len(ts) /\ \A i \in DOMAIN ts : ts[i].ts \in Nat
  BY DEF AreTrades, IsTrade
<1>2. Min(Times(ts)) \in Times(ts) /\ \A x \in Times(ts) : Min(Times(ts)) <= x
  BY TimesAre, MinIs
<1>3. S # {} /\ S \in SUBSET (1 .. Len(ts))
  BY <1>1, <1>2 DEF Times
<1>4. Opens(ts) \in S /\ \A y \in S : Opens(ts) <= y
  <2>1. Numbers(S)
    <3> HIDE DEF S
    <3> QED
      BY <1>1, <1>3, PlacesFinite
  <2>2. Min(S) \in S /\ \A y \in S : Min(S) <= y
    <3> HIDE DEF S
    <3> QED
      BY <1>3, <2>1, MinIs
  <2> QED
    BY <2>2 DEF Opens
<1>5. \A i \in DOMAIN ts : Min(Times(ts)) <= ts[i].ts
  BY <1>2 DEF Times
<1>6. Opens(ts) \in DOMAIN ts /\ ts[Opens(ts)].ts = Min(Times(ts))
  BY <1>4
<1>7. ASSUME NEW i \in DOMAIN ts, i < Opens(ts) PROVE ts[i].ts > ts[Opens(ts)].ts
  <2>1. ts[i].ts # Min(Times(ts))
    <3>1. i \in S => Opens(ts) <= i
      BY <1>4
    <3>2. i \notin S
      <4> HIDE DEF S
      <4> QED
        BY <1>1, <1>6, <1>7, <3>1
    <3> QED
      BY <3>2
  <2> QED
    BY <1>1, <1>5, <1>6, <2>1
<1> QED
  BY <1>5, <1>6, <1>7

LEMMA ClosesIs ==
  ASSUME NEW E, AreTrades(E), NEW ts \in Seq(E), NEW k \in DOMAIN ts,
         \A i \in DOMAIN ts : ts[i].ts <= ts[k].ts /\ (i > k => ts[i].ts < ts[k].ts)
  PROVE  Max(Times(ts)) = ts[k].ts /\ Closes(ts) = k
<1> DEFINE S == {i \in DOMAIN ts : ts[i].ts = Max(Times(ts))}
<1>1. Len(ts) \in Nat /\ DOMAIN ts = 1 .. Len(ts) /\ ts # <<>> /\ \A i \in DOMAIN ts : ts[i].ts \in Nat
  BY DEF AreTrades, IsTrade
<1>2. Max(Times(ts)) \in Times(ts) /\ \A x \in Times(ts) : Max(Times(ts)) >= x
  BY <1>1, TimesAre, MaxIs
<1>3. Max(Times(ts)) = ts[k].ts
  <2>1. ts[k].ts \in Times(ts)
    BY DEF Times
  <2>2. PICK i \in DOMAIN ts : Max(Times(ts)) = ts[i].ts
    BY <1>2 DEF Times
  <2>3. ts[i].ts >= ts[k].ts /\ ts[i].ts <= ts[k].ts
    BY <1>2, <2>1, <2>2
  <2> QED
    BY <1>1, <2>2, <2>3
<1>4. k \in S /\ \A i \in S : k >= i
  BY <1>1, <1>3
<1>5. Numbers(S) /\ S # {} /\ S \subseteq Int
  <2>1. S \in SUBSET (1 .. Len(ts))
    BY <1>1
  <2>2. S # {} /\ S \subseteq Int
    BY <1>1, <1>4
  <2> HIDE DEF S
  <2> QED
    BY <1>1, <2>1, <2>2, PlacesFinite
<1>6. Max(S) = k
  <2> HIDE DEF S
  <2>1. Max(S) \in S /\ Max(S) \in Int /\ \A y \in S : Max(S) >= y
    BY <1>5, MaxIs
  <2> QED
    BY <1>4, <1>5, <2>1
<1> QED
  BY <1>3, <1>6 DEF Closes

LEMMA ClosesExists ==
  ASSUME NEW E, AreTrades(E), NEW ts \in Seq(E), ts # <<>>
  PROVE  /\ Closes(ts) \in DOMAIN ts /\ Max(Times(ts)) = ts[Closes(ts)].ts
         /\ \A i \in DOMAIN ts : /\ ts[i].ts <= ts[Closes(ts)].ts
                                 /\ i > Closes(ts) => ts[i].ts < ts[Closes(ts)].ts
<1> DEFINE S == {i \in DOMAIN ts : ts[i].ts = Max(Times(ts))}
<1>1. Len(ts) \in Nat /\ DOMAIN ts = 1 .. Len(ts) /\ \A i \in DOMAIN ts : ts[i].ts \in Nat
  BY DEF AreTrades, IsTrade
<1>2. Max(Times(ts)) \in Times(ts) /\ \A x \in Times(ts) : Max(Times(ts)) >= x
  BY TimesAre, MaxIs
<1>3. S # {} /\ S \in SUBSET (1 .. Len(ts))
  BY <1>1, <1>2 DEF Times
<1>4. Closes(ts) \in S /\ \A y \in S : Closes(ts) >= y
  <2>1. Numbers(S)
    <3> HIDE DEF S
    <3> QED
      BY <1>1, <1>3, PlacesFinite
  <2>2. Max(S) \in S /\ \A y \in S : Max(S) >= y
    <3> HIDE DEF S
    <3> QED
      BY <1>3, <2>1, MaxIs
  <2> QED
    BY <2>2 DEF Closes
<1>5. \A i \in DOMAIN ts : Max(Times(ts)) >= ts[i].ts
  BY <1>2 DEF Times
<1>6. Closes(ts) \in DOMAIN ts /\ ts[Closes(ts)].ts = Max(Times(ts))
  BY <1>4
<1>7. ASSUME NEW i \in DOMAIN ts, i > Closes(ts) PROVE ts[i].ts < ts[Closes(ts)].ts
  <2>1. ts[i].ts # Max(Times(ts))
    <3>1. i \in S => Closes(ts) >= i
      BY <1>4
    <3>2. i \notin S
      <4> HIDE DEF S
      <4> QED
        BY <1>1, <1>6, <1>7, <3>1
    <3> QED
      BY <3>2
  <2> QED
    BY <1>1, <1>5, <1>6, <2>1
<1> QED
  BY <1>5, <1>6, <1>7

(* One more trade, in the order of arrival.                                  *)
LEMMA TimesAppend ==
  ASSUME NEW E, AreTrades(E), NEW ts \in Seq(E), ts # <<>>, NEW t \in E
  PROVE  /\ Max(Times(Append(ts, t))) = Max({Max(Times(ts)), t.ts})
         /\ Min(Times(Append(ts, t))) = Min({Min(Times(ts)), t.ts})
         /\ Max(PricesOf(Append(ts, t))) = Max({Max(PricesOf(ts)), t.price})
         /\ Min(PricesOf(Append(ts, t))) = Min({Min(PricesOf(ts)), t.price})
<1> DEFINE u == Append(ts, t)
<1>1. /\ DOMAIN ts = 1 .. Len(ts) /\ DOMAIN u = 1 .. Len(ts) + 1 /\ Len(ts) \in Nat
      /\ \A i \in 1 .. Len(ts) : u[i] = ts[i]
      /\ u[Len(ts) + 1] = t
  BY AppendIs
<1> HIDE DEF u
<1>2. Times(u) = Times(ts) \cup {t.ts}
  <2>1. \A i \in 1 .. Len(ts) + 1 : i \in 1 .. Len(ts) \/ i = Len(ts) + 1
    BY <1>1
  <2>2. 1 .. Len(ts) \subseteq 1 .. Len(ts) + 1 /\ Len(ts) + 1 \in 1 .. Len(ts) + 1
    BY <1>1
  <2> QED
    BY <1>1, <2>1, <2>2 DEF Times
<1>3. PricesOf(u) = PricesOf(ts) \cup {t.price}
  <2>1. \A i \in 1 .. Len(ts) + 1 : i \in 1 .. Len(ts) \/ i = Len(ts) + 1
    BY <1>1
  <2>2. 1 .. Len(ts) \subseteq 1 .. Len(ts) + 1 /\ Len(ts) + 1 \in 1 .. Len(ts) + 1
    BY <1>1
  <2> QED
    BY <1>1, <2>1, <2>2 DEF PricesOf
<1>4. /\ Numbers(Times(ts)) /\ Times(ts) # {} /\ Numbers(PricesOf(ts)) /\ PricesOf(ts) # {}
      /\ t.ts \in Int /\ t.price \in Int
  BY TimesAre DEF AreTrades, IsTrade
<1> QED
  BY <1>2, <1>3, <1>4, NumbersAdd DEF u

LEMMA PartsAppend ==
  ASSUME NEW E, AreTrades(E), NEW ts \in Seq(E), NEW t \in E, NEW taker
  PROVE  /\ Parts(ts, taker) \in Seq(Nat) /\ Part(t, taker) \in Nat
         /\ Added(Parts(ts, taker)) \in Int
         /\ Added(Parts(Append(ts, t), taker)) = Added(Parts(ts, taker)) + Part(t, taker)
<1>1. \A e \in E : Part(e, taker) \in Nat
  BY DEF AreTrades, IsTrade, Part
<1>2. Parts(ts, taker) \in Seq(Nat)
  BY <1>1, AppendIs DEF Parts
<1>3. Parts(ts, taker) \in Seq(Int)
  BY <1>2
<1>4. Parts(Append(ts, t), taker) = Append(Parts(ts, taker), Part(t, taker))
  BY <1>1, AppendIs DEF Parts
<1> QED
  BY <1>1, <1>2, <1>3, <1>4, AddedAppend

CandleFields ==
  {"open", "high", "low", "close", "buy", "sell", "trades", "first", "last"}

LEMMA ExtendedIs ==
  ASSUME NEW t, NEW r, r = [k \in CandleFields |-> r[k]]
  PROVE  Extended(r, t) =
           [open |-> IF t.ts < r.first THEN t.price ELSE r.open,
            high |-> Max({r.high, t.price}), low |-> Min({r.low, t.price}),
            close |-> IF t.ts >= r.last THEN t.price ELSE r.close,
            buy |-> r.buy + Part(t, "buy"), sell |-> r.sell + Part(t, "sell"),
            trades |-> r.trades + 1, first |-> Min({r.first, t.ts}),
            last |-> Max({r.last, t.ts})]
<1> DEFINE x == Extended(r, t)
<1>1. /\ x.open = (IF t.ts < r.first THEN t.price ELSE r.open)
      /\ x.high = Max({r.high, t.price}) /\ x.low = Min({r.low, t.price})
  BY DEF Extended, CandleFields
<1>2. /\ x.close = (IF t.ts >= r.last THEN t.price ELSE r.close)
      /\ x.buy = r.buy + Part(t, "buy") /\ x.sell = r.sell + Part(t, "sell")
  BY DEF Extended, CandleFields
<1>3. /\ x.trades = r.trades + 1 /\ x.first = Min({r.first, t.ts})
      /\ x.last = Max({r.last, t.ts})
  BY DEF Extended, CandleFields
<1>4. x = [k \in CandleFields |-> x[k]]
  BY DEF Extended
<1> HIDE DEF x
<1>5. x = [open |-> IF t.ts < r.first THEN t.price ELSE r.open,
            high |-> Max({r.high, t.price}), low |-> Min({r.low, t.price}),
            close |-> IF t.ts >= r.last THEN t.price ELSE r.close,
            buy |-> r.buy + Part(t, "buy"), sell |-> r.sell + Part(t, "sell"),
            trades |-> r.trades + 1, first |-> Min({r.first, t.ts}),
            last |-> Max({r.last, t.ts})]
  BY <1>1, <1>2, <1>3, <1>4 DEF CandleFields
<1> QED
  BY <1>5 DEF x

LEMMA CandleGrows ==
  ASSUME NEW E, AreTrades(E), NEW ts \in Seq(E), ts # <<>>, NEW t \in E
  PROVE  CandleOf(Append(ts, t)) = Extended(CandleOf(ts), t)
<1> DEFINE u == Append(ts, t)
           n == Len(ts)
<1>1. /\ DOMAIN ts = 1 .. n /\ DOMAIN u = 1 .. n + 1 /\ n \in Nat /\ u \in Seq(E) /\ Len(u) = n + 1
      /\ \A i \in 1 .. n : u[i] = ts[i] /\ ts[i].ts \in Nat
      /\ u[n + 1] = t /\ t.ts \in Nat
  BY AppendIs DEF AreTrades, IsTrade
<1>2. /\ Opens(ts) \in 1 .. n /\ Min(Times(ts)) = ts[Opens(ts)].ts
      /\ \A i \in 1 .. n : /\ ts[i].ts >= ts[Opens(ts)].ts
                           /\ i < Opens(ts) => ts[i].ts > ts[Opens(ts)].ts
  BY <1>1, OpensExists
<1>3. /\ Closes(ts) \in 1 .. n /\ Max(Times(ts)) = ts[Closes(ts)].ts
      /\ \A i \in 1 .. n : /\ ts[i].ts <= ts[Closes(ts)].ts
                           /\ i > Closes(ts) => ts[i].ts < ts[Closes(ts)].ts
  BY <1>1, ClosesExists
<1> HIDE DEF u
<1>4. u[Opens(u)].price = IF t.ts < Min(Times(ts)) THEN t.price ELSE ts[Opens(ts)].price
  <2>1. CASE t.ts < Min(Times(ts))
    <3>1. \A i \in DOMAIN u : u[i].ts >= u[n + 1].ts /\ (i < n + 1 => u[i].ts > u[n + 1].ts)
      BY <1>1, <1>2, <2>1
    <3>2. Opens(u) = n + 1
      <4> DEFINE k == n + 1
      <4>1. k \in DOMAIN u /\ \A i \in DOMAIN u : u[i].ts >= u[k].ts /\ (i < k => u[i].ts > u[k].ts)
        BY <1>1, <3>1
      <4> HIDE DEF k
      <4>2. Opens(u) = k
        BY <1>1, <4>1, OpensIs
      <4> QED
        BY <4>2 DEF k
    <3> QED
      BY <1>1, <2>1, <3>2
  <2>2. CASE ~(t.ts < Min(Times(ts)))
    <3> DEFINE k == Opens(ts)
    <3>1. k \in DOMAIN u /\ u[k] = ts[k]
      BY <1>1, <1>2
    <3>2. \A i \in DOMAIN u : u[i].ts >= u[k].ts /\ (i < k => u[i].ts > u[k].ts)
      <4> SUFFICES ASSUME NEW i \in DOMAIN u
                   PROVE  u[i].ts >= u[k].ts /\ (i < k => u[i].ts > u[k].ts)
        OBVIOUS
      <4>1. CASE i = n + 1
        BY <1>1, <1>2, <2>2, <3>1, <4>1
      <4>2. CASE i \in 1 .. n
        BY <1>1, <1>2, <3>1, <4>2
      <4> QED
        BY <1>1, <4>1, <4>2
    <3>3. Opens(u) = k
      <4> HIDE DEF k
      <4> QED
        BY <1>1, <3>1, <3>2, OpensIs
    <3> QED
      BY <2>2, <3>1, <3>3
  <2> QED
    BY <2>1, <2>2
<1>5. u[Closes(u)].price = IF t.ts >= Max(Times(ts)) THEN t.price ELSE ts[Closes(ts)].price
  <2>1. CASE t.ts >= Max(Times(ts))
    <3>1. \A i \in DOMAIN u : u[i].ts <= u[n + 1].ts /\ (i > n + 1 => u[i].ts < u[n + 1].ts)
      <4> SUFFICES ASSUME NEW i \in DOMAIN u
                   PROVE  u[i].ts <= u[n + 1].ts /\ (i > n + 1 => u[i].ts < u[n + 1].ts)
        OBVIOUS
      <4>1. CASE i = n + 1
        BY <1>1, <4>1
      <4>2. CASE i \in 1 .. n
        BY <1>1, <1>3, <2>1, <4>2
      <4> QED
        BY <1>1, <4>1, <4>2
    <3>2. Closes(u) = n + 1
      <4> DEFINE k == n + 1
      <4>1. k \in DOMAIN u /\ \A i \in DOMAIN u : u[i].ts <= u[k].ts /\ (i > k => u[i].ts < u[k].ts)
        BY <1>1, <3>1
      <4> HIDE DEF k
      <4>2. Closes(u) = k
        BY <1>1, <4>1, ClosesIs
      <4> QED
        BY <4>2 DEF k
    <3> QED
      BY <1>1, <2>1, <3>2
  <2>2. CASE ~(t.ts >= Max(Times(ts)))
    <3> DEFINE k == Closes(ts)
    <3>1. k \in DOMAIN u /\ u[k] = ts[k]
      BY <1>1, <1>3
    <3>2. \A i \in DOMAIN u : u[i].ts <= u[k].ts /\ (i > k => u[i].ts < u[k].ts)
      <4> SUFFICES ASSUME NEW i \in DOMAIN u
                   PROVE  u[i].ts <= u[k].ts /\ (i > k => u[i].ts < u[k].ts)
        OBVIOUS
      <4>1. CASE i = n + 1
        BY <1>1, <1>3, <2>2, <3>1, <4>1
      <4>2. CASE i \in 1 .. n
        BY <1>1, <1>3, <3>1, <4>2
      <4> QED
        BY <1>1, <4>1, <4>2
    <3>3. Closes(u) = k
      <4> HIDE DEF k
      <4> QED
        BY <1>1, <3>1, <3>2, ClosesIs
    <3> QED
      BY <2>2, <3>1, <3>3
  <2> QED
    BY <2>1, <2>2
<1>6. /\ Max(Times(u)) = Max({Max(Times(ts)), t.ts})
      /\ Min(Times(u)) = Min({Min(Times(ts)), t.ts})
      /\ Max(PricesOf(u)) = Max({Max(PricesOf(ts)), t.price})
      /\ Min(PricesOf(u)) = Min({Min(PricesOf(ts)), t.price})
  BY TimesAppend, ZenonT(30) DEF u
<1>7. /\ Added(Parts(u, "buy")) = Added(Parts(ts, "buy")) + Part(t, "buy")
      /\ Added(Parts(u, "sell")) = Added(Parts(ts, "sell")) + Part(t, "sell")
  BY PartsAppend DEF u
<1>8. CandleOf(u) =
        [open |-> IF t.ts < Min(Times(ts)) THEN t.price ELSE ts[Opens(ts)].price,
         high |-> Max({Max(PricesOf(ts)), t.price}), low |-> Min({Min(PricesOf(ts)), t.price}),
         close |-> IF t.ts >= Max(Times(ts)) THEN t.price ELSE ts[Closes(ts)].price,
         buy |-> Added(Parts(ts, "buy")) + Part(t, "buy"),
         sell |-> Added(Parts(ts, "sell")) + Part(t, "sell"),
         trades |-> n + 1, first |-> Min({Min(Times(ts)), t.ts}),
         last |-> Max({Max(Times(ts)), t.ts})]
  <2> HIDE DEF n
  <2> QED
    BY <1>1, <1>4, <1>5, <1>6, <1>7, CandleIs
<1>9. Extended(CandleOf(ts), t) =
        [open |-> IF t.ts < Min(Times(ts)) THEN t.price ELSE ts[Opens(ts)].price,
         high |-> Max({Max(PricesOf(ts)), t.price}), low |-> Min({Min(PricesOf(ts)), t.price}),
         close |-> IF t.ts >= Max(Times(ts)) THEN t.price ELSE ts[Closes(ts)].price,
         buy |-> Added(Parts(ts, "buy")) + Part(t, "buy"),
         sell |-> Added(Parts(ts, "sell")) + Part(t, "sell"),
         trades |-> n + 1, first |-> Min({Min(Times(ts)), t.ts}),
         last |-> Max({Max(Times(ts)), t.ts})]
  <2> DEFINE c == CandleOf(ts)
  <2>1. /\ c.open = ts[Opens(ts)].price /\ c.high = Max(PricesOf(ts)) /\ c.low = Min(PricesOf(ts))
        /\ c.close = ts[Closes(ts)].price /\ c.buy = Added(Parts(ts, "buy"))
        /\ c.sell = Added(Parts(ts, "sell")) /\ c.trades = n
        /\ c.first = Min(Times(ts)) /\ c.last = Max(Times(ts))
    BY CandleIs
  <2>2. c = [k \in CandleFields |-> c[k]]
    BY CandleIs DEF CandleFields
  <2> HIDE DEF c
  <2>3. Extended(c, t) =
           [open |-> IF t.ts < c.first THEN t.price ELSE c.open,
            high |-> Max({c.high, t.price}), low |-> Min({c.low, t.price}),
            close |-> IF t.ts >= c.last THEN t.price ELSE c.close,
            buy |-> c.buy + Part(t, "buy"), sell |-> c.sell + Part(t, "sell"),
            trades |-> c.trades + 1, first |-> Min({c.first, t.ts}),
            last |-> Max({c.last, t.ts})]
    BY <2>2, ExtendedIs
  <2> QED
    BY <2>1, <2>3 DEF c
<1> QED
  BY <1>8, <1>9 DEF u

LEMMA CandleStarts ==
  ASSUME NEW E, AreTrades(E), NEW t \in E
  PROVE  CandleOf(<<t>>) = NewCandle(t)
<1> DEFINE u == <<t>>
<1>1. /\ u \in Seq(E) /\ DOMAIN u = {1} /\ u[1] = t /\ Len(u) = 1 /\ u = Append(<<>>, t)
      /\ <<>> \in Seq(E)
  OBVIOUS
<1>2. t.ts \in Int /\ t.price \in Int
  BY DEF AreTrades, IsTrade
<1> HIDE DEF u
<1>3. Times(u) = {t.ts} /\ PricesOf(u) = {t.price}
  BY <1>1 DEF Times, PricesOf
<1>4. Max(Times(u)) = t.ts /\ Min(Times(u)) = t.ts /\ Max(PricesOf(u)) = t.price /\ Min(PricesOf(u)) = t.price
  BY <1>2, <1>3, Pair
<1>5. Opens(u) = 1 /\ Closes(u) = 1
  <2>1. 1 \in DOMAIN u /\ \A i \in DOMAIN u : /\ u[i].ts >= u[1].ts /\ u[i].ts <= u[1].ts
                                             /\ ~(i < 1) /\ ~(i > 1)
    BY <1>1, <1>2
  <2> QED
    BY <1>1, <2>1, OpensIs, ClosesIs
<1>6. \A taker : Added(Parts(u, taker)) = Part(t, taker)
  <2> TAKE taker
  <2>1. Parts(<<>>, taker) = <<>>
    BY DEF Parts
  <2>2. Added(Parts(Append(<<>>, t), taker)) = Added(Parts(<<>>, taker)) + Part(t, taker)
    BY <1>1, PartsAppend
  <2>3. Part(t, taker) \in Nat
    BY <1>1, PartsAppend
  <2>4. Added(Parts(<<>>, taker)) = 0
    BY <2>1, AddedEmpty
  <2> QED
    BY <1>1, <2>2, <2>3, <2>4
<1> QED
  BY <1>1, <1>4, <1>5, <1>6, CandleIs DEF NewCandle, u

-----------------------------------------------------------------------------
(* The history of a sequence of trades, and of that sequence with one more.  *)
InBucket(E, b) == {t \in E : BucketOf(t.ts) = b}

Buckets(ts) == {BucketOf(ts[i].ts) : i \in DOMAIN ts}

LEMMA BucketType ==
  ASSUME NEW E, AreTrades(E), NEW t \in E
  PROVE  BucketOf(t.ts) \in Nat /\ BucketOf(t.ts) \in Int
<1>1. t.ts \in Nat /\ BucketMs \in Nat \ {0}
  BY CandlesAssumption DEF AreTrades, IsTrade
<1>2. t.ts \div BucketMs \in Nat
  BY <1>1
<1> QED
  BY <1>1, <1>2 DEF BucketOf

LEMMA BucketsAre ==
  ASSUME NEW E, AreTrades(E), NEW ts \in Seq(E)
  PROVE  Numbers(Buckets(ts)) /\ Buckets(ts) \subseteq Nat
<1>1. Len(ts) \in Nat /\ DOMAIN ts = 1 .. Len(ts) /\ \A i \in DOMAIN ts : ts[i] \in E
  OBVIOUS
<1>2. Buckets(ts) \subseteq Nat
  BY <1>1, BucketType DEF Buckets
<1>3. IsFiniteSet(Buckets(ts))
  <2> DEFINE f == [i \in 1 .. Len(ts) |-> BucketOf(ts[i].ts)]
  <2>1. Buckets(ts) = {f[i] : i \in 1 .. Len(ts)}
    BY <1>1 DEF Buckets
  <2> HIDE DEF f
  <2> QED
    BY <1>1, <2>1, ValuesFinite
<1> QED
  BY <1>2, <1>3 DEF Numbers

LEMMA BucketsAppend ==
  ASSUME NEW E, NEW ts \in Seq(E), NEW t \in E
  PROVE  Buckets(Append(ts, t)) = Buckets(ts) \cup {BucketOf(t.ts)}
<1> DEFINE u == Append(ts, t)
<1>1. /\ DOMAIN ts = 1 .. Len(ts) /\ DOMAIN u = 1 .. Len(ts) + 1 /\ Len(ts) \in Nat
      /\ \A i \in 1 .. Len(ts) : u[i] = ts[i]
      /\ u[Len(ts) + 1] = t
  BY AppendIs
<1> HIDE DEF u
<1>2. \A i \in 1 .. Len(ts) + 1 : i \in 1 .. Len(ts) \/ i = Len(ts) + 1
  BY <1>1
<1>3. 1 .. Len(ts) \subseteq 1 .. Len(ts) + 1 /\ Len(ts) + 1 \in 1 .. Len(ts) + 1
  BY <1>1
<1>4. Buckets(u) = Buckets(ts) \cup {BucketOf(t.ts)}
  BY <1>1, <1>2, <1>3 DEF Buckets
<1> QED
  BY <1>4 DEF u

(* A bucket has its trades, and no bucket without a trade has any.           *)
LEMMA BucketOccupied ==
  ASSUME NEW E, NEW b
  PROVE  \A ts \in Seq(E) : b \in Buckets(ts) <=> Select(ts, InBucket(E, b)) # <<>>
<1> DEFINE T == {ts \in Seq(E) : b \in Buckets(ts) <=> Select(ts, InBucket(E, b)) # <<>>}
<1>1. <<>> \in T
  BY SelectEmpty DEF Buckets
<1>2. ASSUME NEW ts \in Seq(E), NEW t \in E, ts \in T PROVE Append(ts, t) \in T
  <2>1. Select(Append(ts, t), InBucket(E, b)) =
          IF t \in InBucket(E, b) THEN Append(Select(ts, InBucket(E, b)), t)
          ELSE Select(ts, InBucket(E, b))
    BY SelectAppend
  <2>2. t \in InBucket(E, b) <=> BucketOf(t.ts) = b
    BY DEF InBucket
  <2>3. Select(ts, InBucket(E, b)) \in Seq(E \cap InBucket(E, b))
    BY SelectType
  <2>4. Append(Select(ts, InBucket(E, b)), t) # <<>>
    <3> DEFINE k == Select(ts, InBucket(E, b))
    <3>1. k \in Seq(E)
      BY <2>3
    <3> HIDE DEF k
    <3>2. Append(k, t) # <<>>
      BY <3>1
    <3> QED
      BY <3>2 DEF k
  <2>5. Append(ts, t) \in Seq(E)
    OBVIOUS
  <2> QED
    BY <1>2, <2>1, <2>2, <2>4, <2>5, BucketsAppend
<1>3. Seq(E) \subseteq T
  <2> HIDE DEF T
  <2> QED
    BY <1>1, <1>2, SeqSetInduction
<1> QED
  BY <1>3

LEMMA HistoryIs ==
  ASSUME NEW E, NEW ts \in Seq(E)
  PROVE  HistoryOf(ts) = [b \in Latest(Buckets(ts), MaxBuckets) |-> CandleOf(Select(ts, InBucket(E, b)))]
<1>1. ts \in Seq(Range(ts)) /\ Range(ts) \subseteq E
  <2>1. Len(ts) \in Nat /\ DOMAIN ts = 1 .. Len(ts) /\ ts \in [1 .. Len(ts) -> E]
    OBVIOUS
  <2>2. \A i \in 1 .. Len(ts) : ts[i] \in Range(ts)
    BY <2>1 DEF Range
  <2>3. ts \in [1 .. Len(ts) -> Range(ts)]
    BY <2>1, <2>2
  <2> QED
    BY <2>1, <2>3, SMTT(30) DEF Range
<1>2. \A b : Select(ts, {t \in Range(ts) : BucketOf(t.ts) = b}) = Select(ts, InBucket(E, b))
  <2> TAKE b
  <2>1. \A e \in Range(ts) : e \in {t \in Range(ts) : BucketOf(t.ts) = b} <=> e \in InBucket(E, b)
    BY <1>1 DEF InBucket
  <2> DEFINE U == {t \in Range(ts) : BucketOf(t.ts) = b}
             V == InBucket(E, b)
             R == Range(ts)
  <2> HIDE DEF U, V, R
  <2>2. Select(ts, U) = Select(ts, V)
    BY <1>1, <2>1, SelectSame DEF U, V, R
  <2> QED
    BY <2>2 DEF U, V
<1>3. HistoryOf(ts) = [b \in Latest(Buckets(ts), MaxBuckets) |->
                         CandleOf(Select(ts, {t \in Range(ts) : BucketOf(t.ts) = b}))]
  BY DEF HistoryOf, Latest, Above, Buckets
<1> QED
  BY <1>2, <1>3

LEMMA HistoryEmpty == HistoryOf(<<>>) = <<>>
<1>1. <<>> \in Seq(Nat)
  OBVIOUS
<1>2. Buckets(<<>>) = {}
  BY DEF Buckets
<1>3. Latest(Buckets(<<>>), MaxBuckets) = {}
  BY <1>2 DEF Latest
<1>4. HistoryOf(<<>>) = [b \in {} |-> CandleOf(Select(<<>>, InBucket(Nat, b)))]
  BY <1>1, <1>3, HistoryIs
<1>5. [b \in {} |-> CandleOf(Select(<<>>, InBucket(Nat, b)))] = <<>>
  OBVIOUS
<1> QED
  BY <1>4, <1>5

(* What other buckets hold stays, and a trade goes to the end of its own.    *)
LEMMA BucketGrows ==
  ASSUME NEW E, NEW ts \in Seq(E), NEW t \in E, NEW b
  PROVE  Select(Append(ts, t), InBucket(E, b)) =
           IF b = BucketOf(t.ts) THEN Append(Select(ts, InBucket(E, b)), t)
           ELSE Select(ts, InBucket(E, b))
<1>1. t \in InBucket(E, b) <=> b = BucketOf(t.ts)
  BY DEF InBucket
<1> QED
  BY <1>1, SelectAppend

LEMMA HistoryGrows ==
  ASSUME NEW E, AreTrades(E), NEW ts \in Seq(E), NEW t \in E
  PROVE  HistoryOf(Append(ts, t)) = AddTrade(HistoryOf(ts), t)
<1> DEFINE u == Append(ts, t)
           h == HistoryOf(ts)
           b == BucketOf(t.ts)
           N == MaxBuckets
           B == Buckets(ts)
           L == Latest(B, N)
           F == [x \in L |-> CandleOf(Select(ts, InBucket(E, x)))]
<1>1. N \in Nat \ {0} /\ Numbers(B) /\ b \in Int /\ u \in Seq(E)
  BY CandlesAssumption, BucketsAre, BucketType
<1>2. h = [x \in L |-> CandleOf(Select(ts, InBucket(E, x)))] /\ DOMAIN h = L
  BY HistoryIs
<1>3. HistoryOf(u) = [x \in Latest(B \cup {b}, N) |-> CandleOf(Select(u, InBucket(E, x)))]
  <2>1. HistoryOf(u) = [x \in Latest(Buckets(u), N) |-> CandleOf(Select(u, InBucket(E, x)))]
    BY <1>1, HistoryIs
  <2>2. Buckets(u) = B \cup {b}
    BY BucketsAppend
  <2> QED
    BY <2>1, <2>2
<1>4. /\ Numbers(L) /\ L \subseteq B /\ Cardinality(L) \in Nat /\ Cardinality(L) <= N
      /\ L # {} => Min(L) \in L /\ Min(L) \in Int /\ \A x \in L : Min(L) <= x /\ x \in Int
  <2>1. Numbers(L) /\ L \subseteq B /\ Cardinality(L) \in 0 .. N
    BY <1>1, LatestFacts
  <2> HIDE DEF L
  <2>2. \A x \in L : x \in Int
    BY <2>1 DEF Numbers
  <2>3. L # {} => Min(L) \in L /\ Min(L) \in Int /\ \A x \in L : Min(L) <= x
    BY <2>1, MinIs
  <2> QED
    BY <1>1, <2>1, <2>2, <2>3
<1>5. \A x : x # b => Select(u, InBucket(E, x)) = Select(ts, InBucket(E, x))
  BY BucketGrows
<1>6. TooOld(h, b) <=> b \notin L /\ Cardinality(L) >= N /\ \A x \in L : b < x
  <2>1. Cardinality(L) >= N => L # {}
    <3> HIDE DEF L
    <3>1. L = {} => Cardinality(L) = 0
      BY FS_EmptySet
    <3> QED
      BY <1>1, <3>1
  <2>2. L # {} => (b < Min(L) <=> \A x \in L : b < x)
    <3> HIDE DEF L
    <3> QED
      BY <1>1, <1>4
  <2> HIDE DEF L, h
  <2> QED
    BY <1>2, <2>1, <2>2 DEF TooOld
<1>7. CASE b \in L
  <2>1. B \cup {b} = B /\ b \in B
    BY <1>4, <1>7
  <2>2. Select(ts, InBucket(E, b)) # <<>> /\ Select(ts, InBucket(E, b)) \in Seq(E)
    <3>1. Select(ts, InBucket(E, b)) \in Seq(E \cap InBucket(E, b))
      BY SelectType
    <3> QED
      BY <2>1, <3>1, BucketOccupied
  <2>3. CandleOf(Select(u, InBucket(E, b))) = Extended(h[b], t)
    <3> DEFINE k == Select(ts, InBucket(E, b))
    <3>1. Select(u, InBucket(E, b)) = Append(k, t)
      BY BucketGrows
    <3>2. h[b] = CandleOf(k)
      BY <1>2, <1>7
    <3> HIDE DEF k, h, u, b
    <3> QED
      BY <2>2, <3>1, <3>2, CandleGrows DEF k
  <2>4. AddTrade(h, t) = Trimmed(Over([x \in {b} |-> Extended(h[b], t)], h))
    <3> HIDE DEF h, L
    <3> QED
      BY <1>2, <1>6, <1>7 DEF AddTrade
  <2> DEFINE g == Over([x \in {b} |-> Extended(h[b], t)], h)
  <2>5. g = [x \in L |-> IF x = b THEN Extended(h[b], t) ELSE h[x]]
    <3> HIDE DEF h, L
    <3> QED
      BY <1>2, <1>7 DEF Over
  <2>6. Trimmed(g) = g
    <3> HIDE DEF h, L
    <3>1. DOMAIN g = L
      BY <2>5
    <3> HIDE DEF g
    <3> QED
      BY <1>4, <3>1 DEF Trimmed
  <2>7. HistoryOf(u) = g
    <3>1. \A x \in L : CandleOf(Select(u, InBucket(E, x))) =
                         IF x = b THEN Extended(h[b], t) ELSE h[x]
      BY <1>2, <1>5, <2>3
    <3> HIDE DEF h, L, g, u, b, B
    <3> QED
      BY <1>3, <2>1, <2>5, <3>1 DEF L
  <2> QED
    BY <2>4, <2>6, <2>7
<1>8. CASE TooOld(h, b)
  <2>1. AddTrade(h, t) = h
    <3> HIDE DEF h
    <3> QED
      BY <1>8 DEF AddTrade
  <2>2. Latest(B \cup {b}, N) = L /\ b \notin L
    <3>1. b \notin Latest(B, N) /\ Cardinality(L) >= N /\ \A x \in L : b < x
      BY <1>6, <1>8
    <3>2. Renewed(B, N, b)
      <4> HIDE DEF B, b, N, L, h
      <4> QED
        BY <1>1, <3>1, LatestRenewed
    <3> HIDE DEF B, b, N, h
    <3> QED
      BY <3>1, <3>2 DEF Renewed
  <2>3. HistoryOf(u) = h
    BY <1>2, <1>3, <1>5, <2>2
  <2> QED
    BY <2>1, <2>3
<1>9. CASE b \notin L /\ ~TooOld(h, b)
  <2> DEFINE g == Over([x \in {b} |-> NewCandle(t)], h)
             M == L \cup {b}
  <2>1. AddTrade(h, t) = Trimmed(g)
    <3> HIDE DEF h, L
    <3> QED
      BY <1>2, <1>9 DEF AddTrade
  <2>2. g = [x \in M |-> IF x = b THEN NewCandle(t) ELSE h[x]]
    <3> HIDE DEF h, L
    <3> QED
      BY <1>2, <1>9 DEF Over
  <2>3. b \notin B /\ Latest(B \cup {b}, N) = (IF Cardinality(M) <= N THEN M ELSE M \ {Min(M)})
    <3>1. b \notin Latest(B, N)
      BY <1>9
    <3>2. Renewed(B, N, b)
      <4> HIDE DEF B, b, N, L, M, h
      <4> QED
        BY <1>1, <3>1, LatestRenewed
    <3>3. ~(Cardinality(L) >= N /\ \A x \in L : b < x)
      BY <1>6, <1>9
    <3> HIDE DEF B, b, N, h
    <3> QED
      BY <3>2, <3>3 DEF Renewed
  <2>4. CandleOf(Select(u, InBucket(E, b))) = NewCandle(t)
    <3>1. Select(ts, InBucket(E, b)) = <<>>
      BY <2>3, BucketOccupied
    <3>2. Select(u, InBucket(E, b)) = Append(<<>>, t)
      BY <3>1, BucketGrows
    <3> QED
      BY <3>2, CandleStarts
  <2>5. Trimmed(g) = [x \in Latest(B \cup {b}, N) |-> IF x = b THEN NewCandle(t) ELSE h[x]]
    <3>1. DOMAIN g = M
      BY <2>2
    <3> HIDE DEF g, M, h, B, b
    <3>2. CASE Cardinality(M) <= N
      BY <2>2, <2>3, <3>1, <3>2 DEF Trimmed
    <3>3. CASE ~(Cardinality(M) <= N)
      <4>1. Trimmed(g) = Restrict(g, M \ {Min(M)})
        BY <3>1, <3>3 DEF Trimmed
      <4>2. Restrict(g, M \ {Min(M)}) = [x \in M \ {Min(M)} |-> IF x = b THEN NewCandle(t) ELSE h[x]]
        BY <2>2 DEF Restrict
      <4> QED
        BY <2>3, <3>3, <4>1, <4>2
    <3> QED
      BY <3>2, <3>3
  <2>6. \A x \in Latest(B \cup {b}, N) :
          CandleOf(Select(u, InBucket(E, x))) = IF x = b THEN NewCandle(t) ELSE h[x]
    <3> SUFFICES ASSUME NEW x \in Latest(B \cup {b}, N), x # b
                 PROVE  CandleOf(Select(u, InBucket(E, x))) = h[x]
      BY <2>4
    <3>1. x \in L
      <4> HIDE DEF L, B, b
      <4> QED
        BY <2>3
    <3> QED
      BY <1>2, <1>5, <3>1
  <2>7. HistoryOf(u) = Trimmed(g)
    <3> HIDE DEF g, h, B, b, u
    <3> QED
      BY <1>3, <2>5, <2>6
  <2> QED
    BY <2>1, <2>7
<1>10. b \in L \/ TooOld(h, b) \/ (b \notin L /\ ~TooOld(h, b))
  OBVIOUS
<1> QED
  BY <1>7, <1>8, <1>9, <1>10

-----------------------------------------------------------------------------
(* What was accepted of a sequence of deliveries.                            *)
OwnTrades == {t \in Trades : t.symbol = Own}

LEMMA OwnAreTrades == AreTrades(OwnTrades) /\ AreTrades(Trades)
BY TerminalAssumption DEF TerminalAssumption, AreTrades, IsTrade, OwnTrades

Recalled(acc, id) == \E i \in DOMAIN acc : i > Len(acc) - Capacity /\ acc[i].id = id

Accepting(acc, t) == IF Recalled(acc, t.id) THEN acc ELSE Append(acc, t)

Acceptor == [acc \in Seq(OwnTrades) |-> [t \in OwnTrades |-> Accepting(acc, t)]]

AcceptedOf(d) == SeqFold(Acceptor, <<>>, d)

LEMMA AcceptorIs ==
  ASSUME NEW d \in Seq(OwnTrades)
  PROVE  Foldable(d, <<>>, Acceptor, Seq(OwnTrades), OwnTrades)
<1>1. \A acc \in Seq(OwnTrades), t \in OwnTrades : Acceptor[acc][t] \in Seq(OwnTrades)
  BY DEF Acceptor, Accepting
<1>2. <<>> \in Seq(OwnTrades)
  OBVIOUS
<1> QED
  BY <1>1, <1>2 DEF Foldable, Closed

LEMMA AcceptedIs ==
  ASSUME delivered \in Seq(OwnTrades)
  PROVE  Accepted = AcceptedOf(delivered) /\ Accepted \in Seq(OwnTrades)
<1> DEFINE s == delivered
           A == Seq(OwnTrades)
           D == DOMAIN s
           F(h) == [t \in SUBSET D |->
                      IF t = {} THEN <<>>
                      ELSE IF \E i \in DOMAIN h[t \ {Max(t)}] :
                                i > Len(h[t \ {Max(t)}]) - Capacity
                                  /\ h[t \ {Max(t)}][i].id = s[Max(t)].id
                           THEN h[t \ {Max(t)}] ELSE Append(h[t \ {Max(t)}], s[Max(t)])]
           f == CHOOSE h : h = F(h)
<1>1. Accepted = f[D]
  BY DEF Accepted, FoldLeft, MapThenFoldSet
<1>2. \A h : F(h) = [t \in SUBSET D |->
                       IF t = {} THEN <<>> ELSE Accepting(h[t \ {Max(t)}], s[Max(t)])]
  BY DEF Accepting, Recalled
<1>3. \A acc \in A, t \in OwnTrades : Acceptor[acc][t] = Accepting(acc, t)
  BY DEF Acceptor
<1>4. Foldable(s, <<>>, Acceptor, A, OwnTrades)
  BY AcceptorIs
<1>5. \A t \in SUBSET D : t # {} => Max(t) \in D /\ s[Max(t)] \in OwnTrades
  BY LastPlace, SMTT(30)
<1> HIDE DEF A
<1>6. f = F(f)
  <2>1. PICK h : FoldsBy(h, s, <<>>, Acceptor, A)
    BY <1>4, FoldWitness
  <2>2. h = [t \in SUBSET D |-> IF t = {} THEN <<>> ELSE Acceptor[h[t \ {Max(t)}]][s[Max(t)]]]
    BY <2>1 DEF FoldsBy, Recursion
  <2>3. \A t \in SUBSET D : t # {} =>
          Acceptor[h[t \ {Max(t)}]][s[Max(t)]] = Accepting(h[t \ {Max(t)}], s[Max(t)])
    <3> SUFFICES ASSUME NEW t \in SUBSET D, t # {}
                 PROVE  h[t \ {Max(t)}] \in A
      BY <1>3, <1>5
    <3> QED
      BY <2>1 DEF FoldsBy
  <2>4. h = F(h)
    <3> HIDE DEF F
    <3> QED
      BY <1>2, <2>2, <2>3
  <2> QED
    BY <2>4
<1>7. f = [t \in SUBSET D |-> IF t = {} THEN <<>> ELSE Accepting(f[t \ {Max(t)}], s[Max(t)])]
  <2> HIDE DEF f, F
  <2> QED
    BY <1>2, <1>6
<1>8. Obeys(f, s, <<>>, Acceptor, A)
  <2> HIDE DEF f
  <2>1. \A t \in SUBSET D : t # {} /\ f[t \ {Max(t)}] \in A =>
          f[t] = Acceptor[f[t \ {Max(t)}]][s[Max(t)]]
    BY <1>3, <1>5, <1>7
  <2>2. f[{}] = <<>>
    BY <1>7
  <2> QED
    BY <2>1, <2>2 DEF Obeys
<1> HIDE DEF f
<1>9. f[D] = SeqFold(Acceptor, <<>>, s) /\ SeqFold(Acceptor, <<>>, s) \in A
  BY <1>4, <1>8, SeqFoldIs, SeqFoldType
<1> QED
  BY <1>1, <1>9 DEF AcceptedOf, A

LEMMA AcceptedEmpty == AcceptedOf(<<>>) = <<>>
<1>1. <<>> \in Seq(OwnTrades)
  OBVIOUS
<1> QED
  BY <1>1, AcceptorIs, SeqFoldEmpty DEF AcceptedOf

LEMMA AcceptedAppend ==
  ASSUME NEW d \in Seq(OwnTrades), NEW t \in OwnTrades
  PROVE  /\ AcceptedOf(d) \in Seq(OwnTrades)
         /\ AcceptedOf(Append(d, t)) = Accepting(AcceptedOf(d), t)
<1>1. Foldable(d, <<>>, Acceptor, Seq(OwnTrades), OwnTrades)
  BY AcceptorIs
<1>2. AcceptedOf(d) \in Seq(OwnTrades)
  BY <1>1, SeqFoldType DEF AcceptedOf
<1>3. AcceptedOf(Append(d, t)) = Acceptor[AcceptedOf(d)][t]
  BY <1>1, SeqFoldAppend DEF AcceptedOf
<1> QED
  BY <1>2, <1>3 DEF Acceptor

-----------------------------------------------------------------------------
(* The newest elements of a sequence, what a deque with a maxlen holds.      *)
Dropped(s, n) == IF Len(s) > n THEN Len(s) - n ELSE 0

LEMMA NewestIs ==
  ASSUME NEW E, NEW s \in Seq(E), NEW n \in Nat \ {0}
  PROVE  /\ Newest(s, n) \in Seq(E) /\ Dropped(s, n) \in Nat /\ Len(Newest(s, n)) \in 0 .. n
         /\ Len(s) \in Nat /\ Len(Newest(s, n)) = Len(s) - Dropped(s, n)
         /\ \A i \in 1 .. Len(Newest(s, n)) : Newest(s, n)[i] = s[Dropped(s, n) + i]
<1> DEFINE k == IF Len(s) > n THEN Len(s) - n ELSE 0
<1>0. Len(s) - k \in 0 .. n
  OBVIOUS
<1>1. Len(s) \in Nat /\ k \in Nat /\ k <= Len(s) /\ k + 1 \in Int
  OBVIOUS
<1>2. Max({1, Len(s) - n + 1}) = k + 1
  <2>1. Len(s) - n + 1 \in Int /\ 1 \in Int
    BY <1>1
  <2> DEFINE m == Len(s) - n + 1
  <2> HIDE DEF m
  <2>2. Max({1, m}) = IF 1 >= m THEN 1 ELSE m
    BY <2>1, Pair DEF m
  <2> QED
    BY <1>1, <2>2 DEF m
<1>3. Newest(s, n) = SubSeq(s, k + 1, Len(s))
  BY <1>2 DEF Newest
<1> HIDE DEF k
<1>4. /\ SubSeq(s, k + 1, Len(s)) \in Seq(E) /\ Len(SubSeq(s, k + 1, Len(s))) = Len(s) - k
      /\ \A i \in 1 .. Len(s) - k : SubSeq(s, k + 1, Len(s))[i] = s[k + i]
  BY <1>1
<1>5. Len(SubSeq(s, k + 1, Len(s))) \in 0 .. n
  BY <1>0, <1>4 DEF k
<1> QED
  BY <1>1, <1>3, <1>4, <1>5 DEF k, Dropped

LEMMA NewestEmpty ==
  ASSUME NEW n \in Nat \ {0}
  PROVE  Newest(<<>>, n) = <<>>
<1> DEFINE z == <<>>
<1>1. z \in Seq(Nat) /\ Len(z) = 0
  OBVIOUS
<1> HIDE DEF z
<1>2. Dropped(z, n) = 0
  BY <1>1 DEF Dropped
<1>3. Newest(z, n) \in Seq(Nat) /\ Len(Newest(z, n)) = 0
  <2>1. Newest(z, n) \in Seq(Nat)
    BY <1>1, NewestIs
  <2>2. Len(Newest(z, n)) = Len(z) - Dropped(z, n)
    BY <1>1, NewestIs
  <2> QED
    BY <1>1, <1>2, <2>1, <2>2
<1>4. Newest(z, n) = <<>>
  BY <1>3
<1> QED
  BY <1>4 DEF z

LEMMA NewestAppend ==
  ASSUME NEW E, NEW s \in Seq(E), NEW n \in Nat \ {0}, NEW x \in E
  PROVE  Newest(Append(s, x), n) =
           IF Len(Newest(s, n)) < n THEN Append(Newest(s, n), x)
           ELSE Append(Tail(Newest(s, n)), x)
<1> DEFINE u == Append(s, x)
           k == Dropped(s, n)
           j == Dropped(u, n)
           a == Newest(s, n)
           b == Newest(u, n)
<1>1. u \in Seq(E) /\ Len(u) = Len(s) + 1 /\ u[Len(s) + 1] = x /\ \A i \in 1 .. Len(s) : u[i] = s[i]
  OBVIOUS
<1> HIDE DEF u
<1>2. /\ a \in Seq(E) /\ k \in Nat /\ Len(a) \in 0 .. n /\ Len(s) \in Nat /\ Len(a) = Len(s) - k
      /\ \A i \in 1 .. Len(a) : a[i] = s[k + i]
  BY NewestIs
<1>3. /\ b \in Seq(E) /\ j \in Nat /\ Len(b) \in 0 .. n /\ Len(b) = Len(u) - j
      /\ \A i \in 1 .. Len(b) : b[i] = u[j + i]
  BY <1>1, NewestIs
<1>4. CASE Len(a) < n
  <2>1. k = 0 /\ j = 0
    BY <1>1, <1>2, <1>4 DEF Dropped
  <2> DEFINE c == Append(a, x)
  <2> HIDE DEF a, b, k, j
  <2>2. c \in Seq(E) /\ Len(c) = Len(a) + 1 /\ c[Len(a) + 1] = x /\ \A i \in 1 .. Len(a) : c[i] = a[i]
    BY <1>2
  <2> HIDE DEF c
  <2>3. Len(b) = Len(c)
    BY <1>1, <1>2, <1>3, <2>1, <2>2
  <2>4. \A i \in 1 .. Len(c) : b[i] = c[i]
    BY <1>1, <1>2, <1>3, <2>1, <2>2
  <2>5. b = c
    BY <1>3, <2>2, <2>3, <2>4, SeqEqual
  <2> QED
    BY <1>4, <2>5 DEF a, b, c, u
<1>5. CASE ~(Len(a) < n)
  <2>1. Len(a) = n /\ j = k + 1
    BY <1>1, <1>2, <1>5 DEF Dropped
  <2> DEFINE c == Append(Tail(a), x)
  <2> HIDE DEF a, b, k, j
  <2>2. a # <<>>
    BY <2>1
  <2>3. /\ c \in Seq(E) /\ Len(c) = Len(a) /\ c[Len(a)] = x
        /\ \A i \in 1 .. Len(a) - 1 : c[i] = a[i + 1]
    BY <1>2, <2>1, <2>2
  <2> HIDE DEF c
  <2>4. Len(b) = Len(c)
    <3>1. Len(b) = Len(s) + 1 - (k + 1)
      BY <1>1, <1>3, <2>1
    <3> QED
      BY <1>2, <2>3, <3>1
  <2>5. \A i \in 1 .. Len(c) : b[i] = c[i]
    <3> SUFFICES ASSUME NEW i \in 1 .. Len(c) PROVE b[i] = c[i]
      OBVIOUS
    <3>1. b[i] = u[k + 1 + i]
      BY <1>3, <2>1, <2>4
    <3>2. CASE i = Len(a)
      <4>1. k + 1 + i = Len(s) + 1
        BY <1>2, <3>2
      <4> QED
        BY <1>1, <2>3, <3>1, <3>2, <4>1
    <3>3. CASE i \in 1 .. Len(a) - 1
      <4>1. i + 1 \in 1 .. Len(a) /\ k + 1 + i \in 1 .. Len(s) /\ k + 1 + i = k + (i + 1)
        BY <1>2, <3>3
      <4>2. a[i + 1] = s[k + 1 + i]
        BY <1>2, <4>1
      <4> QED
        BY <1>1, <2>3, <3>1, <3>3, <4>1, <4>2
    <3>4. i = Len(a) \/ i \in 1 .. Len(a) - 1
      BY <1>2, <2>3
    <3> QED
      BY <3>2, <3>3, <3>4
  <2>6. b = c
    BY <1>3, <2>3, <2>4, <2>5, SeqEqual
  <2> QED
    BY <1>5, <2>6 DEF a, b, c, u
<1> QED
  BY <1>4, <1>5

-----------------------------------------------------------------------------
(* The market orders among trades, and among those trades and one more.      *)
Timely(ts, i) == \A j \in 1 .. i - 1 : ts[j].ts <= ts[i].ts

KeyOf(ts, i) == <<ts[i].ts, ts[i].taker>>

Before(ts, i) == {j \in 1 .. i - 1 : Timely(ts, j)}

OrderOpens(ts, i) ==
  Timely(ts, i) /\ (Before(ts, i) = {} \/ KeyOf(ts, Max(Before(ts, i))) # KeyOf(ts, i))

Openings(ts, taker) == {i \in DOMAIN ts : OrderOpens(ts, i) /\ ts[i].taker = taker}

Places(ts) == [i \in DOMAIN ts |-> i]

LEMMA OrdersAre ==
  ASSUME NEW ts, NEW taker
  PROVE  MarketOrders(ts, taker) =
           [n \in DOMAIN Select(Places(ts), Openings(ts, taker)) |->
              ts[Select(Places(ts), Openings(ts, taker))[n]].ts]
BY DEF MarketOrders, Openings, OrderOpens, Before, KeyOf, Timely, Places

(* What came before does not depend on what comes after.                     *)
LEMMA OpeningsSame ==
  ASSUME NEW E, NEW ts \in Seq(E), NEW t \in E, NEW i \in 1 .. Len(ts)
  PROVE  /\ Timely(Append(ts, t), i) <=> Timely(ts, i)
         /\ OrderOpens(Append(ts, t), i) <=> OrderOpens(ts, i)
<1> DEFINE u == Append(ts, t)
<1>1. Len(ts) \in Nat /\ \A j \in 1 .. Len(ts) : u[j] = ts[j]
  BY AppendIs
<1> HIDE DEF u
<1>2. \A j \in 1 .. i : Timely(u, j) <=> Timely(ts, j)
  BY <1>1 DEF Timely
<1>3. Before(u, i) = Before(ts, i)
  BY <1>1, <1>2 DEF Before
<1>4. Before(ts, i) # {} => Max(Before(ts, i)) \in 1 .. Len(ts)
  <2> SUFFICES ASSUME Before(ts, i) # {} PROVE Max(Before(ts, i)) \in 1 .. Len(ts)
    OBVIOUS
  <2>1. Before(ts, i) \in SUBSET (1 .. Len(ts))
    BY <1>1 DEF Before
  <2> QED
    BY <1>1, <2>1, MaxOf
<1>5. Before(ts, i) # {} => KeyOf(u, Max(Before(ts, i))) = KeyOf(ts, Max(Before(ts, i)))
  BY <1>1, <1>4 DEF KeyOf
<1>6. KeyOf(u, i) = KeyOf(ts, i) /\ (Timely(u, i) <=> Timely(ts, i))
  BY <1>1, <1>2 DEF KeyOf
<1>7. OrderOpens(u, i) <=> OrderOpens(ts, i)
  BY <1>3, <1>5, <1>6 DEF OrderOpens
<1> QED
  BY <1>6, <1>7 DEF u

LEMMA OrdersEmpty ==
  ASSUME NEW taker
  PROVE  MarketOrders(<<>>, taker) = <<>>
<1>1. Places(<<>>) = <<>>
  BY DEF Places
<1>2. Select(Places(<<>>), Openings(<<>>, taker)) = <<>>
  BY <1>1, SelectEmpty
<1> QED
  BY <1>2, OrdersAre

LEMMA OrdersAppend ==
  ASSUME NEW E, AreTrades(E), NEW ts \in Seq(E), NEW t \in E, NEW taker
  PROVE  /\ MarketOrders(ts, taker) \in Seq(Nat)
         /\ MarketOrders(Append(ts, t), taker) =
              IF OrderOpens(Append(ts, t), Len(ts) + 1) /\ t.taker = taker
              THEN Append(MarketOrders(ts, taker), t.ts) ELSE MarketOrders(ts, taker)
<1> DEFINE u == Append(ts, t)
           n == Len(ts)
           S == Openings(ts, taker)
           U == Openings(u, taker)
           o == Select(Places(ts), S)
           m == MarketOrders(ts, taker)
<1>1. /\ n \in Nat /\ DOMAIN ts = 1 .. n /\ DOMAIN u = 1 .. n + 1
      /\ \A i \in 1 .. n : u[i] = ts[i] /\ ts[i].ts \in Nat
      /\ u[n + 1] = t /\ t.ts \in Nat
  BY AppendIs DEF AreTrades, IsTrade
<1>2. \A i \in 1 .. n : OrderOpens(u, i) <=> OrderOpens(ts, i)
  BY OpeningsSame
<1> HIDE DEF u, n
<1>3. Places(ts) \in Seq(1 .. n) /\ Places(ts) \in Seq(1 .. n + 1)
        /\ Places(u) = Append(Places(ts), n + 1)
  BY <1>1 DEF Places
<1>4. o = Select(Places(ts), U)
  <2>1. \A i \in 1 .. n : i \in S <=> i \in U
    BY <1>1, <1>2 DEF Openings
  <2> DEFINE I == 1 .. n
  <2>2. Places(ts) \in Seq(I) /\ \A i \in I : i \in S <=> i \in U
    BY <1>3, <2>1
  <2> HIDE DEF S, U, I
  <2>3. Select(Places(ts), S) = Select(Places(ts), U)
    BY <2>2, SelectSame
  <2> QED
    BY <2>3
<1>5. o \in Seq(1 .. n)
  <2> DEFINE I == 1 .. n
             V == I \cap S
  <2>1. o \in Seq(V)
    BY <1>3, SelectType
  <2>2. V \subseteq I
    OBVIOUS
  <2> HIDE DEF o, V, I
  <2>3. o \in Seq(I)
    BY <2>1, <2>2, SeqMonotonic
  <2> QED
    BY <2>3 DEF I
<1>6. m = [k \in DOMAIN o |-> ts[o[k]].ts]
  BY OrdersAre
<1>7. m \in Seq(Nat) /\ Len(m) = Len(o) /\ Len(o) \in Nat /\ DOMAIN o = 1 .. Len(o)
        /\ \A k \in 1 .. Len(o) : o[k] \in 1 .. n /\ m[k] = ts[o[k]].ts
  <2> HIDE DEF o, m
  <2>1. Len(o) \in Nat /\ DOMAIN o = 1 .. Len(o) /\ \A k \in 1 .. Len(o) : o[k] \in 1 .. n
    <3> DEFINE I == 1 .. n
    <3>1. o \in Seq(I)
      BY <1>5
    <3> HIDE DEF I
    <3>2. Len(o) \in Nat /\ DOMAIN o = 1 .. Len(o) /\ \A k \in 1 .. Len(o) : o[k] \in I
      BY <3>1
    <3> QED
      BY <3>2 DEF I
  <2> QED
    BY <1>1, <1>6, <2>1
<1>8. n + 1 \in U <=> OrderOpens(u, n + 1) /\ t.taker = taker
  BY <1>1 DEF Openings
<1>9. Select(Places(u), U) = IF n + 1 \in U THEN Append(o, n + 1) ELSE o
  <2> DEFINE J == 1 .. n + 1
             z == n + 1
  <2>1. z \in J /\ Places(ts) \in Seq(J)
    BY <1>1, <1>3
  <2> HIDE DEF U, o, J, z
  <2>2. Select(Append(Places(ts), z), U) =
          IF z \in U THEN Append(Select(Places(ts), U), z) ELSE Select(Places(ts), U)
    BY <2>1, SelectAppend
  <2> QED
    BY <1>3, <1>4, <2>2 DEF z
<1>10. MarketOrders(u, taker) =
         [k \in DOMAIN Select(Places(u), U) |-> u[Select(Places(u), U)[k]].ts]
  BY OrdersAre
<1> HIDE DEF o, m, U, S
<1>11. CASE n + 1 \in U
  <2> DEFINE p == Append(o, n + 1)
  <2>1. DOMAIN p = 1 .. Len(o) + 1 /\ p[Len(o) + 1] = n + 1 /\ \A k \in 1 .. Len(o) : p[k] = o[k]
    BY <1>5
  <2>2. MarketOrders(u, taker) = [k \in DOMAIN p |-> u[p[k]].ts]
    BY <1>9, <1>10, <1>11
  <2> HIDE DEF p
  <2>3. MarketOrders(u, taker) = [k \in 1 .. Len(o) + 1 |-> IF k = Len(o) + 1 THEN t.ts ELSE m[k]]
    <3>1. \A k \in 1 .. Len(o) + 1 : u[p[k]].ts = IF k = Len(o) + 1 THEN t.ts ELSE m[k]
      <4> SUFFICES ASSUME NEW k \in 1 .. Len(o) + 1
                   PROVE  u[p[k]].ts = IF k = Len(o) + 1 THEN t.ts ELSE m[k]
        OBVIOUS
      <4>1. CASE k = Len(o) + 1
        BY <1>1, <2>1, <4>1
      <4>2. CASE k \in 1 .. Len(o)
        BY <1>1, <1>7, <2>1, <4>2
      <4> QED
        BY <1>7, <4>1, <4>2
    <3> QED
      BY <2>1, <2>2, <3>1
  <2>4. Append(m, t.ts) = [k \in 1 .. Len(o) + 1 |-> IF k = Len(o) + 1 THEN t.ts ELSE m[k]]
    BY <1>1, <1>7
  <2> QED
    BY <1>7, <1>8, <1>11, <2>3, <2>4 DEF u, n, m
<1>12. CASE n + 1 \notin U
  <2>1. MarketOrders(u, taker) = [k \in DOMAIN o |-> u[o[k]].ts]
    BY <1>9, <1>10, <1>12
  <2>2. MarketOrders(u, taker) = m
    BY <1>1, <1>6, <1>7, <2>1
  <2> QED
    BY <1>7, <1>8, <1>12, <2>2 DEF u, n, m
<1> QED
  BY <1>11, <1>12

(* The time of the latest trade, and the key of the last one not late.       *)
LastIs(ts, at, order) ==
  IF ts = <<>> THEN at = 0 /\ order = None
  ELSE \E k \in 1 .. Len(ts) :
         /\ Timely(ts, k) /\ at = ts[k].ts /\ order = KeyOf(ts, k)
         /\ \A j \in 1 .. Len(ts) : ts[j].ts <= at /\ (Timely(ts, j) => j <= k)

LEMMA LastStep ==
  ASSUME NEW E, AreTrades(E), NEW ts \in Seq(E), NEW t \in E, NEW at, NEW order, LastIs(ts, at, order)
  PROVE  /\ at \in Nat /\ \A i \in 1 .. Len(ts) : ts[i].ts <= at
         /\ OrderOpens(Append(ts, t), Len(ts) + 1) <=> t.ts >= at /\ order # <<t.ts, t.taker>>
         /\ t.ts >= at => LastIs(Append(ts, t), t.ts, <<t.ts, t.taker>>)
         /\ ~(t.ts >= at) => LastIs(Append(ts, t), at, order)
<1> DEFINE u == Append(ts, t)
           n == Len(ts)
<1>1. /\ n \in Nat /\ Len(u) = n + 1 /\ u # <<>>
      /\ \A i \in 1 .. n : u[i] = ts[i] /\ ts[i].ts \in Nat
      /\ u[n + 1] = t /\ t.ts \in Nat \ {0} /\ t.taker \in Takers
  BY AppendIs DEF AreTrades, IsTrade
<1>2. \A i \in 1 .. n : (Timely(u, i) <=> Timely(ts, i)) /\ KeyOf(u, i) = KeyOf(ts, i)
  BY <1>1, OpeningsSame DEF KeyOf
<1> HIDE DEF u
<1>3. CASE ts = <<>>
  <2>1. n = 0 /\ at = 0 /\ order = None
    BY <1>3 DEF LastIs
  <2>2. Timely(u, n + 1) /\ Before(u, n + 1) = {}
    BY <2>1 DEF Timely, Before
  <2>3. order # <<t.ts, t.taker>>
    BY <1>1, <2>1, FeaturesAssumption DEF FeaturesAssumption
  <2>4. LastIs(u, t.ts, <<t.ts, t.taker>>)
    BY <1>1, <2>1, <2>2 DEF LastIs, KeyOf
  <2> QED
    BY <1>1, <2>1, <2>2, <2>3, <2>4 DEF OrderOpens, u
<1>4. CASE ts # <<>>
  <2>1. PICK k \in 1 .. n :
          /\ Timely(ts, k) /\ at = ts[k].ts /\ order = KeyOf(ts, k)
          /\ \A j \in 1 .. n : ts[j].ts <= at /\ (Timely(ts, j) => j <= k)
    BY <1>4 DEF LastIs
  <2>2. Timely(u, n + 1) <=> t.ts >= at
    BY <1>1, <2>1 DEF Timely
  <2>3. Before(u, n + 1) # {} /\ Max(Before(u, n + 1)) = k
    <3>1. Before(u, n + 1) = {j \in 1 .. n : Timely(ts, j)}
      BY <1>1, <1>2 DEF Before
    <3>2. k \in Before(u, n + 1) /\ \A j \in Before(u, n + 1) : j <= k
      BY <2>1, <3>1
    <3>3. Max(Before(u, n + 1)) \in Before(u, n + 1)
            /\ \A j \in Before(u, n + 1) : Max(Before(u, n + 1)) >= j
      <4>1. Before(u, n + 1) \in SUBSET (1 .. n) /\ Before(u, n + 1) # {}
        BY <3>1, <3>2
      <4> QED
        BY <1>1, <4>1, MaxOf
    <3>4. Before(u, n + 1) \subseteq Int
      BY <3>1
    <3> QED
      BY <3>2, <3>3, <3>4
  <2>4. KeyOf(u, k) = order /\ KeyOf(u, n + 1) = <<t.ts, t.taker>>
    BY <1>1, <1>2, <2>1 DEF KeyOf
  <2>5. OrderOpens(u, n + 1) <=> t.ts >= at /\ order # <<t.ts, t.taker>>
    BY <2>2, <2>3, <2>4 DEF OrderOpens
  <2>6. ASSUME t.ts >= at PROVE LastIs(u, t.ts, <<t.ts, t.taker>>)
    <3>1. Timely(u, n + 1) /\ t.ts = u[n + 1].ts /\ <<t.ts, t.taker>> = KeyOf(u, n + 1)
      BY <1>1, <2>2, <2>4, <2>6
    <3>2. \A j \in 1 .. n + 1 : u[j].ts <= t.ts /\ j <= n + 1
      <4> SUFFICES ASSUME NEW j \in 1 .. n + 1 PROVE u[j].ts <= t.ts
        BY <1>1
      <4>1. CASE j = n + 1
        BY <1>1, <4>1
      <4>2. CASE j \in 1 .. n
        <5>1. u[j].ts = ts[j].ts /\ ts[j].ts <= at /\ ts[j].ts \in Nat /\ at \in Nat
          BY <1>1, <2>1, <4>2
        <5> QED
          BY <1>1, <2>6, <5>1
      <4> QED
        BY <1>1, <4>1, <4>2
    <3>3. n + 1 \in 1 .. n + 1
      BY <1>1
    <3> QED
      BY <1>1, <3>1, <3>2, <3>3 DEF LastIs
  <2>7. ASSUME ~(t.ts >= at) PROVE LastIs(u, at, order)
    <3>1. k \in 1 .. n + 1 /\ Timely(u, k) /\ at = u[k].ts /\ order = KeyOf(u, k)
      BY <1>1, <1>2, <2>1
    <3>2. \A j \in 1 .. n + 1 : u[j].ts <= at /\ (Timely(u, j) => j <= k)
      <4> SUFFICES ASSUME NEW j \in 1 .. n + 1
                   PROVE  u[j].ts <= at /\ (Timely(u, j) => j <= k)
        OBVIOUS
      <4>1. CASE j = n + 1
        BY <1>1, <2>1, <2>2, <2>7, <4>1
      <4>2. CASE j \in 1 .. n
        BY <1>1, <1>2, <2>1, <4>2
      <4> QED
        BY <1>1, <4>1, <4>2
    <3> QED
      BY <1>1, <3>1, <3>2 DEF LastIs
  <2>8. at \in Nat
    BY <1>1, <2>1
  <2> QED
    BY <2>1, <2>5, <2>6, <2>7, <2>8 DEF u
<1> QED
  BY <1>3, <1>4

-----------------------------------------------------------------------------
(* The signals keep their type.                                              *)
Ids == {t.id : t \in Trades}

SignalStates ==
  [seen : SUBSET Ids, order : Seq(Ids), book : Tops \cup {None}, bookTime : Nat \cup {None},
   lastTrade : Nat \cup {None}, volume : Nat, buyVolume : Nat, notional : Nat, count : Nat,
   features : FeatureStates, lastHawkes : Nat, evaluation : Int]

SignalFields ==
  {"seen", "order", "book", "bookTime", "lastTrade", "volume", "buyVolume", "notional", "count",
   "features", "lastHawkes", "evaluation"}

LEMMA SignalsAre ==
  ASSUME NEW r, r = [k \in SignalFields |-> r[k]],
         r.seen \in SUBSET Ids, r.order \in Seq(Ids), r.book \in Tops \cup {None},
         r.bookTime \in Nat \cup {None}, r.lastTrade \in Nat \cup {None}, r.volume \in Nat,
         r.buyVolume \in Nat, r.notional \in Nat, r.count \in Nat, r.features \in FeatureStates,
         r.lastHawkes \in Nat, r.evaluation \in Int
  PROVE  r \in SignalStates
BY DEF SignalStates, SignalFields

LEMMA SignalFacts ==
  ASSUME NEW s \in SignalStates
  PROVE  /\ s = [k \in SignalFields |-> s[k]] /\ DOMAIN s = SignalFields
         /\ s.seen \in SUBSET Ids /\ s.order \in Seq(Ids) /\ s.book \in Tops \cup {None}
         /\ s.bookTime \in Nat \cup {None} /\ s.lastTrade \in Nat \cup {None} /\ s.volume \in Nat
         /\ s.buyVolume \in Nat /\ s.notional \in Nat /\ s.count \in Nat
         /\ s.features \in FeatureStates /\ s.lastHawkes \in Nat /\ s.evaluation \in Int
BY DEF SignalStates, SignalFields

LEMMA OwnFacts ==
  ASSUME NEW t \in OwnTrades
  PROVE  /\ t.ts \in Nat \ {0} /\ t.price \in Nat \ {0} /\ t.qty \in Nat \ {0} /\ t.taker \in Takers
         /\ t.id \in Ids /\ t.price * t.qty \in Nat
<1>1. t.ts \in Nat \ {0} /\ t.price \in Nat \ {0} /\ t.qty \in Nat \ {0} /\ t.taker \in Takers
  BY OwnAreTrades DEF AreTrades, IsTrade
<1>2. t.price * t.qty \in Nat
  BY <1>1
<1> QED
  BY <1>1, <1>2 DEF Ids, OwnTrades

LEMMA CountIs ==
  ASSUME NEW s \in SignalStates, NEW t \in OwnTrades
  PROVE  LET r == Count(s, t) IN
         /\ r \in SignalStates
         /\ r.seen = s.seen /\ r.order = s.order /\ r.features = s.features
         /\ r.lastHawkes = s.lastHawkes /\ r.evaluation = s.evaluation
         /\ r.count = s.count + 1 /\ r.volume = s.volume + t.qty
         /\ r.buyVolume = s.buyVolume + Part(t, "buy")
         /\ r.notional = s.notional + t.price * t.qty
         /\ r.lastTrade = IF s.lastTrade = None \/ t.ts > s.lastTrade THEN t.ts ELSE s.lastTrade
<1> DEFINE r == Count(s, t)
<1>0. /\ s = [k \in SignalFields |-> s[k]] /\ DOMAIN s = SignalFields
  BY SignalFacts
<1>1. r.seen = s.seen /\ r.order = s.order /\ r.features = s.features /\ r.book = s.book
        /\ r.bookTime = s.bookTime
  BY <1>0 DEF Count, SignalFields
<1>2. r.lastHawkes = s.lastHawkes /\ r.evaluation = s.evaluation /\ r.count = s.count + 1
  BY <1>0 DEF Count, SignalFields
<1>3. r.volume = s.volume + t.qty /\ r.notional = s.notional + t.price * t.qty
  BY <1>0 DEF Count, SignalFields
<1>4. r.buyVolume = IF t.taker = "buy" THEN s.buyVolume + t.qty ELSE s.buyVolume
  BY <1>0 DEF Count, SignalFields
<1>5. r.lastTrade = IF s.lastTrade = None \/ t.ts > s.lastTrade THEN t.ts ELSE s.lastTrade
  BY <1>0 DEF Count, SignalFields
<1>6. r = [k \in SignalFields |-> r[k]]
  BY <1>0 DEF Count
<1> HIDE DEF r
<1>7. /\ s.seen \in SUBSET Ids /\ s.order \in Seq(Ids) /\ s.book \in Tops \cup {None}
      /\ s.bookTime \in Nat \cup {None} /\ s.lastTrade \in Nat \cup {None} /\ s.volume \in Nat
      /\ s.buyVolume \in Nat /\ s.notional \in Nat /\ s.count \in Nat
      /\ s.features \in FeatureStates /\ s.lastHawkes \in Nat /\ s.evaluation \in Int
  BY SignalFacts
<1>8. t.qty \in Nat /\ t.ts \in Nat /\ t.price * t.qty \in Nat
  BY OwnFacts
<1>9. r.volume \in Nat /\ r.buyVolume \in Nat /\ r.notional \in Nat /\ r.count \in Nat
  <2> DEFINE z == t.price * t.qty
  <2>1. r.notional = s.notional + z /\ z \in Nat
    BY <1>3, <1>8
  <2> HIDE DEF z
  <2>2. r.notional \in Nat
    BY <1>7, <2>1
  <2>3. r.volume \in Nat
    BY <1>3, <1>7, <1>8
  <2>4. r.buyVolume \in Nat /\ r.count \in Nat
    BY <1>2, <1>4, <1>7, <1>8
  <2> QED
    BY <2>2, <2>3, <2>4
<1>10. r.lastTrade \in Nat \cup {None}
  BY <1>5, <1>7, <1>8
<1>11. r \in SignalStates
  BY <1>1, <1>2, <1>6, <1>7, <1>9, <1>10, SignalsAre
<1>12. r.buyVolume = s.buyVolume + Part(t, "buy")
  BY <1>4, <1>7, <1>8 DEF Part
<1> QED
  BY <1>1, <1>2, <1>3, <1>5, <1>11, <1>12 DEF r

LEMMA RememberIs ==
  ASSUME NEW s \in SignalStates, NEW id \in Ids
  PROVE  LET r == Remember(s, id)
             order == Append(s.order, id)
             full == Len(order) > Capacity
         IN /\ r \in SignalStates
            /\ r.features = s.features /\ r.lastHawkes = s.lastHawkes
            /\ r.evaluation = s.evaluation /\ r.count = s.count /\ r.volume = s.volume
            /\ r.buyVolume = s.buyVolume /\ r.notional = s.notional /\ r.lastTrade = s.lastTrade
            /\ r.order = IF full THEN Tail(order) ELSE order
            /\ r.seen = IF full THEN (s.seen \cup {id}) \ {Head(order)} ELSE s.seen \cup {id}
<1> DEFINE r == Remember(s, id)
           o == IF Len(Append(s.order, id)) > Capacity THEN Tail(Append(s.order, id))
                ELSE Append(s.order, id)
           n == IF Len(Append(s.order, id)) > Capacity
                THEN (s.seen \cup {id}) \ {Head(Append(s.order, id))} ELSE s.seen \cup {id}
<1>0. /\ s = [k \in SignalFields |-> s[k]] /\ DOMAIN s = SignalFields
  BY SignalFacts
<1>1. r = [s EXCEPT !.order = o, !.seen = n]
  BY <1>0 DEF Remember, SignalFields
<1>2. o \in Seq(Ids) /\ n \in SUBSET Ids
  <2>1. s.order \in Seq(Ids) /\ s.seen \in SUBSET Ids
    BY SignalFacts
  <2>2. Append(s.order, id) \in Seq(Ids) /\ Append(s.order, id) # <<>>
    BY <2>1
  <2> QED
    BY <2>1, <2>2
<1> HIDE DEF o, n
<1>3. r.features = s.features /\ r.lastHawkes = s.lastHawkes /\ r.evaluation = s.evaluation
        /\ r.count = s.count /\ r.volume = s.volume
  BY <1>0, <1>1 DEF SignalFields
<1>4. r.buyVolume = s.buyVolume /\ r.notional = s.notional /\ r.lastTrade = s.lastTrade
        /\ r.book = s.book /\ r.bookTime = s.bookTime
  BY <1>0, <1>1 DEF SignalFields
<1>5. r.order = o /\ r.seen = n
  BY <1>0, <1>1 DEF SignalFields
<1>6. r = [k \in SignalFields |-> r[k]]
  BY <1>0, <1>1
<1> HIDE DEF r
<1>7. r \in SignalStates
  BY <1>2, <1>3, <1>4, <1>5, <1>6, SignalFacts, SignalsAre
<1> QED
  BY <1>3, <1>4, <1>5, <1>7 DEF r, o, n

LEMMA ExciteIs ==
  ASSUME NEW s \in SignalStates, NEW t \in OwnTrades,
         FeedTrade(s.features, t.ts, t.taker) \in FeatureStates
  PROVE  LET r == Excite(s, t) IN
         /\ r \in SignalStates
         /\ r.seen = s.seen /\ r.order = s.order /\ r.evaluation = s.evaluation
         /\ r.count = s.count /\ r.volume = s.volume /\ r.buyVolume = s.buyVolume
         /\ r.notional = s.notional /\ r.lastTrade = s.lastTrade
         /\ r.features = IF t.ts < s.lastHawkes THEN s.features
                         ELSE FeedTrade(s.features, t.ts, t.taker)
         /\ r.lastHawkes = IF t.ts < s.lastHawkes THEN s.lastHawkes ELSE t.ts
<1> DEFINE r == Excite(s, t)
           f == FeedTrade(s.features, t.ts, t.taker)
<1>0. /\ s = [k \in SignalFields |-> s[k]] /\ DOMAIN s = SignalFields
  BY SignalFacts
<1>1. CASE t.ts < s.lastHawkes
  BY <1>1 DEF Excite
<1>2. CASE ~(t.ts < s.lastHawkes)
  <2>1. r = [s EXCEPT !.features = f, !.lastHawkes = t.ts]
    BY <1>2 DEF Excite
  <2>2. f \in FeatureStates /\ t.ts \in Nat
    BY OwnFacts
  <2> HIDE DEF f
  <2>3. r.seen = s.seen /\ r.order = s.order /\ r.evaluation = s.evaluation
          /\ r.count = s.count /\ r.volume = s.volume
    BY <1>0, <2>1 DEF SignalFields
  <2>4. r.buyVolume = s.buyVolume /\ r.notional = s.notional /\ r.lastTrade = s.lastTrade
          /\ r.book = s.book /\ r.bookTime = s.bookTime
    BY <1>0, <2>1 DEF SignalFields
  <2>5. r.features = f /\ r.lastHawkes = t.ts
    BY <1>0, <2>1 DEF SignalFields
  <2>6. r = [k \in SignalFields |-> r[k]]
    BY <1>0, <2>1
  <2> HIDE DEF r
  <2>7. r \in SignalStates
    BY <2>2, <2>3, <2>4, <2>5, <2>6, SignalFacts, SignalsAre
  <2> QED
    BY <1>2, <2>3, <2>4, <2>5, <2>7 DEF r, f
<1> QED
  BY <1>1, <1>2

LEMMA EvaluatedIs ==
  ASSUME NEW s \in SignalStates, NEW at \in Int
  PROVE  LET r == Evaluated(s, at) IN
         /\ r \in SignalStates
         /\ r.seen = s.seen /\ r.order = s.order /\ r.features = s.features
         /\ r.lastHawkes = s.lastHawkes /\ r.lastTrade = s.lastTrade
         /\ r.count = s.count /\ r.volume = s.volume /\ r.buyVolume = s.buyVolume
         /\ r.notional = s.notional
         /\ r.evaluation >= s.lastHawkes
<1> DEFINE r == Evaluated(s, at)
           M == {s.evaluation, s.lastHawkes, at}
           m == CHOOSE x \in M : \A n \in M : x >= n
<1>0. /\ s = [k \in SignalFields |-> s[k]] /\ DOMAIN s = SignalFields
  BY SignalFacts
<1>1. r = [s EXCEPT !.evaluation = m]
  BY DEF Evaluated
<1>2. s.evaluation \in Int /\ s.lastHawkes \in Int
  BY SignalFacts
<1>3. \E x \in M : \A n \in M : x >= n
  BY <1>2
<1>4. m \in Int /\ m >= s.lastHawkes
  BY <1>2, <1>3
<1> HIDE DEF m, M
<1>5. r.seen = s.seen /\ r.order = s.order /\ r.features = s.features
        /\ r.lastHawkes = s.lastHawkes /\ r.lastTrade = s.lastTrade
  BY <1>0, <1>1 DEF SignalFields
<1>6. r.count = s.count /\ r.volume = s.volume /\ r.buyVolume = s.buyVolume
        /\ r.notional = s.notional /\ r.book = s.book /\ r.bookTime = s.bookTime
  BY <1>0, <1>1 DEF SignalFields
<1>7. r.evaluation = m
  BY <1>0, <1>1 DEF SignalFields
<1>8. r = [k \in SignalFields |-> r[k]]
  BY <1>0, <1>1
<1> HIDE DEF r
<1>9. r \in SignalStates
  BY <1>4, <1>5, <1>6, <1>7, <1>8, SignalFacts, SignalsAre
<1> QED
  BY <1>4, <1>5, <1>6, <1>7, <1>9 DEF r

LEMMA ReplaceBookIs ==
  ASSUME NEW s \in SignalStates, NEW top \in Tops, NEW ts \in Nat
  PROVE  LET r == ReplaceBook(s, top, ts) IN
         /\ r \in SignalStates
         /\ r.seen = s.seen /\ r.order = s.order /\ r.features = s.features
         /\ r.lastHawkes = s.lastHawkes /\ r.lastTrade = s.lastTrade
         /\ r.count = s.count /\ r.volume = s.volume /\ r.buyVolume = s.buyVolume
         /\ r.notional = s.notional /\ r.evaluation = s.evaluation
<1> DEFINE r == ReplaceBook(s, top, ts)
           b == IF ts > 0 /\ top \in Tops \ CrossedTops THEN top ELSE None
           z == IF ts > 0 THEN ts ELSE None
<1>0. /\ s = [k \in SignalFields |-> s[k]] /\ DOMAIN s = SignalFields
  BY SignalFacts
<1>1. r = [s EXCEPT !.book = b, !.bookTime = z]
  BY DEF ReplaceBook
<1>2. b \in Tops \cup {None} /\ z \in Nat \cup {None}
  OBVIOUS
<1> HIDE DEF b, z
<1>3. r.seen = s.seen /\ r.order = s.order /\ r.features = s.features
        /\ r.lastHawkes = s.lastHawkes /\ r.lastTrade = s.lastTrade
  BY <1>0, <1>1 DEF SignalFields
<1>4. r.count = s.count /\ r.volume = s.volume /\ r.buyVolume = s.buyVolume
        /\ r.notional = s.notional /\ r.evaluation = s.evaluation
  BY <1>0, <1>1 DEF SignalFields
<1>5. r.book = b /\ r.bookTime = z
  BY <1>0, <1>1 DEF SignalFields
<1>6. r = [k \in SignalFields |-> r[k]]
  BY <1>0, <1>1
<1> HIDE DEF r
<1>7. r \in SignalStates
  BY <1>2, <1>3, <1>4, <1>5, <1>6, SignalFacts, SignalsAre
<1> QED
  BY <1>3, <1>4, <1>7 DEF r

-----------------------------------------------------------------------------
(* The ids of a deque and of its set.                                        *)
Members(o) == {o[i] : i \in DOMAIN o}

Distinct(o) == \A i, j \in DOMAIN o : o[i] = o[j] => i = j

LEMMA DequeStep ==
  ASSUME NEW E, NEW o \in Seq(E), NEW x \in E, Distinct(o), x \notin Members(o)
  PROVE  /\ Distinct(Append(o, x)) /\ Members(Append(o, x)) = Members(o) \cup {x}
         /\ o # <<>> => LET d == Tail(Append(o, x)) IN
                        Distinct(d) /\ Members(d) = (Members(o) \cup {x}) \ {Head(Append(o, x))}
<1> DEFINE u == Append(o, x)
           n == Len(o)
<1>1. /\ n \in Nat /\ DOMAIN o = 1 .. n /\ DOMAIN u = 1 .. n + 1 /\ u[n + 1] = x
      /\ u \in Seq(E) /\ Len(u) = n + 1 /\ \A i \in 1 .. n : u[i] = o[i]
  BY AppendIs
<1> HIDE DEF u, n
<1>2. \A i \in 1 .. n : u[i] # x
  BY <1>1 DEF Members
<1>3. Distinct(u)
  <2> SUFFICES ASSUME NEW i \in 1 .. n + 1, NEW j \in 1 .. n + 1, u[i] = u[j]
               PROVE  i = j
    BY <1>1 DEF Distinct
  <2>1. CASE i \in 1 .. n /\ j \in 1 .. n
    BY <1>1, <2>1 DEF Distinct
  <2>2. CASE i = n + 1 \/ j = n + 1
    BY <1>1, <1>2, <2>2
  <2> QED
    BY <1>1, <2>1, <2>2
<1>4. Members(u) = Members(o) \cup {x}
  <2>1. \A i \in 1 .. n + 1 : i \in 1 .. n \/ i = n + 1
    BY <1>1
  <2>2. n + 1 \in 1 .. n + 1 /\ 1 .. n \subseteq 1 .. n + 1
    BY <1>1
  <2> QED
    BY <1>1, <2>1, <2>2 DEF Members
<1>5. ASSUME o # <<>>
      PROVE  Distinct(Tail(u)) /\ Members(Tail(u)) = (Members(o) \cup {x}) \ {Head(u)}
  <2> DEFINE d == Tail(u)
  <2>1. u # <<>> /\ Head(u) = u[1] /\ n # 0
    BY <1>1, <1>5
  <2>2. DOMAIN d = 1 .. n /\ \A i \in 1 .. n : d[i] = u[i + 1]
    BY <1>1, <2>1
  <2> HIDE DEF d
  <2>3. \A i \in 1 .. n : i + 1 \in 1 .. n + 1 /\ i + 1 # 1
    BY <1>1
  <2>4. \A i \in 1 .. n + 1 : i # 1 => i - 1 \in 1 .. n /\ i - 1 + 1 = i
    BY <1>1
  <2>5. Distinct(d)
    <3> SUFFICES ASSUME NEW i \in 1 .. n, NEW j \in 1 .. n, d[i] = d[j]
                 PROVE  i = j
      BY <2>2 DEF Distinct
    <3>1. u[i + 1] = u[j + 1] /\ i + 1 \in DOMAIN u /\ j + 1 \in DOMAIN u
      BY <1>1, <2>2, <2>3
    <3>2. i + 1 = j + 1
      BY <1>3, <3>1 DEF Distinct
    <3> QED
      BY <1>1, <3>2
  <2>6. Members(d) = Members(u) \ {u[1]}
    <3>1. ASSUME NEW i \in 1 .. n PROVE d[i] \in Members(u) /\ d[i] # u[1]
      <4>1. d[i] = u[i + 1] /\ i + 1 \in DOMAIN u /\ 1 \in DOMAIN u /\ i + 1 # 1
        BY <1>1, <2>2, <2>3
      <4> QED
        BY <1>3, <4>1 DEF Distinct, Members
    <3>2. ASSUME NEW i \in 1 .. n + 1, u[i] # u[1] PROVE u[i] \in Members(d)
      <4>1. i - 1 \in 1 .. n /\ u[i] = d[i - 1]
        BY <2>2, <2>4, <3>2
      <4> QED
        BY <2>2, <4>1 DEF Members
    <3> QED
      BY <1>1, <2>2, <3>1, <3>2 DEF Members
  <2> QED
    BY <1>4, <2>1, <2>5, <2>6 DEF d
<1> QED
  BY <1>3, <1>4, <1>5 DEF u

IdsOf(ts) == [i \in DOMAIN ts |-> ts[i].id]

LEMMA IdsAre ==
  ASSUME NEW ts \in Seq(OwnTrades), NEW t \in OwnTrades
  PROVE  /\ IdsOf(ts) \in Seq(Ids) /\ Len(IdsOf(ts)) = Len(ts)
         /\ IdsOf(Append(ts, t)) = Append(IdsOf(ts), t.id)
         /\ ts # <<>> => IdsOf(Append(Tail(ts), t)) = Tail(Append(IdsOf(ts), t.id))
<1>1. /\ Len(ts) \in Nat /\ DOMAIN ts = 1 .. Len(ts)
      /\ \A i \in 1 .. Len(ts) : ts[i] \in OwnTrades /\ ts[i].id \in Ids
  BY OwnFacts
<1>2. IdsOf(ts) \in Seq(Ids) /\ Len(IdsOf(ts)) = Len(ts) /\ \A i \in 1 .. Len(ts) : IdsOf(ts)[i] = ts[i].id
  BY <1>1 DEF IdsOf
<1>3. IdsOf(Append(ts, t)) = Append(IdsOf(ts), t.id)
  BY <1>1, <1>2, AppendIs DEF IdsOf
<1>4. ASSUME ts # <<>> PROVE IdsOf(Append(Tail(ts), t)) = Tail(Append(IdsOf(ts), t.id))
  <2> DEFINE a == Append(Tail(ts), t)
             b == Tail(Append(IdsOf(ts), t.id))
             n == Len(ts)
             o == IdsOf(ts)
  <2>1. /\ a \in Seq(OwnTrades) /\ DOMAIN a = 1 .. n /\ a[n] = t
        /\ \A i \in 1 .. n - 1 : a[i] = ts[i + 1]
    BY <1>1, <1>4
  <2> HIDE DEF o
  <2>2. /\ b \in Seq(Ids) /\ DOMAIN b = 1 .. n /\ b[n] = t.id
        /\ \A i \in 1 .. n - 1 : b[i] = o[i + 1]
    <3>1. o \in Seq(Ids) /\ Len(o) = n /\ n \in Nat /\ n # 0 /\ t.id \in Ids
      BY <1>1, <1>2, <1>4, OwnFacts DEF o
    <3> DEFINE v == Append(o, t.id)
    <3>2. v \in Seq(Ids) /\ Len(v) = n + 1 /\ v[n + 1] = t.id /\ \A i \in 1 .. n : v[i] = o[i]
      <4>1. Append(o, t.id) \in Seq(Ids) /\ Len(Append(o, t.id)) = Len(o) + 1
              /\ Append(o, t.id)[Len(o) + 1] = t.id
              /\ \A i \in 1 .. Len(o) : Append(o, t.id)[i] = o[i]
        BY <3>1, AppendIs
      <4> QED
        BY <3>1, <4>1
    <3> HIDE DEF v, n
    <3>3. v # <<>> /\ Tail(v) \in Seq(Ids) /\ Len(Tail(v)) = n /\ \A i \in 1 .. n : Tail(v)[i] = v[i + 1]
      BY <3>1, <3>2
    <3>4. DOMAIN Tail(v) = 1 .. n
      BY <3>1, <3>3
    <3>5. Tail(v)[n] = t.id
      <4>1. n \in 1 .. n
        BY <3>1
      <4> QED
        BY <3>2, <3>3, <4>1
    <3>6. \A i \in 1 .. n - 1 : Tail(v)[i] = o[i + 1]
      <4>1. \A i \in 1 .. n - 1 : i \in 1 .. n /\ i + 1 \in 1 .. n
        BY <3>1
      <4> QED
        BY <3>2, <3>3, <4>1
    <3> QED
      BY <3>3, <3>4, <3>5, <3>6 DEF v, o
  <2> HIDE DEF a, b
  <2>3. IdsOf(a) = [i \in 1 .. n |-> a[i].id]
    BY <2>1 DEF IdsOf
  <2>4. b = [i \in 1 .. n |-> b[i]]
    BY <2>2
  <2>5. \A i \in 1 .. n : b[i] = a[i].id
    <3> SUFFICES ASSUME NEW i \in 1 .. n PROVE b[i] = a[i].id
      OBVIOUS
    <3>0. n \in Nat
      BY <1>1
    <3>1. CASE i = n
      BY <2>1, <2>2, <3>1
    <3>2. CASE i \in 1 .. n - 1
      <4>1. i + 1 \in 1 .. n
        BY <3>0, <3>2
      <4>2. o[i + 1] = ts[i + 1].id
        BY <1>2, <4>1 DEF o
      <4> QED
        BY <2>1, <2>2, <3>2, <4>2
    <3>3. i = n \/ i \in 1 .. n - 1
      <4> HIDE DEF n
      <4> QED
        BY <3>0
    <3> QED
      BY <3>1, <3>2, <3>3
  <2>6. IdsOf(a) = b
    BY <2>3, <2>4, <2>5
  <2> QED
    BY <2>6 DEF a, b, o
<1> QED
  BY <1>2, <1>3, <1>4

(* What the signals remember of the accepted trades.                         *)
Recalls(s, acc) ==
  /\ s.order = IdsOf(Newest(acc, Capacity))
  /\ s.seen = Members(s.order) /\ Distinct(s.order)

LEMMA RecallIs ==
  ASSUME NEW s \in SignalStates, NEW acc \in Seq(OwnTrades), NEW id, Recalls(s, acc)
  PROVE  id \in s.seen <=> Recalled(acc, id)
<1> DEFINE w == Newest(acc, Capacity)
           k == Dropped(acc, Capacity)
<1>1. Capacity \in Nat \ {0}
  BY SignalsAssumption DEF SignalsAssumption
<1>2. /\ w \in Seq(OwnTrades) /\ k \in Nat /\ Len(acc) \in Nat /\ Len(w) = Len(acc) - k
      /\ \A i \in 1 .. Len(w) : w[i] = acc[k + i]
      /\ DOMAIN acc = 1 .. Len(acc)
  BY <1>1, NewestIs
<1>3. \A i \in 1 .. Len(acc) : i > Len(acc) - Capacity <=> i > k
  BY <1>1, <1>2 DEF Dropped
<1>4. DOMAIN w = 1 .. Len(w)
  BY <1>2
<1> HIDE DEF w, k
<1>5. s.seen = {w[i].id : i \in 1 .. Len(w)}
  BY <1>4 DEF Recalls, Members, IdsOf, w
<1>6. ASSUME NEW i \in 1 .. Len(w) PROVE k + i \in 1 .. Len(acc) /\ k + i > k
  BY <1>2
<1>7. ASSUME NEW i \in 1 .. Len(acc), i > k PROVE i - k \in 1 .. Len(w) /\ acc[i] = w[i - k]
  <2>1. i - k \in 1 .. Len(w) /\ k + (i - k) = i
    BY <1>2, <1>7
  <2> QED
    BY <1>2, <2>1
<1>8. id \in s.seen => Recalled(acc, id)
  <2> SUFFICES ASSUME NEW i \in 1 .. Len(w), w[i].id = id PROVE Recalled(acc, id)
    BY <1>5
  <2>1. k + i \in 1 .. Len(acc) /\ k + i > Len(acc) - Capacity /\ acc[k + i].id = id
    BY <1>2, <1>3, <1>6
  <2> QED
    BY <1>2, <2>1 DEF Recalled
<1>9. Recalled(acc, id) => id \in s.seen
  <2> SUFFICES ASSUME NEW i \in 1 .. Len(acc), i > k, acc[i].id = id PROVE id \in s.seen
    BY <1>2, <1>3 DEF Recalled
  <2> QED
    BY <1>5, <1>7
<1> QED
  BY <1>8, <1>9

LEMMA RecallStep ==
  ASSUME NEW s \in SignalStates, NEW acc \in Seq(OwnTrades), NEW t \in OwnTrades,
         Recalls(s, acc), t.id \notin s.seen, NEW r, r.order = Remember(s, t.id).order,
         r.seen = Remember(s, t.id).seen
  PROVE  Recalls(r, Append(acc, t))
<1> DEFINE o == s.order
           id == t.id
           w == Newest(acc, Capacity)
           u == Append(o, id)
<1>1. Capacity \in Nat \ {0} /\ id \in Ids /\ o \in Seq(Ids)
  BY SignalsAssumption, OwnFacts, SignalFacts DEF SignalsAssumption
<1>2. w \in Seq(OwnTrades) /\ Len(w) \in 0 .. Capacity
  BY <1>1, NewestIs
<1>3. o = IdsOf(w) /\ Len(o) = Len(w) /\ s.seen = Members(o) /\ Distinct(o)
  BY <1>2, IdsAre DEF Recalls
<1>4. /\ r.order = (IF Len(u) > Capacity THEN Tail(u) ELSE u)
      /\ r.seen = (IF Len(u) > Capacity THEN (s.seen \cup {id}) \ {Head(u)} ELSE s.seen \cup {id})
  BY <1>1, RememberIs
<1>5. Len(u) = Len(o) + 1
  BY <1>1
<1>6. Newest(Append(acc, t), Capacity) = IF Len(w) < Capacity THEN Append(w, t) ELSE Append(Tail(w), t)
  BY <1>1, NewestAppend
<1> HIDE DEF o, id, w, u
<1>7. CASE Len(w) < Capacity
  <2>1. ~(Len(u) > Capacity)
    BY <1>1, <1>2, <1>3, <1>5, <1>7
  <2>2. IdsOf(Append(w, t)) = u
    BY <1>2, <1>3, IdsAre DEF u, id
  <2>3. Distinct(u) /\ Members(u) = s.seen \cup {id}
    BY <1>1, <1>3, DequeStep DEF u, id
  <2> QED
    BY <1>4, <1>6, <1>7, <2>1, <2>2, <2>3 DEF Recalls
<1>8. CASE ~(Len(w) < Capacity)
  <2>1. Len(u) > Capacity /\ w # <<>> /\ o # <<>>
    BY <1>1, <1>2, <1>3, <1>5, <1>8
  <2>2. IdsOf(Append(Tail(w), t)) = Tail(u)
    BY <1>2, <1>3, <2>1, IdsAre DEF u, id
  <2>3. Distinct(Tail(u)) /\ Members(Tail(u)) = (s.seen \cup {id}) \ {Head(u)}
    BY <1>1, <1>3, <2>1, DequeStep DEF u, id
  <2> QED
    BY <1>4, <1>6, <1>8, <2>1, <2>2, <2>3 DEF Recalls
<1> QED
  BY <1>7, <1>8

(* The sums over the accepted trades.                                        *)
Amounts(ts) == [i \in DOMAIN ts |-> ts[i].qty]

Worths(ts) == [i \in DOMAIN ts |-> ts[i].price * ts[i].qty]

Totals(s, acc) ==
  /\ s.count = Len(acc) /\ s.volume = Added(Amounts(acc))
  /\ s.buyVolume = Added(Parts(acc, "buy")) /\ s.notional = Added(Worths(acc))
  /\ s.lastTrade = IF acc = <<>> THEN None ELSE Max(Times(acc))
  /\ acc # <<>> => s.volume > 0

LEMMA AmountsAppend ==
  ASSUME NEW acc \in Seq(OwnTrades), NEW t \in OwnTrades
  PROVE  /\ Added(Amounts(acc)) \in Int /\ Added(Worths(acc)) \in Int
         /\ Added(Amounts(Append(acc, t))) = Added(Amounts(acc)) + t.qty
         /\ Added(Worths(Append(acc, t))) = Added(Worths(acc)) + t.price * t.qty
<1>1. \A e \in OwnTrades : e.qty \in Int /\ e.price * e.qty \in Int
  BY OwnFacts
<1>2. Amounts(acc) \in Seq(Int) /\ Amounts(Append(acc, t)) = Append(Amounts(acc), t.qty)
  <2> DEFINE g == [e \in OwnTrades |-> e.qty]
  <2>1. \A e \in OwnTrades : g[e] = e.qty /\ g[e] \in Int
    BY <1>1
  <2> HIDE DEF g
  <2>2. Amounts(acc) = [i \in DOMAIN acc |-> g[acc[i]]]
          /\ Amounts(Append(acc, t)) = [i \in DOMAIN Append(acc, t) |-> g[Append(acc, t)[i]]]
    BY <2>1, AppendIs DEF Amounts
  <2>3. Amounts(Append(acc, t)) = Append(Amounts(acc), g[t])
    BY <2>1, <2>2, AppendIs
  <2>4. Amounts(acc) \in Seq(Int)
    BY <2>1, <2>2, AppendIs
  <2> QED
    BY <2>1, <2>3, <2>4
<1>3. Worths(acc) \in Seq(Int) /\ Worths(Append(acc, t)) = Append(Worths(acc), t.price * t.qty)
  <2> DEFINE g == [e \in OwnTrades |-> e.price * e.qty]
  <2>1. \A e \in OwnTrades : g[e] = e.price * e.qty /\ g[e] \in Int
    BY <1>1
  <2> HIDE DEF g
  <2>2. Worths(acc) = [i \in DOMAIN acc |-> g[acc[i]]]
          /\ Worths(Append(acc, t)) = [i \in DOMAIN Append(acc, t) |-> g[Append(acc, t)[i]]]
    BY <2>1, AppendIs DEF Worths
  <2>3. Worths(Append(acc, t)) = Append(Worths(acc), g[t])
    BY <2>1, <2>2, AppendIs
  <2>4. Worths(acc) \in Seq(Int)
    BY <2>1, <2>2, AppendIs
  <2> QED
    BY <2>1, <2>3, <2>4
<1> QED
  BY <1>1, <1>2, <1>3, AddedAppend

LEMMA LatestTime ==
  ASSUME NEW acc \in Seq(OwnTrades), acc # <<>>, NEW t \in OwnTrades
  PROVE  Max(Times(Append(acc, t))) = Max({Max(Times(acc)), t.ts})
<1> PICK E : E = OwnTrades
  OBVIOUS
<1>1. AreTrades(E) /\ acc \in Seq(E) /\ t \in E
  BY OwnAreTrades
<1> QED
  BY <1>1, TimesAppend, ZenonT(30)

LEMMA TotalsStep ==
  ASSUME NEW s \in SignalStates, NEW acc \in Seq(OwnTrades), NEW t \in OwnTrades, Totals(s, acc),
         NEW r, r.count = Count(s, t).count, r.volume = Count(s, t).volume,
         r.buyVolume = Count(s, t).buyVolume, r.notional = Count(s, t).notional,
         r.lastTrade = Count(s, t).lastTrade
  PROVE  Totals(r, Append(acc, t))
<1> DEFINE u == Append(acc, t)
<1>1. /\ r.count = s.count + 1 /\ r.volume = s.volume + t.qty
      /\ r.buyVolume = s.buyVolume + Part(t, "buy")
      /\ r.notional = s.notional + t.price * t.qty
      /\ r.lastTrade = IF s.lastTrade = None \/ t.ts > s.lastTrade THEN t.ts ELSE s.lastTrade
  BY CountIs
<1>2. Len(u) = Len(acc) + 1 /\ u # <<>> /\ u \in Seq(OwnTrades)
  OBVIOUS
<1>3. Added(Parts(u, "buy")) = Added(Parts(acc, "buy")) + Part(t, "buy")
  BY OwnAreTrades, PartsAppend
<1>4. r.lastTrade = Max(Times(u))
  <2>0. t.ts \in Nat /\ None \notin Nat
    BY OwnFacts, FeaturesAssumption DEF FeaturesAssumption
  <2>1. CASE acc = <<>>
    <3>1. r.lastTrade = t.ts
      BY <1>1, <2>1 DEF Totals
    <3>2. DOMAIN u = {1} /\ u[1] = t
      BY <2>1
    <3>3. Times(u) = {t.ts}
      <4> HIDE DEF u
      <4> QED
        BY <3>2 DEF Times
    <3> DEFINE z == t.ts
    <3>4. Max({z}) = z
      <4>1. z \in Int
        BY <2>0
      <4> HIDE DEF z
      <4> QED
        BY <4>1, Pair
    <3> QED
      BY <3>1, <3>3, <3>4
  <2>2. CASE acc # <<>>
    <3> DEFINE m == Max(Times(acc))
    <3>1. Max(Times(Append(acc, t))) = Max({Max(Times(acc)), t.ts})
      BY <2>2, LatestTime
    <3>2. m \in Nat
      <4>1. Numbers(Times(acc)) /\ Times(acc) # {} /\ Times(acc) \subseteq Nat
        BY <2>2, OwnAreTrades, TimesAre
      <4> QED
        BY <4>1, MaxIs
    <3>3. s.lastTrade = m
      BY <2>2 DEF Totals
    <3> HIDE DEF m
    <3> DEFINE z == t.ts
    <3>4. Max({m, z}) = IF m >= z THEN m ELSE z
      <4>1. m \in Int /\ z \in Int
        BY <2>0, <3>2
      <4> HIDE DEF z
      <4> QED
        BY <4>1, Pair
    <3>5. Max(Times(u)) = Max({m, z})
      BY <3>1 DEF m
    <3> QED
      BY <1>1, <2>0, <3>2, <3>3, <3>4, <3>5
  <2> QED
    BY <2>1, <2>2
<1>5. r.volume > 0
  <2>1. s.volume \in Nat /\ t.qty \in Nat \ {0}
    BY SignalFacts, OwnFacts
  <2> QED
    BY <1>1, <2>1
<1> QED
  BY <1>1, <1>2, <1>3, <1>4, <1>5, AmountsAppend DEF Totals

-----------------------------------------------------------------------------
(* The features of the terminal.                                             *)
LEMMA Limits ==
  /\ History \in Nat \ {0} /\ Capacity \in Nat \ {0} /\ TapeLength \in Nat \ {0}
  /\ None \notin Nat /\ Window \in [Params \cup {Default} -> Nat]
BY FeaturesAssumption, SignalsAssumption, TerminalAssumption
   DEF FeaturesAssumption, SignalsAssumption, TerminalAssumption

LEMMA FeatureFacts ==
  ASSUME NEW f \in FeatureStates, NEW taker \in Takers
  PROVE  /\ f.heat \in [Takers -> Seq(Nat)] /\ f.events \in [Takers -> Seq(Nat)]
         /\ f.heat[taker] \in Seq(Nat) /\ f.events[taker] \in Seq(Nat) /\ f.lastTs \in Nat
BY DEF FeatureStates

LEMMA PushedIs ==
  ASSUME NEW q \in Seq(Nat), NEW x \in Nat
  PROVE  /\ Pushed(q, x) \in Seq(Nat)
         /\ \/ Pushed(q, x) = Append(q, x)
            \/ q # <<>> /\ Pushed(q, x) = Append(Tail(q), x)
<1>1. CASE Len(q) < History
  BY <1>1 DEF Pushed
<1>2. CASE ~(Len(q) < History)
  <2>1. Len(q) # 0 /\ Len(q) \in Nat
    BY <1>2, Limits
  <2>2. q # <<>>
    BY <2>1
  <2>3. Pushed(q, x) = Append(Tail(q), x)
    BY <1>2 DEF Pushed
  <2> QED
    BY <2>2, <2>3
<1> QED
  BY <1>1, <1>2

Fed(f, ts, taker, g) ==
  /\ g \in FeatureStates /\ g.lastTs = f.lastTs /\ g.lastOrder = <<ts, taker>>
  /\ f.lastOrder = <<ts, taker>> => g = f
  /\ f.lastOrder # <<ts, taker>> =>
       /\ g.heat = [f.heat EXCEPT ![taker] = Append(@, ts)]
       /\ g.events = [f.events EXCEPT ![taker] = Pushed(@, ts)]

LEMMA FeedTradeIs ==
  ASSUME NEW f \in FeatureStates, NEW ts \in Nat, NEW taker \in Takers
  PROVE  Fed(f, ts, taker, FeedTrade(f, ts, taker))
<1> PICK g : g = FeedTrade(f, ts, taker)
  OBVIOUS
<1>1. CASE f.lastOrder = <<ts, taker>>
  BY <1>1 DEF FeedTrade, Fed
<1>2. CASE f.lastOrder # <<ts, taker>>
  <2> DEFINE h == [f.heat EXCEPT ![taker] = Append(@, ts)]
             v == [f.events EXCEPT ![taker] = Pushed(@, ts)]
             last == <<ts, taker>>
  <2>1. h \in [Takers -> Seq(Nat)]
    BY FeatureFacts
  <2>2. v \in [Takers -> Seq(Nat)]
    BY FeatureFacts, PushedIs
  <2>3. last \in (Nat \X Takers) \cup {None}
    OBVIOUS
  <2>4. g = [f EXCEPT !.lastOrder = last, !.heat = h, !.events = v]
    BY <1>2 DEF FeedTrade, FeatureStates
  <2> HIDE DEF h, v, last
  <2>5. g \in FeatureStates
    BY <2>1, <2>2, <2>3, <2>4 DEF FeatureStates
  <2>6. g.lastTs = f.lastTs /\ g.lastOrder = last /\ g.heat = h /\ g.events = v
    BY <2>4 DEF FeatureStates
  <2> QED
    BY <1>2, <2>5, <2>6 DEF h, v, last, Fed
<1> QED
  BY <1>1, <1>2

(* The sequence of the updates of an intensity ends with the market orders   *)
(* that are kept, and none of them is later than the last trade in order.    *)
NoneAfter(q, at) == \A i \in DOMAIN q : q[i] <= at

Excited(f, at, acc) ==
  /\ f.lastTs = 0 /\ LastIs(acc, at, f.lastOrder)
  /\ \A taker \in Takers :
       /\ f.events[taker] = Newest(MarketOrders(acc, taker), History)
       /\ Suffix(f.events[taker], f.heat[taker]) /\ NoneAfter(f.heat[taker], at)

LEMMA PushedNewest ==
  ASSUME NEW o \in Seq(Nat), NEW x \in Nat
  PROVE  Newest(Append(o, x), History) = Pushed(Newest(o, History), x)
<1>1. History \in Nat \ {0}
  BY Limits
<1>2. Newest(Append(o, x), History) =
        IF Len(Newest(o, History)) < History THEN Append(Newest(o, History), x)
        ELSE Append(Tail(Newest(o, History)), x)
  BY <1>1, NewestAppend
<1> QED
  BY <1>2, Zenon DEF Pushed

LEMMA SuffixPushed ==
  ASSUME NEW q \in Seq(Nat), NEW h \in Seq(Nat), NEW x \in Nat, Suffix(q, h)
  PROVE  Suffix(Pushed(q, x), Append(h, x))
<1>1. CASE Pushed(q, x) = Append(q, x)
  BY <1>1, SuffixAppend
<1>2. CASE q # <<>> /\ Pushed(q, x) = Append(Tail(q), x)
  <2>1. /\ Tail(q) \in Seq(Nat) /\ <<Head(q)>> \in Seq(Nat)
        /\ q = <<Head(q)>> \o Tail(q)
    BY <1>2
  <2>2. Suffix(Tail(q), h)
    BY <2>1, SuffixDrop
  <2> QED
    BY <1>2, <2>1, <2>2, SuffixAppend
<1> QED
  BY <1>1, <1>2, PushedIs

LEMMA NoneAfterAppend ==
  ASSUME NEW q \in Seq(Nat), NEW at \in Nat, NoneAfter(q, at), NEW x \in Nat, x >= at
  PROVE  NoneAfter(q, x) /\ NoneAfter(Append(q, x), x)
<1>1. /\ Len(q) \in Nat /\ DOMAIN q = 1 .. Len(q) /\ \A i \in 1 .. Len(q) : q[i] \in Nat
      /\ DOMAIN Append(q, x) = 1 .. Len(q) + 1
      /\ \A i \in 1 .. Len(q) : Append(q, x)[i] = q[i]
      /\ Append(q, x)[Len(q) + 1] = x
  BY AppendIs
<1>2. \A i \in 1 .. Len(q) : q[i] <= x
  BY <1>1, SMTT(30) DEF NoneAfter
<1>3. \A i \in 1 .. Len(q) + 1 : i \in 1 .. Len(q) \/ i = Len(q) + 1
  BY <1>1
<1> QED
  BY <1>1, <1>2, <1>3 DEF NoneAfter

LEMMA ExcitedLate ==
  ASSUME NEW f \in FeatureStates, NEW at, NEW acc \in Seq(OwnTrades), NEW t \in OwnTrades,
         Excited(f, at, acc), t.ts < at
  PROVE  Excited(f, at, Append(acc, t))
<1>1. at \in Nat /\ t.ts \in Nat /\ LastIs(acc, at, f.lastOrder)
  BY OwnAreTrades, OwnFacts, LastStep DEF Excited
<1>2. ~(t.ts >= at)
  BY <1>1
<1>3. LastIs(Append(acc, t), at, f.lastOrder)
  BY <1>1, <1>2, OwnAreTrades, LastStep
<1>4. ~OrderOpens(Append(acc, t), Len(acc) + 1)
  BY <1>1, <1>2, OwnAreTrades, LastStep
<1>5. \A taker \in Takers : MarketOrders(Append(acc, t), taker) = MarketOrders(acc, taker)
  BY <1>4, OwnAreTrades, OrdersAppend
<1> QED
  BY <1>3, <1>5 DEF Excited

LEMMA ExcitedTimely ==
  ASSUME NEW f \in FeatureStates, NEW at, NEW acc \in Seq(OwnTrades), NEW t \in OwnTrades,
         Excited(f, at, acc), ~(t.ts < at)
  PROVE  Excited(FeedTrade(f, t.ts, t.taker), t.ts, Append(acc, t))
<1>1. at \in Nat /\ t.ts \in Nat /\ t.taker \in Takers /\ LastIs(acc, at, f.lastOrder)
  BY OwnAreTrades, OwnFacts, LastStep DEF Excited
<1> DEFINE u == Append(acc, t)
           key == <<t.ts, t.taker>>
<1>2. t.ts >= at
  BY <1>1
<1>3. LastIs(u, t.ts, key)
  BY <1>1, <1>2, OwnAreTrades, LastStep
<1>4. OrderOpens(u, Len(acc) + 1) <=> f.lastOrder # key
  BY <1>1, <1>2, OwnAreTrades, LastStep
<1>5. \A taker \in Takers :
        /\ MarketOrders(acc, taker) \in Seq(Nat)
        /\ MarketOrders(u, taker) = IF f.lastOrder # key /\ t.taker = taker
                                    THEN Append(MarketOrders(acc, taker), t.ts)
                                    ELSE MarketOrders(acc, taker)
  BY <1>4, OwnAreTrades, OrdersAppend
<1> PICK g : g = FeedTrade(f, t.ts, t.taker)
  OBVIOUS
<1>6. /\ g \in FeatureStates /\ g.lastTs = f.lastTs /\ g.lastOrder = key
      /\ f.lastOrder = key => g = f
      /\ f.lastOrder # key => /\ g.heat = [f.heat EXCEPT ![t.taker] = Append(@, t.ts)]
                              /\ g.events = [f.events EXCEPT ![t.taker] = Pushed(@, t.ts)]
  <2>1. Fed(f, t.ts, t.taker, g)
    BY <1>1, FeedTradeIs
  <2> QED
    BY <2>1 DEF Fed
<1> HIDE DEF u, key
<1>7. g.lastTs = 0 /\ f.lastTs = 0
  BY <1>6 DEF Excited
<1>8. ASSUME NEW taker \in Takers
      PROVE  /\ g.events[taker] = Newest(MarketOrders(u, taker), History)
             /\ Suffix(g.events[taker], g.heat[taker]) /\ NoneAfter(g.heat[taker], t.ts)
  <2>1. /\ f.events[taker] = Newest(MarketOrders(acc, taker), History)
        /\ Suffix(f.events[taker], f.heat[taker]) /\ NoneAfter(f.heat[taker], at)
    BY DEF Excited
  <2>2. /\ f.heat \in [Takers -> Seq(Nat)] /\ f.events \in [Takers -> Seq(Nat)]
        /\ f.heat[taker] \in Seq(Nat) /\ f.events[taker] \in Seq(Nat)
    BY FeatureFacts
  <2>3. NoneAfter(f.heat[taker], t.ts) /\ NoneAfter(Append(f.heat[taker], t.ts), t.ts)
    BY <1>1, <1>2, <2>1, <2>2, NoneAfterAppend
  <2>4. CASE f.lastOrder # key /\ taker = t.taker
    <3>1. g.heat[taker] = Append(f.heat[taker], t.ts) /\ g.events[taker] = Pushed(f.events[taker], t.ts)
      BY <1>6, <2>2, <2>4
    <3>2. MarketOrders(u, taker) = Append(MarketOrders(acc, taker), t.ts)
      BY <1>5, <2>4
    <3>3. Newest(MarketOrders(u, taker), History) = Pushed(f.events[taker], t.ts)
      BY <1>1, <1>5, <2>1, <3>2, PushedNewest
    <3>4. Suffix(g.events[taker], g.heat[taker])
      BY <1>1, <2>1, <2>2, <3>1, SuffixPushed
    <3> QED
      BY <2>3, <3>1, <3>3, <3>4
  <2>5. CASE ~(f.lastOrder # key /\ taker = t.taker)
    <3>1. g.heat[taker] = f.heat[taker] /\ g.events[taker] = f.events[taker]
      BY <1>6, <2>2, <2>5
    <3>2. MarketOrders(u, taker) = MarketOrders(acc, taker)
      BY <1>5, <2>5
    <3> QED
      BY <2>1, <2>3, <3>1, <3>2
  <2> QED
    BY <2>4, <2>5
<1>9. Excited(g, t.ts, u)
  BY <1>3, <1>6, <1>7, <1>8 DEF Excited
<1> QED
  BY <1>9 DEF u

(* A refit keeps every market order, as books do not move the features' clock. *)
LEMMA SelectAll ==
  ASSUME NEW E, NEW s \in Seq(E), NEW S, E \subseteq S
  PROVE  Select(s, S) = s
<1> DEFINE T == {q \in Seq(E) : Select(q, S) = q}
<1>1. <<>> \in T
  BY SelectEmpty
<1>2. ASSUME NEW q \in T, NEW e \in E
      PROVE  Append(q, e) \in T
  <2>1. q \in Seq(E) /\ Select(q, S) = q /\ e \in S
    BY <1>2
  <2>2. Append(q, e) \in Seq(E)
    BY <2>1
  <2>3. Select(Append(q, e), S) = Append(q, e)
    BY <2>1, SelectAppend
  <2> QED
    BY <2>2, <2>3
<1>3. Seq(E) \subseteq T
  <2> HIDE DEF T
  <2> QED
    BY <1>1, <1>2, SeqSetInduction
<1> QED
  BY <1>3

LEMMA ExcitedFit ==
  ASSUME NEW f \in FeatureStates, NEW at, NEW acc \in Seq(OwnTrades), NEW p \in Params,
         Excited(f, at, acc)
  PROVE  SetHawkes(f, p) \in FeatureStates /\ Excited(SetHawkes(f, p), at, acc)
<1> DEFINE h == [taker \in Takers |-> Recent(f, p, taker)]
<1>1. f.lastTs = 0 /\ Window[p] \in Nat
  BY Limits DEF Excited
<1>2. \A taker \in Takers : Recent(f, p, taker) = f.events[taker]
  <2> SUFFICES ASSUME NEW taker \in Takers PROVE Recent(f, p, taker) = f.events[taker]
    OBVIOUS
  <2>1. f.events[taker] \in Seq(Nat)
    BY FeatureFacts
  <2>2. Nat \subseteq Since(f.lastTs - Window[p])
    BY <1>1 DEF Since
  <2>3. PICK S : S = Since(f.lastTs - Window[p])
    OBVIOUS
  <2>4. Select(f.events[taker], S) = f.events[taker]
    BY <2>1, <2>2, <2>3, SelectAll
  <2> QED
    BY <2>3, <2>4 DEF Recent
<1>3. h = f.events
  BY <1>2 DEF FeatureStates
<1>4. SetHawkes(f, p) = [f EXCEPT !.params = p, !.heat = h]
  BY DEF SetHawkes
<1> HIDE DEF h
<1>5. h \in [Takers -> Seq(Nat)]
  BY <1>3 DEF FeatureStates
<1> PICK g : g = SetHawkes(f, p)
  OBVIOUS
<1>6. g \in FeatureStates
  BY <1>4, <1>5 DEF FeatureStates
<1>7. g.lastTs = f.lastTs /\ g.lastOrder = f.lastOrder /\ g.heat = f.events /\ g.events = f.events
  BY <1>3, <1>4 DEF FeatureStates
<1>8. ASSUME NEW taker \in Takers
      PROVE  Suffix(f.events[taker], f.events[taker]) /\ NoneAfter(f.events[taker], at)
  <2>1. f.events[taker] \in Seq(Nat) /\ f.heat[taker] \in Seq(Nat)
    BY FeatureFacts
  <2>2. PICK u \in Seq(Nat) : f.heat[taker] = u \o f.events[taker]
    BY DEF Excited, Suffix
  <2>3. NoneAfter(f.heat[taker], at)
    BY DEF Excited
  <2> DEFINE q == f.events[taker]
  <2> HIDE DEF q
  <2>4. q \in Seq(Nat) /\ f.heat[taker] = u \o q
    BY <2>1, <2>2 DEF q
  <2>5. \A i \in DOMAIN q : Len(u) + i \in DOMAIN (u \o q) /\ (u \o q)[Len(u) + i] = q[i]
    BY <2>4
  <2>6. NoneAfter(q, at)
    BY <2>3, <2>4, <2>5 DEF NoneAfter
  <2> QED
    BY <2>1, <2>6, SuffixSame DEF q
<1>9. Excited(g, at, acc)
  BY <1>7, <1>8 DEF Excited
<1> QED
  BY <1>6, <1>9

-----------------------------------------------------------------------------
(* The signals say what the trades they have accepted amount to.             *)
Mirrors(s, acc) ==
  Recalls(s, acc) /\ Totals(s, acc) /\ Excited(s.features, s.lastHawkes, acc)

LEMMA MirrorsSame ==
  ASSUME NEW s, NEW acc, Mirrors(s, acc), NEW r,
         r.seen = s.seen, r.order = s.order, r.features = s.features,
         r.lastHawkes = s.lastHawkes, r.lastTrade = s.lastTrade, r.count = s.count,
         r.volume = s.volume, r.buyVolume = s.buyVolume, r.notional = s.notional
  PROVE  Mirrors(r, acc)
<1>1. Recalls(r, acc)
  BY DEF Mirrors, Recalls
<1>2. Totals(r, acc)
  BY DEF Mirrors, Totals
<1> QED
  BY <1>1, <1>2 DEF Mirrors

LEMMA MirrorsEmpty == NewSignals \in SignalStates /\ Mirrors(NewSignals, <<>>)
<1> PICK s : s = NewSignals
  OBVIOUS
<1>1. NewFeatures \in FeatureStates
  BY DEF NewFeatures, FeatureStates
<1> PICK f : f = NewFeatures
  OBVIOUS
<1>2. f \in FeatureStates
  BY <1>1
<1>3. /\ s.seen = {} /\ s.order = <<>> /\ s.book = None /\ s.bookTime = None /\ s.lastTrade = None
      /\ s.volume = 0 /\ s.buyVolume = 0
  BY DEF NewSignals
<1>4. s.notional = 0 /\ s.count = 0 /\ s.features = f /\ s.lastHawkes = 0 /\ s.evaluation = 0
  BY DEF NewSignals
<1>5. s = [k \in SignalFields |-> s[k]]
  BY DEF NewSignals, SignalFields
<1>6. s \in SignalStates
  <2>1. /\ s.seen \in SUBSET Ids /\ s.order \in Seq(Ids) /\ s.book \in Tops \cup {None}
        /\ s.bookTime \in Nat \cup {None} /\ s.lastTrade \in Nat \cup {None}
        /\ s.volume \in Nat /\ s.buyVolume \in Nat
    BY <1>3
  <2>2. /\ s.notional \in Nat /\ s.count \in Nat /\ s.features \in FeatureStates
        /\ s.lastHawkes \in Nat /\ s.evaluation \in Int
    BY <1>2, <1>4
  <2> QED
    BY <1>5, <2>1, <2>2, SignalsAre
<1>7. Recalls(s, <<>>)
  <2>1. Newest(<<>>, Capacity) = <<>>
    BY Limits, NewestEmpty
  <2>2. IdsOf(<<>>) = <<>> /\ Members(<<>>) = {} /\ Distinct(<<>>)
    BY DEF IdsOf, Members, Distinct
  <2> QED
    BY <1>3, <2>1, <2>2 DEF Recalls
<1>8. Totals(s, <<>>)
  <2>1. Amounts(<<>>) = <<>> /\ Worths(<<>>) = <<>> /\ Parts(<<>>, "buy") = <<>> /\ Len(<<>>) = 0
    BY DEF Amounts, Worths, Parts
  <2> QED
    BY <1>3, <1>4, <2>1, AddedEmpty DEF Totals
<1>9. Excited(f, 0, <<>>)
  <2>1. LastIs(<<>>, 0, f.lastOrder) /\ f.lastTs = 0
    BY DEF LastIs, NewFeatures
  <2>2. ASSUME NEW taker \in Takers
        PROVE  /\ f.events[taker] = Newest(MarketOrders(<<>>, taker), History)
               /\ Suffix(f.events[taker], f.heat[taker]) /\ NoneAfter(f.heat[taker], 0)
    <3>1. f.events[taker] = <<>> /\ f.heat[taker] = <<>>
      BY DEF NewFeatures
    <3>2. Newest(MarketOrders(<<>>, taker), History) = <<>>
      BY OrdersEmpty, Limits, NewestEmpty
    <3>3. <<>> \in Seq(Nat) /\ NoneAfter(<<>>, 0)
      BY DEF NoneAfter
    <3> QED
      BY <3>1, <3>2, <3>3, SuffixSame
  <2> QED
    BY <2>1, <2>2 DEF Excited
<1> QED
  BY <1>4, <1>6, <1>7, <1>8, <1>9 DEF Mirrors

(* on_trade, of a trade it has not heard of: counted, remembered, and heard. *)
LEMMA AccumulateIs ==
  ASSUME NEW s \in SignalStates, NEW acc \in Seq(OwnTrades), Mirrors(s, acc), NEW t \in OwnTrades
  PROVE  /\ Accumulate(s, t) \in SignalStates /\ Mirrors(Accumulate(s, t), Accepting(acc, t))
         /\ Recalled(acc, t.id) <=> Accumulate(s, t).count = s.count
<1>1. t.id \in s.seen <=> Recalled(acc, t.id)
  BY RecallIs DEF Mirrors
<1>2. CASE t.id \in s.seen
  BY <1>1, <1>2 DEF Accumulate, Accepting
<1>3. CASE t.id \notin s.seen
  <2> PICK c : c = Count(s, t)
    OBVIOUS
  <2>1. /\ c \in SignalStates /\ c.seen = s.seen /\ c.order = s.order /\ c.features = s.features
        /\ c.lastHawkes = s.lastHawkes /\ c.count = s.count + 1
    BY CountIs
  <2> PICK m : m = Remember(c, t.id)
    OBVIOUS
  <2>2. t.id \in Ids /\ t.ts \in Nat /\ t.taker \in Takers
    BY OwnFacts
  <2>3. /\ m \in SignalStates /\ m.features = c.features /\ m.lastHawkes = c.lastHawkes
        /\ m.count = c.count /\ m.volume = c.volume /\ m.buyVolume = c.buyVolume
        /\ m.notional = c.notional /\ m.lastTrade = c.lastTrade
    BY <2>1, <2>2, RememberIs
  <2>4. FeedTrade(m.features, t.ts, t.taker) \in FeatureStates
    BY <2>2, <2>3, SignalFacts, FeedTradeIs DEF Fed
  <2> PICK e : e = Excite(m, t)
    OBVIOUS
  <2>5. /\ e \in SignalStates /\ e.seen = m.seen /\ e.order = m.order
        /\ e.count = m.count /\ e.volume = m.volume /\ e.buyVolume = m.buyVolume
        /\ e.notional = m.notional /\ e.lastTrade = m.lastTrade
    BY <2>3, <2>4, ExciteIs
  <2>6. /\ e.features = IF t.ts < m.lastHawkes THEN m.features
                        ELSE FeedTrade(m.features, t.ts, t.taker)
        /\ e.lastHawkes = IF t.ts < m.lastHawkes THEN m.lastHawkes ELSE t.ts
    BY <2>3, <2>4, ExciteIs
  <2>7. Recalls(e, Append(acc, t))
    <3>1. c.order = s.order /\ c.seen = s.seen
      BY <2>1
    <3>2. Recalls(c, acc)
      BY <3>1 DEF Mirrors, Recalls
    <3>3. e.order = Remember(c, t.id).order /\ e.seen = Remember(c, t.id).seen
      BY <2>5
    <3> QED
      BY <1>3, <2>1, <3>2, <3>3, RecallStep
  <2>8. Totals(e, Append(acc, t))
    <3>1. /\ e.count = Count(s, t).count /\ e.volume = Count(s, t).volume
          /\ e.buyVolume = Count(s, t).buyVolume /\ e.notional = Count(s, t).notional
          /\ e.lastTrade = Count(s, t).lastTrade
      BY <2>3, <2>5
    <3> QED
      BY <3>1, TotalsStep DEF Mirrors
  <2>9. Excited(e.features, e.lastHawkes, Append(acc, t))
    <3>1. m.features = s.features /\ m.lastHawkes = s.lastHawkes /\ s.features \in FeatureStates
      BY <2>1, <2>3, SignalFacts
    <3>2. Excited(s.features, s.lastHawkes, acc)
      BY DEF Mirrors
    <3>3. CASE t.ts < s.lastHawkes
      BY <2>6, <3>1, <3>2, <3>3, ExcitedLate
    <3>4. CASE ~(t.ts < s.lastHawkes)
      BY <2>6, <3>1, <3>2, <3>4, ExcitedTimely
    <3> QED
      BY <3>3, <3>4
  <2>10. Accumulate(s, t) = e /\ Accepting(acc, t) = Append(acc, t)
    BY <1>1, <1>3 DEF Accumulate, Accepting
  <2>11. e.count # s.count
    <3>1. s.count \in Nat /\ e.count = s.count + 1
      BY <2>1, <2>3, <2>5, SignalFacts
    <3> QED
      BY <3>1
  <2> QED
    BY <1>1, <1>3, <2>5, <2>7, <2>8, <2>9, <2>10, <2>11 DEF Mirrors
<1> QED
  BY <1>2, <1>3

-----------------------------------------------------------------------------
(* The invariant: signals, chart and tape are those of the accepted trades.  *)
SignalsRight ==
  /\ signals \in SignalStates /\ Mirrors(signals, AcceptedOf(delivered))
  /\ signals.lastHawkes <= signals.evaluation

ChartRight == history = HistoryOf(AcceptedOf(delivered))

TapeRight ==
  tape = Newest(AcceptedOf(delivered), TapeLength) /\ processed = signals.count

ClockRight ==
  now \in Nat /\ clock.anchor \in Nat \cup {None} /\ (clock.anchor # None => clock.at \in Nat)

IInv == delivered \in Seq(OwnTrades) /\ SignalsRight /\ ChartRight /\ TapeRight /\ ClockRight

LEMMA ExchangeTime == ClockRight => ExchangeNow \in Int
BY DEF ClockRight, ExchangeNow

LEMMA ClockAdvances ==
  ASSUME ClockRight, NEW ts \in Nat, AdvanceClock(ts), now' = now
  PROVE  ClockRight'
<1>1. CASE ts > 0 /\ (clock.anchor = None \/ ts >= clock.anchor)
  BY <1>1 DEF ClockRight, AdvanceClock
<1>2. CASE ~(ts > 0 /\ (clock.anchor = None \/ ts >= clock.anchor))
  BY <1>2 DEF ClockRight, AdvanceClock
<1> QED
  BY <1>1, <1>2

LEMMA ClockStays ==
  ASSUME ClockRight, UNCHANGED <<now, clock>>
  PROVE  ClockRight'
BY DEF ClockRight

LEMMA EvaluatedRight ==
  ASSUME NEW s \in SignalStates, NEW acc, Mirrors(s, acc), NEW at \in Int, NEW r, r = Evaluated(s, at)
  PROVE  /\ r \in SignalStates /\ Mirrors(r, acc) /\ r.lastHawkes <= r.evaluation
         /\ r.count = s.count
<1>1. /\ r \in SignalStates
      /\ r.seen = s.seen /\ r.order = s.order /\ r.features = s.features
      /\ r.lastHawkes = s.lastHawkes /\ r.lastTrade = s.lastTrade
      /\ r.count = s.count /\ r.volume = s.volume /\ r.buyVolume = s.buyVolume
      /\ r.notional = s.notional
      /\ r.evaluation >= s.lastHawkes
  BY EvaluatedIs
<1>2. Mirrors(r, acc)
  BY <1>1, MirrorsSame
<1>3. r.lastHawkes <= r.evaluation
  BY <1>1, SignalFacts
<1> QED
  BY <1>1, <1>2, <1>3

LEMMA InitIInv == Init => IInv
<1> SUFFICES ASSUME Init PROVE IInv
  OBVIOUS
<1>1. delivered = <<>> /\ delivered \in Seq(OwnTrades) /\ AcceptedOf(delivered) = <<>>
  BY AcceptedEmpty DEF Init
<1>2. SignalsRight
  <2>1. NewSignals.lastHawkes = 0 /\ NewSignals.evaluation = 0
    BY DEF NewSignals
  <2> QED
    BY <1>1, <2>1, MirrorsEmpty DEF Init, SignalsRight
<1>3. ChartRight
  BY <1>1, HistoryEmpty DEF Init, ChartRight
<1>4. TapeRight
  <2>1. NewSignals.count = 0
    BY DEF NewSignals
  <2> QED
    BY <1>1, <2>1, Limits, NewestEmpty DEF Init, TapeRight
<1>5. ClockRight
  BY DEF Init, ClockRight
<1> QED
  BY <1>1, <1>2, <1>3, <1>4, <1>5 DEF IInv

LEMMA BookKeeps == IInv /\ BookUpdate => IInv'
<1> SUFFICES ASSUME IInv, BookUpdate PROVE IInv'
  OBVIOUS
<1>1. PICK top \in Tops, ts \in BookTimes : signals' = ReplaceBook(signals, top, ts) /\ AdvanceClock(ts)
  BY DEF BookUpdate
<1>2. ts \in Nat /\ UNCHANGED <<now, history, processed, tape, delivered>>
  BY TerminalAssumption DEF TerminalAssumption, BookUpdate
<1>3. /\ signals' \in SignalStates
      /\ signals'.seen = signals.seen /\ signals'.order = signals.order
      /\ signals'.features = signals.features
      /\ signals'.lastHawkes = signals.lastHawkes /\ signals'.lastTrade = signals.lastTrade
      /\ signals'.count = signals.count /\ signals'.volume = signals.volume
      /\ signals'.buyVolume = signals.buyVolume
      /\ signals'.notional = signals.notional /\ signals'.evaluation = signals.evaluation
  BY <1>1, <1>2, ReplaceBookIs DEF IInv, SignalsRight
<1>4. Mirrors(signals', AcceptedOf(delivered))
  BY <1>3, MirrorsSame DEF IInv, SignalsRight
<1>5. SignalsRight'
  BY <1>2, <1>3, <1>4 DEF IInv, SignalsRight
<1>6. ClockRight'
  BY <1>1, <1>2, ClockAdvances DEF IInv
<1>7. ChartRight' /\ TapeRight'
  BY <1>2, <1>3 DEF IInv, ChartRight, TapeRight
<1> QED
  BY <1>2, <1>5, <1>6, <1>7 DEF IInv

LEMMA OnTradeKeeps ==
  ASSUME IInv, NEW t \in OwnTrades, OnTrade(t), delivered' = Append(delivered, t), now' = now
  PROVE  IInv'
<1> DEFINE acc == AcceptedOf(delivered)
           s == Accumulate(signals, t)
           new == Accepting(acc, t)
<1>1. /\ delivered \in Seq(OwnTrades) /\ acc \in Seq(OwnTrades) /\ delivered' \in Seq(OwnTrades)
      /\ AcceptedOf(delivered') = new
  BY AcceptedAppend DEF IInv
<1>2. /\ s \in SignalStates /\ Mirrors(s, new)
      /\ Recalled(acc, t.id) <=> s.count = signals.count
  BY <1>1, AccumulateIs DEF IInv, SignalsRight
<1>3. signals' = Evaluated(s, ExchangeNow) /\ ExchangeNow \in Int
  BY ExchangeTime DEF OnTrade, IInv
<1>4. /\ signals' \in SignalStates /\ Mirrors(signals', new)
      /\ signals'.lastHawkes <= signals'.evaluation /\ signals'.count = s.count
  <2> HIDE DEF s, new
  <2> QED
    BY <1>2, <1>3, EvaluatedRight
<1>5. SignalsRight'
  BY <1>1, <1>4 DEF SignalsRight
<1>6. Snapshot(signals').count = signals'.count /\ processed = signals.count
  BY DEF Snapshot, IInv, TapeRight
<1>7. CASE Recalled(acc, t.id)
  <2>1. new = acc /\ Snapshot(signals').count = processed
    BY <1>2, <1>4, <1>6, <1>7 DEF Accepting
  <2>2. UNCHANGED <<history, processed, clock, tape>>
    BY <2>1 DEF OnTrade
  <2>3. ClockRight'
    BY <2>2, ClockStays DEF IInv
  <2>4. ChartRight' /\ TapeRight'
    BY <1>1, <1>2, <1>4, <1>7, <2>1, <2>2 DEF IInv, ChartRight, TapeRight
  <2> QED
    BY <1>1, <1>5, <2>3, <2>4 DEF IInv
<1>8. CASE ~Recalled(acc, t.id)
  <2>1. new = Append(acc, t) /\ Snapshot(signals').count # processed
    BY <1>2, <1>4, <1>6, <1>8 DEF Accepting
  <2>2. /\ history' = AddTrade(history, t) /\ processed' = Snapshot(signals').count
        /\ AdvanceClock(t.ts) /\ tape' = Taped(t)
    BY <2>1 DEF OnTrade
  <2>3. ClockRight'
    <3>1. t.ts \in Nat
      BY OwnFacts
    <3> QED
      BY <2>2, <3>1, ClockAdvances DEF IInv
  <2>4. ChartRight'
    <3>1. HistoryOf(Append(acc, t)) = AddTrade(HistoryOf(acc), t)
      BY <1>1, OwnAreTrades, HistoryGrows
    <3> QED
      BY <1>1, <2>1, <2>2, <3>1 DEF IInv, ChartRight
  <2>5. tape' = Newest(Append(acc, t), TapeLength)
    <3> HIDE DEF acc
    <3>1. tape = Newest(acc, TapeLength)
      BY DEF IInv, TapeRight, acc
    <3> QED
      BY <1>1, <2>2, <3>1, Limits, NewestAppend DEF Taped
  <2>6. TapeRight'
    BY <1>1, <1>6, <2>1, <2>2, <2>5 DEF TapeRight
  <2> QED
    BY <1>1, <1>5, <2>3, <2>4, <2>6 DEF IInv
<1> QED
  BY <1>7, <1>8

LEMMA DeliveryKeeps == IInv /\ TradeDelivered => IInv'
<1> SUFFICES ASSUME IInv, TradeDelivered PROVE IInv'
  OBVIOUS
<1>1. now' = now
  BY DEF TradeDelivered
<1>2. PICK t \in Trades :
        IF t.symbol # Own
        THEN UNCHANGED <<signals, history, processed, latest, clock, tape, delivered>>
        ELSE OnTrade(t) /\ delivered' = Append(delivered, t)
  BY DEF TradeDelivered
<1>3. CASE t.symbol # Own
  <2>1. UNCHANGED <<signals, history, processed, clock, tape, delivered>>
    BY <1>2, <1>3
  <2> QED
    BY <1>1, <2>1 DEF IInv, SignalsRight, ChartRight, TapeRight, ClockRight
<1>4. CASE t.symbol = Own
  <2>1. t \in OwnTrades /\ OnTrade(t) /\ delivered' = Append(delivered, t)
    BY <1>2, <1>4 DEF OwnTrades
  <2> QED
    BY <1>1, <2>1, OnTradeKeeps
<1> QED
  BY <1>3, <1>4

LEMMA RenderKeeps == IInv /\ Render => IInv'
<1> SUFFICES ASSUME IInv, Render PROVE IInv'
  OBVIOUS
<1>1. /\ signals' = Evaluated(signals, ExchangeNow) /\ ExchangeNow \in Int
      /\ UNCHANGED <<now, history, processed, tape, clock, delivered>>
  BY ExchangeTime DEF Render, IInv
<1>2. /\ signals' \in SignalStates /\ Mirrors(signals', AcceptedOf(delivered))
      /\ signals'.lastHawkes <= signals'.evaluation /\ signals'.count = signals.count
  BY <1>1, EvaluatedRight DEF IInv, SignalsRight
<1> QED
  BY <1>1, <1>2 DEF IInv, SignalsRight, ChartRight, TapeRight, ClockRight

LEMMA EndRefitKeeps == IInv /\ EndRefit => IInv'
<1> SUFFICES ASSUME IInv, EndRefit PROVE IInv'
  OBVIOUS
<1>1. UNCHANGED <<now, history, processed, tape, clock, delivered>>
  BY DEF EndRefit
<1>2. CASE UNCHANGED signals
  BY <1>1, <1>2 DEF IInv, SignalsRight, ChartRight, TapeRight, ClockRight
<1>3. CASE \E p \in Params : signals' = [signals EXCEPT !.features = SetHawkes(@, p)]
  <2>1. PICK p \in Params : signals' = [signals EXCEPT !.features = SetHawkes(@, p)]
    BY <1>3
  <2> DEFINE acc == AcceptedOf(delivered)
             f == SetHawkes(signals.features, p)
  <2>2. /\ signals \in SignalStates /\ Mirrors(signals, acc) /\ acc \in Seq(OwnTrades)
        /\ signals.lastHawkes <= signals.evaluation
    <3>1. acc \in Seq(OwnTrades)
      BY AcceptorIs, SeqFoldType DEF IInv, AcceptedOf
    <3> QED
      BY <3>1 DEF IInv, SignalsRight
  <2>3. f \in FeatureStates /\ Excited(f, signals.lastHawkes, acc)
    BY <2>2, SignalFacts, ExcitedFit DEF Mirrors
  <2> HIDE DEF f, acc
  <2>4. signals = [k \in SignalFields |-> signals[k]] /\ DOMAIN signals = SignalFields
    BY <2>2, SignalFacts
  <2>5. signals' = [signals EXCEPT !.features = f]
    BY <2>1 DEF f
  <2>6. /\ signals'.seen = signals.seen /\ signals'.order = signals.order
        /\ signals'.lastHawkes = signals.lastHawkes /\ signals'.lastTrade = signals.lastTrade
        /\ signals'.features = f
    BY <2>4, <2>5 DEF SignalFields
  <2>7. /\ signals'.count = signals.count /\ signals'.volume = signals.volume
        /\ signals'.buyVolume = signals.buyVolume /\ signals'.notional = signals.notional
    BY <2>4, <2>5 DEF SignalFields
  <2>8. /\ signals'.evaluation = signals.evaluation /\ signals'.book = signals.book
        /\ signals'.bookTime = signals.bookTime
    BY <2>4, <2>5 DEF SignalFields
  <2>9. signals' = [k \in SignalFields |-> signals'[k]]
    BY <2>4, <2>5
  <2>10. PICK r : r = signals'
    OBVIOUS
  <2>11. r \in SignalStates
    BY <2>2, <2>3, <2>6, <2>7, <2>8, <2>9, <2>10, SignalFacts, SignalsAre
  <2>12. Recalls(r, acc)
    BY <2>2, <2>6, <2>10 DEF Mirrors, Recalls
  <2>13. Totals(r, acc)
    BY <2>2, <2>6, <2>7, <2>10 DEF Mirrors, Totals
  <2>14. Mirrors(signals', acc) /\ signals' \in SignalStates
    BY <2>3, <2>6, <2>10, <2>11, <2>12, <2>13 DEF Mirrors
  <2>15. SignalsRight'
    BY <1>1, <2>2, <2>6, <2>8, <2>14 DEF SignalsRight, acc
  <2> QED
    BY <1>1, <2>7, <2>15 DEF IInv, ChartRight, TapeRight, ClockRight
<1> QED
  BY <1>2, <1>3 DEF EndRefit

LEMMA NextKeeps == IInv /\ [Next]_terminalVars => IInv'
<1> SUFFICES ASSUME IInv, [Next]_terminalVars PROVE IInv'
  OBVIOUS
<1>1. CASE BookUpdate
  BY <1>1, BookKeeps
<1>2. CASE TradeDelivered
  BY <1>2, DeliveryKeeps
<1>3. CASE Render
  BY <1>3, RenderKeeps
<1>4. CASE EndRefit
  BY <1>4, EndRefitKeeps
<1>5. CASE StartRefit \/ Quit
  BY <1>5 DEF StartRefit, Quit, IInv, SignalsRight, ChartRight, TapeRight, ClockRight
<1>6. CASE TimePasses
  BY <1>6 DEF TimePasses, IInv, SignalsRight, ChartRight, TapeRight, ClockRight
<1>7. CASE UNCHANGED terminalVars
  BY <1>7 DEF terminalVars, IInv, SignalsRight, ChartRight, TapeRight, ClockRight
<1> QED
  BY <1>1, <1>2, <1>3, <1>4, <1>5, <1>6, <1>7 DEF Next


-----------------------------------------------------------------------------
(* The theorems.                                                             *)

(* candles.py:133-136: the chart, kept one trade at a time, is the newest    *)
(* buckets of what was accepted, each with all of its trades, whatever the   *)
(* order and repetition of the deliveries and however many were dropped.     *)
THEOREM ChartIsExact == Spec => []ChartExact
<1>1. IInv => ChartExact
  <2> SUFFICES ASSUME IInv PROVE ChartExact
    OBVIOUS
  <2>1. Accepted = AcceptedOf(delivered)
    BY AcceptedIs DEF IInv
  <2> QED
    BY <2>1 DEF ChartExact, IInv, ChartRight
<1> QED
  BY <1>1, InitIInv, NextKeeps, PTL DEF Spec

LEMMA SuffixIs ==
  ASSUME NEW s \in Seq(Nat), NEW t, Suffix(s, t)
  PROVE  IsSuffixOf(s, t)
<1>1. PICK u \in Seq(Nat) : t = u \o s
  BY DEF Suffix
<1> DEFINE n == Len(u)
<1>2. /\ n \in Nat /\ Len(s) \in Nat /\ t \in Seq(Nat) /\ Len(t) = n + Len(s)
      /\ \A i \in 1 .. Len(s) : t[n + i] = s[i]
  BY <1>1
<1> HIDE DEF n
<1> DEFINE w == SubSeq(t, n + 1, Len(t))
<1>3. n \in 0 .. Len(t) /\ n + 1 \in Nat
  BY <1>2
<1>4. w \in Seq(Nat) /\ Len(w) = Len(s)
  BY <1>2, <1>3
<1>5. \A i \in 1 .. Len(s) : w[i] = s[i]
  <2> SUFFICES ASSUME NEW i \in 1 .. Len(s)
               PROVE  w[i] = s[i]
    OBVIOUS
  <2>1. w[i] = t[n + i]
    BY <1>2, <1>3
  <2> QED
    BY <1>2, <2>1
<1> HIDE DEF w
<1>6. w = s
  BY <1>4, <1>5, SeqEqual
<1> QED
  BY <1>3, <1>6 DEF IsSuffixOf, w

(* What the statistics of a session say.                                     *)
LEMMA StatisticsRight ==
  ASSUME NEW s \in SignalStates, NEW acc \in Seq(OwnTrades), Mirrors(s, acc)
  PROVE  LET view == Snapshot(s) IN
         /\ view.count = Len(acc) /\ view.volume = Added(Amounts(acc))
         /\ view.buyVolume = Added(Parts(acc, "buy"))
         /\ acc = <<>> => view.vwap = None /\ view.lastTrade = None
         /\ acc # <<>> => /\ view.vwap = <<Added(Worths(acc)), Added(Amounts(acc))>>
                          /\ view.lastTrade = Max(Times(acc))
<1> DEFINE view == Snapshot(s)
<1>1. /\ view.count = s.count /\ view.volume = s.volume /\ view.buyVolume = s.buyVolume
      /\ view.vwap = (IF s.volume > 0 THEN <<s.notional, s.volume>> ELSE None)
      /\ view.lastTrade = s.lastTrade
  BY DEF Snapshot
<1> HIDE DEF view
<1>2. Totals(s, acc)
  BY DEF Mirrors
<1>3. CASE acc = <<>>
  <2>1. s.volume = 0
    BY <1>2, <1>3, AddedEmpty DEF Totals, Amounts
  <2> QED
    BY <1>1, <1>2, <1>3, <2>1 DEF Totals, view
<1>4. CASE acc # <<>>
  BY <1>1, <1>2, <1>4 DEF Totals, view
<1> QED
  BY <1>3, <1>4

LEMMA IntensitiesRight ==
  ASSUME NEW s \in SignalStates, NEW acc \in Seq(OwnTrades), Mirrors(s, acc),
         s.lastHawkes <= s.evaluation, NEW taker \in Takers
  PROVE  LET view == Snapshot(s) IN
         /\ s.features.events[taker] = Newest(MarketOrders(acc, taker), History)
         /\ IsSuffixOf(Newest(MarketOrders(acc, taker), History), view.heat[taker])
         /\ \A i \in DOMAIN view.heat[taker] : view.heat[taker][i] <= view.at
<1> DEFINE view == Snapshot(s)
<1>1. view.heat = s.features.heat /\ view.at = s.evaluation
  BY DEF Snapshot
<1> HIDE DEF view
<1>2. s.features \in FeatureStates /\ s.lastHawkes \in Nat /\ s.evaluation \in Int
  BY SignalFacts
<1> DEFINE h == s.features.heat[taker]
<1>3. /\ s.features.events[taker] = Newest(MarketOrders(acc, taker), History)
      /\ Suffix(s.features.events[taker], h) /\ NoneAfter(h, s.lastHawkes)
  BY DEF Mirrors, Excited
<1>4. s.features.events[taker] \in Seq(Nat) /\ h \in Seq(Nat)
  BY <1>2, FeatureFacts
<1>5. IsSuffixOf(s.features.events[taker], h)
  BY <1>3, <1>4, SuffixIs
<1>6. \A i \in DOMAIN h : h[i] <= s.evaluation
  <2> HIDE DEF h
  <2>1. \A i \in DOMAIN h : h[i] \in Nat /\ h[i] <= s.lastHawkes
    BY <1>3, <1>4 DEF NoneAfter
  <2> QED
    BY <1>2, <2>1
<1> QED
  BY <1>1, <1>3, <1>5, <1>6 DEF view

(* dashboard.py:127-140: whatever is delivered late or twice and whenever    *)
(* the parameters are refitted, the tape and every figure of a snapshot are  *)
(* those of the accepted trades, and the intensities start from the newest   *)
(* market orders among them, at a time none of these is after.               *)
THEOREM SessionIsExact == Spec => []SessionExact
<1>1. IInv => SessionExact
  <2> SUFFICES ASSUME IInv PROVE SessionExact
    OBVIOUS
  <2>1. /\ Accepted = AcceptedOf(delivered) /\ Accepted \in Seq(OwnTrades)
        /\ signals \in SignalStates /\ Mirrors(signals, Accepted)
        /\ signals.lastHawkes <= signals.evaluation
    BY AcceptedIs DEF IInv, SignalsRight
  <2> DEFINE view == Snapshot(signals)
  <2>2. /\ view.count = Len(Accepted) /\ view.volume = Added(Amounts(Accepted))
        /\ view.buyVolume = Added(Parts(Accepted, "buy"))
        /\ Accepted = <<>> => view.vwap = None /\ view.lastTrade = None
        /\ Accepted # <<>> => /\ view.vwap = <<Added(Worths(Accepted)), Added(Amounts(Accepted))>>
                              /\ view.lastTrade = Max(Times(Accepted))
    BY <2>1, StatisticsRight
  <2>3. processed = Len(Accepted) /\ tape = Newest(Accepted, TapeLength)
    <3>1. view.count = signals.count
      BY DEF Snapshot
    <3> QED
      BY <2>1, <2>2, <3>1 DEF IInv, TapeRight
  <2>4. ASSUME NEW taker \in Takers
        PROVE  /\ signals.features.events[taker] = Newest(MarketOrders(Accepted, taker), History)
               /\ IsSuffixOf(Newest(MarketOrders(Accepted, taker), History), view.heat[taker])
               /\ \A i \in DOMAIN view.heat[taker] : view.heat[taker][i] <= view.at
    BY <2>1, IntensitiesRight
  <2> HIDE DEF view
  <2> QED
    BY <2>2, <2>3, <2>4 DEF SessionExact, view, Amounts, Worths, Parts, Times
<1> QED
  BY <1>1, InitIInv, NextKeeps, PTL DEF Spec

-----------------------------------------------------------------------------
(* Products and quotients.                                                   *)
LEMMA Product ==
  ASSUME NEW a \in Int, NEW b \in Int, NEW d \in Nat
  PROVE  /\ a * d \in Int
         /\ a <= b => a * d <= b * d
         /\ a < b => a * d + d <= b * d
         /\ (a + b) * d = a * d + b * d /\ (a - b) * d = a * d - b * d
OBVIOUS

LEMMA Quotient ==
  ASSUME NEW n \in Int, NEW d \in Nat \ {0}
  PROVE  /\ n \div d \in Int /\ n % d \in Int
         /\ n = (n \div d) * d + (n % d) /\ 0 <= n % d /\ n % d < d
OBVIOUS

LEMMA QuotientIs ==
  ASSUME NEW n \in Int, NEW d \in Nat \ {0}, NEW q \in Int, q * d <= n, n < q * d + d
  PROVE  n \div d = q /\ n % d = n - q * d
<1>1. n \div d \in Int /\ n = (n \div d) * d + (n % d) /\ 0 <= n % d /\ n % d < d /\ n % d \in Int
  BY Quotient
<1> DEFINE p == n \div d
<1> HIDE DEF p
<1>2. p \in Int /\ p * d <= n /\ n < p * d + d
  BY <1>1 DEF p
<1>3. ~(p < q)
  BY <1>2, Product
<1>4. ~(q < p)
  BY <1>2, Product
<1>5. p = q
  BY <1>2, <1>3, <1>4
<1> QED
  BY <1>1, <1>5 DEF p

LEMMA Rounding ==
  ASSUME NEW n \in Int, NEW d \in Nat \ {0}
  PROVE  /\ RoundHalfEven(n, d) \in Int
         /\ 2 * n - d <= 2 * (RoundHalfEven(n, d) * d)
         /\ 2 * (RoundHalfEven(n, d) * d) <= 2 * n + d
<1> DEFINE q == n \div d
           r == n % d
           z == q * d
<1>1. q \in Int /\ r \in Int /\ z \in Int /\ n = z + r /\ 0 <= r /\ r < d
  BY Quotient, Product
<1>2. (q + 1) * d = z + d
  BY <1>1
<1>3. RoundHalfEven(n, d) = IF 2 * r > d \/ (2 * r = d /\ q % 2 = 1) THEN q + 1 ELSE q
  BY DEF RoundHalfEven
<1> HIDE DEF q, r
<1>4. CASE 2 * r > d \/ (2 * r = d /\ q % 2 = 1)
  <2>1. RoundHalfEven(n, d) * d = z + d
    BY <1>2, <1>3, <1>4
  <2> HIDE DEF z
  <2> QED
    BY <1>1, <1>3, <1>4, <2>1
<1>5. CASE ~(2 * r > d \/ (2 * r = d /\ q % 2 = 1))
  <2>1. RoundHalfEven(n, d) * d = z
    BY <1>3, <1>5
  <2> HIDE DEF z
  <2>2. ~(2 * r > d)
    BY <1>5
  <2> QED
    BY <1>1, <1>3, <1>5, <2>1, <2>2
<1> QED
  BY <1>4, <1>5

LEMMA RoundingGrows ==
  ASSUME NEW n \in Int, NEW m \in Int, NEW d \in Nat \ {0}, n <= m
  PROVE  RoundHalfEven(n, d) <= RoundHalfEven(m, d)
<1> DEFINE v == RoundHalfEven(n, d)
           w == RoundHalfEven(m, d)
<1>1. v \in Int /\ w \in Int
  BY Rounding
<1>2. 2 * n - d <= 2 * (v * d) /\ 2 * (v * d) <= 2 * n + d
  BY Rounding
<1>3. 2 * m - d <= 2 * (w * d) /\ 2 * (w * d) <= 2 * m + d
  BY Rounding
<1>4. CASE n = m
  BY <1>1, <1>4
<1>5. CASE n < m
  <2> HIDE DEF v, w
  <2>1. ASSUME w < v PROVE FALSE
    <3> DEFINE x == v * d
               y == w * d
    <3>1. x \in Int /\ y \in Int /\ y + d <= x
      BY <1>1, <2>1, Product
    <3> HIDE DEF x, y
    <3>2. 2 * n - d <= 2 * x /\ 2 * x <= 2 * n + d /\ 2 * m - d <= 2 * y /\ 2 * y <= 2 * m + d
      BY <1>2, <1>3 DEF x, y
    <3> QED
      BY <1>5, <3>1, <3>2
  <2> QED
    BY <1>1, <2>1 DEF v, w
<1> QED
  BY <1>4, <1>5

-----------------------------------------------------------------------------
(* The rows of prices.                                                       *)
Clamp(v, n) == IF v < 0 THEN 0 ELSE IF v > n THEN n ELSE v

LEMMA ClampIs ==
  ASSUME NEW v \in Int, NEW n \in Nat
  PROVE  Max({0, Min({n, v})}) = Clamp(v, n)
<1> DEFINE m == Min({n, v})
<1>0. n \in Int /\ 0 \in Int
  OBVIOUS
<1>1. m = IF n <= v THEN n ELSE v
  BY <1>0, Pair
<1>2. m \in Int
  BY <1>1
<1> HIDE DEF m
<1>3. Max({0, m}) = IF 0 >= m THEN 0 ELSE m
  BY <1>0, <1>2, Pair
<1> QED
  BY <1>1, <1>2, <1>3 DEF Clamp, m

IsScale(scale) == scale.top \in Int /\ scale.bottom \in Int /\ scale.top > scale.bottom

Span(scale) == scale.top - scale.bottom

(* How far a price is below the top.                                         *)
Depth(scale, price) == scale.top - 100 * price

LEMMA PositionIs ==
  ASSUME NEW scale, IsScale(scale), NEW price \in Int, NEW rows \in Nat \ {0}
  PROVE  /\ Span(scale) \in Nat \ {0} /\ Depth(scale, price) \in Int
         /\ Depth(scale, price) * (rows - 1) \in Int
         /\ Position(scale, price, rows) =
              Clamp(RoundHalfEven(Depth(scale, price) * (rows - 1), Span(scale)), rows - 1)
<1>1. Span(scale) \in Nat \ {0} /\ Depth(scale, price) \in Int
  BY DEF IsScale, Span, Depth
<1>2. Depth(scale, price) * (rows - 1) \in Int
  BY <1>1
<1> DEFINE v == RoundHalfEven(Depth(scale, price) * (rows - 1), Span(scale))
<1>3. v \in Int
  BY <1>1, <1>2, Rounding
<1>4. Position(scale, price, rows) = Max({0, Min({rows - 1, v})})
  BY DEF Position, Depth, Span
<1> HIDE DEF v
<1>5. Max({0, Min({rows - 1, v})}) = Clamp(v, rows - 1)
  <2> DEFINE n == rows - 1
  <2>1. n \in Nat
    OBVIOUS
  <2> HIDE DEF n
  <2>2. Max({0, Min({n, v})}) = Clamp(v, n)
    BY <1>3, <2>1, ClampIs
  <2> QED
    BY <2>2 DEF n
<1> QED
  BY <1>1, <1>2, <1>4, <1>5 DEF v

(* A position is off by less than one row: at most half, or the price is     *)
(* outside of the scale.                                                     *)
LEMMA PositionBounds ==
  ASSUME NEW scale, IsScale(scale), NEW price \in Int, NEW rows \in Nat \ {0}
  PROVE  LET p == Position(scale, price, rows)
             w == Span(scale)
             e == Depth(scale, price) * (rows - 1)
         IN /\ p \in 0 .. rows - 1 /\ p * w \in Int
            /\ p > 0 => 2 * (p * w) - w <= 2 * e
            /\ p < rows - 1 => 2 * e <= 2 * (p * w) + w
<1> DEFINE p == Position(scale, price, rows)
           w == Span(scale)
           e == Depth(scale, price) * (rows - 1)
           v == RoundHalfEven(e, w)
<1>1. w \in Nat \ {0} /\ e \in Int /\ p = Clamp(v, rows - 1)
  BY PositionIs
<1> HIDE DEF p, w, e
<1>2. v \in Int /\ 2 * e - w <= 2 * (v * w) /\ 2 * (v * w) <= 2 * e + w
  BY <1>1, Rounding
<1> HIDE DEF v
<1>3. p \in 0 .. rows - 1 /\ (p > 0 => p <= v) /\ (p < rows - 1 => v <= p)
  BY <1>1, <1>2 DEF Clamp
<1>4. p \in Int /\ w \in Nat /\ p * w \in Int /\ v * w \in Int
  BY <1>1, <1>2, <1>3
<1> DEFINE x == p * w
           y == v * w
<1>5. (p <= v => x <= y) /\ (v <= p => y <= x) /\ x \in Int /\ y \in Int
  BY <1>2, <1>4, Product
<1>6. 2 * e - w <= 2 * y /\ 2 * y <= 2 * e + w
  BY <1>2
<1> HIDE DEF x, y
<1>7. p > 0 => 2 * x - w <= 2 * e
  BY <1>1, <1>3, <1>5, <1>6
<1>8. p < rows - 1 => 2 * e <= 2 * x + w
  BY <1>1, <1>3, <1>5, <1>6
<1> QED
  BY <1>3, <1>4, <1>7, <1>8 DEF p, w, e, x

LEMMA PositionFalls ==
  ASSUME NEW scale, IsScale(scale), NEW low \in Int, NEW high \in Int, low <= high,
         NEW rows \in Nat \ {0}
  PROVE  Position(scale, high, rows) <= Position(scale, low, rows)
<1> DEFINE w == Span(scale)
           e == Depth(scale, low) * (rows - 1)
           f == Depth(scale, high) * (rows - 1)
           v == RoundHalfEven(e, w)
           u == RoundHalfEven(f, w)
<1>1. /\ w \in Nat \ {0} /\ e \in Int /\ f \in Int
      /\ Position(scale, low, rows) = Clamp(v, rows - 1)
      /\ Position(scale, high, rows) = Clamp(u, rows - 1)
  BY PositionIs
<1>2. f <= e
  <2>1. Depth(scale, high) <= Depth(scale, low) /\ Depth(scale, high) \in Int /\ Depth(scale, low) \in Int
    BY DEF Depth, IsScale
  <2>2. rows - 1 \in Nat
    OBVIOUS
  <2> QED
    BY <2>1, <2>2, Product
<1> HIDE DEF w, e, f
<1>3. u \in Int /\ v \in Int /\ u <= v
  BY <1>1, <1>2, Rounding, RoundingGrows
<1> HIDE DEF u, v
<1> QED
  BY <1>1, <1>3 DEF Clamp

LEMMA FinitePart ==
  ASSUME NEW n \in Nat, NEW S, S \subseteq 1 .. n
  PROVE  IsFiniteSet(S)
<1>1. IsFiniteSet(1 .. n)
  BY FS_Interval
<1> QED
  BY <1>1, FS_Subset

LEMMA StepsAre == Numbers(Steps) /\ 1 \in Steps /\ \A s \in Steps : s \in Nat \ {0}
<1>1. Steps \subseteq 1 .. 5000
  BY DEF Steps
<1>2. 1 \in Steps
  BY DEF Steps
<1>3. IsFiniteSet(Steps)
  <2> DEFINE k == 5000
  <2>1. k \in Nat /\ Steps \subseteq 1 .. k
    BY <1>1
  <2> HIDE DEF k
  <2> QED
    BY <2>1, FinitePart
<1>4. \A s \in Steps : s \in Int /\ s \in Nat \ {0}
  BY <1>1
<1> QED
  BY <1>2, <1>3, <1>4 DEF Numbers

LEMMA Largest ==
  ASSUME NEW a \in Int, NEW b \in Int, NEW c \in Int
  PROVE  /\ Numbers({a, b, c})
         /\ Max({a, b, c}) \in {a, b, c} /\ Max({a, b, c}) \in Int
         /\ Max({a, b, c}) >= a /\ Max({a, b, c}) >= b /\ Max({a, b, c}) >= c
<1> PICK S : S = {a, b}
  OBVIOUS
<1>1. Numbers(S) /\ S # {}
  BY Pair
<1>2. Numbers(S \cup {c}) /\ S \cup {c} = {a, b, c}
  BY <1>1, NumbersAdd
<1> QED
  BY <1>2, MaxIs

LEMMA ScaleIs ==
  ASSUME NEW prices, Numbers(prices), prices # {}, NEW last \in Int
  PROVE  IsScale(Scale(prices, last))
<1> DEFINE high == Max(prices)
           low == Min(prices)
           span == Max({116 * (high - low), 1600, last \div 2000})
           bottom == Max({0, 50 * (high + low) - span \div 2})
           top == bottom + span
           fine == Max({s \in Steps : 1000 * s <= span})
           step == 100 * fine
<1>1. high \in Int /\ low \in Int
  BY MaxIs, MinIs
<1> HIDE DEF high, low
<1>2. span \in Int /\ span >= 1600
  <2> DEFINE a == 116 * (high - low)
             c == last \div 2000
  <2>1. a \in Int /\ c \in Int /\ 1600 \in Int
    BY <1>1
  <2> HIDE DEF a, c
  <2> PICK b : b = 1600
    OBVIOUS
  <2>5. Max({a, b, c}) \in Int /\ Max({a, b, c}) >= b
    BY <2>1, Largest
  <2> QED
    BY <2>5 DEF a, c
<1> HIDE DEF span
<1>3. bottom \in Int
  <2> DEFINE a == 50 * (high + low) - span \div 2
  <2>1. a \in Int /\ 0 \in Int
    BY <1>1, <1>2
  <2> HIDE DEF a
  <2>2. Max({0, a}) = IF 0 >= a THEN 0 ELSE a
    BY <2>1, Pair
  <2> QED
    BY <2>1, <2>2 DEF a
<1>4. step \in Nat \ {0}
  <2> DEFINE S == {s \in Steps : 1000 * s <= span}
  <2>1. Numbers(S) /\ S # {}
    <3>1. S \in SUBSET Steps /\ 1 \in S
      BY <1>2, StepsAre
    <3> QED
      BY <3>1, StepsAre, NumbersSubset
  <2>2. Max(S) \in S
    BY <2>1, MaxIs
  <2>3. Max(S) \in Nat \ {0}
    BY <2>2, StepsAre
  <2> QED
    BY <2>3
<1> HIDE DEF bottom, fine
<1>5. Scale(prices, last) = IF step > 100 * high THEN [top |-> top, bottom |-> bottom]
        ELSE [top |-> -((-top) \div step) * step, bottom |-> (bottom \div step) * step]
  BY DEF Scale, high, low, span, bottom, fine
<1>6. top \in Int /\ top > bottom
  BY <1>2, <1>3
<1> HIDE DEF top, step
<1>7. CASE step > 100 * high
  BY <1>3, <1>5, <1>6, <1>7 DEF IsScale
<1>8. CASE ~(step > 100 * high)
  <2> DEFINE q == (-top) \div step
             r == bottom \div step
             x == q * step
             y == r * step
  <2>1. q \in Int /\ x <= -top /\ x \in Int
    BY <1>4, <1>6, Quotient
  <2>2. r \in Int /\ y <= bottom /\ y \in Int
    BY <1>3, <1>4, Quotient
  <2>3. Scale(prices, last) = [top |-> -x, bottom |-> y]
    BY <1>5, <1>8
  <2> HIDE DEF q, r, x, y
  <2>4. -x > y /\ -x \in Int
    BY <1>3, <1>6, <2>1, <2>2
  <2> QED
    BY <2>2, <2>3, <2>4 DEF IsScale
<1> QED
  BY <1>7, <1>8

-----------------------------------------------------------------------------
(* The labels of the price axis.  A label below that of the last price says  *)
(* less: it is at least the half of a row below.                             *)
LEMMA GuideBounds ==
  ASSUME NEW scale, IsScale(scale), NEW last \in Int, NEW rows \in Nat, rows >= 2,
         NEW resolution \in {2, 4}
  PROVE  LET guide == GuideRow(scale, last, rows, resolution)
             w == Span(scale)
             z == Depth(scale, last) * (rows - 1)
         IN /\ guide \in 0 .. rows - 1 /\ z \in Int
            /\ \A r \in 0 .. rows - 1 : /\ r * w \in Int
                                        /\ r < guide => r * w < z
                                        /\ r > guide => z < r * w
<1> DEFINE n == rows * resolution
           p == Position(scale, last, n)
           guide == GuideRow(scale, last, rows, resolution)
           w == Span(scale)
           u == rows - 1
           d == Depth(scale, last)
           z == d * u
           e == d * (n - 1)
<1>1. w \in Nat \ {0} /\ d \in Int /\ u \in Nat \ {0} /\ n \in Nat \ {0}
  BY PositionIs
<1>2. /\ p \in 0 .. n - 1 /\ p * w \in Int
      /\ p > 0 => 2 * (p * w) - w <= 2 * e
      /\ p < n - 1 => 2 * e <= 2 * (p * w) + w
  BY <1>1, PositionBounds
<1>3. /\ resolution = 2 => guide = p \div 2 /\ n = 2 * u + 2
      /\ resolution = 4 => guide = p \div 4 /\ n = 4 * u + 4
  BY DEF GuideRow
<1> HIDE DEF p, guide, n, u, w, d
<1>4. guide \in 0 .. u
  BY <1>1, <1>2, <1>3
<1>5. z \in Int /\ e \in Int
  BY <1>1
<1>6. /\ resolution = 2 => e = 2 * z + d
      /\ resolution = 4 => e = 4 * z + 3 * d
  <2>1. d * (2 * u + 1) = 2 * (d * u) + d /\ d * (4 * u + 3) = 4 * (d * u) + 3 * d
    BY <1>1
  <2>2. (resolution = 2 => n - 1 = 2 * u + 1) /\ (resolution = 4 => n - 1 = 4 * u + 3)
    BY <1>1, <1>3
  <2> QED
    BY <2>1, <2>2
<1> DEFINE x == p * w
<1> HIDE DEF z, e, x
<1>7. x \in Int /\ (p > 0 => 2 * x - w <= 2 * e) /\ (p < n - 1 => 2 * e <= 2 * x + w)
  BY <1>2 DEF x
<1>8. ASSUME NEW r \in 0 .. u
      PROVE  r * w \in Int /\ (r < guide => r * w < z) /\ (r > guide => z < r * w)
  <2> DEFINE y == r * w
             v == u * w
  <2>1. y \in Int /\ v \in Int /\ r \in Nat /\ r \in Int
    BY <1>1
  <2>2. /\ (2 * r + 2) * w = 2 * y + 2 * w /\ (4 * r + 4) * w = 4 * y + 4 * w
        /\ (2 * r - 1) * w = 2 * y - w /\ (4 * r - 1) * w = 4 * y - w
    BY <1>1, <2>1
  <2>3. d >= w => z >= v
    BY <1>1 DEF z
  <2>4. r < u => y + w <= v
    BY <1>1, <2>1, Product
  <2>5. d <= 0 => z <= 0
    BY <1>1 DEF z
  <2>6. r > 0 => y > 0
    BY <1>1, <2>1
  <2>7. ASSUME r < guide PROVE y < z
    <3>1. resolution = 2 => p >= 2 * r + 2
      BY <1>1, <1>2, <1>3, <2>1, <2>7
    <3>2. resolution = 4 => p >= 4 * r + 4
      BY <1>1, <1>2, <1>3, <2>1, <2>7
    <3>3. p > 0 /\ p \in Int /\ r < u
      BY <1>1, <1>2, <1>4, <2>1, <2>7, <3>1, <3>2
    <3>4. (resolution = 2 => x >= 2 * y + 2 * w) /\ (resolution = 4 => x >= 4 * y + 4 * w)
      <4>1. ASSUME NEW a \in Int, a <= p PROVE a * w <= x
        BY <1>1, <3>3, <4>1, Product DEF x
      <4>2. 2 * r + 2 \in Int /\ 4 * r + 4 \in Int
        BY <2>1
      <4> QED
        BY <2>2, <3>1, <3>2, <4>1, <4>2
    <3> HIDE DEF y, v
    <3> QED
      BY <1>1, <1>5, <1>6, <1>7, <2>1, <2>3, <2>4, <3>3, <3>4
  <2>8. ASSUME r > guide PROVE z < y
    <3>1. resolution = 2 => p <= 2 * r - 1
      BY <1>1, <1>2, <1>3, <2>1, <2>8
    <3>2. resolution = 4 => p <= 4 * r - 1
      BY <1>1, <1>2, <1>3, <2>1, <2>8
    <3>3. p < n - 1 /\ p \in Int /\ r > 0
      BY <1>1, <1>2, <1>3, <1>4, <2>1, <2>8, <3>1, <3>2
    <3>4. (resolution = 2 => x <= 2 * y - w) /\ (resolution = 4 => x <= 4 * y - w)
      <4>1. ASSUME NEW a \in Int, p <= a PROVE x <= a * w
        BY <1>1, <3>3, <4>1, Product DEF x
      <4>2. 2 * r - 1 \in Int /\ 4 * r - 1 \in Int
        BY <2>1
      <4> QED
        BY <2>2, <3>1, <3>2, <4>1, <4>2
    <3> HIDE DEF y, v
    <3> QED
      BY <1>1, <1>5, <1>6, <1>7, <2>1, <2>5, <2>6, <3>3, <3>4
  <2> QED
    BY <2>1, <2>7, <2>8
<1> QED
  BY <1>4, <1>5, <1>8 DEF guide, u, w, d, z

(* Of two rows of a price axis the upper is never labelled with the lower    *)
(* price, also beside the row that the last price has taken.                 *)
LEMMA LabelsFall ==
  ASSUME NEW scale, IsScale(scale), NEW last \in Int, NEW rows \in Nat, rows >= 2,
         NEW resolution \in {2, 4}
  PROVE  PricesFall(PriceAxis(scale, last, rows, resolution))
<1> DEFINE labels == PriceAxis(scale, last, rows, resolution)
           guide == GuideRow(scale, last, rows, resolution)
           w == Span(scale)
           u == rows - 1
           d == Depth(scale, last)
           z == d * u
           t == scale.top * u
<1>1. w \in Nat \ {0} /\ d \in Int /\ u \in Nat \ {0} /\ scale.top \in Int /\ t \in Int
  BY DEF IsScale, Span, Depth
<1>2. Max({1, rows - 1}) = u
  <2>1. 1 \in Int /\ u \in Int
    OBVIOUS
  <2> HIDE DEF u
  <2>2. Max({1, u}) = IF 1 >= u THEN 1 ELSE u
    BY <2>1, Pair
  <2> QED
    BY <1>1, <2>2 DEF u
<1>3. 100 * last * u = t - z
  <2>1. d = scale.top - 100 * last /\ 100 * last \in Int
    BY DEF Depth
  <2>2. (scale.top - 100 * last) * u = scale.top * u - 100 * last * u
    BY <1>1, <2>1, Product
  <2>3. 100 * last * u \in Int
    BY <1>1
  <2> QED
    BY <1>1, <2>1, <2>2, <2>3
<1>4. DOMAIN labels = {guide} \cup LabelRows(rows)
      /\ \A row \in {guide} \cup LabelRows(rows) :
           labels[row] = IF row = guide THEN 100 * last * u
                         ELSE scale.top * u - row * (scale.top - scale.bottom)
  BY <1>2 DEF PriceAxis
<1>5. /\ guide \in 0 .. u /\ z \in Int
      /\ \A r \in 0 .. u : /\ r * w \in Int
                           /\ r < guide => r * w < z
                           /\ r > guide => z < r * w
  BY GuideBounds
<1>6. LabelRows(rows) \subseteq 0 .. u
  BY DEF LabelRows
<1> HIDE DEF labels, guide, w, u, d, z, t
<1>7. \A row \in DOMAIN labels :
        row \in 0 .. u /\ labels[row] = IF row = guide THEN t - z ELSE t - row * w
  BY <1>3, <1>4, <1>5, <1>6 DEF t, w, Span
<1>8. ASSUME NEW r \in DOMAIN labels, NEW s \in DOMAIN labels, r < s
      PROVE  labels[r] > labels[s]
  <2> DEFINE x == r * w
             y == s * w
  <2>1. r \in 0 .. u /\ s \in 0 .. u /\ x \in Int /\ y \in Int /\ x + w <= y
    BY <1>1, <1>5, <1>7, <1>8, Product
  <2>2. /\ r < guide => x < z
        /\ s > guide => z < y
        /\ labels[r] = (IF r = guide THEN t - z ELSE t - x)
        /\ labels[s] = (IF s = guide THEN t - z ELSE t - y)
    BY <1>5, <1>7, <2>1
  <2> HIDE DEF x, y
  <2> QED
    BY <1>1, <1>5, <1>8, <2>1, <2>2
<1> QED
  BY <1>8 DEF PricesFall, labels

-----------------------------------------------------------------------------
(* The buckets shown and their columns.                                      *)
Place(h, columns, b) == (b - WindowStart(h, columns)) \div BucketMs

LEMMA ChartFacts ==
  ASSUME NEW h, IsChart(h)
  PROVE  /\ Numbers(DOMAIN h) /\ DOMAIN h # {} /\ DOMAIN h \subseteq Nat
         /\ BucketMs \in Nat \ {0} /\ \A b \in DOMAIN h : b % BucketMs = 0
         /\ Max(DOMAIN h) \in DOMAIN h /\ \A b \in DOMAIN h : b <= Max(DOMAIN h)
<1>1. BucketMs \in Nat \ {0} /\ \A b \in DOMAIN h : b \in Nat /\ b % BucketMs = 0
  BY CandlesAssumption DEF CandlesAssumption, IsChart
<1>2. Numbers(DOMAIN h) /\ DOMAIN h # {}
  BY <1>1 DEF IsChart, Numbers
<1>3. /\ Max(DOMAIN h) \in DOMAIN h /\ Max(DOMAIN h) \in Int
      /\ \A b \in DOMAIN h : Max(DOMAIN h) >= b
  BY <1>2, MaxIs
<1> QED
  BY <1>1, <1>2, <1>3

(* A bucket that is shown has a place within the columns, and the newest has *)
(* the last.                                                                 *)
LEMMA PlaceIs ==
  ASSUME NEW h, IsChart(h), NEW columns \in Nat \ {0}, NEW b \in Visible(h, columns)
  PROVE  /\ Place(h, columns, b) \in 0 .. columns - 1 /\ WindowStart(h, columns) \in Int
         /\ b = WindowStart(h, columns) + Place(h, columns, b) * BucketMs
         /\ b \in DOMAIN h /\ b \in Nat
         /\ b = Max(DOMAIN h) => Place(h, columns, b) = columns - 1
<1> DEFINE B == BucketMs
           top == Max(DOMAIN h)
           m == b \div B
           k == top \div B
           w == columns - 1
           start == WindowStart(h, columns)
           q == m - k + w
<1>1. /\ B \in Nat \ {0} /\ top \in Nat /\ top % B = 0
      /\ b \in DOMAIN h /\ b \in Nat /\ b % B = 0 /\ b <= top
  BY ChartFacts DEF Visible
<1>2. w \in Nat /\ start = top - w * B /\ b >= start
  BY DEF WindowStart, Visible
<1> HIDE DEF B, top, start, w
<1>3. m \in Int /\ k \in Int /\ b = m * B /\ top = k * B
  <2>1. ASSUME NEW n \in Nat, n % B = 0 PROVE n \div B \in Int /\ n = (n \div B) * B
    <3>1. n \in Int
      OBVIOUS
    <3>2. n \div B \in Int /\ n = (n \div B) * B + (n % B)
      BY <1>1, <3>1, Quotient
    <3>3. (n \div B) * B \in Int
      BY <1>1, <3>2
    <3> QED
      BY <2>1, <3>2, <3>3
  <2> QED
    BY <1>1, <2>1
<1> HIDE DEF m, k
<1>4. q \in Int /\ q * B = m * B - k * B + w * B
  BY <1>1, <1>2, <1>3
<1> DEFINE x == q * B
           y == w * B
<1>5. y \in Int /\ x \in Int
  BY <1>1, <1>2, <1>4
<1>6. start = top - y /\ x = b - top + y
  BY <1>2, <1>3, <1>4
<1> HIDE DEF x, y, q
<1>7. x = b - start /\ start \in Int /\ 0 <= x /\ x <= y
  BY <1>1, <1>2, <1>5, <1>6
<1>8. q >= 0
  <2> SUFFICES ASSUME q < 0 PROVE FALSE
    BY <1>4
  <2>1. q * B + B <= 0 * B
    BY <1>1, <1>4, Product
  <2> QED
    BY <1>1, <1>5, <1>7, <2>1 DEF x
<1>9. q <= w
  <2> SUFFICES ASSUME w < q PROVE FALSE
    BY <1>2, <1>4
  <2>1. w * B + B <= q * B
    BY <1>1, <1>2, <1>4, Product
  <2> QED
    BY <1>1, <1>5, <1>7, <2>1 DEF x, y
<1>10. Place(h, columns, b) = q
  <2>1. x < x + B /\ x <= x
    BY <1>1, <1>5
  <2>2. (b - start) \div B = q
    <3>1. b - start \in Int /\ q * B <= b - start /\ b - start < q * B + B
      BY <1>1, <1>5, <1>7, <2>1 DEF x
    <3> QED
      BY <1>1, <1>4, <3>1, QuotientIs
  <2> QED
    BY <2>2 DEF Place, start, B
<1>11. b = start + q * B
  BY <1>1, <1>5, <1>7 DEF x
<1>12. b = top => q = w
  <2> SUFFICES ASSUME b = top, q < w PROVE FALSE
    BY <1>2, <1>4, <1>9
  <2>1. q * B + B <= w * B
    BY <1>1, <1>2, <1>4, Product
  <2> QED
    BY <1>1, <1>5, <1>6, <2>1 DEF x, y
<1> QED
  BY <1>1, <1>2, <1>4, <1>7, <1>8, <1>9, <1>10, <1>11, <1>12 DEF start, B, w, top

LEMMA VisibleIs ==
  ASSUME NEW h, IsChart(h), NEW columns \in Nat \ {0}
  PROVE  /\ Numbers(Visible(h, columns)) /\ Visible(h, columns) \subseteq DOMAIN h
         /\ Max(DOMAIN h) \in Visible(h, columns) /\ Visible(h, columns) # {}
<1>1. Visible(h, columns) \in SUBSET DOMAIN h
  BY DEF Visible
<1>2. Numbers(Visible(h, columns))
  BY <1>1, ChartFacts, NumbersSubset
<1>3. Max(DOMAIN h) >= WindowStart(h, columns)
  <2> DEFINE y == (columns - 1) * BucketMs
  <2>1. BucketMs \in Nat /\ columns - 1 \in Nat /\ Max(DOMAIN h) \in Nat
    BY ChartFacts
  <2>2. y \in Nat
    BY <2>1
  <2> HIDE DEF y
  <2> QED
    BY <2>1, <2>2 DEF WindowStart, y
<1>4. Max(DOMAIN h) \in Visible(h, columns)
  BY <1>3, ChartFacts DEF Visible
<1> QED
  BY <1>1, <1>2, <1>4

(* Places tell buckets apart, follow their order, and are beside each other  *)
(* for buckets beside each other.                                            *)
LEMMA PlacesDiffer ==
  ASSUME NEW h, IsChart(h), NEW columns \in Nat \ {0},
         NEW b \in Visible(h, columns), NEW c \in Visible(h, columns)
  PROVE  /\ Place(h, columns, b) = Place(h, columns, c) => b = c
         /\ b = c - BucketMs => Place(h, columns, b) = Place(h, columns, c) - 1
         /\ b < c => Place(h, columns, b) < Place(h, columns, c)
<1> DEFINE p == Place(h, columns, b)
           q == Place(h, columns, c)
           B == BucketMs
           start == WindowStart(h, columns)
<1>1. /\ p \in 0 .. columns - 1 /\ q \in 0 .. columns - 1 /\ start \in Int
      /\ b = start + p * B /\ c = start + q * B /\ b \in Nat /\ c \in Nat
  BY PlaceIs
<1>2. B \in Nat \ {0}
  BY ChartFacts
<1> HIDE DEF p, q, start, B
<1>3. p \in Int /\ q \in Int /\ p * B \in Int /\ q * B \in Int
  BY <1>1, <1>2
<1>4. ASSUME b < c PROVE p < q
  <2> SUFFICES ASSUME q <= p PROVE FALSE
    BY <1>3
  <2>1. q * B <= p * B
    BY <1>2, <1>3, Product
  <2> QED
    BY <1>1, <1>3, <1>4, <2>1
<1>5. ASSUME b = c - B PROVE p = q - 1
  <2>1. (q - 1) * B = q * B - B /\ (q - 1) * B \in Int
    BY <1>2, <1>3
  <2>2. p * B = (q - 1) * B
    BY <1>1, <1>2, <1>3, <1>5, <2>1
  <2>3. ~(p < q - 1)
    <3> SUFFICES ASSUME p < q - 1 PROVE FALSE
      OBVIOUS
    <3>1. p * B + B <= (q - 1) * B
      BY <1>2, <1>3, Product
    <3> QED
      BY <1>2, <1>3, <2>1, <2>2, <3>1
  <2>4. ~(q - 1 < p)
    <3> SUFFICES ASSUME q - 1 < p PROVE FALSE
      OBVIOUS
    <3>1. (q - 1) * B + B <= p * B
      BY <1>2, <1>3, Product
    <3> QED
      BY <1>2, <1>3, <2>1, <2>2, <3>1
  <2> QED
    BY <1>3, <2>3, <2>4
<1>6. p = q => b = c
  BY <1>1
<1> QED
  BY <1>4, <1>5, <1>6 DEF p, q, B

-----------------------------------------------------------------------------
(* The buckets shown, by time.                                               *)
Sorted(s) == \A i, j \in DOMAIN s : i < j => s[i] < s[j]

(* What is selected of a sorted sequence is sorted and is what it has in     *)
(* common with the set.                                                      *)
LEMMA SelectSorted ==
  ASSUME NEW S
  PROVE  \A s \in Seq(Int) : Sorted(s) => /\ Sorted(Select(s, S))
                                          /\ Members(Select(s, S)) = Members(s) \cap S
<1> DEFINE Good(q) == Sorted(q) => /\ Sorted(Select(q, S))
                                   /\ Members(Select(q, S)) = Members(q) \cap S
           T == {q \in Seq(Int) : Good(q)}
<1>1. <<>> \in T
  BY SelectEmpty DEF Sorted, Members
<1>2. ASSUME NEW q \in Seq(Int), NEW e \in Int, q \in T
      PROVE  Append(q, e) \in T
  <2> DEFINE u == Append(q, e)
             n == Len(q)
             k == Select(q, S)
  <2>1. /\ n \in Nat /\ DOMAIN q = 1 .. n /\ u \in Seq(Int) /\ DOMAIN u = 1 .. n + 1
        /\ \A i \in 1 .. n : u[i] = q[i] /\ q[i] \in Int
        /\ u[n + 1] = e
    BY AppendIs
  <2>2. Select(u, S) = IF e \in S THEN Append(k, e) ELSE k
    BY SelectAppend
  <2>3. k \in Seq(Int)
    <3>1. k \in Seq(Int \cap S)
      BY SelectType
    <3>2. Int \cap S \subseteq Int
      OBVIOUS
    <3> HIDE DEF k
    <3> QED
      BY <3>1, <3>2, SeqMonotonic
  <2>4. Good(q)
    BY <1>2
  <2> HIDE DEF u, n, k
  <2>5. ASSUME Sorted(u) PROVE Sorted(Select(u, S)) /\ Members(Select(u, S)) = Members(u) \cap S
    <3>1. Sorted(q) /\ \A i \in 1 .. n : q[i] < e
      <4>1. 1 .. n \subseteq 1 .. n + 1 /\ n + 1 \in 1 .. n + 1 /\ \A i \in 1 .. n : i < n + 1
        BY <2>1
      <4> QED
        BY <2>1, <2>5, <4>1 DEF Sorted
    <3>2. Sorted(k) /\ Members(k) = Members(q) \cap S
      BY <2>4, <3>1 DEF k
    <3>3. Members(u) = Members(q) \cup {e}
      <4>1. \A i \in 1 .. n + 1 : i \in 1 .. n \/ i = n + 1
        BY <2>1
      <4>2. 1 .. n \subseteq 1 .. n + 1 /\ n + 1 \in 1 .. n + 1
        BY <2>1
      <4> QED
        BY <2>1, <4>1, <4>2 DEF Members
    <3>4. CASE e \in S
      <4> DEFINE v == Append(k, e)
                 m == Len(k)
      <4>1. /\ m \in Nat /\ DOMAIN k = 1 .. m /\ DOMAIN v = 1 .. m + 1
            /\ \A i \in 1 .. m : v[i] = k[i] /\ k[i] \in Int
            /\ v[m + 1] = e
        BY <2>3, AppendIs
      <4> HIDE DEF v, m
      <4>2. \A i \in 1 .. m : k[i] < e
        <5>1. \A i \in 1 .. m : k[i] \in Members(q)
          BY <3>2, <4>1 DEF Members
        <5> QED
          BY <2>1, <3>1, <5>1 DEF Members
      <4>3. \A i \in 1 .. m + 1 : i \in 1 .. m \/ i = m + 1
        BY <4>1
      <4>4. 1 .. m \subseteq 1 .. m + 1 /\ m + 1 \in 1 .. m + 1
        BY <4>1
      <4>5. Sorted(v)
        <5> SUFFICES ASSUME NEW i \in 1 .. m + 1, NEW j \in 1 .. m + 1, i < j
                     PROVE  v[i] < v[j]
          BY <4>1 DEF Sorted
        <5>1. i \in 1 .. m
          BY <4>1
        <5>2. CASE j \in 1 .. m
          BY <3>2, <4>1, <5>1, <5>2 DEF Sorted
        <5>3. CASE j = m + 1
          BY <4>1, <4>2, <5>1, <5>3
        <5> QED
          BY <4>3, <5>2, <5>3
      <4>6. Members(v) = Members(k) \cup {e}
        BY <4>1, <4>3, <4>4 DEF Members
      <4>7. Select(u, S) = v
        BY <2>2, <3>4 DEF v
      <4> QED
        BY <3>2, <3>3, <3>4, <4>5, <4>6, <4>7
    <3>5. CASE e \notin S
      BY <2>2, <3>2, <3>3, <3>5
    <3> QED
      BY <3>4, <3>5
  <2> QED
    BY <2>1, <2>5 DEF u
<1>3. Seq(Int) \subseteq T
  <2> HIDE DEF T
  <2> QED
    BY <1>1, <1>2, SeqSetInduction
<1> QED
  BY <1>3

LEMMA MembersIn ==
  ASSUME NEW E, NEW s \in Seq(E)
  PROVE  s \in Seq(Members(s))
<1>1. DOMAIN s = 1 .. Len(s) /\ Len(s) \in Nat /\ s = [i \in 1 .. Len(s) |-> s[i]]
  OBVIOUS
<1>2. \A i \in 1 .. Len(s) : s[i] \in Members(s)
  BY <1>1 DEF Members
<1> QED
  BY <1>1, <1>2

(* The order of the buckets shown.                                           *)
IsOrder(o, h, columns) ==
  /\ o \in Seq(Visible(h, columns)) /\ Len(o) \in Nat \ {0} /\ DOMAIN o = 1 .. Len(o)
  /\ Sorted(o) /\ Members(o) = Visible(h, columns)
  /\ o[Len(o)] = Max(DOMAIN h)

(* The buckets shown are listed by time, each once.                          *)
LEMMA ByTimeIs ==
  ASSUME NEW h, IsChart(h), NEW columns \in Nat \ {0}
  PROVE  IsOrder(ByTime(h, columns), h, columns)
<1> DEFINE B == BucketMs
           start == WindowStart(h, columns)
           V == Visible(h, columns)
           s == [n \in 1 .. columns |-> start + (n - 1) * B]
           o == ByTime(h, columns)
           top == Max(DOMAIN h)
<1>1. B \in Nat \ {0} /\ o = Select(s, DOMAIN h)
  BY ChartFacts DEF ByTime
<1>2. start \in Int
  <2>1. top \in V
    BY VisibleIs
  <2> QED
    BY <2>1, PlaceIs
<1> HIDE DEF start, B
<1>3. s \in Seq(Int) /\ DOMAIN s = 1 .. columns
  <2>1. \A n \in 1 .. columns : start + (n - 1) * B \in Int
    BY <1>1, <1>2
  <2> QED
    BY <2>1
<1>4. Sorted(s)
  <2> SUFFICES ASSUME NEW i \in 1 .. columns, NEW j \in 1 .. columns, i < j
               PROVE  s[i] < s[j]
    BY DEF Sorted
  <2> DEFINE x == (i - 1) * B
             y == (j - 1) * B
  <2>1. i - 1 < j - 1 /\ i - 1 \in Int /\ j - 1 \in Int
    OBVIOUS
  <2>2. x + B <= y /\ x \in Int /\ y \in Int
    BY <1>1, <2>1, Product
  <2>3. s[i] = start + x /\ s[j] = start + y
    OBVIOUS
  <2> HIDE DEF x, y, s
  <2> QED
    BY <1>1, <1>2, <2>2, <2>3
<1>5. Members(s) \cap DOMAIN h = V
  <2>1. ASSUME NEW n \in 1 .. columns, s[n] \in DOMAIN h PROVE s[n] \in V
    <3> DEFINE x == (n - 1) * B
    <3>1. x \in Nat /\ s[n] = start + x
      BY <1>1
    <3> HIDE DEF x, s
    <3>2. s[n] >= start
      BY <1>2, <3>1
    <3> QED
      BY <2>1, <3>2 DEF Visible, start
  <2>2. ASSUME NEW b \in V PROVE b \in Members(s) /\ b \in DOMAIN h
    <3> DEFINE p == Place(h, columns, b)
    <3>1. p \in 0 .. columns - 1 /\ b = start + p * B /\ b \in DOMAIN h
      BY PlaceIs DEF start, B
    <3> HIDE DEF p
    <3>2. p + 1 \in 1 .. columns /\ (p + 1) - 1 = p
      BY <3>1
    <3>3. s[p + 1] = b
      BY <3>1, <3>2
    <3> QED
      BY <3>1, <3>2, <3>3 DEF Members
  <2> QED
    BY <2>1, <2>2 DEF Members
<1> HIDE DEF s, o
<1>6. Sorted(o) /\ Members(o) = V
  BY <1>1, <1>3, <1>4, <1>5, SelectSorted
<1>7. o \in Seq(V)
  <2>1. o \in Seq(Int \cap DOMAIN h)
    BY <1>1, <1>3, SelectType
  <2>2. o \in Seq(Members(o))
    BY <2>1, MembersIn
  <2> QED
    BY <1>6, <2>2
<1>8. top \in V /\ \A b \in V : b <= top /\ b \in Nat /\ top \in Nat
  BY VisibleIs, ChartFacts
<1>9. Len(o) \in Nat /\ DOMAIN o = 1 .. Len(o)
  BY <1>7
<1>10. PICK i \in 1 .. Len(o) : o[i] = top
  BY <1>6, <1>8, <1>9 DEF Members
<1>11. Len(o) \in Nat \ {0} /\ Len(o) \in 1 .. Len(o) /\ o[Len(o)] \in V
  <2>1. Len(o) \in Nat \ {0} /\ Len(o) \in 1 .. Len(o)
    BY <1>9, <1>10
  <2> QED
    BY <1>6, <1>9, <2>1 DEF Members
<1>12. o[Len(o)] = top
  <2>1. CASE i < Len(o)
    BY <1>6, <1>8, <1>9, <1>10, <1>11, <2>1 DEF Sorted
  <2>2. CASE i = Len(o)
    BY <1>10, <2>2
  <2>3. i < Len(o) \/ i = Len(o)
    <3> PICK m : m = Len(o)
      OBVIOUS
    <3>1. m \in Nat /\ i \in 1 .. m
      BY <1>9, <1>10
    <3>2. i < m \/ i = m
      BY <3>1
    <3> QED
      BY <3>2
  <2> QED
    BY <2>1, <2>2, <2>3
<1> QED
  BY <1>6, <1>7, <1>9, <1>11, <1>12 DEF IsOrder, o

-----------------------------------------------------------------------------
(* The labels of the time axis.  A label is placed where none of those       *)
(* placed before touches it.                                                 *)
Occupied(placed, length) == UNION {s - 1 .. s + length : s \in placed}

Placing(placed, start, length, width) ==
  IF length > width \/ Occupied(placed, length) \cap (start .. start + length - 1) # {}
  THEN placed ELSE placed \cup {start}

LabelAt(h, columns, stride, length, b) ==
  LabelStart(ColumnOf(h, columns, stride, b), length, columns * stride)

Placer(h, columns, stride, length) ==
  [placed \in SUBSET Int |-> [b \in Visible(h, columns) |->
     Placing(placed, LabelAt(h, columns, stride, length, b), length, columns * stride)]]

Candidates(o) == <<Last(o), Head(o), o[Len(o) \div 2 + 1]>>

Readable(placed, length, width) ==
  /\ placed \subseteq 0 .. width - 1 /\ \A s \in placed : s + length <= width
  /\ \A s, r \in placed : s # r => Abs(s - r) > length

LEMMA LabelStartIs ==
  ASSUME NEW column \in Int, NEW length \in Nat \ {0}, NEW width \in Nat, length <= width
  PROVE  LabelStart(column, length, width) \in 0 .. width - length
<1> DEFINE n == width - length
           v == column - length \div 2
<1>1. n \in Nat /\ v \in Int
  OBVIOUS
<1>2. LabelStart(column, length, width) = Max({0, Min({n, v})})
  BY DEF LabelStart
<1> HIDE DEF n, v
<1>3. Max({0, Min({n, v})}) = Clamp(v, n)
  BY <1>1, ClampIs
<1>4. Clamp(v, n) \in 0 .. n
  BY <1>1 DEF Clamp
<1> QED
  BY <1>2, <1>3, <1>4 DEF n

LEMMA PlacingReadable ==
  ASSUME NEW length \in Nat \ {0}, NEW width \in Nat, NEW start \in Int,
         length <= width => start \in 0 .. width - length,
         NEW placed, Readable(placed, length, width)
  PROVE  /\ Readable(Placing(placed, start, length, width), length, width)
         /\ placed \subseteq Placing(placed, start, length, width)
<1> DEFINE occupied == Occupied(placed, length)
<1> HIDE DEF occupied
<1>1. CASE length > width \/ occupied \cap (start .. start + length - 1) # {}
  BY <1>1 DEF Placing, occupied
<1>2. CASE length <= width /\ occupied \cap (start .. start + length - 1) = {}
  <2>1. Placing(placed, start, length, width) = placed \cup {start}
    BY <1>2 DEF Placing, occupied
  <2>2. \A s \in placed : s \in 0 .. width - 1 /\ s + length <= width
    BY DEF Readable
  <2>3. start \in 0 .. width - length /\ start \in 0 .. width - 1
    BY <1>2
  <2>4. ASSUME NEW s \in placed PROVE Abs(s - start) > length /\ Abs(start - s) > length
    <3>1. (s - 1 .. s + length) \cap (start .. start + length - 1) = {}
      <4>1. s - 1 .. s + length \subseteq occupied
        BY DEF occupied, Occupied
      <4> QED
        BY <1>2, <4>1
    <3>2. start \notin s - 1 .. s + length
      BY <2>3, <3>1
    <3>3. s - 1 \notin start .. start + length - 1
      BY <2>2, <3>1
    <3> QED
      BY <2>2, <2>3, <3>2, <3>3 DEF Abs
  <2> DEFINE q == placed \cup {start}
  <2>5. q \subseteq 0 .. width - 1 /\ \A s \in q : s + length <= width
    BY <2>2, <2>3
  <2>6. ASSUME NEW s \in q, NEW x \in q, s # x PROVE Abs(s - x) > length
    <3>1. CASE s \in placed /\ x \in placed
      BY <2>6, <3>1 DEF Readable
    <3>2. CASE s = start
      BY <2>4, <2>6, <3>2
    <3>3. CASE x = start
      BY <2>4, <2>6, <3>3
    <3> QED
      BY <3>1, <3>2, <3>3
  <2> HIDE DEF q
  <2>7. Readable(q, length, width)
    BY <2>5, <2>6 DEF Readable
  <2> QED
    BY <2>1, <2>7 DEF q
<1> QED
  BY <1>1, <1>2

(* The labels are placed one after the other by Placer.                      *)
LEMMA TimeAxisIs ==
  ASSUME NEW h, IsChart(h), NEW columns \in Nat \ {0}, NEW stride \in Nat \ {0},
         NEW length \in Nat \ {0},
         Candidates(ByTime(h, columns)) \in Seq(Visible(h, columns)),
         \A b \in Visible(h, columns) : LabelAt(h, columns, stride, length, b) \in Int
  PROVE  LET K == Placer(h, columns, stride, length)
             s == Candidates(ByTime(h, columns))
         IN /\ Foldable(s, {}, K, SUBSET Int, Visible(h, columns))
            /\ TimeAxis(h, columns, stride, length) = SeqFold(K, {}, s)
<1> DEFINE s == Candidates(ByTime(h, columns))
           K == Placer(h, columns, stride, length)
           A == SUBSET Int
           V == Visible(h, columns)
           D == DOMAIN s
           width == columns * stride
           Put(placed, b) == Placing(placed, LabelAt(h, columns, stride, length, b), length, width)
           F(g) == [t \in SUBSET D |->
                      IF t = {} THEN {} ELSE Put(g[t \ {Max(t)}], s[Max(t)])]
           f == CHOOSE g : g = F(g)
<1>1. TimeAxis(h, columns, stride, length) = f[D]
  BY DEF TimeAxis, FoldLeft, MapThenFoldSet, Candidates, Placing, Occupied, LabelAt
<1>2. \A g : F(g) = [t \in SUBSET D |-> IF t = {} THEN {} ELSE Put(g[t \ {Max(t)}], s[Max(t)])]
  OBVIOUS
<1>3. \A a \in A, b \in V : K[a][b] = Put(a, b) /\ Put(a, b) \in A
  BY DEF Placer, Placing
<1>4. Foldable(s, {}, K, A, V)
  BY <1>3 DEF Foldable, Closed
<1>5. \A t \in SUBSET D : t # {} => Max(t) \in D /\ s[Max(t)] \in V
  BY LastPlace
<1> HIDE DEF A, K, s, Put, V
<1>6. f = F(f)
  <2>1. PICK g : FoldsBy(g, s, {}, K, A)
    BY <1>4, FoldWitness
  <2>2. g = [t \in SUBSET D |-> IF t = {} THEN {} ELSE K[g[t \ {Max(t)}]][s[Max(t)]]]
    BY <2>1 DEF FoldsBy, Recursion
  <2>3. \A t \in SUBSET D : t # {} =>
          K[g[t \ {Max(t)}]][s[Max(t)]] = Put(g[t \ {Max(t)}], s[Max(t)])
    <3> SUFFICES ASSUME NEW t \in SUBSET D, t # {}
                 PROVE  g[t \ {Max(t)}] \in A
      BY <1>3, <1>5
    <3> QED
      BY <2>1 DEF FoldsBy
  <2>4. g = F(g)
    <3> HIDE DEF F
    <3> QED
      BY <1>2, <2>2, <2>3
  <2> QED
    BY <2>4
<1>7. f = [t \in SUBSET D |-> IF t = {} THEN {} ELSE Put(f[t \ {Max(t)}], s[Max(t)])]
  <2> HIDE DEF f, F
  <2> QED
    BY <1>2, <1>6
<1>8. Obeys(f, s, {}, K, A)
  <2> HIDE DEF f
  <2>1. ASSUME NEW t \in SUBSET D, t # {}, f[t \ {Max(t)}] \in A
        PROVE  f[t] = K[f[t \ {Max(t)}]][s[Max(t)]]
    <3>1. s[Max(t)] \in V
      BY <1>5, <2>1
    <3>2. f[t] = Put(f[t \ {Max(t)}], s[Max(t)])
      BY <1>7, <2>1
    <3> QED
      BY <1>3, <2>1, <3>1, <3>2
  <2>2. f[{}] = {}
    BY <1>7
  <2> QED
    BY <2>1, <2>2 DEF Obeys
<1> HIDE DEF f
<1>9. f[D] = SeqFold(K, {}, s)
  BY <1>4, <1>8, SeqFoldIs
<1> QED
  BY <1>1, <1>4, <1>9 DEF K, s, A, V

LEMMA ColumnIs ==
  ASSUME NEW h, IsChart(h), NEW columns \in Nat \ {0}, NEW stride \in Nat \ {0},
         NEW b \in Visible(h, columns)
  PROVE  /\ ColumnOf(h, columns, stride, b) = Place(h, columns, b) * stride
         /\ ColumnOf(h, columns, stride, b) \in Nat
         /\ ColumnOf(h, columns, stride, b) + stride <= columns * stride
         /\ b = Max(DOMAIN h) => ColumnOf(h, columns, stride, b) = columns * stride - stride
<1> DEFINE p == Place(h, columns, b)
<1>1. p \in 0 .. columns - 1 /\ (b = Max(DOMAIN h) => p = columns - 1)
  BY PlaceIs
<1>2. ColumnOf(h, columns, stride, b) = p * stride
  BY DEF ColumnOf, Place
<1> HIDE DEF p
<1>3. p * stride \in Nat
  BY <1>1
<1>4. p * stride + stride <= columns * stride
  <2>1. p \in Int /\ columns \in Int /\ stride \in Nat /\ p < columns
    BY <1>1
  <2> QED
    BY <2>1, Product
<1>5. (columns - 1) * stride = columns * stride - stride
  OBVIOUS
<1> QED
  BY <1>1, <1>2, <1>3, <1>4, <1>5 DEF p

(* No two labels of the time axis touch, all fit, and the newest bucket has  *)
(* one.                                                                      *)
LEMMA AxisIsReadable ==
  ASSUME NEW h, IsChart(h), NEW columns \in Nat \ {0}, NEW stride \in Nat \ {0},
         NEW length \in Nat \ {0}
  PROVE  AxisReadable(h, columns, stride, length)
<1> DEFINE o == ByTime(h, columns)
           s == Candidates(o)
           K == Placer(h, columns, stride, length)
           V == Visible(h, columns)
           width == columns * stride
           StartOf(b) == LabelAt(h, columns, stride, length, b)
           starts == TimeAxis(h, columns, stride, length)
<1>1. /\ o \in Seq(V) /\ Len(o) \in Nat \ {0} /\ DOMAIN o = 1 .. Len(o)
      /\ o[Len(o)] = Max(DOMAIN h)
  BY ByTimeIs DEF IsOrder
<1>2. width \in Nat
  OBVIOUS
<1>3. s \in Seq(V) /\ Len(s) = 3 /\ s[1] = Max(DOMAIN h) /\ \A i \in 1 .. 3 : s[i] \in V
  <2> HIDE DEF o, V
  <2>1. Len(o) \div 2 + 1 \in 1 .. Len(o) /\ 1 \in 1 .. Len(o) /\ Len(o) \in 1 .. Len(o)
    BY <1>1
  <2>2. o[Len(o) \div 2 + 1] \in V /\ o[1] \in V /\ o[Len(o)] \in V
    BY <1>1, <2>1
  <2>3. Head(o) = o[1]
    BY <1>1
  <2>4. s = <<o[Len(o)], o[1], o[Len(o) \div 2 + 1]>>
    BY <2>3 DEF Candidates, Last
  <2> HIDE DEF s
  <2> QED
    BY <1>1, <2>2, <2>4
<1> HIDE DEF o
<1>4. \A b \in V : StartOf(b) \in Int /\ (length <= width => StartOf(b) \in 0 .. width - length)
  <2> SUFFICES ASSUME NEW b \in V
               PROVE  StartOf(b) \in Int /\ (length <= width => StartOf(b) \in 0 .. width - length)
    OBVIOUS
  <2>1. ColumnOf(h, columns, stride, b) \in Int
    BY ColumnIs
  <2>2. length <= width => StartOf(b) \in 0 .. width - length
    BY <1>2, <2>1, LabelStartIs DEF LabelAt
  <2>3. StartOf(b) \in Int
    <3> DEFINE v == ColumnOf(h, columns, stride, b) - length \div 2
               n == width - length
               m == Min({n, v})
    <3>1. v \in Int /\ n \in Int /\ 0 \in Int
      BY <1>2, <2>1
    <3>2. StartOf(b) = Max({0, m})
      BY DEF LabelAt, LabelStart
    <3> HIDE DEF v, n
    <3>3. m = IF n <= v THEN n ELSE v
      BY <3>1, Pair
    <3>4. m \in Int
      BY <3>1, <3>3
    <3> HIDE DEF m, StartOf
    <3>5. Max({0, m}) = IF 0 >= m THEN 0 ELSE m
      BY <3>1, <3>4, Pair
    <3> QED
      BY <3>1, <3>2, <3>4, <3>5
  <2> QED
    BY <2>2, <2>3
<1>5. Foldable(s, {}, K, SUBSET Int, V) /\ starts = SeqFold(K, {}, s)
  BY <1>3, <1>4, TimeAxisIs DEF o
<1> HIDE DEF s, width, starts
<1>6. PICK r : IsRun(r, s, {}, K, SUBSET Int) /\ SeqFold(K, {}, s) = r[Len(s)]
  BY <1>5, SeqFoldRuns
<1>7. /\ r[0] = {} /\ starts = r[3]
      /\ \A i \in 1 .. 3 : r[i] = K[r[i - 1]][s[i]] /\ r[i - 1] \in SUBSET Int
  <2>1. \A i \in 1 .. 3 : i - 1 \in 0 .. 3
    OBVIOUS
  <2> QED
    BY <1>3, <1>5, <1>6, <2>1 DEF IsRun
<1>8. \A i \in 1 .. 3 : r[i] = Placing(r[i - 1], StartOf(s[i]), length, width)
  BY <1>3, <1>7 DEF Placer, width
<1> HIDE DEF K, StartOf
<1>9. \A i \in 1 .. 3 : Readable(r[i - 1], length, width) =>
        Readable(r[i], length, width) /\ r[i - 1] \subseteq r[i]
  <2> SUFFICES ASSUME NEW i \in 1 .. 3, Readable(r[i - 1], length, width)
               PROVE  Readable(r[i], length, width) /\ r[i - 1] \subseteq r[i]
    OBVIOUS
  <2>1. StartOf(s[i]) \in Int /\ (length <= width => StartOf(s[i]) \in 0 .. width - length)
    BY <1>3, <1>4
  <2>2. r[i] = Placing(r[i - 1], StartOf(s[i]), length, width)
    BY <1>8
  <2> QED
    BY <1>2, <2>1, <2>2, PlacingReadable
<1>10. Readable(r[0], length, width)
  BY <1>7 DEF Readable
<1>11. /\ Readable(r[1], length, width)
       /\ Readable(r[2], length, width) /\ r[1] \subseteq r[2]
       /\ Readable(r[3], length, width) /\ r[2] \subseteq r[3]
  <2>1. Readable(r[1], length, width)
    <3>1. 1 \in 1 .. 3 /\ 1 - 1 = 0
      OBVIOUS
    <3> QED
      BY <1>9, <1>10, <3>1
  <2>2. Readable(r[2], length, width) /\ r[1] \subseteq r[2]
    <3>1. 2 \in 1 .. 3 /\ 2 - 1 = 1
      OBVIOUS
    <3> QED
      BY <1>9, <2>1, <3>1
  <2>3. Readable(r[3], length, width) /\ r[2] \subseteq r[3]
    <3>1. 3 \in 1 .. 3 /\ 3 - 1 = 2
      OBVIOUS
    <3> QED
      BY <1>9, <2>2, <3>1
  <2> QED
    BY <2>1, <2>2, <2>3
<1>12. length <= width => LabelStart(width - stride, length, width) \in r[1]
  <2>1. r[1] = Placing({}, StartOf(s[1]), length, width)
    <3>1. 1 \in 1 .. 3 /\ 1 - 1 = 0
      OBVIOUS
    <3> QED
      BY <1>7, <1>8, <3>1
  <2>2. StartOf(s[1]) = LabelStart(width - stride, length, width)
    <3>1. s[1] \in V /\ s[1] = Max(DOMAIN h)
      BY <1>3
    <3>2. ColumnOf(h, columns, stride, s[1]) = width - stride
      BY <3>1, ColumnIs DEF width
    <3> QED
      BY <3>2 DEF StartOf, LabelAt, width
  <2>3. length <= width => ~(length > width)
    BY <1>2
  <2>4. Occupied({}, length) = {}
    BY DEF Occupied
  <2> QED
    BY <2>1, <2>2, <2>3, <2>4 DEF Placing
<1>13. Readable(starts, length, width) /\ r[1] \subseteq starts
  BY <1>7, <1>11
<1> QED
  BY <1>12, <1>13 DEF AxisReadable, Readable, starts, width

-----------------------------------------------------------------------------
(* A picture that is painted in layers which do not overlap: what is in a    *)
(* layer shows that layer, whatever was painted later.                       *)
Painter(L, V, A) == [a \in A |-> [b \in V |-> Over(L[b], a)]]

Fits(f, C, G) == DOMAIN f \subseteq C /\ \A x \in DOMAIN f : f[x] \in G

IsPaint(s, base, L, V, C, G) ==
  /\ s \in Seq(V) /\ Members(s) = V /\ base \in [C -> G]
  /\ \A b \in V : Fits(L[b], C, G)
  /\ \A b, c \in V : b # c => DOMAIN L[b] \cap DOMAIN L[c] = {}

Painted(p, base, L, V, C, G) ==
  /\ p \in [C -> G]
  /\ \A b \in V : \A x \in DOMAIN L[b] : p[x] = L[b][x]
  /\ \A x \in C : (\A b \in V : x \notin DOMAIN L[b]) => p[x] = base[x]

Covers(q, f, a) ==
  /\ \A x \in DOMAIN f : q[x] = f[x]
  /\ \A x \in DOMAIN a : x \notin DOMAIN f => q[x] = a[x]

LEMMA OverIs ==
  ASSUME NEW C, NEW G, NEW a \in [C -> G], NEW f, Fits(f, C, G)
  PROVE  Over(f, a) \in [C -> G] /\ Covers(Over(f, a), f, a)
<1>1. Over(f, a) = [x \in C |-> IF x \in DOMAIN f THEN f[x] ELSE a[x]]
  <2>1. DOMAIN f \cup DOMAIN a = C
    BY DEF Fits
  <2> QED
    BY <2>1 DEF Over
<1> QED
  BY <1>1 DEF Covers, Fits

Paints(K, s, base, L, V, A) ==
  Foldable(s, base, K, A, V) /\ \A a \in A, b \in V : K[a][b] = Over(L[b], a)

LEMMA PainterIs ==
  ASSUME NEW s, NEW base, NEW L, NEW V, NEW C, NEW G, IsPaint(s, base, L, V, C, G)
  PROVE  Paints(Painter(L, V, [C -> G]), s, base, L, V, [C -> G])
<1> DEFINE A == [C -> G]
<1>1. \A a \in A, b \in V : Over(L[b], a) \in A
  <2> SUFFICES ASSUME NEW a \in A, NEW b \in V PROVE Over(L[b], a) \in A
    OBVIOUS
  <2>1. Fits(L[b], C, G)
    BY DEF IsPaint
  <2> QED
    BY <2>1, OverIs
<1>2. base \in A /\ s \in Seq(V)
  BY DEF IsPaint
<1> HIDE DEF A
<1>3. \A a \in A, b \in V : Painter(L, V, A)[a][b] = Over(L[b], a)
  BY DEF Painter
<1> QED
  BY <1>1, <1>2, <1>3 DEF Foldable, Closed, Paints, A

(* A cell shows the one layer that has it, or the ground if none has.        *)
LEMMA PaintingIs ==
  ASSUME NEW s, NEW base, NEW L, NEW V, NEW C, NEW G, IsPaint(s, base, L, V, C, G)
  PROVE  Painted(SeqFold(Painter(L, V, [C -> G]), base, s), base, L, V, C, G)
<1> DEFINE A == [C -> G]
           K == Painter(L, V, A)
           n == Len(s)
<1>1. /\ s \in Seq(V) /\ n \in Nat /\ DOMAIN s = 1 .. n /\ \A i \in 1 .. n : s[i] \in V
      /\ Members(s) = V /\ base \in A
  BY DEF IsPaint
<1>2. Foldable(s, base, K, A, V) /\ \A a \in A, b \in V : K[a][b] = Over(L[b], a)
  <2>1. Paints(Painter(L, V, [C -> G]), s, base, L, V, [C -> G])
    BY PainterIs
  <2> QED
    BY <2>1 DEF Paints
<1> HIDE DEF A, K, n
<1>3. PICK r : IsRun(r, s, base, K, A) /\ SeqFold(K, base, s) = r[Len(s)]
  BY <1>2, SeqFoldRuns
<1>4. /\ r[0] = base /\ \A i \in 0 .. n : r[i] \in A
      /\ \A i \in 1 .. n : i - 1 \in 0 .. n /\ r[i] = Over(L[s[i]], r[i - 1])
  <2>1. \A i \in 1 .. n : i - 1 \in 0 .. n
    BY <1>1
  <2> QED
    BY <1>1, <1>2, <1>3, <2>1 DEF IsRun, n
<1> DEFINE Shows(i) ==
             /\ \A j \in 1 .. i : \A x \in DOMAIN L[s[j]] : r[i][x] = L[s[j]][x]
             /\ \A x \in C : (\A j \in 1 .. i : x \notin DOMAIN L[s[j]]) => r[i][x] = base[x]
           T == {m \in Nat : m <= n => Shows(m)}
<1>5. 0 \in T
  <2>1. 1 .. 0 = {}
    OBVIOUS
  <2> QED
    BY <1>4, <2>1
<1>6. ASSUME NEW m \in Nat, m \in T PROVE m + 1 \in T
  <2> SUFFICES ASSUME m + 1 <= n PROVE Shows(m + 1)
    OBVIOUS
  <2>1. m + 1 \in 1 .. n /\ (m + 1) - 1 = m /\ m <= n /\ m \in 0 .. n
    BY <1>1
  <2>2. Shows(m)
    BY <1>6, <2>1
  <2> DEFINE b == s[m + 1]
             f == L[b]
  <2>3. r[m + 1] = Over(f, r[m]) /\ r[m] \in A /\ b \in V
    BY <1>1, <1>4, <2>1
  <2>4. Fits(f, C, G)
    BY <2>3 DEF IsPaint
  <2>5. /\ \A x \in DOMAIN f : r[m + 1][x] = f[x]
        /\ \A x \in C : x \notin DOMAIN f => r[m + 1][x] = r[m][x]
    <3>1. r[m] \in [C -> G] /\ Fits(f, C, G)
      BY <2>3, <2>4 DEF A
    <3> HIDE DEF f
    <3>2. Covers(Over(f, r[m]), f, r[m])
      BY <3>1, OverIs
    <3> QED
      BY <2>3, <3>1, <3>2 DEF Covers
  <2>6. \A j \in 1 .. m + 1 : j \in 1 .. m \/ j = m + 1
    OBVIOUS
  <2>7. 1 .. m \subseteq 1 .. m + 1 /\ m + 1 \in 1 .. m + 1 /\ 1 .. m + 1 \subseteq 1 .. n
    BY <1>1, <2>1
  <2> HIDE DEF b, T
  <2>8. ASSUME NEW j \in 1 .. m + 1, NEW x \in DOMAIN L[s[j]]
        PROVE  r[m + 1][x] = L[s[j]][x]
    <3>1. CASE x \in DOMAIN f
      <4>1. s[j] = b
        <5>1. s[j] \in V /\ x \in DOMAIN L[s[j]] \cap DOMAIN L[b]
          BY <1>1, <2>7, <2>8, <3>1
        <5> QED
          BY <2>3, <5>1 DEF IsPaint
      <4> QED
        BY <2>5, <3>1, <4>1
    <3>2. CASE x \notin DOMAIN f
      <4>1. j \in 1 .. m
        BY <2>6, <2>8, <3>2 DEF b
      <4>2. s[j] \in V
        BY <1>1, <2>7, <4>1
      <4>3. x \in C
        BY <2>8, <4>2 DEF IsPaint, Fits
      <4> QED
        BY <2>2, <2>5, <2>8, <3>2, <4>1, <4>3
    <3> QED
      BY <3>1, <3>2
  <2>9. ASSUME NEW x \in C, \A j \in 1 .. m + 1 : x \notin DOMAIN L[s[j]]
        PROVE  r[m + 1][x] = base[x]
    <3>1. x \notin DOMAIN f
      BY <2>7, <2>9 DEF b
    <3>2. \A j \in 1 .. m : x \notin DOMAIN L[s[j]]
      BY <2>7, <2>9
    <3> QED
      BY <2>2, <2>5, <3>1, <3>2
  <2> QED
    BY <2>8, <2>9
<1>7. Nat \subseteq T
  <2> HIDE DEF T
  <2> QED
    BY <1>5, <1>6, NatSetInduction
<1>8. Shows(n)
  BY <1>1, <1>7
<1> DEFINE p == SeqFold(K, base, s)
<1>9. p = r[n] /\ r[n] \in A
  <2>1. n \in 0 .. n
    BY <1>1
  <2> QED
    BY <1>3, <1>4, <2>1 DEF n
<1>10. \A b \in V : \E j \in 1 .. n : b = s[j]
  BY <1>1 DEF Members
<1> HIDE DEF p
<1>11. \A b \in V : \A x \in DOMAIN L[b] : p[x] = L[b][x]
  <2> SUFFICES ASSUME NEW b \in V, NEW x \in DOMAIN L[b] PROVE p[x] = L[b][x]
    OBVIOUS
  <2>1. PICK j \in 1 .. n : b = s[j]
    BY <1>10
  <2> QED
    BY <1>8, <1>9, <2>1
<1>12. \A x \in C : (\A b \in V : x \notin DOMAIN L[b]) => p[x] = base[x]
  BY <1>1, <1>8, <1>9
<1> QED
  BY <1>9, <1>11, <1>12 DEF Painted, A, K, p

-----------------------------------------------------------------------------
(* The eighths of a row that a bar is high.                                  *)
IsImage(T, f, S) == T = {f[x] : x \in S}

LEMMA ImageFinite ==
  ASSUME NEW S, IsFiniteSet(S), NEW f, NEW T, IsImage(T, f, S)
  PROVE  IsFiniteSet(T)
<1> DEFINE g == [x \in S |-> f[x]]
<1>1. g \in Surjection(S, T)
  BY DEF Surjection, IsImage
<1> QED
  BY <1>1, FS_Surjection

(* Of numbers of the members of a finite set one is the largest.             *)
LEMMA ImageNumbers ==
  ASSUME NEW S, IsFiniteSet(S), S # {}, NEW f, \A x \in S : f[x] \in Int,
         NEW T, IsImage(T, f, S)
  PROVE  /\ Numbers(T) /\ T # {}
         /\ \A x \in S : f[x] <= Max(T)
         /\ Max(T) \in Int /\ \E x \in S : Max(T) = f[x]
<1>1. Numbers(T) /\ T # {}
  BY ImageFinite DEF Numbers, IsImage
<1>2. Max(T) \in T /\ Max(T) \in Int /\ \A y \in T : Max(T) >= y
  BY <1>1, MaxIs
<1> QED
  BY <1>1, <1>2 DEF IsImage

LEMMA CandleFacts ==
  ASSUME NEW h, IsChart(h), NEW b \in DOMAIN h
  PROVE  /\ h[b].open \in Nat /\ h[b].high \in Nat /\ h[b].low \in Nat /\ h[b].close \in Nat
         /\ h[b].low <= h[b].open /\ h[b].low <= h[b].close
         /\ h[b].open <= h[b].high /\ h[b].close <= h[b].high
         /\ Volume(h[b]) \in Nat \ {0}
<1> PICK c : c = h[b]
  OBVIOUS
<1>1. /\ {c.open, c.high, c.low, c.close, c.buy, c.sell} \subseteq Nat
      /\ c.low <= Min({c.open, c.close}) /\ Max({c.open, c.close}) <= c.high
      /\ c.buy + c.sell > 0
  BY DEF IsChart
<1>2. /\ c.open \in Nat /\ c.high \in Nat /\ c.low \in Nat /\ c.close \in Nat
      /\ c.buy \in Nat /\ c.sell \in Nat
  BY <1>1
<1>3. Volume(c) \in Nat \ {0}
  BY <1>1, <1>2 DEF Volume
<1>4. /\ Max({c.open, c.close}) = IF c.open >= c.close THEN c.open ELSE c.close
      /\ Min({c.open, c.close}) = IF c.open <= c.close THEN c.open ELSE c.close
  <2>1. c.open \in Int /\ c.close \in Int
    BY <1>2
  <2> QED
    BY <2>1, Pair
<1>5. /\ c.low <= c.open /\ c.low <= c.close /\ c.open <= c.high /\ c.close <= c.high
  BY <1>1, <1>2, <1>4
<1> QED
  BY <1>2, <1>3, <1>5

Most(h, V) == Max({Volume(h[c]) : c \in V})

LEMMA MostIs ==
  ASSUME NEW h, IsChart(h), NEW columns \in Nat \ {0}
  PROVE  LET V == Visible(h, columns)
         IN Most(h, V) \in Nat \ {0} /\ \A b \in V : Volume(h[b]) <= Most(h, V)
<1> DEFINE V == Visible(h, columns)
           f == [b \in V |-> Volume(h[b])]
           T == {f[b] : b \in V}
<1>1. IsFiniteSet(V) /\ V # {} /\ V \subseteq DOMAIN h
  BY VisibleIs DEF Numbers
<1>2. \A b \in V : f[b] = Volume(h[b]) /\ f[b] \in Nat \ {0} /\ f[b] \in Int
  BY <1>1, CandleFacts
<1>3. Most(h, V) = Max(T)
  <2>1. T = {Volume(h[c]) : c \in V}
    BY <1>2
  <2> QED
    BY <2>1 DEF Most
<1> HIDE DEF V, f
<1>4. (\A b \in V : f[b] <= Max(T)) /\ \E b \in V : Max(T) = f[b]
  <2>1. \A b \in V : f[b] \in Int
    BY <1>2
  <2>2. IsImage(T, f, V)
    BY DEF IsImage
  <2> HIDE DEF T
  <2> QED
    BY <1>1, <2>1, <2>2, ImageNumbers
<1> HIDE DEF T
<1> QED
  BY <1>2, <1>3, <1>4 DEF V

RootSet(n, d, max) ==
  {k \in 1 .. max : \/ (2 * k - 1) * (2 * k - 1) * d < 4 * n
                    \/ ((2 * k - 1) * (2 * k - 1) * d = 4 * n /\ k % 2 = 0)}

LEMMA RootIs ==
  ASSUME NEW n, NEW d, NEW max \in Nat
  PROVE  /\ Numbers({0} \cup RootSet(n, d, max))
         /\ RoundRoot(n, d, max) = Max({0} \cup RootSet(n, d, max))
         /\ RoundRoot(n, d, max) \in 0 .. max
         /\ \A k \in RootSet(n, d, max) : k <= RoundRoot(n, d, max)
         /\ RoundRoot(n, d, max) # 0 => RoundRoot(n, d, max) \in RootSet(n, d, max)
<1> DEFINE S == RootSet(n, d, max)
           T == {0} \cup S
<1>1. S \subseteq 1 .. max
  BY DEF RootSet
<1>2. IsFiniteSet(S)
  BY <1>1, FinitePart
<1>3. RoundRoot(n, d, max) = Max(T)
  BY DEF RoundRoot, RootSet
<1>4. Numbers(T) /\ T # {}
  <2>1. IsFiniteSet(S \cup {0}) /\ S \cup {0} = T
    BY <1>2, FS_AddElement
  <2>2. T \in SUBSET Int
    BY <1>1
  <2> QED
    BY <2>1, <2>2 DEF Numbers
<1> HIDE DEF S
<1>5. Max(T) \in T /\ Max(T) \in Int /\ \A y \in T : Max(T) >= y
  BY <1>4, MaxIs
<1>6. \A y \in S : y <= Max(T)
  <2>1. \A y \in S : y \in T /\ y \in Int
    BY <1>1
  <2> QED
    BY <1>5, <2>1
<1> QED
  BY <1>1, <1>3, <1>4, <1>5, <1>6 DEF S

LEMMA RootGrows ==
  ASSUME NEW n \in Int, NEW m \in Int, n <= m, NEW d \in Nat, NEW max \in Nat
  PROVE  RoundRoot(n, d, max) <= RoundRoot(m, d, max)
<1> DEFINE v == RoundRoot(n, d, max)
           w == RoundRoot(m, d, max)
<1>1. v \in 0 .. max /\ w \in 0 .. max
  BY RootIs
<1>2. CASE v = 0
  BY <1>1, <1>2
<1>3. CASE v # 0
  <2>1. v \in RootSet(n, d, max)
    BY <1>3, RootIs
  <2>2. RootSet(n, d, max) \subseteq RootSet(m, d, max)
    <3> SUFFICES ASSUME NEW k \in RootSet(n, d, max) PROVE k \in RootSet(m, d, max)
      OBVIOUS
    <3> DEFINE z == (2 * k - 1) * (2 * k - 1) * d
    <3>1. k \in 1 .. max /\ (z < 4 * n \/ (z = 4 * n /\ k % 2 = 0))
      BY DEF RootSet
    <3>2. z \in Int
      BY <3>1
    <3>3. z < 4 * m \/ (z = 4 * m /\ k % 2 = 0)
      <4> HIDE DEF z
      <4> QED
        BY <3>1, <3>2
    <3> QED
      BY <3>1, <3>3 DEF RootSet
  <2>3. v \in RootSet(m, d, max)
    BY <2>1, <2>2
  <2> QED
    BY <2>3, RootIs
<1> QED
  BY <1>2, <1>3

LEMMA RootFull ==
  ASSUME NEW d \in Nat \ {0}, NEW full \in Nat \ {0}
  PROVE  RoundRoot(full * full * d, d, full) = full
<1> DEFINE n == full * full * d
<1>1. full \in RootSet(n, d, full)
  <2> DEFINE q == full * full
             z == (2 * full - 1) * (2 * full - 1)
  <2>1. q \in Int /\ z \in Int /\ z = 4 * q - 4 * full + 1
    OBVIOUS
  <2>2. z < 4 * q
    <3> HIDE DEF q, z
    <3> QED
      BY <2>1
  <2>3. z * d < 4 * (q * d)
    <3> HIDE DEF q, z
    <3>1. 4 * q \in Int /\ (4 * q) * d = 4 * (q * d) /\ q * d \in Int /\ z * d \in Int
      BY <2>1
    <3>2. z * d + d <= (4 * q) * d
      BY <2>1, <2>2, <3>1, Product
    <3> DEFINE x == z * d
               y == q * d
    <3>3. x + d <= 4 * y /\ x \in Int /\ y \in Int
      BY <3>1, <3>2
    <3> HIDE DEF x, y
    <3>4. x < 4 * y
      BY <3>3
    <3> QED
      BY <3>4 DEF x, y
  <2>4. n = q * d
    OBVIOUS
  <2> HIDE DEF n, q
  <2> QED
    BY <2>3, <2>4 DEF RootSet
<1> HIDE DEF n
<1>2. RoundRoot(n, d, full) \in 0 .. full /\ full <= RoundRoot(n, d, full)
  BY <1>1, RootIs
<1>3. RoundRoot(n, d, full) = full
  BY <1>2
<1> QED
  BY <1>3 DEF n

LEMMA RoundingExact ==
  ASSUME NEW m \in Int, NEW d \in Nat \ {0}
  PROVE  RoundHalfEven(m * d, d) = m
<1> DEFINE n == m * d
<1>1. n \in Int /\ m * d <= n /\ n < m * d + d
  <2>1. n \in Int
    OBVIOUS
  <2> HIDE DEF n
  <2>2. n <= n /\ n < n + d
    BY <2>1
  <2> QED
    BY <2>1, <2>2 DEF n
<1>2. n \div d = m /\ n % d = n - m * d
  BY <1>1, QuotientIs
<1>3. n % d = 0
  BY <1>1, <1>2
<1> HIDE DEF n
<1>4. RoundHalfEven(n, d) = m
  BY <1>2, <1>3 DEF RoundHalfEven
<1> QED
  BY <1>4 DEF n

LevelsOf(h, columns, rows, b) == BarLevels(h, Visible(h, columns), rows, b)

(* A bar is between one eighth and the pane high, grows with the volume, and *)
(* fills the pane for the largest.                                           *)
LEMMA LevelsAre ==
  ASSUME NEW h, IsChart(h), NEW columns \in Nat \ {0}, NEW rows \in Nat \ {0},
         NEW b \in Visible(h, columns)
  PROVE  /\ LevelsOf(h, columns, rows, b) \in Nat \ {0}
         /\ \A c \in Visible(h, columns) :
              Volume(h[b]) <= Volume(h[c]) =>
                LevelsOf(h, columns, rows, b) <= LevelsOf(h, columns, rows, c)
         /\ Volume(h[b]) = Most(h, Visible(h, columns)) =>
              LevelsOf(h, columns, rows, b) = rows * 8
<1> DEFINE V == Visible(h, columns)
           most == Most(h, V)
           full == rows * 8
           Wide == most > 8 * TwiceMedian(h, V)
           Level(c) == IF Wide THEN RoundRoot(full * full * Volume(h[c]), most, full)
                       ELSE RoundHalfEven(Volume(h[c]) * full, most)
<1>1. most \in Nat \ {0} /\ full \in Nat \ {0} /\ \A c \in V : Volume(h[c]) \in Nat \ {0}
  <2>1. \A c \in V : c \in DOMAIN h
    BY VisibleIs
  <2> QED
    BY <2>1, MostIs, CandleFacts
<1>2. \A c : LevelsOf(h, columns, rows, c) = Max({1, Level(c)})
  BY DEF LevelsOf, BarLevels, Most
<1> HIDE DEF V, most, full, Wide
<1>3. ASSUME NEW c \in V PROVE Level(c) \in Int
  <2>1. CASE Wide
    <3>1. RoundRoot(full * full * Volume(h[c]), most, full) \in 0 .. full
      BY <1>1, RootIs
    <3> QED
      BY <1>1, <2>1, <3>1
  <2>2. CASE ~Wide
    <3>1. Volume(h[c]) * full \in Int
      BY <1>1, <1>3
    <3> QED
      BY <1>1, <2>2, <3>1, Rounding
  <2> QED
    BY <2>1, <2>2
<1>4. ASSUME NEW c \in V, NEW d \in V, Volume(h[c]) <= Volume(h[d]) PROVE Level(c) <= Level(d)
  <2> DEFINE n == Volume(h[c])
             m == Volume(h[d])
  <2>1. n \in Nat /\ m \in Nat /\ n <= m
    BY <1>1, <1>4
  <2> HIDE DEF n, m
  <2>2. CASE Wide
    <3> DEFINE q == full * full
    <3>1. q \in Nat
      BY <1>1
    <3> HIDE DEF q
    <3>2. q * n <= q * m /\ q * n \in Int /\ q * m \in Int
      BY <2>1, <3>1
    <3>3. RoundRoot(q * n, most, full) <= RoundRoot(q * m, most, full)
      BY <1>1, <3>2, RootGrows
    <3> QED
      BY <2>2, <3>3 DEF n, m, q
  <2>3. CASE ~Wide
    <3>1. n * full <= m * full /\ n * full \in Int /\ m * full \in Int
      BY <1>1, <2>1
    <3>2. RoundHalfEven(n * full, most) <= RoundHalfEven(m * full, most)
      BY <1>1, <3>1, RoundingGrows
    <3> QED
      BY <2>3, <3>2 DEF n, m
  <2> QED
    BY <2>2, <2>3
<1>5. ASSUME NEW c \in V, Volume(h[c]) = most PROVE Level(c) = full
  <2>1. CASE Wide
    <3>1. RoundRoot(full * full * most, most, full) = full
      BY <1>1, RootFull
    <3> QED
      BY <1>5, <2>1, <3>1
  <2>2. CASE ~Wide
    <3>1. RoundHalfEven(full * most, most) = full
      BY <1>1, RoundingExact
    <3>2. full * most = most * full
      BY <1>1
    <3> QED
      BY <1>5, <2>2, <3>1, <3>2
  <2> QED
    BY <2>1, <2>2
<1> HIDE DEF Level
<1>6. \A c \in V : LevelsOf(h, columns, rows, c) = IF 1 >= Level(c) THEN 1 ELSE Level(c)
  <2> SUFFICES ASSUME NEW c \in V
               PROVE  LevelsOf(h, columns, rows, c) = IF 1 >= Level(c) THEN 1 ELSE Level(c)
    OBVIOUS
  <2>1. Level(c) \in Int /\ 1 \in Int
    BY <1>3
  <2>2. Max({1, Level(c)}) = IF 1 >= Level(c) THEN 1 ELSE Level(c)
    BY <2>1, Pair
  <2> QED
    BY <1>2, <2>2
<1>7. b \in V
  BY DEF V
<1>8. LevelsOf(h, columns, rows, b) \in Nat \ {0}
  BY <1>3, <1>6, <1>7
<1>9. ASSUME NEW c \in V, Volume(h[b]) <= Volume(h[c])
      PROVE  LevelsOf(h, columns, rows, b) <= LevelsOf(h, columns, rows, c)
  <2>1. Level(b) <= Level(c) /\ Level(b) \in Int /\ Level(c) \in Int
    BY <1>3, <1>4, <1>7, <1>9
  <2> QED
    BY <1>6, <1>7, <2>1
<1>10. Volume(h[b]) = most => LevelsOf(h, columns, rows, b) = full
  <2> SUFFICES ASSUME Volume(h[b]) = most PROVE LevelsOf(h, columns, rows, b) = full
    OBVIOUS
  <2>1. Level(b) = full
    BY <1>5, <1>7
  <2> QED
    BY <1>1, <1>6, <1>7, <2>1
<1> QED
  BY <1>8, <1>9, <1>10 DEF V, most, full

FillOf(levels, row, rows) == Max({0, Min({8, levels - (rows - 1 - row) * 8})})

LEMMA FillIs ==
  ASSUME NEW levels \in Int, NEW rows \in Nat, NEW row \in Int
  PROVE  FillOf(levels, row, rows) = Clamp(levels - (rows - 1 - row) * 8, 8)
         /\ FillOf(levels, row, rows) \in 0 .. 8
<1> DEFINE v == levels - (rows - 1 - row) * 8
<1> PICK n : n = 8
  OBVIOUS
<1>1. v \in Int /\ n \in Nat
  OBVIOUS
<1>2. FillOf(levels, row, rows) = Max({0, Min({n, v})})
  BY DEF FillOf
<1> HIDE DEF v
<1>3. Max({0, Min({n, v})}) = Clamp(v, n)
  BY <1>1, ClampIs
<1>4. Clamp(v, n) \in 0 .. n
  BY <1>1 DEF Clamp
<1> QED
  BY <1>2, <1>3, <1>4 DEF v

IsFilled(w, levels, rows) == w = [r \in 0 .. rows - 1 |-> FillOf(levels, r, rows)]

(* What is filled of a bar adds up to its height, or to that of the pane.    *)
LEMMA HeightIs ==
  ASSUME NEW levels \in Nat, NEW rows \in Nat,
         NEW w, IsFilled(w, levels, rows)
  PROVE  FoldFunction(+, 0, w) = IF levels <= rows * 8 THEN levels ELSE rows * 8
<1> DEFINE T == {m \in Nat : m <= rows =>
                   SetWeight(w, rows - m .. rows - 1) = IF levels <= m * 8 THEN levels ELSE m * 8}
<1>1. FoldFunction(+, 0, w) = SetWeight(w, 0 .. rows - 1)
  <2>1. DOMAIN w = 0 .. rows - 1
    BY DEF IsFilled
  <2>2. FoldFunction(+, 0, w) = SetWeight(w, DOMAIN w)
    BY DEF FoldFunction, FoldFunctionOnSet, SetWeight, MapThenSumSet
  <2> QED
    BY <2>1, <2>2
<1>2. \A r \in 0 .. rows - 1 : w[r] = Clamp(levels - (rows - 1 - r) * 8, 8) /\ w[r] \in Int
  <2> SUFFICES ASSUME NEW r \in 0 .. rows - 1
               PROVE  w[r] = Clamp(levels - (rows - 1 - r) * 8, 8) /\ w[r] \in Int
    OBVIOUS
  <2>1. w[r] = FillOf(levels, r, rows) /\ r \in Int /\ levels \in Int
    BY DEF IsFilled
  <2>2. FillOf(levels, r, rows) = Clamp(levels - (rows - 1 - r) * 8, 8)
    BY <2>1, FillIs
  <2>3. FillOf(levels, r, rows) \in 0 .. 8
    BY <2>1, FillIs
  <2> QED
    BY <2>1, <2>2, <2>3
<1>3. 0 \in T
  <2>1. rows - 0 .. rows - 1 = {}
    OBVIOUS
  <2> QED
    BY <2>1, SetWeightEmpty
<1>4. ASSUME NEW m \in Nat, m \in T PROVE m + 1 \in T
  <2> SUFFICES ASSUME m + 1 <= rows
               PROVE  SetWeight(w, rows - (m + 1) .. rows - 1) =
                        IF levels <= (m + 1) * 8 THEN levels ELSE (m + 1) * 8
    OBVIOUS
  <2> DEFINE e == rows - (m + 1)
             S == e .. rows - 1
  <2>1. e \in S /\ S \ {e} = rows - m .. rows - 1 /\ S \subseteq 0 .. rows - 1 /\ e \in 0 .. rows - 1
    OBVIOUS
  <2>2. Weighs(w, S)
    <3>1. IsFiniteSet(S)
      <4>1. e \in Int /\ rows - 1 \in Int
        OBVIOUS
      <4> HIDE DEF e
      <4> QED
        BY <4>1, FS_Interval
    <3> QED
      BY <1>2, <2>1, <3>1 DEF Weighs
  <2> HIDE DEF S, T
  <2>3. SetWeight(w, S) = SetWeight(w, S \ {e}) + w[e]
    BY <2>1, <2>2, SetWeightRemove
  <2>4. SetWeight(w, S \ {e}) = IF levels <= m * 8 THEN levels ELSE m * 8
    <3>1. SetWeight(w, rows - m .. rows - 1) = IF levels <= m * 8 THEN levels ELSE m * 8
      BY <1>4 DEF T
    <3>2. S \ {e} = rows - m .. rows - 1
      BY <2>1
    <3> QED
      BY <3>1, <3>2
  <2>5. w[e] = Clamp(levels - m * 8, 8)
    <3>1. rows - 1 - e = m
      OBVIOUS
    <3> QED
      BY <1>2, <2>1, <3>1
  <2>6. SetWeight(w, S) = IF levels <= (m + 1) * 8 THEN levels ELSE (m + 1) * 8
    BY <2>3, <2>4, <2>5 DEF Clamp
  <2> QED
    BY <2>6 DEF S
<1>5. Nat \subseteq T
  <2> HIDE DEF T
  <2> QED
    BY <1>3, <1>4, NatSetInduction
<1>6. SetWeight(w, rows - rows .. rows - 1) = IF levels <= rows * 8 THEN levels ELSE rows * 8
  BY <1>5
<1>7. rows - rows = 0
  OBVIOUS
<1> QED
  BY <1>1, <1>6, <1>7

-----------------------------------------------------------------------------
(* The picture of the volume bars.                                           *)
LEMMA ColumnsApart ==
  ASSUME NEW h, IsChart(h), NEW columns \in Nat \ {0}, NEW stride \in Nat \ {0},
         NEW b \in Visible(h, columns), NEW c \in Visible(h, columns), b # c,
         NEW i \in 0 .. stride - 1, NEW j \in 0 .. stride - 1
  PROVE  ColumnOf(h, columns, stride, b) + i # ColumnOf(h, columns, stride, c) + j
<1> DEFINE p == Place(h, columns, b)
           q == Place(h, columns, c)
           x == p * stride
           y == q * stride
<1>1. p \in Int /\ q \in Int /\ p # q
  BY PlaceIs, PlacesDiffer
<1>2. ColumnOf(h, columns, stride, b) = x /\ ColumnOf(h, columns, stride, c) = y
  BY ColumnIs
<1> HIDE DEF p, q
<1>3. x \in Int /\ y \in Int
  BY <1>1
<1>4. (p < q => x + stride <= y) /\ (q < p => y + stride <= x)
  BY <1>1, Product
<1>5. p < q \/ q < p
  BY <1>1
<1> HIDE DEF x, y
<1> QED
  BY <1>2, <1>3, <1>4, <1>5

Pane(rows, width) == (0 .. rows - 1) \X (0 .. width - 1)

BarLayer(h, columns, stride, rows, b) ==
  LET x == ColumnOf(h, columns, stride, b)
      levels == LevelsOf(h, columns, rows, b)
      filled == {row \in 0 .. rows - 1 : FillOf(levels, row, rows) > 0}
  IN [cell \in filled \X {x, x + 1} |-> <<FillOf(levels, cell[1], rows), Tint(h[b])>>]

BarLayers(h, columns, stride, rows) ==
  [b \in Visible(h, columns) |-> BarLayer(h, columns, stride, rows, b)]

NoBars(width, rows) == [cell \in Pane(rows, width) |-> <<0, "none">>]

BarGlyphs == Int \X {"none", "green", "red", "white"}

IsBar(f, x, levels, rows, tint) ==
  /\ DOMAIN f = {row \in 0 .. rows - 1 : FillOf(levels, row, rows) > 0} \X {x, x + 1}
  /\ \A cell \in DOMAIN f : f[cell] = <<FillOf(levels, cell[1], rows), tint>>

LEMMA BarLayerIs ==
  ASSUME NEW h, IsChart(h), NEW columns \in Nat \ {0}, NEW stride \in Nat \ {0}, stride >= 2,
         NEW rows \in Nat \ {0}, NEW b \in Visible(h, columns)
  PROVE  LET f == BarLayers(h, columns, stride, rows)[b]
             x == ColumnOf(h, columns, stride, b)
             levels == LevelsOf(h, columns, rows, b)
         IN /\ Fits(f, Pane(rows, columns * stride), BarGlyphs)
            /\ x \in Nat /\ x + 1 < columns * stride
            /\ levels \in Nat \ {0}
            /\ IsBar(f, x, levels, rows, Tint(h[b]))
<1> DEFINE f == BarLayers(h, columns, stride, rows)[b]
           x == ColumnOf(h, columns, stride, b)
           levels == LevelsOf(h, columns, rows, b)
           filled == {row \in 0 .. rows - 1 : FillOf(levels, row, rows) > 0}
           width == columns * stride
<1>1. f = [cell \in filled \X {x, x + 1} |-> <<FillOf(levels, cell[1], rows), Tint(h[b])>>]
  BY DEF BarLayers, BarLayer
<1>2. x \in Nat /\ x + stride <= width
  BY ColumnIs
<1>3. levels \in Nat \ {0}
  BY LevelsAre
<1>4. width \in Nat
  OBVIOUS
<1> HIDE DEF f, x, levels, width
<1>5. x + 1 < width /\ x \in 0 .. width - 1 /\ x + 1 \in 0 .. width - 1
  BY <1>2, <1>4
<1>6. DOMAIN f = filled \X {x, x + 1} /\ DOMAIN f \subseteq Pane(rows, width)
  BY <1>1, <1>5 DEF Pane
<1>7. \A row \in Int : FillOf(levels, row, rows) \in Int
  <2> SUFFICES ASSUME NEW row \in Int PROVE FillOf(levels, row, rows) \in Int
    OBVIOUS
  <2>1. levels \in Int
    BY <1>3
  <2>2. FillOf(levels, row, rows) \in 0 .. 8
    BY <2>1, FillIs
  <2> QED
    BY <2>2
<1>8. Tint(h[b]) \in {"none", "green", "red", "white"}
  BY DEF Tint
<1>9. \A cell \in DOMAIN f : /\ f[cell] = <<FillOf(levels, cell[1], rows), Tint(h[b])>>
                             /\ f[cell] \in BarGlyphs
  <2> SUFFICES ASSUME NEW cell \in DOMAIN f
               PROVE  /\ f[cell] = <<FillOf(levels, cell[1], rows), Tint(h[b])>>
                      /\ f[cell] \in BarGlyphs
    OBVIOUS
  <2>1. cell[1] \in Int
    BY <1>6
  <2>2. f[cell] = <<FillOf(levels, cell[1], rows), Tint(h[b])>>
    BY <1>1, <1>6
  <2> QED
    BY <1>7, <1>8, <2>1, <2>2 DEF BarGlyphs
<1> QED
  BY <1>2, <1>3, <1>5, <1>6, <1>9 DEF Fits, IsBar, f, x, levels, width

LEMMA BarsArePaint ==
  ASSUME NEW h, IsChart(h), NEW columns \in Nat \ {0}, NEW stride \in Nat \ {0}, stride >= 2,
         NEW rows \in Nat \ {0}
  PROVE  IsPaint(ByTime(h, columns), NoBars(columns * stride, rows),
                 BarLayers(h, columns, stride, rows), Visible(h, columns),
                 Pane(rows, columns * stride), BarGlyphs)
<1> DEFINE V == Visible(h, columns)
           L == BarLayers(h, columns, stride, rows)
           o == ByTime(h, columns)
<1>1. o \in Seq(V) /\ Members(o) = V
  BY ByTimeIs DEF IsOrder
<1>2. NoBars(columns * stride, rows) \in [Pane(rows, columns * stride) -> BarGlyphs]
  BY DEF NoBars, BarGlyphs
<1>3. \A b \in V : Fits(L[b], Pane(rows, columns * stride), BarGlyphs)
  BY BarLayerIs
<1>4. ASSUME NEW b \in V, NEW c \in V, b # c PROVE DOMAIN L[b] \cap DOMAIN L[c] = {}
  <2> DEFINE x == ColumnOf(h, columns, stride, b)
             y == ColumnOf(h, columns, stride, c)
  <2>1. \A cell \in DOMAIN L[b] : cell[2] \in {x, x + 1}
    BY BarLayerIs DEF IsBar
  <2>2. \A cell \in DOMAIN L[c] : cell[2] \in {y, y + 1}
    BY BarLayerIs DEF IsBar
  <2>3. \A i, j \in 0 .. stride - 1 : x + i # y + j
    BY <1>4, ColumnsApart
  <2>4. x \in Nat /\ y \in Nat
    BY BarLayerIs
  <2>5. 0 \in 0 .. stride - 1 /\ 1 \in 0 .. stride - 1
    OBVIOUS
  <2> HIDE DEF x, y, L
  <2>6. x # y /\ x + 1 # y /\ x # y + 1 /\ x + 1 # y + 1
    BY <2>3, <2>4, <2>5
  <2> QED
    BY <2>1, <2>2, <2>6
<1> HIDE DEF L, o, V
<1> QED
  BY <1>1, <1>2, <1>3, <1>4 DEF IsPaint, L, o, V

(* The bars are painted in layers that do not overlap.                       *)
LEMMA VolumePictureIs ==
  ASSUME NEW h, IsChart(h), NEW columns \in Nat \ {0}, NEW stride \in Nat \ {0}, stride >= 2,
         NEW rows \in Nat \ {0}
  PROVE  Painted(VolumePicture(h, columns, stride, rows), NoBars(columns * stride, rows),
                 BarLayers(h, columns, stride, rows), Visible(h, columns),
                 Pane(rows, columns * stride), BarGlyphs)
<1> DEFINE s == ByTime(h, columns)
           V == Visible(h, columns)
           width == columns * stride
           C == Pane(rows, width)
           A == [C -> BarGlyphs]
           base == NoBars(width, rows)
           L == BarLayers(h, columns, stride, rows)
           K == Painter(L, V, A)
           D == DOMAIN s
           Put(grid, b) == Over(BarLayer(h, columns, stride, rows, b), grid)
           F(g) == [t \in SUBSET D |->
                      IF t = {} THEN base ELSE Put(g[t \ {Max(t)}], s[Max(t)])]
           f == CHOOSE g : g = F(g)
<1>1. VolumePicture(h, columns, stride, rows) = f[D]
  BY DEF VolumePicture, FoldLeft, MapThenFoldSet, BarLayer, LevelsOf, FillOf, NoBars, Pane
<1>2. \A g : F(g) = [t \in SUBSET D |-> IF t = {} THEN base ELSE Put(g[t \ {Max(t)}], s[Max(t)])]
  OBVIOUS
<1>3. IsPaint(s, base, L, V, C, BarGlyphs)
  BY BarsArePaint
<1>4. Foldable(s, base, K, A, V) /\ \A a \in A, b \in V : K[a][b] = Over(L[b], a)
  <2>1. Paints(Painter(L, V, [C -> BarGlyphs]), s, base, L, V, [C -> BarGlyphs])
    <3> HIDE DEF s, base, L, V, C
    <3> QED
      BY <1>3, PainterIs
  <2> QED
    BY <2>1 DEF Paints
<1>5. \A a \in A, b \in V : K[a][b] = Put(a, b)
  <2>1. \A b \in V : L[b] = BarLayer(h, columns, stride, rows, b)
    BY DEF BarLayers
  <2> HIDE DEF A, K, L, V
  <2> QED
    BY <1>4, <2>1
<1>6. s \in Seq(V)
  BY ByTimeIs DEF IsOrder
<1>7. \A t \in SUBSET D : t # {} => Max(t) \in D /\ s[Max(t)] \in V
  BY <1>6, LastPlace
<1> HIDE DEF A, K, s, Put, V, base
<1>8. f = F(f)
  <2>1. PICK g : FoldsBy(g, s, base, K, A)
    BY <1>4, FoldWitness
  <2>2. g = [t \in SUBSET D |-> IF t = {} THEN base ELSE K[g[t \ {Max(t)}]][s[Max(t)]]]
    BY <2>1 DEF FoldsBy, Recursion
  <2>3. \A t \in SUBSET D : t # {} =>
          K[g[t \ {Max(t)}]][s[Max(t)]] = Put(g[t \ {Max(t)}], s[Max(t)])
    <3> SUFFICES ASSUME NEW t \in SUBSET D, t # {}
                 PROVE  g[t \ {Max(t)}] \in A
      BY <1>5, <1>7
    <3> QED
      BY <2>1 DEF FoldsBy
  <2>4. g = F(g)
    <3> HIDE DEF F
    <3> QED
      BY <1>2, <2>2, <2>3
  <2> QED
    BY <2>4
<1>9. f = [t \in SUBSET D |-> IF t = {} THEN base ELSE Put(f[t \ {Max(t)}], s[Max(t)])]
  <2> HIDE DEF f, F
  <2> QED
    BY <1>2, <1>8
<1>10. Obeys(f, s, base, K, A)
  <2> HIDE DEF f
  <2>1. ASSUME NEW t \in SUBSET D, t # {}, f[t \ {Max(t)}] \in A
        PROVE  f[t] = K[f[t \ {Max(t)}]][s[Max(t)]]
    <3>1. s[Max(t)] \in V
      BY <1>7, <2>1
    <3>2. f[t] = Put(f[t \ {Max(t)}], s[Max(t)])
      BY <1>9, <2>1
    <3> QED
      BY <1>5, <2>1, <3>1, <3>2
  <2>2. f[{}] = base
    BY <1>9
  <2> QED
    BY <2>1, <2>2 DEF Obeys
<1> HIDE DEF f
<1>11. f[D] = SeqFold(K, base, s)
  BY <1>4, <1>10, SeqFoldIs
<1>12. Painted(SeqFold(K, base, s), base, L, V, C, BarGlyphs)
  <2> HIDE DEF C, L
  <2> QED
    BY <1>3, PaintingIs DEF K, A
<1> QED
  BY <1>1, <1>11, <1>12 DEF base, V

(* A cell of a bar is as full as the height of the bar says.                 *)
LEMMA BarPixel ==
  ASSUME NEW h, IsChart(h), NEW columns \in Nat \ {0}, NEW stride \in Nat \ {0}, stride >= 2,
         NEW rows \in Nat \ {0}, NEW b \in Visible(h, columns), NEW i \in {0, 1},
         NEW r \in 0 .. rows - 1
  PROVE  VolumePicture(h, columns, stride, rows)[<<r, ColumnOf(h, columns, stride, b) + i>>][1] =
           FillOf(LevelsOf(h, columns, rows, b), r, rows)
<1> DEFINE V == Visible(h, columns)
           L == BarLayers(h, columns, stride, rows)
           width == columns * stride
           C == Pane(rows, width)
           p == VolumePicture(h, columns, stride, rows)
           x == ColumnOf(h, columns, stride, b)
           levels == LevelsOf(h, columns, rows, b)
           cell == <<r, x + i>>
           v == FillOf(levels, r, rows)
<1>0. /\ x \in Nat /\ x + 1 < width /\ levels \in Nat \ {0}
      /\ IsBar(L[b], x, levels, rows, Tint(h[b]))
  BY BarLayerIs
<1>1. /\ x \in Nat /\ x + 1 < width /\ levels \in Nat \ {0}
      /\ DOMAIN L[b] = {row \in 0 .. rows - 1 : FillOf(levels, row, rows) > 0} \X {x, x + 1}
      /\ \A y \in DOMAIN L[b] : L[b][y] = <<FillOf(levels, y[1], rows), Tint(h[b])>>
  BY <1>0 DEF IsBar
<1>2. Painted(p, NoBars(width, rows), L, V, C, BarGlyphs)
  BY VolumePictureIs
<1>3. \A c \in V : c # b =>
        \A y \in DOMAIN L[c] : y[2] # x + i
  <2> SUFFICES ASSUME NEW c \in V, c # b, NEW y \in DOMAIN L[c] PROVE y[2] # x + i
    OBVIOUS
  <2> DEFINE z == ColumnOf(h, columns, stride, c)
  <2>1. y[2] \in {z, z + 1} /\ z \in Nat
    BY BarLayerIs DEF IsBar
  <2>2. \A k, j \in 0 .. stride - 1 : x + k # z + j
    BY ColumnsApart
  <2>3. 0 \in 0 .. stride - 1 /\ 1 \in 0 .. stride - 1
    OBVIOUS
  <2> HIDE DEF x, z, L
  <2>4. x + i # z + 0 /\ x + i # z + 1 /\ z + 0 = z
    BY <2>1, <2>2, <2>3
  <2> QED
    BY <2>1, <2>4
<1>4. v \in 0 .. 8
  <2>1. levels \in Int /\ r \in Int
    BY <1>1
  <2> HIDE DEF levels
  <2> QED
    BY <2>1, FillIs
<1>5. width \in Nat
  OBVIOUS
<1> HIDE DEF L, p, x, levels, width, V
<1>6. cell \in C /\ cell[1] = r /\ cell[2] = x + i /\ x + i \in {x, x + 1}
  BY <1>1, <1>5 DEF Pane
<1>7. CASE v > 0
  <2>1. cell \in DOMAIN L[b]
    BY <1>1, <1>6, <1>7
  <2>2. p[cell] = <<v, Tint(h[b])>>
    BY <1>1, <1>2, <1>6, <2>1 DEF Painted, V
  <2> QED
    BY <2>2 DEF p, x, levels
<1>8. CASE ~(v > 0)
  <2>1. cell \notin DOMAIN L[b]
    BY <1>1, <1>8
  <2>2. \A c \in V : cell \notin DOMAIN L[c]
    BY <1>3, <1>6, <2>1
  <2>3. p[cell] = NoBars(width, rows)[cell]
    BY <1>2, <1>6, <2>2 DEF Painted
  <2>4. p[cell] = <<0, "none">>
    BY <1>6, <2>3 DEF NoBars
  <2>5. v = 0
    BY <1>4, <1>8
  <2> QED
    BY <2>4, <2>5 DEF p, x, levels
<1> QED
  BY <1>7, <1>8

(* Every bucket has a bar without a hole, none is taller than that of a      *)
(* larger volume, and that of the largest fills the pane.                    *)
LEMMA BarsAreExact ==
  ASSUME NEW h, IsChart(h), NEW columns \in Nat \ {0}, NEW stride \in Nat \ {0}, stride >= 2,
         NEW rows \in Nat \ {0}
  PROVE  BarsExact(h, columns, stride, rows)
<1> DEFINE V == Visible(h, columns)
           p == VolumePicture(h, columns, stride, rows)
           Cell(b) == ColumnOf(h, columns, stride, b)
           Level(b) == LevelsOf(h, columns, rows, b)
           Height(x) == FoldFunction(+, 0, [r \in 0 .. rows - 1 |-> p[<<r, x>>][1]])
           Least(m) == IF m <= rows * 8 THEN m ELSE rows * 8
<1>1. \A b \in V, r \in 0 .. rows - 1 :
        /\ Cell(b) \in Nat /\ Level(b) \in Nat \ {0}
        /\ p[<<r, Cell(b)>>][1] = FillOf(Level(b), r, rows)
        /\ p[<<r, Cell(b) + 1>>][1] = FillOf(Level(b), r, rows)
  <2> SUFFICES ASSUME NEW b \in V, NEW r \in 0 .. rows - 1
               PROVE  /\ Cell(b) \in Nat /\ Level(b) \in Nat \ {0}
                      /\ p[<<r, Cell(b)>>][1] = FillOf(Level(b), r, rows)
                      /\ p[<<r, Cell(b) + 1>>][1] = FillOf(Level(b), r, rows)
    OBVIOUS
  <2>1. Cell(b) \in Nat /\ Level(b) \in Nat \ {0}
    BY ColumnIs, LevelsAre
  <2>2. 0 \in {0, 1} /\ 1 \in {0, 1}
    OBVIOUS
  <2>3. p[<<r, Cell(b) + 0>>][1] = FillOf(Level(b), r, rows)
    <3>1. \A i \in {0, 1} : p[<<r, Cell(b) + i>>][1] = FillOf(Level(b), r, rows)
      BY BarPixel
    <3> HIDE DEF p, Cell, Level
    <3> QED
      BY <2>2, <3>1
  <2>4. p[<<r, Cell(b) + 1>>][1] = FillOf(Level(b), r, rows)
    BY <2>2, BarPixel
  <2>5. Cell(b) + 0 = Cell(b)
    BY <2>1
  <2> QED
    BY <2>1, <2>3, <2>4, <2>5
<1> HIDE DEF p, Cell, Level, V
<1>2. ASSUME NEW b \in V
      PROVE  /\ Cell(b) \in Nat /\ Level(b) \in Nat \ {0}
             /\ \A r \in 0 .. rows - 1 : p[<<r, Cell(b)>>][1] = FillOf(Level(b), r, rows)
             /\ \A r \in 0 .. rows - 1 : p[<<r, Cell(b) + 1>>][1] = FillOf(Level(b), r, rows)
  <2>1. 0 \in 0 .. rows - 1
    OBVIOUS
  <2> QED
    BY <1>1, <2>1
<1>3. ASSUME NEW b \in V PROVE Height(Cell(b)) = Least(Level(b)) /\ Height(Cell(b) + 1) = Least(Level(b))
  <2> DEFINE w == [r \in 0 .. rows - 1 |-> FillOf(Level(b), r, rows)]
  <2>1. [r \in 0 .. rows - 1 |-> p[<<r, Cell(b)>>][1]] = w
    BY <1>2
  <2>2. [r \in 0 .. rows - 1 |-> p[<<r, Cell(b) + 1>>][1]] = w
    BY <1>2
  <2>3. FoldFunction(+, 0, w) = Least(Level(b))
    <3>1. Level(b) \in Nat /\ rows \in Nat
      BY <1>2
    <3>2. IsFilled(w, Level(b), rows)
      BY DEF IsFilled
    <3> HIDE DEF w
    <3> QED
      BY <3>1, <3>2, HeightIs
  <2> HIDE DEF w
  <2> QED
    BY <2>1, <2>2, <2>3
<1> HIDE DEF Height
<1>4. ASSUME NEW b \in V
      PROVE  /\ Height(Cell(b)) > 0 /\ Height(Cell(b) + 1) = Height(Cell(b))
             /\ \A r \in 1 .. rows - 1 : p[<<r - 1, Cell(b)>>][1] > 0 => p[<<r, Cell(b)>>][1] = 8
             /\ \A c \in V : Volume(h[b]) <= Volume(h[c]) => Height(Cell(b)) <= Height(Cell(c))
             /\ Volume(h[b]) = Max({Volume(h[c]) : c \in V}) => Height(Cell(b)) = rows * 8
  <2>1. Height(Cell(b)) > 0 /\ Height(Cell(b) + 1) = Height(Cell(b))
    BY <1>2, <1>3
  <2>2. ASSUME NEW r \in 1 .. rows - 1, p[<<r - 1, Cell(b)>>][1] > 0 PROVE p[<<r, Cell(b)>>][1] = 8
    <3>1. r - 1 \in 0 .. rows - 1 /\ r \in 0 .. rows - 1 /\ r - 1 \in Int /\ r \in Int
          /\ Level(b) \in Int
      BY <1>2
    <3>2. p[<<r - 1, Cell(b)>>][1] = FillOf(Level(b), r - 1, rows)
          /\ p[<<r, Cell(b)>>][1] = FillOf(Level(b), r, rows)
      BY <1>2, <3>1
    <3>3. FillOf(Level(b), r - 1, rows) = Clamp(Level(b) - (rows - 1 - (r - 1)) * 8, 8)
      BY <3>1, FillIs
    <3>4. FillOf(Level(b), r, rows) = Clamp(Level(b) - (rows - 1 - r) * 8, 8)
      BY <3>1, FillIs
    <3>5. (rows - 1 - (r - 1)) * 8 = (rows - 1 - r) * 8 + 8
      OBVIOUS
    <3> QED
      BY <2>2, <3>1, <3>2, <3>3, <3>4, <3>5 DEF Clamp
  <2>3. ASSUME NEW c \in V, Volume(h[b]) <= Volume(h[c]) PROVE Height(Cell(b)) <= Height(Cell(c))
    <3>1. Level(b) <= Level(c)
      BY <2>3, LevelsAre DEF Level, V
    <3>2. Level(b) \in Nat /\ Level(c) \in Nat
      BY <1>2
    <3> QED
      BY <1>3, <3>1, <3>2
  <2>4. ASSUME Volume(h[b]) = Max({Volume(h[c]) : c \in V}) PROVE Height(Cell(b)) = rows * 8
    <3>1. Level(b) = rows * 8
      BY <2>4, LevelsAre DEF Level, V, Most
    <3> QED
      BY <1>3, <3>1
  <2> QED
    BY <2>1, <2>2, <2>3, <2>4
<1> QED
  BY <1>4 DEF BarsExact, V, p, Cell, Height

-----------------------------------------------------------------------------
(* The picture of the candles.                                               *)
LEMMA OverOver ==
  ASSUME NEW f, NEW g, NEW a
  PROVE  Over(f, Over(g, a)) = Over(Over(f, g), a)
<1> DEFINE D == DOMAIN f \cup DOMAIN g \cup DOMAIN a
           F(x) == IF x \in DOMAIN f THEN f[x] ELSE IF x \in DOMAIN g THEN g[x] ELSE a[x]
<1>1. Over(f, Over(g, a)) = [x \in D |-> F(x)]
  <2>1. /\ DOMAIN Over(g, a) = DOMAIN g \cup DOMAIN a
        /\ \A x \in DOMAIN g \cup DOMAIN a : Over(g, a)[x] = IF x \in DOMAIN g THEN g[x] ELSE a[x]
    BY DEF Over
  <2> PICK q : q = Over(g, a)
    OBVIOUS
  <2>2. Over(f, q) = [x \in DOMAIN f \cup DOMAIN q |-> IF x \in DOMAIN f THEN f[x] ELSE q[x]]
    BY DEF Over
  <2> QED
    BY <2>1, <2>2
<1>2. Over(Over(f, g), a) = [x \in D |-> F(x)]
  <2>1. /\ DOMAIN Over(f, g) = DOMAIN f \cup DOMAIN g
        /\ \A x \in DOMAIN f \cup DOMAIN g : Over(f, g)[x] = IF x \in DOMAIN f THEN f[x] ELSE g[x]
    BY DEF Over
  <2> PICK q : q = Over(f, g)
    OBVIOUS
  <2>2. Over(q, a) = [x \in DOMAIN q \cup DOMAIN a |-> IF x \in DOMAIN q THEN q[x] ELSE a[x]]
    BY DEF Over
  <2> QED
    BY <2>1, <2>2
<1> QED
  BY <1>1, <1>2

HalfRow(scale, rows, price) == Position(scale, price, rows * 2)
TopOf(c, scale, rows) == HalfRow(scale, rows, Max({c.open, c.close}))
BottomOf(c, scale, rows) == HalfRow(scale, rows, Min({c.open, c.close}))
BodyRows(c, scale, rows) == TopOf(c, scale, rows) \div 2 .. BottomOf(c, scale, rows) \div 2
WickRows(c, scale, rows) == HalfRow(scale, rows, c.high) \div 2 .. HalfRow(scale, rows, c.low) \div 2
IsThin(c, scale, rows) ==
  c.open = c.close \/ TopOf(c, scale, rows) \div 2 = BottomOf(c, scale, rows) \div 2

Ink(c, scale, rows, row) ==
  IF IsThin(c, scale, rows) THEN "thin"
  ELSE Glyph(TopOf(c, scale, rows), BottomOf(c, scale, rows), row)

Body(c, x, scale, rows) ==
  IF IsThin(c, scale, rows)
  THEN [cell \in {TopOf(c, scale, rows) \div 2} \X {x, x + 1} |-> "thin"]
  ELSE [cell \in BodyRows(c, scale, rows) \X {x, x + 1} |->
          Glyph(TopOf(c, scale, rows), BottomOf(c, scale, rows), cell[1])]

Wick(c, x, scale, rows) == [cell \in WickRows(c, scale, rows) \X {x + 1} |-> "wick"]

CandleLayer(c, x, scale, rows) == Over(Body(c, x, scale, rows), Wick(c, x, scale, rows))

LEMMA DrawIs ==
  ASSUME NEW a, NEW c, NEW x, NEW scale, NEW rows
  PROVE  DrawCandle(a, c, x, scale, rows) = Over(CandleLayer(c, x, scale, rows), a)
<1>1. DrawCandle(a, c, x, scale, rows) = Over(Body(c, x, scale, rows), Over(Wick(c, x, scale, rows), a))
  BY DEF DrawCandle, Body, Wick, IsThin, BodyRows, WickRows, TopOf, BottomOf, HalfRow
<1> QED
  BY <1>1, OverOver DEF CandleLayer

IsCandle(c) ==
  /\ c.open \in Nat /\ c.high \in Nat /\ c.low \in Nat /\ c.close \in Nat
  /\ c.low <= c.open /\ c.low <= c.close /\ c.open <= c.high /\ c.close <= c.high

(* The half rows of a candle lie in the order of its prices.                 *)
LEMMA HalfRowsAre ==
  ASSUME NEW c, IsCandle(c), NEW scale, IsScale(scale), NEW rows \in Nat \ {0}
  PROVE  LET high == HalfRow(scale, rows, c.high)
             top == TopOf(c, scale, rows)
             bottom == BottomOf(c, scale, rows)
             low == HalfRow(scale, rows, c.low)
         IN /\ high \in 0 .. rows * 2 - 1 /\ top \in 0 .. rows * 2 - 1
            /\ bottom \in 0 .. rows * 2 - 1 /\ low \in 0 .. rows * 2 - 1
            /\ high <= top /\ top <= bottom /\ bottom <= low
            /\ c.open = c.close => top = bottom
<1> DEFINE u == Max({c.open, c.close})
           d == Min({c.open, c.close})
           n == rows * 2
<1>1. /\ u \in Int /\ d \in Int /\ d <= u /\ c.low <= d /\ u <= c.high
      /\ c.low \in Int /\ c.high \in Int /\ (c.open = c.close => u = d)
  <2>1. c.open \in Int /\ c.close \in Int
    BY DEF IsCandle
  <2>2. /\ u = IF c.open >= c.close THEN c.open ELSE c.close
        /\ d = IF c.open <= c.close THEN c.open ELSE c.close
    BY <2>1, Pair
  <2> HIDE DEF u, d
  <2> QED
    BY <2>1, <2>2 DEF IsCandle
<1>2. n \in Nat \ {0}
  OBVIOUS
<1> HIDE DEF u, d, n
<1>3. \A price \in Int : Position(scale, price, n) \in 0 .. n - 1
  BY <1>2, PositionBounds
<1>4. \A p, q \in Int : p <= q => Position(scale, q, n) <= Position(scale, p, n)
  BY <1>2, PositionFalls
<1> QED
  BY <1>1, <1>3, <1>4 DEF HalfRow, TopOf, BottomOf, u, d, n

CandleGlyphs == Background \cup {"wick", "thin", "full", "upper", "lower"}

ShowsCandle(f, c, x, scale, rows) ==
  /\ DOMAIN f = (BodyRows(c, scale, rows) \X {x, x + 1}) \cup (WickRows(c, scale, rows) \X {x + 1})
  /\ \A cell \in DOMAIN f :
       f[cell] = IF cell[1] \in BodyRows(c, scale, rows) THEN Ink(c, scale, rows, cell[1]) ELSE "wick"

LEMMA RowsOfCandle ==
  ASSUME NEW c, IsCandle(c), NEW scale, IsScale(scale), NEW rows \in Nat \ {0}
  PROVE  /\ BodyRows(c, scale, rows) \subseteq WickRows(c, scale, rows)
         /\ WickRows(c, scale, rows) \subseteq 0 .. rows - 1
         /\ TopOf(c, scale, rows) \div 2 \in BodyRows(c, scale, rows)
         /\ IsThin(c, scale, rows) => BodyRows(c, scale, rows) = {TopOf(c, scale, rows) \div 2}
<1> DEFINE high == HalfRow(scale, rows, c.high)
           top == TopOf(c, scale, rows)
           bottom == BottomOf(c, scale, rows)
           low == HalfRow(scale, rows, c.low)
<1>1. /\ high \in 0 .. rows * 2 - 1 /\ top \in 0 .. rows * 2 - 1
      /\ bottom \in 0 .. rows * 2 - 1 /\ low \in 0 .. rows * 2 - 1
      /\ high <= top /\ top <= bottom /\ bottom <= low
      /\ c.open = c.close => top = bottom
  BY HalfRowsAre
<1> HIDE DEF high, top, bottom, low
<1>2. /\ high \div 2 <= top \div 2 /\ top \div 2 <= bottom \div 2 /\ bottom \div 2 <= low \div 2
      /\ high \div 2 \in 0 .. rows - 1 /\ low \div 2 \in 0 .. rows - 1
      /\ top \div 2 \in Int /\ bottom \div 2 \in Int
  BY <1>1
<1> DEFINE r == top \div 2
           s == bottom \div 2
           a == high \div 2
           b == low \div 2
<1>3. /\ a <= r /\ r <= s /\ s <= b /\ a \in 0 .. rows - 1 /\ b \in 0 .. rows - 1
      /\ r \in Int /\ s \in Int /\ (c.open = c.close => r = s)
  BY <1>1, <1>2
<1>4. /\ BodyRows(c, scale, rows) = r .. s /\ WickRows(c, scale, rows) = a .. b
      /\ IsThin(c, scale, rows) <=> (c.open = c.close \/ r = s)
  BY DEF BodyRows, WickRows, IsThin, top, bottom, high, low
<1> HIDE DEF r, s, a, b
<1>5. r .. s \subseteq a .. b /\ a .. b \subseteq 0 .. rows - 1 /\ r \in r .. s
  BY <1>3
<1>6. r = s => r .. s = {r}
  BY <1>3
<1>7. r = TopOf(c, scale, rows) \div 2
  BY DEF r, top
<1> QED
  BY <1>3, <1>4, <1>5, <1>6, <1>7

LEMMA CandleLayerIs ==
  ASSUME NEW c, IsCandle(c), NEW scale, IsScale(scale), NEW rows \in Nat \ {0}, NEW x \in Nat
  PROVE  ShowsCandle(CandleLayer(c, x, scale, rows), c, x, scale, rows)
<1> DEFINE body == Body(c, x, scale, rows)
           wick == Wick(c, x, scale, rows)
           R == BodyRows(c, scale, rows)
           W == WickRows(c, scale, rows)
<1>1. DOMAIN body = R \X {x, x + 1}
  BY RowsOfCandle DEF Body
<1>2. \A cell \in R \X {x, x + 1} : body[cell] = Ink(c, scale, rows, cell[1])
  BY RowsOfCandle DEF Body, Ink
<1>3. wick = [cell \in W \X {x + 1} |-> "wick"]
  BY DEF Wick
<1>4. CandleLayer(c, x, scale, rows) =
        [cell \in DOMAIN body \cup DOMAIN wick |-> IF cell \in DOMAIN body THEN body[cell] ELSE wick[cell]]
  BY DEF CandleLayer, Over
<1> HIDE DEF body, wick, R, W
<1>5. DOMAIN wick = W \X {x + 1} /\ \A cell \in W \X {x + 1} : wick[cell] = "wick"
  BY <1>3
<1>6. \A cell \in W \X {x + 1} : cell \in R \X {x, x + 1} <=> cell[1] \in R
  OBVIOUS
<1>7. \A cell \in R \X {x, x + 1} : cell[1] \in R
  OBVIOUS
<1> DEFINE f == CandleLayer(c, x, scale, rows)
<1>8. DOMAIN f = (R \X {x, x + 1}) \cup (W \X {x + 1})
  BY <1>1, <1>4, <1>5
<1>9. ASSUME NEW cell \in DOMAIN f
      PROVE  f[cell] = IF cell[1] \in R THEN Ink(c, scale, rows, cell[1]) ELSE "wick"
  <2>1. f[cell] = IF cell \in R \X {x, x + 1} THEN body[cell] ELSE wick[cell]
    BY <1>1, <1>4, <1>5, <1>8
  <2>2. CASE cell \in R \X {x, x + 1}
    BY <1>2, <1>7, <2>1, <2>2
  <2>3. CASE cell \notin R \X {x, x + 1}
    BY <1>5, <1>6, <1>8, <2>1, <2>3
  <2> QED
    BY <2>2, <2>3
<1> HIDE DEF f
<1> QED
  BY <1>8, <1>9 DEF ShowsCandle, f, R, W

LEMMA InkIs ==
  ASSUME NEW c, NEW scale, NEW rows, NEW row
  PROVE  /\ Ink(c, scale, rows, row) \in {"thin", "full", "upper", "lower"}
         /\ Ink(c, scale, rows, row) \notin Background /\ "wick" \notin Background
BY DEF Ink, Glyph, Background

CandleLayers(h, columns, scale, rows) ==
  [b \in Visible(h, columns) |->
     CandleLayer(h[b], ColumnOf(h, columns, 3, b), scale, rows)]

LEMMA CandleAt ==
  ASSUME NEW h, IsChart(h), NEW columns \in Nat \ {0}, NEW b \in Visible(h, columns),
         NEW scale, IsScale(scale), NEW rows \in Nat \ {0}
  PROVE  LET x == ColumnOf(h, columns, 3, b)
         IN /\ IsCandle(h[b]) /\ x \in Nat /\ x + 2 < columns * 3
            /\ ShowsCandle(CandleLayers(h, columns, scale, rows)[b], h[b], x, scale, rows)
<1> DEFINE x == ColumnOf(h, columns, 3, b)
<1>1. x \in Nat /\ x + 3 <= columns * 3
  <2> PICK stride \in Nat \ {0} : stride = 3
    OBVIOUS
  <2>1. ColumnOf(h, columns, stride, b) \in Nat
        /\ ColumnOf(h, columns, stride, b) + stride <= columns * stride
    BY ColumnIs
  <2> QED
    BY <2>1
<1>2. IsCandle(h[b])
  <2>1. b \in DOMAIN h
    BY VisibleIs
  <2> QED
    BY <2>1, CandleFacts DEF IsCandle
<1>3. CandleLayers(h, columns, scale, rows)[b] = CandleLayer(h[b], x, scale, rows)
  BY DEF CandleLayers
<1> HIDE DEF x
<1>4. ShowsCandle(CandleLayer(h[b], x, scale, rows), h[b], x, scale, rows)
  <2> PICK c : c = h[b]
    OBVIOUS
  <2>1. ShowsCandle(CandleLayer(c, x, scale, rows), c, x, scale, rows)
    BY <1>1, <1>2, CandleLayerIs
  <2> QED
    BY <2>1
<1> QED
  BY <1>1, <1>2, <1>3, <1>4 DEF x

(* The columns of two candles differ.                                        *)
LEMMA CandlesApart ==
  ASSUME NEW h, IsChart(h), NEW columns \in Nat \ {0},
         NEW b \in Visible(h, columns), NEW c \in Visible(h, columns), b # c
  PROVE  \A i, j \in {0, 1, 2} : ColumnOf(h, columns, 3, b) + i # ColumnOf(h, columns, 3, c) + j
<1> PICK stride \in Nat \ {0} : stride = 3
  OBVIOUS
<1>1. \A i, j \in 0 .. stride - 1 :
        ColumnOf(h, columns, stride, b) + i # ColumnOf(h, columns, stride, c) + j
  BY ColumnsApart
<1>2. {0, 1, 2} = 0 .. stride - 1
  OBVIOUS
<1> QED
  BY <1>1, <1>2

LEMMA CandlesArePaint ==
  ASSUME NEW h, IsChart(h), NEW columns \in Nat \ {0}, NEW scale, IsScale(scale),
         NEW rows \in Nat \ {0}, NEW guide
  PROVE  IsPaint(ByTime(h, columns), Blank(guide, rows, columns * 3),
                 CandleLayers(h, columns, scale, rows), Visible(h, columns),
                 Pane(rows, columns * 3), CandleGlyphs)
<1> DEFINE V == Visible(h, columns)
           L == CandleLayers(h, columns, scale, rows)
           o == ByTime(h, columns)
           C == Pane(rows, columns * 3)
<1>1. o \in Seq(V) /\ Members(o) = V
  BY ByTimeIs DEF IsOrder
<1>2. Blank(guide, rows, columns * 3) \in [C -> CandleGlyphs]
  BY DEF Blank, CandleGlyphs, Background, Pane
<1>3. ASSUME NEW b \in V PROVE Fits(L[b], C, CandleGlyphs)
  <2> DEFINE x == ColumnOf(h, columns, 3, b)
             c == h[b]
             R == BodyRows(c, scale, rows)
             W == WickRows(c, scale, rows)
  <2>1. x \in Nat /\ x + 2 < columns * 3 /\ ShowsCandle(L[b], c, x, scale, rows) /\ IsCandle(c)
    BY CandleAt
  <2>2. R \subseteq W /\ W \subseteq 0 .. rows - 1
    BY <2>1, RowsOfCandle
  <2>3. /\ DOMAIN L[b] = (R \X {x, x + 1}) \cup (W \X {x + 1})
        /\ \A cell \in DOMAIN L[b] :
             L[b][cell] = IF cell[1] \in R THEN Ink(c, scale, rows, cell[1]) ELSE "wick"
    BY <2>1 DEF ShowsCandle
  <2> HIDE DEF x, c, R, W, L
  <2>4. x \in 0 .. columns * 3 - 1 /\ x + 1 \in 0 .. columns * 3 - 1
    BY <2>1
  <2>5. DOMAIN L[b] \subseteq C
    BY <2>2, <2>3, <2>4 DEF Pane
  <2>6. \A cell \in DOMAIN L[b] : L[b][cell] \in CandleGlyphs
    BY <2>3, InkIs DEF CandleGlyphs
  <2> QED
    BY <2>5, <2>6 DEF Fits
<1>4. ASSUME NEW b \in V, NEW c \in V, b # c PROVE DOMAIN L[b] \cap DOMAIN L[c] = {}
  <2> DEFINE x == ColumnOf(h, columns, 3, b)
             y == ColumnOf(h, columns, 3, c)
  <2>1. x \in Nat /\ \A cell \in DOMAIN L[b] : cell[2] \in {x, x + 1}
    BY CandleAt DEF ShowsCandle
  <2>2. y \in Nat /\ \A cell \in DOMAIN L[c] : cell[2] \in {y, y + 1}
    BY CandleAt DEF ShowsCandle
  <2>3. \A i, j \in {0, 1, 2} : x + i # y + j
    BY <1>4, CandlesApart
  <2> HIDE DEF x, y, L
  <2>4. x # y /\ x + 1 # y /\ x # y + 1 /\ x + 1 # y + 1
    BY <2>1, <2>2, <2>3
  <2> QED
    BY <2>1, <2>2, <2>4
<1> HIDE DEF L, o, V, C
<1> QED
  BY <1>1, <1>2, <1>3, <1>4 DEF IsPaint, L, o, V, C

(* The guide of the picture of the candles.                                  *)
CandleGuide(h, columns, rows) ==
  GuideRow(CandleScale(h, columns), LastClose(h), rows, 2)

(* The candles are painted in layers that do not overlap.                    *)
LEMMA CandlePictureIs ==
  ASSUME NEW h, IsChart(h), NEW columns \in Nat \ {0}, NEW rows \in Nat \ {0},
         IsScale(CandleScale(h, columns))
  PROVE  Painted(CandlePicture(h, columns, rows),
                 Blank(CandleGuide(h, columns, rows), rows, columns * 3),
                 CandleLayers(h, columns, CandleScale(h, columns), rows), Visible(h, columns),
                 Pane(rows, columns * 3), CandleGlyphs)
<1> DEFINE scale == CandleScale(h, columns)
           s == ByTime(h, columns)
           V == Visible(h, columns)
           width == columns * 3
           C == Pane(rows, width)
           A == [C -> CandleGlyphs]
           base == Blank(CandleGuide(h, columns, rows), rows, width)
           L == CandleLayers(h, columns, scale, rows)
           K == Painter(L, V, A)
           D == DOMAIN s
           Put(grid, b) == DrawCandle(grid, h[b], ColumnOf(h, columns, 3, b), scale, rows)
           F(g) == [t \in SUBSET D |->
                      IF t = {} THEN base ELSE Put(g[t \ {Max(t)}], s[Max(t)])]
           f == CHOOSE g : g = F(g)
<1>1. CandlePicture(h, columns, rows) = f[D]
  BY DEF CandlePicture, FoldLeft, MapThenFoldSet, CandleGuide
<1>2. \A g : F(g) = [t \in SUBSET D |-> IF t = {} THEN base ELSE Put(g[t \ {Max(t)}], s[Max(t)])]
  OBVIOUS
<1>3. IsPaint(s, base, L, V, C, CandleGlyphs)
  <2> PICK guide : guide = CandleGuide(h, columns, rows)
    OBVIOUS
  <2> HIDE DEF scale
  <2>1. IsPaint(s, Blank(guide, rows, width), L, V, C, CandleGlyphs)
    <3>1. IsScale(scale)
      BY DEF scale
    <3> QED
      BY <3>1, CandlesArePaint
  <2> QED
    BY <2>1
<1>4. Foldable(s, base, K, A, V) /\ \A a \in A, b \in V : K[a][b] = Over(L[b], a)
  <2>1. Paints(Painter(L, V, [C -> CandleGlyphs]), s, base, L, V, [C -> CandleGlyphs])
    <3> HIDE DEF s, base, L, V, C
    <3> QED
      BY <1>3, PainterIs
  <2> QED
    BY <2>1 DEF Paints
<1>5. \A a \in A, b \in V : K[a][b] = Put(a, b)
  <2>1. \A b \in V : L[b] = CandleLayer(h[b], ColumnOf(h, columns, 3, b), scale, rows)
    BY DEF CandleLayers
  <2> HIDE DEF A, K, L, V, scale
  <2>2. \A a, b : Put(a, b) = Over(CandleLayer(h[b], ColumnOf(h, columns, 3, b), scale, rows), a)
    BY DrawIs
  <2> HIDE DEF Put
  <2> QED
    BY <1>4, <2>1, <2>2
<1>6. s \in Seq(V)
  BY ByTimeIs DEF IsOrder
<1>7. \A t \in SUBSET D : t # {} => Max(t) \in D /\ s[Max(t)] \in V
  BY <1>6, LastPlace
<1> HIDE DEF A, K, s, Put, V, base, scale
<1>8. f = F(f)
  <2>1. PICK g : FoldsBy(g, s, base, K, A)
    BY <1>4, FoldWitness
  <2>2. g = [t \in SUBSET D |-> IF t = {} THEN base ELSE K[g[t \ {Max(t)}]][s[Max(t)]]]
    BY <2>1 DEF FoldsBy, Recursion
  <2>3. \A t \in SUBSET D : t # {} =>
          K[g[t \ {Max(t)}]][s[Max(t)]] = Put(g[t \ {Max(t)}], s[Max(t)])
    <3> SUFFICES ASSUME NEW t \in SUBSET D, t # {}
                 PROVE  g[t \ {Max(t)}] \in A
      BY <1>5, <1>7
    <3> QED
      BY <2>1 DEF FoldsBy
  <2>4. g = F(g)
    <3> HIDE DEF F
    <3> QED
      BY <1>2, <2>2, <2>3
  <2> QED
    BY <2>4
<1>9. f = [t \in SUBSET D |-> IF t = {} THEN base ELSE Put(f[t \ {Max(t)}], s[Max(t)])]
  <2> HIDE DEF f, F
  <2> QED
    BY <1>2, <1>8
<1>10. Obeys(f, s, base, K, A)
  <2> HIDE DEF f
  <2>1. ASSUME NEW t \in SUBSET D, t # {}, f[t \ {Max(t)}] \in A
        PROVE  f[t] = K[f[t \ {Max(t)}]][s[Max(t)]]
    <3>1. s[Max(t)] \in V
      BY <1>7, <2>1
    <3>2. f[t] = Put(f[t \ {Max(t)}], s[Max(t)])
      BY <1>9, <2>1
    <3> QED
      BY <1>5, <2>1, <3>1, <3>2
  <2>2. f[{}] = base
    BY <1>9
  <2> QED
    BY <2>1, <2>2 DEF Obeys
<1> HIDE DEF f
<1>11. f[D] = SeqFold(K, base, s)
  BY <1>4, <1>10, SeqFoldIs
<1>12. Painted(SeqFold(K, base, s), base, L, V, C, CandleGlyphs)
  <2> HIDE DEF C, L
  <2> QED
    BY <1>3, PaintingIs DEF K, A
<1> QED
  BY <1>1, <1>11, <1>12 DEF base, V, scale

(* What the three columns of a candle show.                                  *)
LEMMA CandlePixels ==
  ASSUME NEW h, IsChart(h), NEW columns \in Nat \ {0}, NEW rows \in Nat \ {0},
         NEW scale, scale = CandleScale(h, columns), IsScale(scale),
         NEW b \in Visible(h, columns), NEW r \in 0 .. rows - 1
  PROVE  LET p == CandlePicture(h, columns, rows)
             x == ColumnOf(h, columns, 3, b)
             R == BodyRows(h[b], scale, rows)
             W == WickRows(h[b], scale, rows)
             ink == Ink(h[b], scale, rows, r)
         IN /\ IF r \in R THEN p[<<r, x>>] = ink ELSE p[<<r, x>>] \in Background
            /\ IF r \in R THEN p[<<r, x + 1>>] = ink
               ELSE IF r \in W THEN p[<<r, x + 1>>] = "wick" ELSE p[<<r, x + 1>>] \in Background
            /\ p[<<r, x + 2>>] \in Background
<1> DEFINE V == Visible(h, columns)
           L == CandleLayers(h, columns, scale, rows)
           width == columns * 3
           C == Pane(rows, width)
           base == Blank(CandleGuide(h, columns, rows), rows, width)
           p == CandlePicture(h, columns, rows)
           x == ColumnOf(h, columns, 3, b)
           c == h[b]
           R == BodyRows(c, scale, rows)
           W == WickRows(c, scale, rows)
           ink == Ink(c, scale, rows, r)
<1>1. x \in Nat /\ x + 2 < width /\ ShowsCandle(L[b], c, x, scale, rows) /\ IsCandle(c)
  BY CandleAt
<1>2. /\ DOMAIN L[b] = (R \X {x, x + 1}) \cup (W \X {x + 1})
      /\ \A y \in DOMAIN L[b] : L[b][y] = IF y[1] \in R THEN Ink(c, scale, rows, y[1]) ELSE "wick"
  BY <1>1 DEF ShowsCandle
<1>3. R \subseteq W
  BY <1>1, RowsOfCandle
<1>4. Painted(p, base, L, V, C, CandleGlyphs)
  BY CandlePictureIs
<1>5. \A y \in C : base[y] \in Background
  BY DEF Blank, Background, Pane
<1>6. \A d \in V : d # b => \A y \in DOMAIN L[d] : y[2] # x /\ y[2] # x + 1 /\ y[2] # x + 2
  <2> SUFFICES ASSUME NEW d \in V, d # b, NEW y \in DOMAIN L[d]
               PROVE  y[2] # x /\ y[2] # x + 1 /\ y[2] # x + 2
    OBVIOUS
  <2> DEFINE z == ColumnOf(h, columns, 3, d)
  <2>1. y[2] \in {z, z + 1} /\ z \in Nat
    BY CandleAt DEF ShowsCandle
  <2>2. \A i, j \in {0, 1, 2} : x + i # z + j
    BY CandlesApart
  <2> HIDE DEF x, z, L
  <2> QED
    BY <1>1, <2>1, <2>2
<1>7. width \in Nat
  OBVIOUS
<1> HIDE DEF L, p, x, c, width, V, R, W, base
<1>8. ASSUME NEW i \in {0, 1, 2}
      PROVE  /\ <<r, x + i>> \in DOMAIN L[b] => p[<<r, x + i>>] = L[b][<<r, x + i>>]
             /\ <<r, x + i>> \notin DOMAIN L[b] => p[<<r, x + i>>] \in Background
  <2> DEFINE cell == <<r, x + i>>
  <2>1. cell \in C /\ cell[2] = x + i
    BY <1>1, <1>7 DEF Pane
  <2>2. b \in V
    BY DEF V
  <2> HIDE DEF C
  <2>3. cell \in DOMAIN L[b] => p[cell] = L[b][cell]
    BY <1>4, <2>2 DEF Painted
  <2>4. ASSUME cell \notin DOMAIN L[b] PROVE p[cell] \in Background
    <3>1. \A d \in V : cell \notin DOMAIN L[d]
      <4> SUFFICES ASSUME NEW d \in V, cell \in DOMAIN L[d], d # b PROVE FALSE
        BY <2>4
      <4>1. cell[2] # x /\ cell[2] # x + 1 /\ cell[2] # x + 2
        BY <1>6
      <4> QED
        BY <1>1, <2>1, <4>1
    <3>2. p[cell] = base[cell]
      BY <1>4, <2>1, <3>1 DEF Painted
    <3> QED
      BY <1>5, <2>1, <3>2
  <2> QED
    BY <2>3, <2>4
<1>9. x # x + 1 /\ x + 2 # x /\ x + 2 # x + 1 /\ x + 0 = x
  BY <1>1
<1>10. <<r, x>> \in DOMAIN L[b] <=> r \in R
  BY <1>2, <1>9
<1>11. <<r, x + 1>> \in DOMAIN L[b] <=> r \in W
  BY <1>2, <1>3, <1>9
<1>12. <<r, x + 2>> \notin DOMAIN L[b]
  BY <1>2, <1>9
<1>13. \A y : <<r, y>>[1] = r
  OBVIOUS
<1>14. IF r \in R THEN p[<<r, x>>] = ink ELSE p[<<r, x>>] \in Background
  <2>1. 0 \in {0, 1, 2}
    OBVIOUS
  <2>2. /\ <<r, x>> \in DOMAIN L[b] => p[<<r, x>>] = L[b][<<r, x>>]
        /\ <<r, x>> \notin DOMAIN L[b] => p[<<r, x>>] \in Background
    BY <1>8, <1>9, <2>1
  <2> QED
    BY <1>2, <1>10, <1>13, <2>2
<1>15. IF r \in R THEN p[<<r, x + 1>>] = ink
       ELSE IF r \in W THEN p[<<r, x + 1>>] = "wick" ELSE p[<<r, x + 1>>] \in Background
  <2>1. 1 \in {0, 1, 2}
    OBVIOUS
  <2>2. /\ <<r, x + 1>> \in DOMAIN L[b] => p[<<r, x + 1>>] = L[b][<<r, x + 1>>]
        /\ <<r, x + 1>> \notin DOMAIN L[b] => p[<<r, x + 1>>] \in Background
    BY <1>8, <2>1
  <2> QED
    BY <1>2, <1>3, <1>11, <1>13, <2>2
<1>16. p[<<r, x + 2>>] \in Background
  <2>1. 2 \in {0, 1, 2}
    OBVIOUS
  <2> QED
    BY <1>8, <1>12, <2>1
<1> QED
  BY <1>14, <1>15, <1>16 DEF p, x, c, R, W

(* The half rows that are filled of the rows in U and D.                     *)
HalvesOf(U, D) == {2 * r : r \in U} \cup {2 * r + 1 : r \in D}

UpperRows(c, scale, rows) ==
  {q \in BodyRows(c, scale, rows) : Ink(c, scale, rows, q) \in {"full", "upper"}}
LowerRows(c, scale, rows) ==
  {q \in BodyRows(c, scale, rows) : Ink(c, scale, rows, q) \in {"full", "lower"}}

(* The half rows that a body paints are those between open and close, in both*)
(* of its columns.                                                           *)
LEMMA HalvesAre ==
  ASSUME NEW c, IsCandle(c), NEW scale, IsScale(scale), NEW rows \in Nat \ {0}
  PROVE  LET top == TopOf(c, scale, rows)
             bottom == BottomOf(c, scale, rows)
             halves == HalvesOf(UpperRows(c, scale, rows), LowerRows(c, scale, rows))
         IN /\ top .. bottom # {}
            /\ halves = IF IsThin(c, scale, rows) THEN {} ELSE top .. bottom
<1> DEFINE top == TopOf(c, scale, rows)
           bottom == BottomOf(c, scale, rows)
           R == BodyRows(c, scale, rows)
           U == UpperRows(c, scale, rows)
           D == LowerRows(c, scale, rows)
           Thin == IsThin(c, scale, rows)
<1>1. top \in Nat /\ bottom \in Nat /\ top <= bottom
  <2>1. /\ top \in 0 .. rows * 2 - 1 /\ bottom \in 0 .. rows * 2 - 1 /\ top <= bottom
    BY HalfRowsAre
  <2> QED
    BY <2>1
<1>2. R = top \div 2 .. bottom \div 2 /\ (top \div 2 = bottom \div 2 => Thin)
  BY DEF BodyRows, IsThin
<1>3. CASE Thin
  <2>1. U = {} /\ D = {}
    BY <1>3 DEF UpperRows, LowerRows, Ink
  <2> QED
    BY <1>1, <1>3, <2>1 DEF HalvesOf
<1>4. CASE ~Thin
  <2>1. \A q : Ink(c, scale, rows, q) = Glyph(top, bottom, q)
    BY <1>4 DEF Ink
  <2> HIDE DEF top, bottom, R, Thin
  <2>2. top \div 2 < bottom \div 2
    BY <1>1, <1>2, <1>4
  <2>3. ASSUME NEW q \in R
        PROVE  /\ q \in Int
               /\ Glyph(top, bottom, q) \in {"full", "upper"} <=> top <= q * 2 /\ q * 2 <= bottom
               /\ Glyph(top, bottom, q) \in {"full", "lower"} <=> top <= q * 2 + 1 /\ q * 2 + 1 <= bottom
    <3>1. q \in Int /\ top \div 2 <= q /\ q <= bottom \div 2
      BY <1>1, <1>2
    <3>2. q * 2 <= bottom /\ top <= q * 2 + 1
      BY <1>1, <3>1
    <3>3. ~(top <= q * 2) => q * 2 + 1 <= bottom
      BY <1>1, <2>2, <3>1
    <3> QED
      BY <3>1, <3>2, <3>3 DEF Glyph
  <2>4. /\ U = {q \in R : top <= q * 2 /\ q * 2 <= bottom}
        /\ D = {q \in R : top <= q * 2 + 1 /\ q * 2 + 1 <= bottom}
    BY <2>1, <2>3 DEF UpperRows, LowerRows, R
  <2> HIDE DEF U, D
  <2>5. ASSUME NEW n \in HalvesOf(U, D) PROVE n \in top .. bottom
    <3>1. (\E r \in U : n = 2 * r) \/ (\E r \in D : n = 2 * r + 1)
      BY DEF HalvesOf
    <3> QED
      BY <1>1, <2>3, <2>4, <3>1
  <2>6. ASSUME NEW n \in top .. bottom PROVE n \in HalvesOf(U, D)
    <3> DEFINE q == n \div 2
    <3>1. n \in Int /\ q \in R
      BY <1>1, <1>2
    <3>2. n = 2 * q \/ n = 2 * q + 1
      BY <3>1
    <3>3. q \in Int
      BY <3>1, <2>3
    <3> HIDE DEF q
    <3>4. CASE n = 2 * q
      <4>1. q \in U
        BY <1>1, <2>4, <3>1, <3>3, <3>4
      <4> QED
        BY <3>4, <4>1 DEF HalvesOf
    <3>5. CASE n = 2 * q + 1
      <4>1. q \in D
        BY <1>1, <2>4, <3>1, <3>3, <3>5
      <4> QED
        BY <3>5, <4>1 DEF HalvesOf
    <3> QED
      BY <3>2, <3>4, <3>5
  <2>7. HalvesOf(U, D) = top .. bottom
    BY <2>5, <2>6
  <2>8. top .. bottom # {}
    BY <1>1
  <2> QED
    BY <1>4, <2>7, <2>8 DEF U, D, top, bottom, Thin
<1> QED
  BY <1>3, <1>4

LEMMA CandleScaleIs ==
  ASSUME NEW h, IsChart(h), NEW columns \in Nat \ {0}
  PROVE  IsScale(CandleScale(h, columns)) /\ LastClose(h) \in Int
<1> DEFINE V == Visible(h, columns)
           f == [b \in V |-> {h[b].high, h[b].low}]
           S == {f[b] : b \in V}
           prices == UNION S
<1>1. IsFiniteSet(V) /\ V # {} /\ V \subseteq DOMAIN h
  BY VisibleIs DEF Numbers
<1>2. \A b \in V : f[b] = {h[b].high, h[b].low} /\ Numbers(f[b]) /\ f[b] # {}
  <2> SUFFICES ASSUME NEW b \in V
               PROVE  f[b] = {h[b].high, h[b].low} /\ Numbers(f[b]) /\ f[b] # {}
    OBVIOUS
  <2>1. h[b].high \in Int /\ h[b].low \in Int
    BY <1>1, CandleFacts
  <2>2. Numbers({h[b].high, h[b].low})
    BY <2>1, Pair
  <2> QED
    BY <2>2
<1>3. LastClose(h) \in Int
  <2>1. Max(DOMAIN h) \in DOMAIN h
    BY ChartFacts
  <2> QED
    BY <2>1, CandleFacts DEF LastClose
<1>4. CandleScale(h, columns) = Scale(prices, LastClose(h))
  <2>1. S = {{h[b].high, h[b].low} : b \in V}
    BY <1>2
  <2> QED
    BY <2>1 DEF CandleScale
<1> HIDE DEF V, f
<1>5. IsFiniteSet(S)
  <2>1. IsImage(S, f, V)
    BY DEF IsImage
  <2> QED
    BY <1>1, <2>1, ImageFinite
<1>6. Numbers(prices) /\ prices # {}
  <2>1. \A T \in S : IsFiniteSet(T) /\ T \subseteq Int
    BY <1>2 DEF Numbers
  <2>2. PICK b : b \in V
    BY <1>1
  <2>3. f[b] \in S /\ f[b] # {}
    BY <1>2, <2>2
  <2> HIDE DEF S
  <2>4. IsFiniteSet(prices)
    BY <1>5, <2>1, FS_UNION
  <2>5. prices \subseteq Int
    BY <2>1
  <2> QED
    BY <2>3, <2>4, <2>5 DEF Numbers
<1> HIDE DEF prices
<1>7. IsScale(Scale(prices, LastClose(h)))
  <2> PICK last \in Int : last = LastClose(h)
    BY <1>3
  <2> QED
    BY <1>6, ScaleIs
<1> QED
  BY <1>3, <1>4, <1>7

LEMMA LineScaleIs ==
  ASSUME NEW h, IsChart(h), NEW columns \in Nat \ {0}
  PROVE  IsScale(LineScale(h, columns))
<1> DEFINE V == Visible(h, columns)
           f == [b \in V |-> h[b].close]
           prices == {f[b] : b \in V}
<1>1. IsFiniteSet(V) /\ V # {} /\ V \subseteq DOMAIN h
  BY VisibleIs DEF Numbers
<1>2. \A b \in V : f[b] = h[b].close /\ f[b] \in Int
  BY <1>1, CandleFacts
<1>3. LineScale(h, columns) = Scale(prices, LastClose(h))
  <2>1. prices = {h[b].close : b \in V}
    BY <1>2
  <2> QED
    BY <2>1 DEF LineScale
<1> HIDE DEF V, f
<1>4. Numbers(prices) /\ prices # {}
  <2>1. IsImage(prices, f, V)
    BY DEF IsImage
  <2>2. \A b \in V : f[b] \in Int
    BY <1>2
  <2> HIDE DEF prices
  <2> QED
    BY <1>1, <2>1, <2>2, ImageNumbers
<1> HIDE DEF prices
<1>5. IsScale(Scale(prices, LastClose(h)))
  <2> PICK last \in Int : last = LastClose(h)
    BY CandleScaleIs
  <2> QED
    BY <1>4, ScaleIs
<1> QED
  BY <1>3, <1>5

(* Every candle shows its body and its wick, and the column beside it is the *)
(* background's.                                                             *)
LEMMA BodiesAreExact ==
  ASSUME NEW h, IsChart(h), NEW columns \in Nat \ {0}, NEW rows \in Nat \ {0}
  PROVE  BodiesExact(h, columns, rows)
<1> DEFINE p == CandlePicture(h, columns, rows)
           scale == CandleScale(h, columns)
           V == Visible(h, columns)
           Cell(b) == ColumnOf(h, columns, 3, b)
           Halves(x) == {2 * r : r \in {q \in 0 .. rows - 1 : p[<<q, x>>] \in {"full", "upper"}}}
              \cup {2 * r + 1 : r \in {q \in 0 .. rows - 1 : p[<<q, x>>] \in {"full", "lower"}}}
<1>1. IsScale(scale)
  BY CandleScaleIs
<1>2. DOMAIN p = (0 .. rows - 1) \X (0 .. columns * 3 - 1)
  <2>1. p \in [Pane(rows, columns * 3) -> CandleGlyphs]
    BY <1>1, CandlePictureIs DEF Painted
  <2> QED
    BY <2>1 DEF Pane
<1>3. ASSUME NEW b \in V
      PROVE  LET c == h[b]
                 x == Cell(b)
                 body == TopOf(c, scale, rows) .. BottomOf(c, scale, rows)
             IN /\ Halves(x) \in {{}, body} /\ Halves(x + 1) = Halves(x)
                /\ Halves(x) = {} => \E r \in 0 .. rows - 1 : p[<<r, x>>] = "thin"
                /\ \A r \in 0 .. rows - 1 :
                     /\ p[<<r, x + 2>>] \in Background
                     /\ p[<<r, x + 1>>] \notin Background <=> r \in WickRows(c, scale, rows)
  <2> DEFINE c == h[b]
             x == Cell(b)
             R == BodyRows(c, scale, rows)
             W == WickRows(c, scale, rows)
             U == UpperRows(c, scale, rows)
             D == LowerRows(c, scale, rows)
             top == TopOf(c, scale, rows)
             bottom == BottomOf(c, scale, rows)
             Thin == IsThin(c, scale, rows)
  <2>1. IsCandle(c)
    BY <1>1, CandleAt
  <2>2. /\ R \subseteq W /\ W \subseteq 0 .. rows - 1 /\ top \div 2 \in R
    BY <1>1, <2>1, RowsOfCandle
  <2>3. ASSUME NEW r \in 0 .. rows - 1
        PROVE  /\ IF r \in R THEN p[<<r, x>>] = Ink(c, scale, rows, r)
                  ELSE p[<<r, x>>] \in Background
               /\ IF r \in R THEN p[<<r, x + 1>>] = Ink(c, scale, rows, r)
                  ELSE IF r \in W THEN p[<<r, x + 1>>] = "wick"
                  ELSE p[<<r, x + 1>>] \in Background
               /\ p[<<r, x + 2>>] \in Background
    BY <1>1, CandlePixels
  <2>4. top .. bottom # {} /\ HalvesOf(U, D) = IF Thin THEN {} ELSE top .. bottom
    BY <1>1, <2>1, HalvesAre
  <2>5. /\ U = {q \in R : Ink(c, scale, rows, q) \in {"full", "upper"}}
        /\ D = {q \in R : Ink(c, scale, rows, q) \in {"full", "lower"}}
    BY DEF UpperRows, LowerRows
  <2>6. Thin => Ink(c, scale, rows, top \div 2) = "thin"
    BY DEF Ink
  <2> HIDE DEF p, c, x, R, W, U, D, scale, top, bottom, Thin
  <2>7. /\ {q \in 0 .. rows - 1 : p[<<q, x>>] \in {"full", "upper"}} = U
        /\ {q \in 0 .. rows - 1 : p[<<q, x>>] \in {"full", "lower"}} = D
    BY <2>2, <2>3, <2>5 DEF Background
  <2>8. /\ {q \in 0 .. rows - 1 : p[<<q, x + 1>>] \in {"full", "upper"}} = U
        /\ {q \in 0 .. rows - 1 : p[<<q, x + 1>>] \in {"full", "lower"}} = D
    BY <2>2, <2>3, <2>5 DEF Background
  <2>9. Halves(x) = HalvesOf(U, D) /\ Halves(x + 1) = HalvesOf(U, D)
    BY <2>7, <2>8 DEF HalvesOf
  <2> HIDE DEF Halves
  <2>10. Halves(x) \in {{}, top .. bottom} /\ Halves(x + 1) = Halves(x)
    BY <2>4, <2>9
  <2>11. ASSUME Halves(x) = {} PROVE \E r \in 0 .. rows - 1 : p[<<r, x>>] = "thin"
    <3>1. Thin
      BY <2>4, <2>9, <2>11
    <3>2. top \div 2 \in 0 .. rows - 1 /\ p[<<top \div 2, x>>] = "thin"
      BY <2>2, <2>3, <2>6, <3>1
    <3> QED
      BY <3>2
  <2>12. ASSUME NEW r \in 0 .. rows - 1
         PROVE  /\ p[<<r, x + 2>>] \in Background
                /\ p[<<r, x + 1>>] \notin Background <=> r \in W
    BY <2>2, <2>3, InkIs
  <2> QED
    BY <2>10, <2>11, <2>12 DEF c, x, W, top, bottom
<1> HIDE DEF p, scale, Halves
<1> QED
  BY <1>2, <1>3 DEF BodiesExact, p, scale, Halves, TopOf, BottomOf, WickRows, HalfRow

-----------------------------------------------------------------------------
(* The dots between two buckets beside each other, which are four dots       *)
(* apart: i dots to the right and j dots up or down of the first.            *)
Longer(a) == IF a <= 4 THEN 4 ELSE a

Slip(a, i, j) == 4 * j - a * i

Near(a, i, j) ==
  /\ i \in 0 .. 4 /\ j \in 0 .. a
  /\ 2 * Slip(a, i, j) <= Longer(a) /\ 2 * Slip(a, i, j) + Longer(a) >= 0

Reached(a, i, j) == IF a <= 4 THEN i ELSE j

Rightward(e, a) == 2 * e >= -a
Downward(e) == 2 * e <= 4

(* Where the dot is at most half a dot off and the end is not reached, a step*)
(* of the algorithm takes it one further in the longer direction and leaves  *)
(* it at most half a dot off.                                                *)
LEMMA NearStep ==
  ASSUME NEW a \in Nat, NEW i, NEW j, Near(a, i, j), Reached(a, i, j) < Longer(a),
         NEW e, e = Slip(a, i, j) + 4 - a,
         NEW i2, i2 = IF Rightward(e, a) THEN i + 1 ELSE i,
         NEW j2, j2 = IF Downward(e) THEN j + 1 ELSE j
  PROVE  /\ Near(a, i2, j2) /\ Reached(a, i2, j2) = Reached(a, i, j) + 1
         /\ e \in Int
         /\ e + (IF Rightward(e, a) THEN -a ELSE 0) + (IF Downward(e) THEN 4 ELSE 0)
              = Slip(a, i2, j2) + 4 - a
<1> DEFINE z == a * i
           y == a * i2
<1>1. i \in 0 .. 4 /\ j \in 0 .. a
  BY DEF Near
<1>2. /\ z \in Int /\ 0 <= z /\ z <= 4 * a /\ (i <= 3 => z <= 3 * a) /\ (i = 4 => z = 4 * a)
      /\ a * (i + 1) = z + a
  BY <1>1
<1>3. y = IF Rightward(e, a) THEN z + a ELSE z
  BY <1>2
<1>4. Slip(a, i, j) = 4 * j - z /\ Slip(a, i2, j2) = 4 * j2 - y
  BY DEF Slip
<1> HIDE DEF z, y
<1>5. /\ 2 * (4 * j - z) <= Longer(a) /\ 2 * (4 * j - z) + Longer(a) >= 0
      /\ e = 4 * j - z + 4 - a /\ e \in Int
  BY <1>1, <1>2, <1>4 DEF Near
<1>6. CASE a <= 4
  <2>1. Longer(a) = 4 /\ Reached(a, i, j) = i /\ Reached(a, i2, j2) = i2
    BY <1>6 DEF Longer, Reached
  <2>2. Rightward(e, a) /\ i2 = i + 1 /\ i <= 3 /\ y = z + a
    BY <1>1, <1>2, <1>3, <1>5, <1>6, <2>1 DEF Rightward
  <2>3. CASE Downward(e)
    <3>1. j2 = j + 1 /\ j2 \in 0 .. a
      BY <1>1, <1>2, <1>5, <2>1, <2>2, <2>3 DEF Downward
    <3>2. /\ 2 * (4 * j2 - y) <= 4 /\ 2 * (4 * j2 - y) + 4 >= 0
      BY <1>1, <1>2, <1>5, <1>6, <2>1, <2>2, <2>3, <3>1 DEF Downward
    <3> QED
      BY <1>1, <1>2, <1>4, <1>5, <2>1, <2>2, <2>3, <3>1, <3>2 DEF Near
  <2>4. CASE ~Downward(e)
    <3>1. j2 = j
      BY <2>4
    <3>2. /\ 2 * (4 * j2 - y) <= 4 /\ 2 * (4 * j2 - y) + 4 >= 0
      BY <1>1, <1>2, <1>5, <1>6, <2>1, <2>2, <2>4, <3>1 DEF Downward
    <3> QED
      BY <1>1, <1>2, <1>4, <1>5, <2>1, <2>2, <2>4, <3>1, <3>2 DEF Near
  <2> QED
    BY <2>3, <2>4
<1>7. CASE a > 4
  <2>1. Longer(a) = a /\ Reached(a, i, j) = j /\ Reached(a, i2, j2) = j2
    BY <1>7 DEF Longer, Reached
  <2>2. Downward(e) /\ j2 = j + 1 /\ j < a
    BY <1>1, <1>2, <1>5, <1>7, <2>1 DEF Downward
  <2>3. CASE Rightward(e, a)
    <3>1. i2 = i + 1 /\ i2 \in 0 .. 4 /\ y = z + a
      BY <1>1, <1>2, <1>3, <1>5, <1>7, <2>1, <2>2, <2>3 DEF Rightward
    <3>2. /\ 2 * (4 * j2 - y) <= a /\ 2 * (4 * j2 - y) + a >= 0
      BY <1>1, <1>2, <1>5, <1>7, <2>1, <2>2, <2>3, <3>1 DEF Rightward
    <3> QED
      BY <1>1, <1>2, <1>4, <1>5, <2>1, <2>2, <2>3, <3>1, <3>2 DEF Near
  <2>4. CASE ~Rightward(e, a)
    <3>1. i2 = i /\ y = z
      BY <1>3, <2>4
    <3>2. /\ 2 * (4 * j2 - y) <= a /\ 2 * (4 * j2 - y) + a >= 0
      BY <1>1, <1>2, <1>5, <1>7, <2>1, <2>2, <2>4, <3>1 DEF Rightward
    <3> QED
      BY <1>1, <1>2, <1>4, <1>5, <2>1, <2>2, <2>4, <3>1, <3>2 DEF Near
  <2> QED
    BY <2>3, <2>4
<1> QED
  BY <1>6, <1>7

(* The end is where the longer direction has been gone, and only there.      *)
LEMMA NearEnd ==
  ASSUME NEW a \in Nat, NEW i, NEW j, Near(a, i, j)
  PROVE  /\ Reached(a, i, j) \in 0 .. Longer(a)
         /\ Reached(a, i, j) = Longer(a) <=> i = 4 /\ j = a
<1> DEFINE z == a * i
<1>1. i \in 0 .. 4 /\ j \in 0 .. a
  BY DEF Near
<1>2. z \in Int /\ 0 <= z /\ z <= 4 * a /\ (i <= 3 => z <= 3 * a) /\ (i = 4 => z = 4 * a)
  BY <1>1
<1>3. Slip(a, i, j) = 4 * j - z
  BY DEF Slip
<1> HIDE DEF z
<1>4. 2 * (4 * j - z) <= Longer(a) /\ 2 * (4 * j - z) + Longer(a) >= 0
  BY <1>3 DEF Near
<1> QED
  BY <1>1, <1>2, <1>4 DEF Longer, Reached

-----------------------------------------------------------------------------
Along(y, sign, j) == IF sign = 1 THEN y + j ELSE y - j

Plotted(s, x0, y0, x1, y1) ==
  LET dx == Abs(x1 - x0)
      dy == -Abs(y1 - y0)
      right == 2 * s.error >= dy
      down == 2 * s.error <= dx
      x == IF right THEN s.x + Sign(x0, x1) ELSE s.x
      y == IF down THEN s.y + Sign(y0, y1) ELSE s.y
  IN IF s.x = x1 /\ s.y = y1 THEN s
     ELSE [x |-> x, y |-> y, dots |-> s.dots \cup {<<x, y>>},
           error |-> s.error + (IF right THEN dy ELSE 0) + (IF down THEN dx ELSE 0)]

Pens == [x : Int, y : Int, dots : SUBSET (Int \X Int), error : Int]

Plotter(x0, y0, x1, y1) == [s \in Pens |-> [n \in Int |-> Plotted(s, x0, y0, x1, y1)]]

FirstDot(x0, y0, x1, y1) ==
  [x |-> x0, y |-> y0, error |-> Abs(x1 - x0) + -Abs(y1 - y0), dots |-> {<<x0, y0>>}]

OnLine(d, x, y, sign, a, m) ==
  \E i \in 0 .. 4, j \in 0 .. a :
    Near(a, i, j) /\ Reached(a, i, j) <= m /\ d = <<x + i, Along(y, sign, j)>>

PenAt(s, x, y, sign, a, i, j) ==
  /\ s \in Pens /\ Near(a, i, j)
  /\ s.x = x + i /\ s.y = Along(y, sign, j) /\ s.error = Slip(a, i, j) + 4 - a
  /\ <<s.x, s.y>> \in s.dots /\ <<x, y>> \in s.dots
  /\ IsFiniteSet(s.dots) /\ Cardinality(s.dots) = Reached(a, i, j) + 1
  /\ \A d \in s.dots : OnLine(d, x, y, sign, a, Reached(a, i, j))

Moves(t, s, a, sign) ==
  /\ t.x = IF Rightward(s.error, a) THEN s.x + 1 ELSE s.x
  /\ t.y = IF Downward(s.error) THEN s.y + sign ELSE s.y
  /\ t.dots = s.dots \cup {<<t.x, t.y>>}
  /\ t.error = s.error + (IF Rightward(s.error, a) THEN -a ELSE 0)
                 + (IF Downward(s.error) THEN 4 ELSE 0)

(* The way from <<x, y>> to <<u, v>>.                                        *)
IsWay(x, y, u, v, sign, a) ==
  /\ x \in Int /\ y \in Int /\ v \in Int
  /\ u = x + 4 /\ a = Abs(v - y) /\ sign = Sign(y, v)

LEMMA SlopeIs ==
  ASSUME NEW x, NEW y, NEW u, NEW v, NEW sign, NEW a, IsWay(x, y, u, v, sign, a)
  PROVE  /\ a \in Nat /\ v = Along(y, sign, a) /\ sign \in {1, -1}
         /\ Abs(u - x) = 4 /\ Sign(x, u) = 1 /\ u \in Int
         /\ x \in Int /\ y \in Int /\ v \in Int /\ u = x + 4
         /\ a = Abs(v - y) /\ sign = Sign(y, v)
BY DEF IsWay, Abs, Sign, Along

LEMMA PlottedRests ==
  ASSUME NEW x, NEW y, NEW u, NEW v, NEW s, s.x = u, s.y = v
  PROVE  Plotted(s, x, y, u, v) = s
BY DEF Plotted

LEMMA PlottedMoves ==
  ASSUME NEW x, NEW y, NEW u, NEW v, NEW sign, NEW a, IsWay(x, y, u, v, sign, a), NEW s \in Pens, ~(s.x = u /\ s.y = v)
  PROVE  /\ Plotted(s, x, y, u, v) \in Pens
         /\ Moves(Plotted(s, x, y, u, v), s, a, sign)
<1> DEFINE t == Plotted(s, x, y, u, v)
           e == s.error
           p == IF Rightward(e, a) THEN s.x + 1 ELSE s.x
           w == IF Downward(e) THEN s.y + sign ELSE s.y
           f == e + (IF Rightward(e, a) THEN -a ELSE 0) + (IF Downward(e) THEN 4 ELSE 0)
<1>1. a \in Nat /\ sign \in {1, -1} /\ a = Abs(v - y) /\ sign = Sign(y, v)
  BY SlopeIs
<1>2. Abs(u - x) = 4 /\ Sign(x, u) = 1
  BY SlopeIs
<1>3. s.x \in Int /\ s.y \in Int /\ s.dots \in SUBSET (Int \X Int) /\ e \in Int
  BY DEF Pens
<1>4. t = [x |-> p, y |-> w, dots |-> s.dots \cup {<<p, w>>}, error |-> f]
  <2> PICK four : four = Abs(u - x)
    OBVIOUS
  <2> PICK one : one = Sign(x, u)
    OBVIOUS
  <2>1. four = 4 /\ one = 1
    BY <1>2
  <2>2. t = [x |-> IF 2 * e >= -a THEN s.x + one ELSE s.x,
             y |-> IF 2 * e <= four THEN s.y + sign ELSE s.y,
             dots |-> s.dots \cup {<<IF 2 * e >= -a THEN s.x + one ELSE s.x,
                                     IF 2 * e <= four THEN s.y + sign ELSE s.y>>},
             error |-> e + (IF 2 * e >= -a THEN -a ELSE 0) + (IF 2 * e <= four THEN four ELSE 0)]
    BY <1>1 DEF Plotted
  <2> HIDE DEF t, e
  <2> QED
    BY <2>1, <2>2 DEF Rightward, Downward
<1>5. p \in Int /\ w \in Int /\ f \in Int
  <2> HIDE DEF e
  <2> QED
    BY <1>1, <1>3
<1> HIDE DEF p, w, f, t
<1>6. s.dots \cup {<<p, w>>} \in SUBSET (Int \X Int)
  BY <1>3, <1>5
<1>7. t \in Pens
  BY <1>4, <1>5, <1>6 DEF Pens
<1>8. t.x = p /\ t.y = w /\ t.dots = s.dots \cup {<<p, w>>} /\ t.error = f
  BY <1>4
<1>9. Moves(t, s, a, sign)
  BY <1>8 DEF Moves, p, w, f
<1> QED
  BY <1>7, <1>9 DEF t

LEMMA AlongIs ==
  ASSUME NEW y \in Int, NEW sign \in {1, -1}, NEW j \in Int
  PROVE  /\ Along(y, sign, j) \in Int /\ Along(y, sign, 0) = y
         /\ Along(y, sign, j + 1) = Along(y, sign, j) + sign
         /\ \A k \in Int : Along(y, sign, j) = Along(y, sign, k) => j = k
BY DEF Along

(* A round before the end adds one dot, a new one, on the line.              *)
LEMMA PenStep ==
  ASSUME NEW x, NEW y, NEW u, NEW v, NEW sign, NEW a, IsWay(x, y, u, v, sign, a),
         NEW s, NEW i, NEW j, PenAt(s, x, y, sign, a, i, j),
         Reached(a, i, j) < Longer(a)
  PROVE  \E i2, j2 : /\ PenAt(Plotted(s, x, y, u, v), x, y, sign, a, i2, j2)
                     /\ Reached(a, i2, j2) = Reached(a, i, j) + 1
<1> DEFINE t == Plotted(s, x, y, u, v)
           e == s.error
           i2 == IF Rightward(e, a) THEN i + 1 ELSE i
           j2 == IF Downward(e) THEN j + 1 ELSE j
           m == Reached(a, i, j)
<1>1. /\ s \in Pens /\ Near(a, i, j) /\ s.x = x + i /\ s.y = Along(y, sign, j)
      /\ e = Slip(a, i, j) + 4 - a /\ <<s.x, s.y>> \in s.dots /\ <<x, y>> \in s.dots
      /\ IsFiniteSet(s.dots) /\ Cardinality(s.dots) = m + 1
      /\ \A d \in s.dots : OnLine(d, x, y, sign, a, m)
  BY DEF PenAt
<1>2. /\ a \in Nat /\ sign \in {1, -1} /\ v = Along(y, sign, a)
      /\ x \in Int /\ y \in Int /\ u = x + 4
  BY SlopeIs
<1>3. i \in 0 .. 4 /\ j \in 0 .. a
  BY <1>1 DEF Near
<1> HIDE DEF i2, j2
<1>4. /\ Near(a, i2, j2) /\ Reached(a, i2, j2) = m + 1 /\ e \in Int
      /\ e + (IF Rightward(e, a) THEN -a ELSE 0) + (IF Downward(e) THEN 4 ELSE 0)
           = Slip(a, i2, j2) + 4 - a
  BY <1>1, <1>2, NearStep DEF i2, j2
<1>5. i2 \in 0 .. 4 /\ j2 \in 0 .. a
  BY <1>4 DEF Near
<1>6. m \in Int /\ m < Longer(a)
  BY <1>1, <1>2, NearEnd
<1>7. ~(s.x = u /\ s.y = v)
  <2> SUFFICES ASSUME s.x = u, s.y = v PROVE FALSE
    OBVIOUS
  <2>0. x + i = u /\ Along(y, sign, j) = v
    BY <1>1
  <2>1. i = 4
    BY <1>2, <1>3, <2>0
  <2>2. j = a
    <3>1. j \in Int /\ a \in Int /\ Along(y, sign, j) = Along(y, sign, a)
      BY <1>2, <1>3, <2>0
    <3> QED
      BY <1>2, <3>1 DEF Along
  <2>3. m = Longer(a)
    BY <1>1, <1>2, <2>1, <2>2, NearEnd
  <2> QED
    BY <1>6, <2>3
<1>20. t \in Pens /\ Moves(t, s, a, sign)
  BY <1>1, <1>7, PlottedMoves
<1> HIDE DEF t, m
<1>8. /\ t.x = IF Rightward(e, a) THEN s.x + 1 ELSE s.x
      /\ t.y = IF Downward(e) THEN s.y + sign ELSE s.y
      /\ t.dots = s.dots \cup {<<t.x, t.y>>}
      /\ t.error = e + (IF Rightward(e, a) THEN -a ELSE 0) + (IF Downward(e) THEN 4 ELSE 0)
  BY <1>20 DEF Moves
<1> HIDE DEF e
<1>9. t.x = x + i2
  BY <1>1, <1>2, <1>3, <1>8 DEF i2
<1>10. t.y = Along(y, sign, j2)
  <2>1. Along(y, sign, j + 1) = Along(y, sign, j) + sign
    BY <1>2, <1>3 DEF Along
  <2> QED
    BY <1>1, <1>8, <2>1 DEF j2
<1> DEFINE dot == <<x + i2, Along(y, sign, j2)>>
<1>11. t.dots = s.dots \cup {dot}
  BY <1>8, <1>9, <1>10
<1>12. dot \notin s.dots
  <2> SUFFICES ASSUME dot \in s.dots PROVE FALSE
    OBVIOUS
  <2>1. PICK k \in 0 .. 4, n \in 0 .. a :
          Reached(a, k, n) <= m /\ dot = <<x + k, Along(y, sign, n)>>
    BY <1>1 DEF OnLine
  <2>2. x + i2 = x + k /\ Along(y, sign, j2) = Along(y, sign, n)
    BY <2>1
  <2>3. k = i2
    BY <1>2, <1>5, <2>2
  <2>4. n = j2
    <3>1. n \in Int /\ j2 \in Int
      BY <1>2, <1>5
    <3> QED
      BY <1>2, <2>2, <3>1 DEF Along
  <2> QED
    BY <1>4, <1>6, <2>1, <2>3, <2>4
<1> HIDE DEF dot
<1>13. IsFiniteSet(t.dots) /\ Cardinality(t.dots) = m + 1 + 1
  <2>1. IsFiniteSet(s.dots \cup {dot}) /\ Cardinality(s.dots \cup {dot}) = Cardinality(s.dots) + 1
    BY <1>1, <1>12, FS_AddElement
  <2> QED
    BY <1>1, <1>11, <2>1
<1>14. ASSUME NEW d \in t.dots PROVE OnLine(d, x, y, sign, a, m + 1)
  <2>1. CASE d \in s.dots
    <3>1. PICK k \in 0 .. 4, n \in 0 .. a :
            Near(a, k, n) /\ Reached(a, k, n) <= m /\ d = <<x + k, Along(y, sign, n)>>
      BY <1>1, <2>1 DEF OnLine
    <3>2. Reached(a, k, n) \in Int
      BY <1>2, <3>1 DEF Reached
    <3>3. Reached(a, k, n) <= m + 1
      BY <1>6, <3>1, <3>2
    <3> QED
      BY <3>1, <3>3 DEF OnLine
  <2>2. CASE d = dot
    <3>1. Reached(a, i2, j2) <= m + 1
      BY <1>4, <1>6
    <3> QED
      BY <1>4, <1>5, <2>2, <3>1 DEF OnLine, dot
  <2> QED
    BY <1>11, <2>1, <2>2
<1>15. <<t.x, t.y>> \in t.dots /\ <<x, y>> \in t.dots
  BY <1>1, <1>8
<1>16. PenAt(t, x, y, sign, a, i2, j2)
  BY <1>4, <1>8, <1>9, <1>10, <1>13, <1>14, <1>15, <1>20 DEF PenAt
<1> QED
  BY <1>4, <1>16 DEF t, m

(* At the end a round changes nothing.                                       *)
LEMMA PenRests ==
  ASSUME NEW x, NEW y, NEW u, NEW v, NEW sign, NEW a, IsWay(x, y, u, v, sign, a),
         NEW s, NEW i, NEW j, PenAt(s, x, y, sign, a, i, j),
         Reached(a, i, j) = Longer(a)
  PROVE  Plotted(s, x, y, u, v) = s /\ s.x = u /\ s.y = v
<1>1. s \in Pens /\ Near(a, i, j) /\ s.x = x + i /\ s.y = Along(y, sign, j)
  BY DEF PenAt
<1>2. a \in Nat /\ v = Along(y, sign, a) /\ u = x + 4
  BY SlopeIs
<1>3. i = 4 /\ j = a
  BY <1>1, <1>2, NearEnd
<1>4. s.x = u /\ s.y = v
  BY <1>1, <1>2, <1>3
<1> QED
  BY <1>4, PlottedRests

(* The first dot is on the line.                                             *)
LEMMA FirstPen ==
  ASSUME NEW x, NEW y, NEW u, NEW v, NEW sign, NEW a, IsWay(x, y, u, v, sign, a)
  PROVE  /\ PenAt(FirstDot(x, y, u, v), x, y, sign, a, 0, 0)
         /\ FirstDot(x, y, u, v) \in Pens /\ Reached(a, 0, 0) = 0 /\ a \in Nat
<1> DEFINE s == FirstDot(x, y, u, v)
<1>1. /\ a \in Nat /\ sign \in {1, -1} /\ a = Abs(v - y) /\ Abs(u - x) = 4
      /\ x \in Int /\ y \in Int
  BY SlopeIs
<1>2. s = [x |-> x, y |-> y, error |-> 4 - a, dots |-> {<<x, y>>}]
  <2>1. Abs(u - x) + -a = 4 - a
    BY <1>1
  <2> QED
    BY <1>1, <2>1 DEF FirstDot
<1>3. s \in Pens /\ s.x = x /\ s.y = y /\ s.error = 4 - a /\ s.dots = {<<x, y>>}
  <2>1. 4 - a \in Int /\ {<<x, y>>} \in SUBSET (Int \X Int)
    BY <1>1
  <2> HIDE DEF s
  <2> QED
    BY <1>2, <2>1 DEF Pens
<1> HIDE DEF s
<1>4. Near(a, 0, 0) /\ Reached(a, 0, 0) = 0 /\ Slip(a, 0, 0) = 0
  <2>1. a * 0 = 0
    BY <1>1
  <2>2. Slip(a, 0, 0) = 0
    BY <2>1 DEF Slip
  <2>3. 0 \in 0 .. 4 /\ 0 \in 0 .. a /\ Longer(a) \in Nat
    BY <1>1 DEF Longer
  <2> QED
    BY <2>2, <2>3 DEF Near, Reached
<1>5. Along(y, sign, 0) = y /\ x + 0 = x
  BY <1>1 DEF Along
<1>6. IsFiniteSet(s.dots) /\ Cardinality(s.dots) = 0 + 1
  <2> PICK d : d = <<x, y>>
    OBVIOUS
  <2>1. IsFiniteSet({d}) /\ Cardinality({d}) = 1
    BY FS_Singleton
  <2> QED
    BY <1>3, <2>1
<1>7. 0 \in 0 .. 4 /\ 0 \in 0 .. a
  BY <1>1
<1>8. OnLine(<<x, y>>, x, y, sign, a, 0)
  <2> PICK n : n = 0
    OBVIOUS
  <2>1. n \in 0 .. 4 /\ n \in 0 .. a /\ Near(a, n, n) /\ Reached(a, n, n) <= n
        /\ <<x, y>> = <<x + n, Along(y, sign, n)>>
    BY <1>4, <1>5, <1>7
  <2>2. OnLine(<<x, y>>, x, y, sign, a, n)
    BY <2>1 DEF OnLine
  <2> QED
    BY <2>2
<1>9. s.error = Slip(a, 0, 0) + 4 - a
  BY <1>1, <1>3, <1>4
<1>10. PenAt(s, x, y, sign, a, 0, 0)
  BY <1>3, <1>4, <1>5, <1>6, <1>8, <1>9 DEF PenAt
<1> QED
  BY <1>1, <1>3, <1>4, <1>10 DEF s

-----------------------------------------------------------------------------
LEMMA PlottedTyped ==
  ASSUME NEW x, NEW y, NEW u, NEW v, NEW sign, NEW a, IsWay(x, y, u, v, sign, a),
         NEW s \in Pens
  PROVE  Plotted(s, x, y, u, v) \in Pens
<1>1. CASE s.x = u /\ s.y = v
  <2>1. Plotted(s, x, y, u, v) = s
    BY <1>1, PlottedRests
  <2> QED
    BY <2>1
<1>2. CASE ~(s.x = u /\ s.y = v)
  <2> QED
    BY <1>2, PlottedMoves
<1> QED
  BY <1>1, <1>2

(* The rounds that are counted.                                              *)
Rounds(a) == [n \in 1 .. 4 + a |-> n]

LEMMA PlotterFolds ==
  ASSUME NEW x, NEW y, NEW u, NEW v, NEW sign, NEW a, IsWay(x, y, u, v, sign, a)
  PROVE  /\ Foldable(Rounds(a), FirstDot(x, y, u, v), Plotter(x, y, u, v), Pens, Int)
         /\ \A s \in Pens, n \in Int :
              Plotter(x, y, u, v)[s][n] = Plotted(s, x, y, u, v)
<1> DEFINE K == Plotter(x, y, u, v)
           P(s) == Plotted(s, x, y, u, v)
<1>1. \A s \in Pens : P(s) \in Pens
  BY PlottedTyped
<1>2. K = [s \in Pens |-> [n \in Int |-> P(s)]]
  BY DEF Plotter
<1>3. FirstDot(x, y, u, v) \in Pens
  BY FirstPen
<1>4. Rounds(a) \in Seq(Int)
  BY SlopeIs DEF Rounds
<1> HIDE DEF K, P
<1>5. K \in [Pens -> [Int -> Pens]]
  BY <1>1, <1>2
<1>6. \A s \in Pens, n \in Int : K[s][n] = P(s)
  BY <1>2
<1> QED
  BY <1>3, <1>4, <1>5, <1>6 DEF Foldable, Closed, K, P

(* Segment plots once for each number of Rounds(a), which are enough.        *)
LEMMA SegmentFolds ==
  ASSUME NEW x, NEW y, NEW u, NEW v, NEW sign, NEW a, IsWay(x, y, u, v, sign, a)
  PROVE  Segment(x, y, u, v) =
           SeqFold(Plotter(x, y, u, v), FirstDot(x, y, u, v), Rounds(a)).dots
<1> DEFINE s == [n \in 1 .. Abs(u - x) - -Abs(v - y) |-> n]
           base == FirstDot(x, y, u, v)
           K == Plotter(x, y, u, v)
           D == DOMAIN s
           Put(p, n) == Plotted(p, x, y, u, v)
           F(g) == [t \in SUBSET D |->
                      IF t = {} THEN base ELSE Put(g[t \ {Max(t)}], s[Max(t)])]
           f == CHOOSE g : g = F(g)
<1>1. Segment(x, y, u, v) = f[D].dots
  BY DEF Segment, FoldLeft, MapThenFoldSet, Plotted, FirstDot
<1>2. \A g : F(g) = [t \in SUBSET D |-> IF t = {} THEN base ELSE Put(g[t \ {Max(t)}], s[Max(t)])]
  OBVIOUS
<1>3. s = Rounds(a)
  <2>1. Abs(u - x) - -Abs(v - y) = 4 + a
    BY SlopeIs
  <2> QED
    BY <2>1 DEF Rounds
<1>4. Foldable(s, base, K, Pens, Int)
  <2> HIDE DEF s
  <2>1. Foldable(Rounds(a), base, K, Pens, Int)
    BY PlotterFolds
  <2> QED
    BY <1>3, <2>1
<1>5. \A p \in Pens, n \in Int : K[p][n] = Put(p, n)
  BY PlotterFolds
<1>6. s \in Seq(Int)
  BY <1>4 DEF Foldable
<1>7. \A t \in SUBSET D : t # {} => Max(t) \in D /\ s[Max(t)] \in Int
  BY <1>6, LastPlace
<1> HIDE DEF K, s, Put, base
<1>8. f = F(f)
  <2>1. PICK g : FoldsBy(g, s, base, K, Pens)
    BY <1>4, FoldWitness
  <2>2. g = [t \in SUBSET D |-> IF t = {} THEN base ELSE K[g[t \ {Max(t)}]][s[Max(t)]]]
    BY <2>1 DEF FoldsBy, Recursion
  <2>3. \A t \in SUBSET D : t # {} =>
          K[g[t \ {Max(t)}]][s[Max(t)]] = Put(g[t \ {Max(t)}], s[Max(t)])
    <3> SUFFICES ASSUME NEW t \in SUBSET D, t # {}
                 PROVE  g[t \ {Max(t)}] \in Pens
      BY <1>5, <1>7
    <3> QED
      BY <2>1 DEF FoldsBy
  <2>4. g = F(g)
    <3> HIDE DEF F
    <3> QED
      BY <1>2, <2>2, <2>3
  <2> QED
    BY <2>4
<1>9. f = [t \in SUBSET D |-> IF t = {} THEN base ELSE Put(f[t \ {Max(t)}], s[Max(t)])]
  <2> HIDE DEF f, F
  <2> QED
    BY <1>2, <1>8
<1>10. Obeys(f, s, base, K, Pens)
  <2> HIDE DEF f
  <2>1. ASSUME NEW t \in SUBSET D, t # {}, f[t \ {Max(t)}] \in Pens
        PROVE  f[t] = K[f[t \ {Max(t)}]][s[Max(t)]]
    <3>1. s[Max(t)] \in Int
      BY <1>7, <2>1
    <3>2. f[t] = Put(f[t \ {Max(t)}], s[Max(t)])
      BY <1>9, <2>1
    <3> QED
      BY <1>5, <2>1, <3>1, <3>2
  <2>2. f[{}] = base
    BY <1>9
  <2> QED
    BY <2>1, <2>2 DEF Obeys
<1> HIDE DEF f
<1>11. f[D] = SeqFold(K, base, s)
  BY <1>4, <1>10, SeqFoldIs
<1> QED
  BY <1>1, <1>3, <1>11 DEF base, K

(* What a run of dots from <<x, y>> to <<u, v>> is.                      *)
IsStroke(dots, x, y, u, v, sign, a) ==
  /\ IsFiniteSet(dots) /\ Cardinality(dots) = Longer(a) + 1
  /\ <<x, y>> \in dots /\ <<u, v>> \in dots
  /\ \A d \in dots : OnLine(d, x, y, sign, a, Longer(a))

LEMMA PenGoes ==
  ASSUME NEW x, NEW y, NEW u, NEW v, NEW sign, NEW a, IsWay(x, y, u, v, sign, a),
         NEW s, NEW i, NEW j, PenAt(s, x, y, sign, a, i, j),
         NEW m, m = Longer(a)
  PROVE  \E i2, j2 :
           /\ PenAt(Plotted(s, x, y, u, v), x, y, sign, a, i2, j2)
           /\ Reached(a, i2, j2) = IF Reached(a, i, j) < m THEN Reached(a, i, j) + 1
                                   ELSE Reached(a, i, j)
<1>1. a \in Nat /\ Near(a, i, j)
  BY SlopeIs DEF PenAt
<1>2. Reached(a, i, j) \in 0 .. Longer(a) /\ Longer(a) \in Nat
  BY <1>1, NearEnd DEF Longer
<1>3. CASE Reached(a, i, j) < Longer(a)
  BY <1>3, PenStep
<1>4. CASE Reached(a, i, j) = Longer(a)
  <2>1. Plotted(s, x, y, u, v) = s
    BY <1>4, PenRests
  <2> QED
    BY <1>2, <1>4, <2>1
<1> QED
  BY <1>2, <1>3, <1>4

(* The dots of a segment join its ends, are as many as its longer side, and  *)
(* are on the line.                                                          *)
LEMMA SegmentIs ==
  ASSUME NEW x, NEW y, NEW u, NEW v, NEW sign, NEW a, IsWay(x, y, u, v, sign, a)
  PROVE  IsStroke(Segment(x, y, u, v), x, y, u, v, sign, a)
<1> DEFINE base == FirstDot(x, y, u, v)
           K == Plotter(x, y, u, v)
           P(s) == Plotted(s, x, y, u, v)
           m == Longer(a)
           Least(n) == IF n < m THEN n ELSE m
           Good(s, n) == \E i, j : PenAt(s, x, y, sign, a, i, j) /\ Reached(a, i, j) = Least(n)
<1>1. a \in Nat /\ m \in Nat /\ m <= 4 + a
  BY FirstPen DEF Longer
<1>2. Foldable(Rounds(a), base, K, Pens, Int)
  BY <1>1, PlotterFolds
<1>3. \A s \in Pens, n \in Int : K[s][n] = P(s)
  BY <1>1, PlotterFolds
<1>4. Len(Rounds(a)) = 4 + a /\ \A i \in 1 .. 4 + a : Rounds(a)[i] \in Int
  BY <1>1 DEF Rounds
<1>5. Segment(x, y, u, v) = SeqFold(K, base, Rounds(a)).dots
  BY <1>1, SegmentFolds
<1> HIDE DEF K, base
<1>6. PICK r : IsRun(r, Rounds(a), base, K, Pens) /\ SeqFold(K, base, Rounds(a)) = r[Len(Rounds(a))]
  BY <1>2, SeqFoldRuns
<1>7. /\ r \in [0 .. 4 + a -> Pens] /\ r[0] = base
      /\ \A i \in 1 .. 4 + a : r[i] = K[r[i - 1]][Rounds(a)[i]]
  BY <1>4, <1>6 DEF IsRun
<1>8. \A i \in 1 .. 4 + a : r[i - 1] \in Pens /\ r[i] = P(r[i - 1])
  <2> SUFFICES ASSUME NEW i \in 1 .. 4 + a PROVE r[i - 1] \in Pens /\ r[i] = P(r[i - 1])
    OBVIOUS
  <2>1. i - 1 \in 0 .. 4 + a
    BY <1>1
  <2>2. r[i - 1] \in Pens
    BY <1>7, <2>1
  <2> HIDE DEF P
  <2> QED
    BY <1>3, <1>4, <1>7, <2>2
<1>9. Good(base, 0)
  <2>1. Least(0) = 0
    BY <1>1
  <2> PICK i : i = 0
    OBVIOUS
  <2>2. PenAt(base, x, y, sign, a, i, i) /\ Reached(a, i, i) = 0
    BY FirstPen DEF base
  <2> QED
    BY <2>1, <2>2
<1>10. ASSUME NEW s \in Pens, NEW n \in Nat, Good(s, n)
       PROVE  Good(P(s), n + 1)
  <2>1. PICK i, j : PenAt(s, x, y, sign, a, i, j) /\ Reached(a, i, j) = Least(n)
    BY <1>10
  <2>2. Least(n + 1) = IF Least(n) < m THEN Least(n) + 1 ELSE Least(n)
    BY <1>1
  <2>3. \E i2, j2 : /\ PenAt(P(s), x, y, sign, a, i2, j2)
                    /\ Reached(a, i2, j2) = IF Reached(a, i, j) < m THEN Reached(a, i, j) + 1
                                            ELSE Reached(a, i, j)
    BY <2>1, PenGoes
  <2> HIDE DEF P, Least, m
  <2> QED
    BY <2>1, <2>2, <2>3
<1> HIDE DEF Good
<1>11. \A n \in Nat : n <= 4 + a => Good(r[n], n)
  <2> DEFINE Goal(n) == n <= 4 + a => Good(r[n], n)
  <2>1. Goal(0)
    BY <1>7, <1>9
  <2>2. ASSUME NEW n \in Nat, Goal(n) PROVE Goal(n + 1)
    <3> SUFFICES ASSUME n + 1 <= 4 + a PROVE Good(r[n + 1], n + 1)
      OBVIOUS
    <3>1. n + 1 \in 1 .. 4 + a /\ n + 1 - 1 = n /\ n <= 4 + a
      BY <1>1
    <3>2. r[n] \in Pens /\ r[n + 1] = P(r[n])
      BY <1>8, <3>1
    <3> HIDE DEF P
    <3> QED
      BY <1>10, <2>2, <3>1, <3>2
  <2> DEFINE T == {n \in Nat : Goal(n)}
  <2>3. 0 \in T /\ \A n \in Nat : n \in T => n + 1 \in T
    BY <2>1, <2>2
  <2>4. Nat \subseteq T
    <3> HIDE DEF T
    <3> QED
      BY <2>3, NatSetInduction
  <2> QED
    BY <2>4
<1>12. PICK i, j : PenAt(r[4 + a], x, y, sign, a, i, j) /\ Reached(a, i, j) = m
  <2>1. 4 + a \in Nat /\ 4 + a <= 4 + a /\ Least(4 + a) = m
    BY <1>1
  <2>2. Good(r[4 + a], 4 + a)
    BY <1>11, <2>1
  <2> HIDE DEF Least
  <2> QED
    BY <2>1, <2>2 DEF Good
<1>13. Segment(x, y, u, v) = r[4 + a].dots
  BY <1>4, <1>5, <1>6
<1> DEFINE s == r[4 + a]
<1> HIDE DEF s
<1>14. s.x = u /\ s.y = v
  BY <1>12, PenRests DEF s
<1>15. /\ <<s.x, s.y>> \in s.dots /\ <<x, y>> \in s.dots
       /\ IsFiniteSet(s.dots) /\ Cardinality(s.dots) = m + 1
       /\ \A d \in s.dots : OnLine(d, x, y, sign, a, m)
  BY <1>12 DEF PenAt, s
<1> QED
  BY <1>13, <1>14, <1>15 DEF IsStroke, s

-----------------------------------------------------------------------------
(* What LineExact says of the dots of one bucket.                            *)
OfLine(dots, from, to, width, height) ==
  LET dx == to[1] - from[1]
      dy == to[2] - from[2]
      long == Max({Abs(dx), Abs(dy)})
  IN /\ {from, to} \subseteq dots /\ Cardinality(dots) = long + 1
     /\ dots \subseteq (0 .. width - 1) \X (0 .. height - 1)
     /\ \A d \in dots : 2 * Abs((d[2] - from[2]) * dx - (d[1] - from[1]) * dy) <= long

(* How far off the line of LineExact a dot is.                               *)
LEMMA SlipIs ==
  ASSUME NEW a \in Nat, NEW i \in 0 .. 4, NEW j \in 0 .. a, Near(a, i, j),
         NEW sign \in {1, -1}, NEW e, e = IF sign = 1 THEN j ELSE -j,
         NEW f, f = IF sign = 1 THEN a ELSE -a
  PROVE  2 * Abs(e * 4 - i * f) <= Longer(a)
<1> DEFINE z == a * i
           y == i * f
<1>1. z \in Int /\ y = IF sign = 1 THEN z ELSE -z
  <2>1. i = 0 \/ i = 1 \/ i = 2 \/ i = 3 \/ i = 4
    OBVIOUS
  <2> QED
    BY <2>1
<1>2. Slip(a, i, j) = 4 * j - z
  BY DEF Slip
<1> HIDE DEF z, y
<1>3. 2 * (4 * j - z) <= Longer(a) /\ 2 * (4 * j - z) + Longer(a) >= 0 /\ Longer(a) \in Nat
  BY <1>2 DEF Near, Longer
<1>4. 2 * Abs(e * 4 - y) <= Longer(a)
  BY <1>1, <1>3 DEF Abs
<1> QED
  BY <1>4 DEF y

LEMMA StrokeFits ==
  ASSUME NEW x, NEW y, NEW u, NEW v, NEW sign, NEW a, IsWay(x, y, u, v, sign, a),
         NEW dots, IsStroke(dots, x, y, u, v, sign, a), NEW width \in Nat, NEW height \in Nat,
         0 <= x, u < width, y \in 0 .. height - 1, v \in 0 .. height - 1
  PROVE  OfLine(dots, <<x, y>>, <<u, v>>, width, height)
<1> DEFINE from == <<x, y>>
           to == <<u, v>>
           f == IF sign = 1 THEN a ELSE -a
<1>1. /\ a \in Nat /\ v = Along(y, sign, a) /\ sign \in {1, -1}
      /\ x \in Int /\ y \in Int /\ v \in Int /\ u = x + 4 /\ a = Abs(v - y)
  BY SlopeIs
<1>2. /\ Cardinality(dots) = Longer(a) + 1 /\ from \in dots /\ to \in dots
      /\ \A d \in dots : OnLine(d, x, y, sign, a, Longer(a))
  BY DEF IsStroke
<1>3. /\ from[1] = x /\ from[2] = y /\ to[1] = u /\ to[2] = v
      /\ to[1] - from[1] = 4 /\ to[2] - from[2] = f
  BY <1>1 DEF Along
<1>4. Max({Abs(4), Abs(f)}) = Longer(a)
  <2> PICK four : four = 4
    OBVIOUS
  <2>0. four \in Int /\ a \in Int
    BY <1>1
  <2>1. Max({four, a}) = IF four >= a THEN four ELSE a
    BY <2>0, Pair
  <2>2. Abs(4) = four /\ Abs(f) = a
    BY <1>1 DEF Abs
  <2> HIDE DEF f
  <2> QED
    BY <1>1, <2>1, <2>2 DEF Longer
<1>5. ASSUME NEW d \in dots
      PROVE  /\ d \in (0 .. width - 1) \X (0 .. height - 1)
             /\ 2 * Abs((d[2] - y) * 4 - (d[1] - x) * f) <= Longer(a)
  <2>1. PICK i \in 0 .. 4, j \in 0 .. a : Near(a, i, j) /\ d = <<x + i, Along(y, sign, j)>>
    BY <1>2 DEF OnLine
  <2> DEFINE e == IF sign = 1 THEN j ELSE -j
  <2>2. d[1] = x + i /\ d[2] = y + e
    BY <1>1, <2>1 DEF Along
  <2>3. d[1] - x = i /\ d[2] - y = e
    BY <1>1, <2>2
  <2>4. x + i \in 0 .. width - 1
    BY <1>1
  <2>5. Along(y, sign, j) \in 0 .. height - 1
    BY <1>1 DEF Along
  <2>6. 2 * Abs(e * 4 - i * f) <= Longer(a)
    BY <1>1, <2>1, SlipIs
  <2> HIDE DEF e, f
  <2> QED
    BY <2>1, <2>3, <2>4, <2>5, <2>6
<1> HIDE DEF from, to, f
<1>6. \A d \in dots : d \in (0 .. width - 1) \X (0 .. height - 1)
  BY <1>5
<1>7. OfLine(dots, from, to, width, height)
  BY <1>2, <1>3, <1>4, <1>5, <1>6 DEF OfLine
<1> QED
  BY <1>7 DEF from, to

LEMMA DotFits ==
  ASSUME NEW x, NEW y, NEW width \in Nat, NEW height \in Nat, x \in 0 .. width - 1,
         y \in 0 .. height - 1
  PROVE  OfLine({<<x, y>>}, <<x, y>>, <<x, y>>, width, height)
<1> DEFINE to == <<x, y>>
<1>1. /\ to[1] - to[1] = 0 /\ to[2] - to[2] = 0 /\ to \in (0 .. width - 1) \X (0 .. height - 1)
  OBVIOUS
<1>2. Max({Abs(0), Abs(0)}) = 0
  <2> PICK n : n = 0
    OBVIOUS
  <2>0. n \in Int
    OBVIOUS
  <2>1. Max({n, n}) = n
    BY <2>0, Pair
  <2>2. Abs(0) = n
    BY DEF Abs
  <2> QED
    BY <2>1, <2>2
<1>3. Cardinality({to}) = 0 + 1
  <2>1. Cardinality({to}) = 1
    BY FS_Singleton
  <2> QED
    BY <2>1
<1>4. 2 * Abs((to[2] - to[2]) * 0 - (to[1] - to[1]) * 0) <= 0
  <2>1. (to[2] - to[2]) * 0 - (to[1] - to[1]) * 0 = 0
    BY <1>1
  <2> QED
    BY <2>1 DEF Abs
<1> HIDE DEF to
<1>5. OfLine({to}, to, to, width, height)
  BY <1>1, <1>2, <1>3, <1>4 DEF OfLine
<1> QED
  BY <1>5 DEF to

LEMMA DotIs ==
  ASSUME NEW h, IsChart(h), NEW columns \in Nat \ {0}, NEW scale, IsScale(scale),
         NEW rows \in Nat \ {0}, NEW b \in Visible(h, columns)
  PROVE  \E q \in 0 .. rows * 4 - 1 :
           DotOf(h, columns, scale, rows, b) = <<Place(h, columns, b) * 4 + 1, q>>
<1> DEFINE p == Place(h, columns, b)
           price == h[b].close
           q == Position(scale, price, rows * 4)
<1>1. p \in 0 .. columns - 1 /\ b \in DOMAIN h
  BY PlaceIs
<1>2. price \in Int
  BY <1>1, CandleFacts
<1>3. q \in 0 .. rows * 4 - 1
  <2> PICK n : n = rows * 4
    OBVIOUS
  <2>1. n \in Nat \ {0}
    OBVIOUS
  <2>2. Position(scale, price, n) \in 0 .. n - 1
    BY <1>2, <2>1, PositionBounds
  <2> QED
    BY <2>2
<1>4. ColumnOf(h, columns, 2, b) = p * 2
  BY DEF ColumnOf, Place
<1> HIDE DEF p
<1>5. p * 2 * 2 + 1 = p * 4 + 1
  BY <1>1
<1> HIDE DEF q
<1> QED
  BY <1>3, <1>4, <1>5 DEF DotOf, q, p

(* The close line joins adjacent buckets only, stays in the pane, has no hole*)
(* and is never more than half a dot off.                                    *)
LEMMA LineIsExact ==
  ASSUME NEW h, IsChart(h), NEW columns \in Nat \ {0}, NEW scale, IsScale(scale),
         NEW rows \in Nat \ {0}
  PROVE  LineExact(h, columns, scale, rows)
<1> DEFINE V == Visible(h, columns)
           Spot(b) == DotOf(h, columns, scale, rows, b)
           Back(b) == IF b - BucketMs \in V THEN Spot(b - BucketMs) ELSE Spot(b)
           dots(b) == Dots(h, columns, scale, rows, b)
           width == columns * 4
           height == rows * 4
<1>1. width \in Nat /\ height \in Nat
  OBVIOUS
<1>2. ASSUME NEW b \in V PROVE OfLine(dots(b), Back(b), Spot(b), width, height)
  <2> DEFINE p == Place(h, columns, b)
  <2>1. PICK q \in 0 .. height - 1 : Spot(b) = <<p * 4 + 1, q>>
    BY DotIs
  <2>2. p \in 0 .. columns - 1
    BY PlaceIs
  <2>3. CASE b - BucketMs \in V
    <3> DEFINE c == b - BucketMs
               o == Place(h, columns, c)
    <3>1. PICK n \in 0 .. height - 1 : Spot(c) = <<o * 4 + 1, n>>
      BY <2>3, DotIs
    <3>2. o = p - 1 /\ o \in 0 .. columns - 1
      BY <2>3, PlacesDiffer, PlaceIs
    <3> DEFINE x == o * 4 + 1
               u == p * 4 + 1
               a == Abs(q - n)
               sign == Sign(n, q)
    <3>3. Back(b) = Spot(c) /\ dots(b) = Segment(x, n, u, q)
      <4>1. dots(b) = Segment(Spot(c)[1], Spot(c)[2], Spot(b)[1], Spot(b)[2])
        BY <2>3 DEF Dots
      <4> QED
        BY <2>1, <2>3, <3>1, <4>1
    <3> HIDE DEF c, o, p
    <3>4. x \in Int /\ u = x + 4 /\ 0 <= x /\ u < width
      BY <2>2, <3>2
    <3>5. IsWay(x, n, u, q, sign, a)
      <4> HIDE DEF x, u
      <4> QED
        BY <1>1, <3>4 DEF IsWay
    <3> HIDE DEF x, u, a, sign, width, height
    <3>6. IsStroke(Segment(x, n, u, q), x, n, u, q, sign, a)
      BY <3>5, SegmentIs
    <3>7. OfLine(Segment(x, n, u, q), <<x, n>>, <<u, q>>, width, height)
      BY <1>1, <3>4, <3>5, <3>6, StrokeFits
    <3> QED
      BY <2>1, <3>1, <3>3, <3>7 DEF x, u
  <2>4. CASE b - BucketMs \notin V
    <3>1. Back(b) = Spot(b) /\ dots(b) = {Spot(b)}
      BY <2>4 DEF Dots
    <3>2. p * 4 + 1 \in 0 .. width - 1
      BY <2>2
    <3> HIDE DEF p, width, height
    <3>3. OfLine({<<p * 4 + 1, q>>}, <<p * 4 + 1, q>>, <<p * 4 + 1, q>>, width, height)
      <4> PICK x : x = p * 4 + 1
        OBVIOUS
      <4>1. OfLine({<<x, q>>}, <<x, q>>, <<x, q>>, width, height)
        BY <1>1, <3>2, DotFits
      <4> QED
        BY <4>1
    <3> QED
      BY <2>1, <3>1, <3>3
  <2> QED
    BY <2>3, <2>4
<1> QED
  BY <1>2 DEF LineExact, OfLine

-----------------------------------------------------------------------------
(* A history that has grown by trades is a chart.                            *)
CandleRecords ==
  [open : Nat, high : Nat, low : Nat, close : Nat, buy : Nat, sell : Nat, trades : Nat,
   first : Nat, last : Nat]

SoundCandle(c) ==
  /\ c \in CandleRecords
  /\ c.low <= c.open /\ c.low <= c.close /\ c.open <= c.high /\ c.close <= c.high
  /\ c.buy + c.sell > 0

Charted(h) ==
  /\ IsFiniteSet(DOMAIN h) /\ (DOMAIN h = {} => h = <<>>)
  /\ \A b \in DOMAIN h : b \in Nat /\ b % BucketMs = 0 /\ SoundCandle(h[b])

LEMMA ChartedIsChart ==
  ASSUME NEW h, Charted(h), h # <<>>
  PROVE  IsChart(h)
<1>1. DOMAIN h # {} /\ IsFiniteSet(DOMAIN h)
  BY DEF Charted
<1>2. ASSUME NEW b \in DOMAIN h, NEW c, c = h[b]
      PROVE  /\ b \in Nat /\ b % BucketMs = 0
             /\ {c.open, c.high, c.low, c.close, c.buy, c.sell} \subseteq Nat
             /\ c.low <= Min({c.open, c.close}) /\ Max({c.open, c.close}) <= c.high
             /\ c.buy + c.sell > 0
  <2>1. b \in Nat /\ b % BucketMs = 0 /\ SoundCandle(c)
    BY <1>2 DEF Charted
  <2>2. /\ c.open \in Nat /\ c.high \in Nat /\ c.low \in Nat /\ c.close \in Nat
        /\ c.buy \in Nat /\ c.sell \in Nat
    BY <2>1 DEF SoundCandle, CandleRecords
  <2>3. c.low <= c.open /\ c.low <= c.close /\ c.open <= c.high /\ c.close <= c.high
    BY <2>1 DEF SoundCandle
  <2>4. c.open \in Int /\ c.close \in Int
    BY <2>2
  <2>5. /\ Max({c.open, c.close}) = IF c.open >= c.close THEN c.open ELSE c.close
        /\ Min({c.open, c.close}) = IF c.open <= c.close THEN c.open ELSE c.close
    BY <2>4, Pair
  <2>6. c.low <= Min({c.open, c.close}) /\ Max({c.open, c.close}) <= c.high
    BY <2>2, <2>3, <2>5
  <2> QED
    BY <2>1, <2>2, <2>6 DEF SoundCandle
<1> QED
  BY <1>1, <1>2 DEF IsChart

LEMMA PartsOfTrade ==
  ASSUME NEW t, IsTrade(t)
  PROVE  Part(t, "buy") \in Nat /\ Part(t, "sell") \in Nat /\ Part(t, "buy") + Part(t, "sell") > 0
BY DEF IsTrade, Takers, Part

LEMMA NewIsSound ==
  ASSUME NEW t, IsTrade(t)
  PROVE  SoundCandle(NewCandle(t))
<1>1. Part(t, "buy") \in Nat /\ Part(t, "sell") \in Nat /\ Part(t, "buy") + Part(t, "sell") > 0
  BY PartsOfTrade
<1>2. t.ts \in Nat /\ t.price \in Nat
  BY DEF IsTrade
<1> QED
  BY <1>1, <1>2 DEF SoundCandle, CandleRecords, NewCandle

LEMMA ExtendedIsSound ==
  ASSUME NEW t, IsTrade(t), NEW c, SoundCandle(c)
  PROVE  SoundCandle(Extended(c, t))
<1> DEFINE x == Extended(c, t)
<1>1. /\ c.open \in Nat /\ c.high \in Nat /\ c.low \in Nat /\ c.close \in Nat /\ c.buy \in Nat
      /\ c.sell \in Nat /\ c.trades \in Nat /\ c.first \in Nat /\ c.last \in Nat
      /\ c = [k \in CandleFields |-> c[k]]
  BY DEF SoundCandle, CandleRecords, CandleFields
<1>2. t.ts \in Nat /\ t.price \in Nat
  BY DEF IsTrade
<1>3. Part(t, "buy") \in Nat /\ Part(t, "sell") \in Nat
  BY PartsOfTrade
<1>4. /\ Max({c.high, t.price}) = IF c.high >= t.price THEN c.high ELSE t.price
      /\ Min({c.low, t.price}) = IF c.low <= t.price THEN c.low ELSE t.price
      /\ Max({c.last, t.ts}) = IF c.last >= t.ts THEN c.last ELSE t.ts
      /\ Min({c.first, t.ts}) = IF c.first <= t.ts THEN c.first ELSE t.ts
  <2>1. /\ c.high \in Int /\ c.low \in Int /\ c.last \in Int /\ c.first \in Int
        /\ t.price \in Int /\ t.ts \in Int
    BY <1>1, <1>2
  <2> QED
    BY <2>1, Pair
<1>5. x = [open |-> IF t.ts < c.first THEN t.price ELSE c.open,
           high |-> IF c.high >= t.price THEN c.high ELSE t.price,
           low |-> IF c.low <= t.price THEN c.low ELSE t.price,
           close |-> IF t.ts >= c.last THEN t.price ELSE c.close,
           buy |-> c.buy + Part(t, "buy"), sell |-> c.sell + Part(t, "sell"),
           trades |-> c.trades + 1,
           first |-> IF c.first <= t.ts THEN c.first ELSE t.ts,
           last |-> IF c.last >= t.ts THEN c.last ELSE t.ts]
  BY <1>1, <1>4, ExtendedIs
<1> HIDE DEF x
<1>6. x \in CandleRecords
  BY <1>1, <1>2, <1>3, <1>5 DEF CandleRecords
<1>7. x.low <= x.open /\ x.low <= x.close /\ x.open <= x.high /\ x.close <= x.high
  <2>1. c.low <= c.open /\ c.low <= c.close /\ c.open <= c.high /\ c.close <= c.high
    BY DEF SoundCandle
  <2>2. /\ x.open = (IF t.ts < c.first THEN t.price ELSE c.open)
        /\ x.high = (IF c.high >= t.price THEN c.high ELSE t.price)
        /\ x.low = (IF c.low <= t.price THEN c.low ELSE t.price)
        /\ x.close = (IF t.ts >= c.last THEN t.price ELSE c.close)
    BY <1>5
  <2> QED
    BY <1>1, <1>2, <2>1, <2>2
<1>8. x.buy + x.sell > 0
  <2>1. c.buy + c.sell > 0
    BY DEF SoundCandle
  <2>2. x.buy = c.buy + Part(t, "buy") /\ x.sell = c.sell + Part(t, "sell")
    BY <1>5
  <2> QED
    BY <1>1, <1>3, <2>1, <2>2
<1> QED
  BY <1>6, <1>7, <1>8 DEF SoundCandle, x

(* A bucket starts at a multiple of its width.                               *)
LEMMA BucketDivides ==
  ASSUME NEW n \in Nat
  PROVE  BucketOf(n) \in Nat /\ BucketOf(n) % BucketMs = 0
<1> DEFINE B == BucketMs
           q == n \div B
<1>1. B \in Nat \ {0}
  BY CandlesAssumption DEF CandlesAssumption
<1>2. q \in Nat
  BY <1>1
<1> HIDE DEF B, q
<1>3. q \in Int /\ q * B \in Nat
  BY <1>1, <1>2
<1> DEFINE m == q * B
<1>4. m \in Int /\ q * B <= m /\ m < q * B + B
  BY <1>1, <1>3
<1>5. m % B = m - q * B
  <2> HIDE DEF m
  <2> QED
    BY <1>1, <1>3, <1>4, QuotientIs
<1>6. m % B = 0
  BY <1>3, <1>5
<1>7. BucketOf(n) = m
  BY DEF BucketOf, B, q
<1> QED
  BY <1>3, <1>6, <1>7 DEF B

(* A trade makes a chart of a chart, whether it starts a candle, extends one,*)
(* is too old, or drops the oldest.                                          *)
LEMMA TradeKeepsChart ==
  ASSUME NEW h, Charted(h), NEW t, IsTrade(t)
  PROVE  Charted(AddTrade(h, t))
<1> DEFINE b == BucketOf(t.ts)
           candle == IF b \in DOMAIN h THEN Extended(h[b], t) ELSE NewCandle(t)
           D == DOMAIN h \cup {b}
           g == Over([x \in {b} |-> candle], h)
<1>1. /\ IsFiniteSet(DOMAIN h)
      /\ \A x \in DOMAIN h : x \in Nat /\ x % BucketMs = 0 /\ SoundCandle(h[x])
  BY DEF Charted
<1>2. b \in Nat /\ b % BucketMs = 0
  BY BucketDivides DEF IsTrade
<1>3. SoundCandle(candle)
  BY <1>1, NewIsSound, ExtendedIsSound
<1> HIDE DEF b, candle
<1>4. g = [x \in D |-> IF x = b THEN candle ELSE h[x]]
  BY DEF Over
<1>5. IsFiniteSet(D) /\ D # {}
  BY <1>1, FS_AddElement
<1> HIDE DEF g
<1>6. DOMAIN g = D /\ \A x \in D : x \in Nat /\ x % BucketMs = 0 /\ SoundCandle(g[x])
  BY <1>1, <1>2, <1>3, <1>4
<1>7. Charted(g)
  BY <1>5, <1>6 DEF Charted
<1>8. Charted(Trimmed(g))
  <2>1. CASE Cardinality(D) <= MaxBuckets
    BY <1>6, <1>7, <2>1 DEF Trimmed
  <2>2. CASE ~(Cardinality(D) <= MaxBuckets)
    <3> DEFINE R == D \ {Min(D)}
               f == [x \in R |-> g[x]]
    <3>1. Trimmed(g) = f
      BY <1>6, <2>2 DEF Trimmed, Restrict
    <3>2. IsFiniteSet(R)
      BY <1>5, FS_Subset
    <3>3. R # {}
      <4> SUFFICES ASSUME R = {} PROVE FALSE
        OBVIOUS
      <4> PICK x : x = Min(D)
        OBVIOUS
      <4>1. D = {x}
        BY <1>5
      <4>2. Cardinality(D) = 1
        BY <4>1, FS_Singleton
      <4>3. MaxBuckets \in Nat \ {0}
        BY CandlesAssumption DEF CandlesAssumption
      <4> QED
        BY <2>2, <4>2, <4>3
    <3>4. DOMAIN f = R /\ \A x \in R : f[x] = g[x] /\ x \in D
      OBVIOUS
    <3> HIDE DEF f, R
    <3>5. Charted(f)
      BY <1>6, <3>2, <3>3, <3>4 DEF Charted
    <3> QED
      BY <3>1, <3>5
  <2> QED
    BY <2>1, <2>2
<1>9. AddTrade(h, t) = IF TooOld(h, b) THEN h ELSE Trimmed(g)
  BY DEF AddTrade, b, candle, g
<1> QED
  BY <1>8, <1>9

(* Every history of the terminal is a chart.                                 *)
LEMMA HistoryCharted == Spec => []Charted(history)
<1>1. Init => Charted(history)
  <2>1. IsFiniteSet({}) /\ DOMAIN <<>> = {}
    BY FS_EmptySet
  <2> QED
    BY <2>1 DEF Init, Charted
<1>2. Charted(history) /\ [Next]_terminalVars => Charted(history)'
  <2> SUFFICES ASSUME Charted(history), [Next]_terminalVars PROVE Charted(history')
    OBVIOUS
  <2>1. CASE TradeDelivered
    <3>1. PICK t \in Trades : history' = history \/ history' = AddTrade(history, t)
      BY <2>1 DEF TradeDelivered, OnTrade
    <3>2. IsTrade(t)
      BY OwnAreTrades DEF AreTrades
    <3> QED
      BY <3>1, <3>2, TradeKeepsChart
  <2>2. CASE BookUpdate \/ Render \/ StartRefit
    BY <2>2 DEF BookUpdate, Render, StartRefit
  <2>3. CASE EndRefit \/ Quit \/ TimePasses
    BY <2>3 DEF EndRefit, Quit, TimePasses
  <2>4. CASE UNCHANGED terminalVars
    BY <2>4 DEF terminalVars
  <2> QED
    BY <2>1, <2>2, <2>3, <2>4 DEF Next
<1> QED
  BY <1>1, <1>2, PTL DEF Spec

-----------------------------------------------------------------------------
(* The panes of a chart of at least 8 rows.                                  *)
LEMMA PanesAre ==
  ASSUME NEW height \in Nat, height >= 8
  PROVE  /\ VolumeRows(height) \in Nat \ {0}
         /\ PriceRows(height) \in Nat \ {0} /\ PriceRows(height) >= 2
<1> DEFINE q == (height - 4) \div 4
           m == Min({4, q})
<1>1. q \in Int /\ q >= 1 /\ q * 4 <= height - 4
  OBVIOUS
<1> PICK four : four = 4
  OBVIOUS
<1> PICK one : one = 1
  OBVIOUS
<1> HIDE DEF q
<1>2. Min({four, q}) = IF four <= q THEN four ELSE q
  <2>1. four \in Int /\ q \in Int
    BY <1>1
  <2> QED
    BY <2>1, Pair
<1>3. m \in Int /\ m >= 1 /\ m <= q /\ m <= 4
  BY <1>1, <1>2
<1> HIDE DEF m
<1>4. Max({one, m}) = IF one >= m THEN one ELSE m
  <2>1. one \in Int /\ m \in Int
    BY <1>3
  <2> QED
    BY <2>1, Pair
<1>5. VolumeRows(height) = m
  <2>1. VolumeRows(height) = Max({1, m})
    BY DEF VolumeRows, m, q
  <2> QED
    BY <1>3, <1>4, <2>1
<1> QED
  BY <1>1, <1>3, <1>5 DEF PriceRows

(* The picture of one chart in one size.                                     *)
LEMMA ChartIsPainted ==
  ASSUME NEW h, IsChart(h), NEW columns \in Nat \ {0}, NEW rows \in Nat \ {0}, rows >= 2,
         NEW bars \in Nat \ {0}, NEW scale, scale = LineScale(h, columns)
  PROVE  /\ BodiesExact(h, columns, rows) /\ LineExact(h, columns, scale, rows)
         /\ PricesFall(PriceAxis(CandleScale(h, columns), LastClose(h), rows, 2))
         /\ PricesFall(PriceAxis(scale, LastClose(h), rows, 4))
         /\ \A stride \in {2, 3} :
              /\ BarsExact(h, columns, stride, bars)
              /\ \A length \in LabelLengths : AxisReadable(h, columns, stride, length)
<1>1. IsScale(scale) /\ IsScale(CandleScale(h, columns)) /\ LastClose(h) \in Int
  BY LineScaleIs, CandleScaleIs
<1>2. BodiesExact(h, columns, rows) /\ LineExact(h, columns, scale, rows)
  BY <1>1, BodiesAreExact, LineIsExact
<1>3. ASSUME NEW s, IsScale(s), NEW resolution \in {2, 4}
      PROVE  PricesFall(PriceAxis(s, LastClose(h), rows, resolution))
  BY <1>1, <1>3, LabelsFall
<1>4. PricesFall(PriceAxis(CandleScale(h, columns), LastClose(h), rows, 2))
  <2> PICK n : n = 2
    OBVIOUS
  <2>1. PricesFall(PriceAxis(CandleScale(h, columns), LastClose(h), rows, n))
    BY <1>1, <1>3
  <2> QED
    BY <2>1
<1>5. PricesFall(PriceAxis(scale, LastClose(h), rows, 4))
  <2> PICK n : n = 4
    OBVIOUS
  <2>1. PricesFall(PriceAxis(scale, LastClose(h), rows, n))
    BY <1>1, <1>3
  <2> QED
    BY <2>1
<1>6. ASSUME NEW stride \in {2, 3}
      PROVE  /\ BarsExact(h, columns, stride, bars)
             /\ \A length \in LabelLengths : AxisReadable(h, columns, stride, length)
  <2>1. stride \in Nat \ {0} /\ stride >= 2
    OBVIOUS
  <2>2. BarsExact(h, columns, stride, bars)
    BY <2>1, BarsAreExact
  <2>3. ASSUME NEW length \in LabelLengths PROVE AxisReadable(h, columns, stride, length)
    <3>1. length \in Nat \ {0}
      BY TerminalAssumption DEF TerminalAssumption
    <3> QED
      BY <2>1, <3>1, AxisIsReadable
  <2> QED
    BY <2>2, <2>3
<1> QED
  BY <1>2, <1>4, <1>5, <1>6

(* candles.py:258-475: whatever was traded and in every size, no candle is   *)
(* painted over, the close line has no hole and is never more than half a    *)
(* dot off, the labels of the price axis fall, the volume bars keep the      *)
(* order of the volumes, and the labels of the time axis do not touch.       *)
THEOREM PictureIsExact == Spec => []PictureExact
<1>1. Charted(history) => PictureExact
  <2> SUFFICES ASSUME Charted(history), NEW h \in IF history = <<>> THEN Sketches ELSE {history},
                      NEW size \in Sizes
               PROVE  LET columns == size[1]
                          rows == PriceRows(size[2])
                          scale == LineScale(h, columns)
                      IN /\ BodiesExact(h, columns, rows) /\ LineExact(h, columns, scale, rows)
                         /\ PricesFall(PriceAxis(CandleScale(h, columns), LastClose(h), rows, 2))
                         /\ PricesFall(PriceAxis(scale, LastClose(h), rows, 4))
                         /\ \A stride \in {2, 3} :
                              /\ BarsExact(h, columns, stride, VolumeRows(size[2]))
                              /\ \A length \in LabelLengths :
                                   AxisReadable(h, columns, stride, length)
    BY DEF PictureExact
  <2>1. IsChart(h)
    BY TerminalAssumption, ChartedIsChart DEF TerminalAssumption
  <2>2. size[1] \in Nat \ {0} /\ size[2] \in Nat /\ size[2] >= 8
    BY TerminalAssumption DEF TerminalAssumption
  <2>3. /\ VolumeRows(size[2]) \in Nat \ {0}
        /\ PriceRows(size[2]) \in Nat \ {0} /\ PriceRows(size[2]) >= 2
    BY <2>2, PanesAre
  <2> QED
    BY <2>1, <2>2, <2>3, ChartIsPainted
<1> QED
  BY <1>1, HistoryCharted, PTL
=============================================================================
