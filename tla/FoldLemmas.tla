------------------------------- MODULE FoldLemmas ------------------------------
(***************************************************************************)
(* What the folds of the community modules compute, for proofs.  The        *)
(* induction theorems of the library quantify over operators; here          *)
(* induction is over a set of subsets, or of sequences, and the operator of *)
(* a fold is a function K.                                                  *)
(***************************************************************************)
EXTENDS Integers, Sequences, SequencesExt, FiniteSetsExt, FiniteSetTheorems, SequenceTheorems, TLAPS, Selection

(* A set of subsets of D that holds U whenever it holds the proper subsets   *)
(* of U holds all.                                                           *)
LEMMA SubsetInduction ==
  ASSUME NEW D, IsFiniteSet(D), NEW T,
         \A U \in SUBSET D : (\A V \in SUBSET U : V # U => V \in T) => U \in T
  PROVE  SUBSET D \subseteq T
<1> DEFINE R == StrictSubsetOrdering(D)
           S == SUBSET D
           Bad == {U \in SUBSET D : U \notin T}
<1>1. IsWellFoundedOn(R, S)
  BY FS_FiniteSubsetsOfFinite, FS_StrictSubsetOrderingWellFounded, Zenon
<1>2. SUFFICES ASSUME Bad # {} PROVE FALSE
  OBVIOUS
<1>3. Bad \subseteq S
  OBVIOUS
<1>4. \E U \in Bad : \A V \in Bad : ~ (<<V, U>> \in R)
  <2> HIDE DEF Bad, R, S
  <2> QED
    BY <1>1, <1>2, <1>3, WFMin
<1>5. PICK U \in Bad : \A V \in Bad : ~ (<<V, U>> \in R)
  BY <1>4
<1>6. \A V \in SUBSET U : V # U => V \in T
  BY <1>5 DEF StrictSubsetOrdering
<1> QED
  BY <1>5, <1>6

(* The same for the natural numbers.                                         *)
LEMMA NatSetInduction ==
  ASSUME NEW T, 0 \in T, \A n \in Nat : n \in T => n + 1 \in T
  PROVE  Nat \subseteq T
<1> SUFFICES ASSUME NEW n \in Nat PROVE n \in T
  OBVIOUS
<1> DEFINE D == 0 .. n
           Good == {U \in SUBSET D : \A k \in D : U = 0 .. k => k \in T}
<1>1. IsFiniteSet(D)
  BY FS_Interval
<1>2. \A U \in SUBSET D : (\A V \in SUBSET U : V # U => V \in Good) => U \in Good
  <2> SUFFICES ASSUME NEW U \in SUBSET D, \A V \in SUBSET U : V # U => V \in Good,
                      NEW k \in D, U = 0 .. k
               PROVE  k \in T
    OBVIOUS
  <2>1. CASE k = 0
    BY <2>1
  <2>2. CASE k # 0
    <3> DEFINE j == k - 1
    <3>1. j \in D /\ j \in Nat /\ k = j + 1
      BY <2>2
    <3>2. 0 .. j \in SUBSET U /\ k \in U /\ k \notin 0 .. j
      BY <3>1
    <3>3. 0 .. j \in Good
      BY <3>2
    <3>4. j \in T
      BY <3>1, <3>3
    <3> QED
      BY <3>1, <3>4
  <2> QED
    BY <2>1, <2>2
<1>3. SUBSET D \subseteq Good
  <2> HIDE DEF Good, D
  <2> QED
    BY <1>1, <1>2, SubsetInduction
<1>4. D \in Good
  BY <1>3
<1> QED
  BY <1>4

-----------------------------------------------------------------------------
(* Recursion over the subsets of a finite set, one element taken out at a    *)
(* time: C chooses it, K is the step.                                        *)
Iterates(h, D, base, C, K) ==
  h = [t \in SUBSET D |-> IF t = {} THEN base ELSE K[h[t \ {C[t]}]][C[t]]]

Chooses(C, D) == \A t \in SUBSET D : t # {} => C[t] \in t

(* No two functions do.                                                      *)
LEMMA IterationUnique ==
  ASSUME NEW D, IsFiniteSet(D), NEW base, NEW C, Chooses(C, D), NEW K,
         NEW g, Iterates(g, D, base, C, K), NEW h, Iterates(h, D, base, C, K)
  PROVE  g = h
<1> DEFINE T == {U \in SUBSET D : g[U] = h[U]}
<1>1. \A U \in SUBSET D : (\A V \in SUBSET U : V # U => V \in T) => U \in T
  <2> SUFFICES ASSUME NEW U \in SUBSET D, \A V \in SUBSET U : V # U => V \in T
               PROVE  g[U] = h[U]
    OBVIOUS
  <2>1. CASE U = {}
    BY <2>1 DEF Iterates
  <2>2. CASE U # {}
    <3> DEFINE V == U \ {C[U]}
    <3>1. C[U] \in U /\ V \in SUBSET U /\ V # U
      BY <2>2 DEF Chooses
    <3>2. g[V] = h[V]
      BY <3>1
    <3>3. g[U] = K[g[V]][C[U]] /\ h[U] = K[h[V]][C[U]]
      BY <2>2 DEF Iterates
    <3> QED
      BY <3>2, <3>3
  <2> QED
    BY <2>1, <2>2
<1>2. SUBSET D \subseteq T
  <2> HIDE DEF T
  <2> QED
    BY <1>1, SubsetInduction
<1>3. \A U \in SUBSET D : g[U] = h[U]
  BY <1>2
<1> QED
  BY <1>3 DEF Iterates

LEMMA IterationRestricts ==
  ASSUME NEW D, NEW base, NEW C, Chooses(C, D), NEW K, NEW h, Iterates(h, D, base, C, K),
         NEW V \in SUBSET D, NEW g, g = [t \in SUBSET V |-> h[t]]
  PROVE  Iterates(g, V, base, C, K)
<1>1. ASSUME NEW t \in SUBSET V, t # {} PROVE g[t] = K[g[t \ {C[t]}]][C[t]]
  <2>1. h[t] = K[h[t \ {C[t]}]][C[t]]
    BY <1>1 DEF Iterates
  <2>2. t \ {C[t]} \in SUBSET V
    OBVIOUS
  <2> QED
    BY <2>1, <2>2
<1>2. g[{}] = base
  BY DEF Iterates
<1> QED
  BY <1>1, <1>2 DEF Iterates

(* There is one, into the set A that base and K stay in.                     *)
LEMMA IterationExists ==
  ASSUME NEW D, IsFiniteSet(D), NEW C, Chooses(C, D), NEW A, NEW base \in A,
         NEW K, \A a \in A, d \in D : K[a][d] \in A
  PROVE  \E h \in [SUBSET D -> A] : Iterates(h, D, base, C, K)
<1> DEFINE Sol(h, U) == h \in [SUBSET U -> A] /\ Iterates(h, U, base, C, K)
           T == {U \in SUBSET D : \E h : Sol(h, U)}
           f == [U \in SUBSET D |-> CHOOSE h : Sol(h, U)]
<1>1. \A U \in SUBSET D : (\A V \in SUBSET U : V # U => V \in T) => U \in T
  <2> SUFFICES ASSUME NEW U \in SUBSET D, \A V \in SUBSET U : V # U => V \in T
               PROVE  \E h : Sol(h, U)
    OBVIOUS
  <2>1. ASSUME NEW V \in SUBSET U, V # U PROVE Sol(f[V], V)
    <3>1. \E h : Sol(h, V)
      BY <2>1
    <3>2. f[V] = CHOOSE h : Sol(h, V)
      OBVIOUS
    <3> HIDE DEF Sol, T, f
    <3> QED
      BY <3>1, <3>2
  <2> DEFINE v(t) == t \ {C[t]}
             g == [t \in SUBSET U |-> IF t = {} THEN base ELSE K[f[v(t)][v(t)]][C[t]]]
  <2>2. ASSUME NEW t \in SUBSET U, t # {}
        PROVE  C[t] \in t /\ C[t] \in D /\ v(t) \in SUBSET U /\ v(t) # U /\ v(t) \in SUBSET t
    BY <2>2 DEF Chooses
  <2>3. g \in [SUBSET U -> A]
    <3>1. ASSUME NEW t \in SUBSET U, t # {} PROVE g[t] \in A
      <4>1. f[v(t)][v(t)] \in A
        <5>1. f[v(t)] \in [SUBSET v(t) -> A]
          BY <2>1, <2>2, <3>1
        <5> QED
          BY <5>1
      <4> QED
        BY <4>1, <2>2, <3>1
    <3> QED
      BY <3>1
  <2>4. ASSUME NEW V \in SUBSET U, V # U PROVE g[V] = f[V][V]
    <3>1. Iterates(f[V], V, base, C, K)
      BY <2>1, <2>4
    <3>2. CASE V = {}
      BY <3>1, <3>2 DEF Iterates
    <3>3. CASE V # {}
      <4> DEFINE w == v(V)
      <4>1. w \in SUBSET V /\ w \in SUBSET U /\ w # U /\ w \in SUBSET D
        BY <2>2, <3>3
      <4>2. f[V][V] = K[f[V][w]][C[V]]
        BY <3>1, <3>3 DEF Iterates
      <4>3. Iterates(f[w], w, base, C, K)
        BY <2>1, <4>1
      <4>4. Iterates([t \in SUBSET w |-> f[V][t]], w, base, C, K)
        <5>1. Chooses(C, V)
          BY DEF Chooses
        <5> DEFINE F == f[V]
                   G == [t \in SUBSET w |-> F[t]]
        <5>2. Iterates(F, V, base, C, K)
          BY <3>1
        <5>3. G = [t \in SUBSET w |-> F[t]]
          OBVIOUS
        <5> HIDE DEF F, G, w, f, g, v, T, Sol
        <5>4. Iterates(G, w, base, C, K)
          BY <4>1, <5>1, <5>2, <5>3, IterationRestricts
        <5> QED
          BY <5>4 DEF F, G
      <4>5. [t \in SUBSET w |-> f[V][t]] = f[w]
        <5>1. Chooses(C, w) /\ IsFiniteSet(w)
          BY <4>1, FS_Subset DEF Chooses
        <5> HIDE DEF f, w
        <5> QED
          BY <4>3, <4>4, <5>1, IterationUnique
      <4>6. f[V][w] = f[w][w]
        <5> HIDE DEF f, w
        <5>1. [t \in SUBSET w |-> f[V][t]][w] = f[V][w]
          OBVIOUS
        <5> QED
          BY <4>5, <5>1
      <4> QED
        BY <4>2, <4>6, <3>3
    <3> QED
      BY <3>2, <3>3
  <2>5. Iterates(g, U, base, C, K)
    <3>1. ASSUME NEW t \in SUBSET U, t # {} PROVE g[t] = K[g[v(t)]][C[t]]
      <4>1. g[v(t)] = f[v(t)][v(t)]
        BY <2>2, <2>4, <3>1
      <4> QED
        BY <4>1, <3>1
    <3>2. \A t \in SUBSET U : g[t] = IF t = {} THEN base ELSE K[g[t \ {C[t]}]][C[t]]
      <4> SUFFICES ASSUME NEW t \in SUBSET U
                   PROVE  g[t] = IF t = {} THEN base ELSE K[g[v(t)]][C[t]]
        OBVIOUS
      <4>1. CASE t = {}
        BY <4>1
      <4>2. CASE t # {}
        <5> HIDE DEF g
        <5>1. g[t] = K[g[v(t)]][C[t]]
          BY <3>1, <4>2
        <5> QED
          BY <4>2, <5>1
      <4> QED
        BY <4>1, <4>2
    <3>3. g = [t \in SUBSET U |-> g[t]]
      BY <2>3
    <3> HIDE DEF g
    <3>4. g = [t \in SUBSET U |-> IF t = {} THEN base ELSE K[g[t \ {C[t]}]][C[t]]]
      BY <3>2, <3>3
    <3> QED
      BY <3>4 DEF Iterates
  <2> QED
    BY <2>3, <2>5
<1>2. SUBSET D \subseteq T
  <2> HIDE DEF T
  <2> QED
    BY <1>1, SubsetInduction
<1> QED
  BY <1>2

(* Any function that obeys the recursion as long as it stays in A is that    *)
(* one.                                                                      *)
LEMMA IterationPinned ==
  ASSUME NEW D, IsFiniteSet(D), NEW C, Chooses(C, D), NEW A, NEW base \in A,
         NEW K, \A a \in A, d \in D : K[a][d] \in A,
         NEW h \in [SUBSET D -> A], Iterates(h, D, base, C, K),
         NEW f, f[{}] = base,
         \A t \in SUBSET D : t # {} /\ f[t \ {C[t]}] \in A => f[t] = K[f[t \ {C[t]}]][C[t]]
  PROVE  \A t \in SUBSET D : f[t] = h[t]
<1> DEFINE T == {U \in SUBSET D : f[U] = h[U]}
<1>1. \A U \in SUBSET D : (\A V \in SUBSET U : V # U => V \in T) => U \in T
  <2> SUFFICES ASSUME NEW U \in SUBSET D, \A V \in SUBSET U : V # U => V \in T
               PROVE  f[U] = h[U]
    OBVIOUS
  <2>1. CASE U = {}
    BY <2>1 DEF Iterates
  <2>2. CASE U # {}
    <3> DEFINE V == U \ {C[U]}
    <3>1. C[U] \in U /\ V \in SUBSET U /\ V # U
      BY <2>2 DEF Chooses
    <3>2. f[V] = h[V] /\ h[V] \in A
      BY <3>1
    <3>3. h[U] = K[h[V]][C[U]]
      BY <2>2 DEF Iterates
    <3>4. f[U] = K[f[V]][C[U]]
      BY <2>2, <3>2
    <3> QED
      BY <3>2, <3>3, <3>4
  <2> QED
    BY <2>1, <2>2
<1>2. SUBSET D \subseteq T
  <2> HIDE DEF T
  <2> QED
    BY <1>1, SubsetInduction
<1> QED
  BY <1>2

-----------------------------------------------------------------------------
(* A finite set of numbers has a largest and a smallest one.                 *)
LEMMA LargestExists ==
  ASSUME NEW D \in SUBSET Int, IsFiniteSet(D), D # {}
  PROVE  \E x \in D : \A y \in D : x >= y
<1> DEFINE T == {U \in SUBSET D : U # {} => \E x \in U : \A y \in U : x >= y}
<1>1. \A U \in SUBSET D : (\A V \in SUBSET U : V # U => V \in T) => U \in T
  <2> SUFFICES ASSUME NEW U \in SUBSET D, \A V \in SUBSET U : V # U => V \in T, U # {}
               PROVE  \E x \in U : \A y \in U : x >= y
    OBVIOUS
  <2>1. PICK z \in U : TRUE
    OBVIOUS
  <2> DEFINE V == U \ {z}
  <2>2. V \in T
    <3>1. V \in SUBSET U /\ V # U
      BY <2>1
    <3> HIDE DEF V, T
    <3> QED
      BY <3>1
  <2>3. CASE V = {}
    BY <2>1, <2>3
  <2>4. CASE V # {}
    <3>1. PICK x \in V : \A y \in V : x >= y
      BY <2>2, <2>4
    <3>2. CASE x >= z
      BY <3>1, <3>2
    <3>3. CASE z >= x
      BY <3>1, <3>3
    <3> QED
      BY <3>2, <3>3
  <2> QED
    BY <2>3, <2>4
<1>2. SUBSET D \subseteq T
  <2> HIDE DEF T
  <2> QED
    BY <1>1, SubsetInduction
<1>3. D \in T
  BY <1>2
<1> QED
  BY <1>3

LEMMA SmallestExists ==
  ASSUME NEW D \in SUBSET Int, IsFiniteSet(D), D # {}
  PROVE  \E x \in D : \A y \in D : x <= y
<1> DEFINE N == {-x : x \in D}
           f == [x \in D |-> -x]
<1>1. IsFiniteSet(N)
  <2>1. f \in Surjection(D, N)
    BY DEF Surjection
  <2> QED
    BY <2>1, FS_Surjection
<1>2. N \in SUBSET Int /\ N # {}
  <2>1. PICK x \in D : TRUE
    OBVIOUS
  <2>2. -x \in N
    OBVIOUS
  <2>3. \A y \in D : -y \in Int
    OBVIOUS
  <2> QED
    BY <2>2, <2>3
<1>3. \E x \in N : \A y \in N : x >= y
  <2> HIDE DEF N
  <2> QED
    BY <1>1, <1>2, LargestExists
<1>4. PICK x \in D : \A y \in N : -x >= y
  BY <1>3
<1>5. ASSUME NEW y \in D PROVE x <= y
  <2>1. -y \in N
    OBVIOUS
  <2>2. -x >= -y /\ x \in Int /\ y \in Int
    BY <1>4, <2>1
  <2> QED
    BY <2>2
<1> QED
  BY <1>4, <1>5

(* FoldLeft.                                                                 *)
LEMMA MaxOf ==
  ASSUME NEW n \in Nat, NEW t \in SUBSET (1 .. n), t # {}
  PROVE  Max(t) \in t /\ \A y \in t : Max(t) >= y
<1>1. IsFiniteSet(t)
  <2>1. IsFiniteSet(1 .. n)
    BY FS_Interval
  <2> QED
    BY <2>1, FS_Subset
<1>2. \E x \in t : \A y \in t : x >= y
  BY <1>1, LargestExists
<1> QED
  BY <1>2 DEF Max

LEMMA MaxOfInterval ==
  ASSUME NEW n \in Nat, n # 0
  PROVE  Max(1 .. n) = n /\ (1 .. n) \ {n} = 1 .. n - 1
<1> DEFINE D == 1 .. n
<1>1. D \in SUBSET (1 .. n) /\ n \in D
  OBVIOUS
<1>2. Max(D) \in D /\ \A y \in D : Max(D) >= y
  <2> HIDE DEF D
  <2> QED
    BY <1>1, MaxOf
<1> QED
  BY <1>2

(* The fold of a sequence by the function K, K[a][e] being what the element  *)
(* e makes of a.                                                             *)
SeqFold(K, base, s) == FoldLeft(LAMBDA a, e : K[a][e], base, s)

Closed(K, A, E) == \A a \in A, e \in E : K[a][e] \in A

Recursion(h, s, base, K) ==
  h = [t \in SUBSET DOMAIN s |->
         IF t = {} THEN base ELSE K[h[t \ {Max(t)}]][s[Max(t)]]]

(* What h and f are with respect to the fold: h a function into A that obeys  *)
(* the recursion; f anything that obeys it as long as it stays in A.         *)
FoldsBy(h, s, base, K, A) == h \in [SUBSET DOMAIN s -> A] /\ Recursion(h, s, base, K)

Obeys(f, s, base, K, A) ==
  /\ f[{}] = base
  /\ \A t \in SUBSET DOMAIN s :
       t # {} /\ f[t \ {Max(t)}] \in A => f[t] = K[f[t \ {Max(t)}]][s[Max(t)]]

Foldable(s, base, K, A, E) == base \in A /\ Closed(K, A, E) /\ s \in Seq(E)

(* FoldLeft chooses a function f with f = [t \in SUBSET DOMAIN s |-> ...];    *)
(* there is one.                                                             *)
LEMMA FoldWitness ==
  ASSUME NEW A, NEW E, NEW base, NEW K, NEW s, Foldable(s, base, K, A, E)
  PROVE  \E h : FoldsBy(h, s, base, K, A)
<1> DEFINE n == Len(s)
           D == 1 .. n
           C == [t \in SUBSET D |-> Max(t)]
           KI == [a \in A |-> [d \in D |-> K[a][s[d]]]]
<1>1. DOMAIN s = D /\ n \in Nat /\ \A d \in D : s[d] \in E
  BY DEF Foldable
<1>2. \A t \in SUBSET D : t # {} => Max(t) \in t /\ C[t] = Max(t)
  <2> SUFFICES ASSUME NEW t \in SUBSET D, t # {} PROVE Max(t) \in t
    OBVIOUS
  <2> QED
    BY <1>1, MaxOf
<1>3. Chooses(C, D) /\ IsFiniteSet(D)
  <2>1. IsFiniteSet(D)
    BY <1>1, FS_Interval
  <2>2. \A t \in SUBSET D : t # {} => C[t] \in t
    BY <1>2
  <2> HIDE DEF C, D
  <2> QED
    BY <2>1, <2>2 DEF Chooses
<1>4. \A a \in A, d \in D : KI[a][d] \in A
  BY <1>1 DEF Closed, Foldable
<1>5. base \in A
  BY DEF Foldable
<1>6. PICK h \in [SUBSET D -> A] : Iterates(h, D, base, C, KI)
  <2> HIDE DEF D, C, KI
  <2> QED
    BY <1>3, <1>4, <1>5, IterationExists
<1>7. \A t \in SUBSET D : h[t] = IF t = {} THEN base ELSE K[h[t \ {Max(t)}]][s[Max(t)]]
  <2> SUFFICES ASSUME NEW t \in SUBSET D, t # {}
               PROVE  h[t] = K[h[t \ {Max(t)}]][s[Max(t)]]
    BY <1>6 DEF Iterates
  <2>1. h[t] = KI[h[t \ {C[t]}]][C[t]]
    BY <1>6 DEF Iterates
  <2>2. C[t] = Max(t) /\ Max(t) \in D
    BY <1>2
  <2>3. h[t \ {Max(t)}] \in A
    OBVIOUS
  <2> QED
    BY <2>1, <2>2, <2>3
<1>8. h \in [SUBSET DOMAIN s -> A]
  BY <1>1
<1>9. Recursion(h, s, base, K)
  BY <1>1, <1>7 DEF Recursion
<1> QED
  BY <1>8, <1>9 DEF FoldsBy

(* Whatever obeys the recursion ends with the same value.                    *)
LEMMA FoldPinned ==
  ASSUME NEW A, NEW E, NEW base, NEW K, NEW s, Foldable(s, base, K, A, E),
         NEW h, FoldsBy(h, s, base, K, A), NEW f, Obeys(f, s, base, K, A)
  PROVE  f[DOMAIN s] = h[DOMAIN s]
<1> DEFINE D == DOMAIN s
           T == {U \in SUBSET D : f[U] = h[U]}
<1>1. Len(s) \in Nat /\ D = 1 .. Len(s)
  BY DEF Foldable
<1>2. \A U \in SUBSET D : (\A V \in SUBSET U : V # U => V \in T) => U \in T
  <2> SUFFICES ASSUME NEW U \in SUBSET D, \A V \in SUBSET U : V # U => V \in T
               PROVE  f[U] = h[U]
    OBVIOUS
  <2>1. CASE U = {}
    BY <2>1 DEF Recursion, FoldsBy, Obeys
  <2>2. CASE U # {}
    <3> DEFINE V == U \ {Max(U)}
    <3>1. Max(U) \in U
      BY <1>1, <2>2, MaxOf
    <3>2. f[V] = h[V] /\ h[V] \in A
      BY <3>1 DEF FoldsBy
    <3>3. h[U] = K[h[V]][s[Max(U)]]
      BY <2>2 DEF Recursion, FoldsBy
    <3>4. f[U] = K[f[V]][s[Max(U)]]
      BY <2>2, <3>2 DEF Obeys
    <3> QED
      BY <3>2, <3>3, <3>4
  <2> QED
    BY <2>1, <2>2
<1>3. IsFiniteSet(D)
  BY <1>1, FS_Interval
<1>4. SUBSET D \subseteq T
  <2> HIDE DEF T, D
  <2> QED
    BY <1>2, <1>3, SubsetInduction
<1> QED
  BY <1>4

LEMMA SeqFoldChosen ==
  ASSUME NEW A, NEW E, NEW base, NEW K, NEW s, Foldable(s, base, K, A, E),
         NEW h, FoldsBy(h, s, base, K, A)
  PROVE  SeqFold(K, base, s) = h[DOMAIN s]
<1> DEFINE D == DOMAIN s
           f == CHOOSE g : Recursion(g, s, base, K)
<1>1. SeqFold(K, base, s) = f[D]
  BY DEF SeqFold, FoldLeft, MapThenFoldSet, Recursion
<1>2. Recursion(f, s, base, K)
  BY DEF FoldsBy
<1>3. \A t \in SUBSET D : f[t] = IF t = {} THEN base ELSE K[f[t \ {Max(t)}]][s[Max(t)]]
  <2> HIDE DEF f
  <2> QED
    BY <1>2 DEF Recursion
<1>4. Obeys(f, s, base, K, A)
  <2> HIDE DEF f
  <2> QED
    BY <1>3 DEF Obeys
<1>5. f[D] = h[D]
  <2> HIDE DEF f
  <2> QED
    BY <1>4, FoldPinned
<1> QED
  BY <1>1, <1>5

(* A fold that chooses f is the fold by K when f obeys K.                    *)
LEMMA SeqFoldIs ==
  ASSUME NEW A, NEW E, NEW base, NEW K, NEW s, Foldable(s, base, K, A, E),
         NEW f, Obeys(f, s, base, K, A)
  PROVE  f[DOMAIN s] = SeqFold(K, base, s)
<1>1. PICK h : FoldsBy(h, s, base, K, A)
  BY FoldWitness
<1>2. f[DOMAIN s] = h[DOMAIN s]
  BY <1>1, FoldPinned
<1>3. SeqFold(K, base, s) = h[DOMAIN s]
  BY <1>1, SeqFoldChosen
<1> QED
  BY <1>2, <1>3

(* The accumulator after each element.                                       *)
IsRun(r, s, base, K, A) ==
  /\ r \in [0 .. Len(s) -> A]
  /\ r[0] = base
  /\ \A i \in 1 .. Len(s) : r[i] = K[r[i - 1]][s[i]]

LEMMA SeqFoldRuns ==
  ASSUME NEW A, NEW E, NEW base, NEW K, NEW s, Foldable(s, base, K, A, E)
  PROVE  \E r : IsRun(r, s, base, K, A) /\ SeqFold(K, base, s) = r[Len(s)]
<1> DEFINE n == Len(s)
<1>1. n \in Nat /\ DOMAIN s = 1 .. n
  BY DEF Foldable
<1>2. PICK h : FoldsBy(h, s, base, K, A)
  BY FoldWitness
<1>3. SeqFold(K, base, s) = h[DOMAIN s]
  BY <1>2, SeqFoldChosen
<1> DEFINE r == [i \in 0 .. n |-> h[1 .. i]]
<1>4. r \in [0 .. n -> A]
  <2>1. \A i \in 0 .. n : 1 .. i \in SUBSET DOMAIN s
    BY <1>1
  <2> QED
    BY <1>2, <2>1 DEF FoldsBy
<1>5. r[0] = base
  <2>1. 1 .. 0 = {} /\ 0 \in 0 .. n
    BY <1>1
  <2>2. h[{}] = base
    BY <1>2 DEF Recursion, FoldsBy
  <2> QED
    BY <2>1, <2>2
<1>6. ASSUME NEW i \in 1 .. n PROVE r[i] = K[r[i - 1]][s[i]]
  <2> DEFINE t == 1 .. i
  <2>1. t \in SUBSET DOMAIN s /\ t # {}
    BY <1>1
  <2>2. h[t] = K[h[t \ {Max(t)}]][s[Max(t)]]
    <3> HIDE DEF t
    <3> QED
      BY <1>2, <2>1 DEF Recursion, FoldsBy
  <2>3. Max(t) = i /\ t \ {i} = 1 .. i - 1
    BY MaxOfInterval
  <2>4. i \in 0 .. n /\ i - 1 \in 0 .. n
    BY <1>1
  <2> QED
    BY <2>2, <2>3, <2>4
<1>7. r[n] = h[DOMAIN s]
  BY <1>1
<1> HIDE DEF r
<1>8. IsRun(r, s, base, K, A)
  BY <1>4, <1>5, <1>6 DEF IsRun
<1> QED
  BY <1>3, <1>7, <1>8

LEMMA SeqFoldType ==
  ASSUME NEW A, NEW E, NEW base, NEW K, NEW s, Foldable(s, base, K, A, E)
  PROVE  SeqFold(K, base, s) \in A
<1>1. PICK r : IsRun(r, s, base, K, A) /\ SeqFold(K, base, s) = r[Len(s)]
  BY SeqFoldRuns
<1>2. Len(s) \in Nat
  BY DEF Foldable
<1> QED
  BY <1>1, <1>2 DEF IsRun

LEMMA SeqFoldEmpty ==
  ASSUME NEW A, NEW E, NEW base, NEW K, NEW s, Foldable(s, base, K, A, E), s = <<>>
  PROVE  SeqFold(K, base, s) = base
<1>1. PICK r : IsRun(r, s, base, K, A) /\ SeqFold(K, base, s) = r[Len(s)]
  BY SeqFoldRuns
<1> QED
  BY <1>1 DEF IsRun

(* The last element is applied to what the others give.                      *)
LEMMA SeqFoldAppend ==
  ASSUME NEW A, NEW E, NEW base, NEW K, NEW s, Foldable(s, base, K, A, E), NEW e \in E
  PROVE  SeqFold(K, base, Append(s, e)) = K[SeqFold(K, base, s)][e]
<1> DEFINE n == Len(s)
           u == Append(s, e)
<1>1. n \in Nat /\ u \in Seq(E) /\ Len(u) = n + 1 /\ u[n + 1] = e
        /\ \A i \in 1 .. n : u[i] = s[i]
  BY DEF Foldable
<1>2. PICK r : IsRun(r, s, base, K, A) /\ SeqFold(K, base, s) = r[n]
  BY SeqFoldRuns
<1>3. Foldable(u, base, K, A, E)
  BY <1>1 DEF Foldable
<1>4. PICK q : IsRun(q, u, base, K, A) /\ SeqFold(K, base, u) = q[Len(u)]
  <2> HIDE DEF u
  <2> QED
    BY <1>3, SeqFoldRuns
<1>5. q[n + 1] = K[q[n]][e]
  BY <1>1, <1>4 DEF IsRun
<1> DEFINE T == {i \in Nat : i <= n => q[i] = r[i]}
<1>6. 0 \in T
  BY <1>2, <1>4 DEF IsRun
<1>7. \A i \in Nat : i \in T => i + 1 \in T
  <2> SUFFICES ASSUME NEW i \in Nat, i + 1 <= n, q[i] = r[i] PROVE q[i + 1] = r[i + 1]
    BY <1>1
  <2> DEFINE j == i + 1
  <2>1. j \in 1 .. n /\ j \in 1 .. n + 1 /\ j - 1 = i
    BY <1>1
  <2>2. q[j] = K[q[j - 1]][u[j]] /\ r[j] = K[r[j - 1]][s[j]] /\ u[j] = s[j]
    <3> HIDE DEF j, u
    <3> QED
      BY <1>1, <1>2, <1>4, <2>1 DEF IsRun
  <2> QED
    BY <2>1, <2>2
<1>8. Nat \subseteq T
  <2> HIDE DEF T
  <2> QED
    BY <1>6, <1>7, NatSetInduction
<1>9. q[n] = r[n]
  BY <1>1, <1>8
<1> QED
  BY <1>1, <1>2, <1>4, <1>5, <1>9

-----------------------------------------------------------------------------
(* Sums: what the elements of s weigh together, w being their weights.       *)
Adding(w) == [a \in Int |-> [e \in DOMAIN w |-> a + w[e]]]

Weight(w, s) == SeqFold(Adding(w), 0, s)

LEMMA Summable ==
  ASSUME NEW E, NEW w \in [E -> Int], NEW s \in Seq(E)
  PROVE  Foldable(s, 0, Adding(w), Int, E)
<1>1. Closed(Adding(w), Int, E)
  BY DEF Closed, Adding
<1> QED
  BY <1>1 DEF Foldable

(* The partial sums.                                                         *)
IsSum(r, w, s) ==
  /\ r \in [0 .. Len(s) -> Int]
  /\ r[0] = 0
  /\ \A i \in 1 .. Len(s) : r[i] = r[i - 1] + w[s[i]]
  /\ Weight(w, s) = r[Len(s)]

LEMMA PartialSums ==
  ASSUME NEW E, NEW w \in [E -> Int], NEW s \in Seq(E)
  PROVE  \E r : IsSum(r, w, s)
<1>1. Foldable(s, 0, Adding(w), Int, E)
  BY Summable
<1>2. PICK r : IsRun(r, s, 0, Adding(w), Int) /\ SeqFold(Adding(w), 0, s) = r[Len(s)]
  BY <1>1, SeqFoldRuns
<1>3. ASSUME NEW i \in 1 .. Len(s) PROVE r[i] = r[i - 1] + w[s[i]]
  <2>1. r[i] = Adding(w)[r[i - 1]][s[i]]
    BY <1>2 DEF IsRun
  <2>2. r[i - 1] \in Int /\ s[i] \in E
    BY <1>2 DEF IsRun
  <2> QED
    BY <2>1, <2>2 DEF Adding
<1> QED
  BY <1>2, <1>3 DEF IsSum, IsRun, Weight

LEMMA WeightType ==
  ASSUME NEW E, NEW w \in [E -> Int], NEW s \in Seq(E)
  PROVE  Weight(w, s) \in Int
BY Summable, SeqFoldType DEF Weight

LEMMA WeightEmpty ==
  ASSUME NEW E, NEW w \in [E -> Int]
  PROVE  Weight(w, <<>>) = 0
<1> DEFINE s == <<>>
<1>1. s \in Seq(E) /\ Len(s) = 0
  OBVIOUS
<1>2. \E r : IsSum(r, w, s)
  <2> HIDE DEF s
  <2> QED
    BY <1>1, PartialSums
<1>3. Weight(w, s) = 0
  BY <1>1, <1>2 DEF IsSum
<1> QED
  BY <1>3

LEMMA WeightAppend ==
  ASSUME NEW E, NEW w \in [E -> Int], NEW s \in Seq(E), NEW e \in E
  PROVE  Weight(w, Append(s, e)) = Weight(w, s) + w[e]
<1>1. Foldable(s, 0, Adding(w), Int, E)
  BY Summable
<1>2. Weight(w, Append(s, e)) = Adding(w)[Weight(w, s)][e]
  BY <1>1, SeqFoldAppend DEF Weight
<1>3. Weight(w, s) \in Int
  BY WeightType
<1> QED
  BY <1>2, <1>3 DEF Adding

Summed(w, s, E) == w \in [E -> Int] /\ s \in Seq(E)

(* h is what FoldLeft builds to add the weights of s to b.                   *)
AddsUp(h, w, b, s) ==
  h = [t \in SUBSET DOMAIN s |-> IF t = {} THEN b ELSE h[t \ {Max(t)}] + w[s[Max(t)]]]

LEMMA LastPlace ==
  ASSUME NEW E, NEW s \in Seq(E), NEW t \in SUBSET DOMAIN s, t # {}
  PROVE  Max(t) \in DOMAIN s /\ s[Max(t)] \in E
<1>1. DOMAIN s = 1 .. Len(s) /\ Len(s) \in Nat
  OBVIOUS
<1>2. Max(t) \in t
  BY <1>1, MaxOf
<1> QED
  BY <1>2

LEMMA AdditionIs ==
  ASSUME NEW E, NEW w, NEW s, Summed(w, s, E), NEW t \in SUBSET DOMAIN s, t # {}, NEW a \in Int
  PROVE  Adding(w)[a][s[Max(t)]] = a + w[s[Max(t)]]
BY LastPlace DEF Summed, Adding

LEMMA SummableFrom ==
  ASSUME NEW E, NEW w, NEW s, Summed(w, s, E), NEW b \in Int
  PROVE  Foldable(s, b, Adding(w), Int, E)
BY Summable DEF Summed, Foldable

LEMMA SumExists ==
  ASSUME NEW E, NEW w, NEW s, Summed(w, s, E), NEW b \in Int
  PROVE  \E h : AddsUp(h, w, b, s)
<1>1. PICK h : FoldsBy(h, s, b, Adding(w), Int)
  BY SummableFrom, FoldWitness
<1>2. ASSUME NEW t \in SUBSET DOMAIN s, t # {}
      PROVE  h[t] = h[t \ {Max(t)}] + w[s[Max(t)]]
  <2>1. h[t] = Adding(w)[h[t \ {Max(t)}]][s[Max(t)]]
    BY <1>1, <1>2 DEF FoldsBy, Recursion
  <2>2. h[t \ {Max(t)}] \in Int
    BY <1>1 DEF FoldsBy
  <2> QED
    BY <1>2, <2>1, <2>2, AdditionIs
<1>3. h = [t \in SUBSET DOMAIN s |-> h[t]] /\ h[{}] = b
  BY <1>1 DEF FoldsBy, Recursion
<1>4. \A t \in SUBSET DOMAIN s :
        h[t] = IF t = {} THEN b ELSE h[t \ {Max(t)}] + w[s[Max(t)]]
  BY <1>2, <1>3
<1>5. AddsUp(h, w, b, s)
  BY <1>3, <1>4 DEF AddsUp
<1> QED
  BY <1>5

LEMMA SumFrom ==
  ASSUME NEW E, NEW w, NEW s, Summed(w, s, E), NEW b \in Int, NEW f, AddsUp(f, w, b, s)
  PROVE  f[DOMAIN s] = b + Weight(w, s)
<1>1. Obeys(f, s, b, Adding(w), Int)
  <2>1. f[{}] = b
    BY DEF AddsUp
  <2>2. ASSUME NEW t \in SUBSET DOMAIN s, t # {}, f[t \ {Max(t)}] \in Int
        PROVE  f[t] = Adding(w)[f[t \ {Max(t)}]][s[Max(t)]]
    <3>1. f[t] = f[t \ {Max(t)}] + w[s[Max(t)]]
      BY <2>2 DEF AddsUp
    <3> QED
      BY <2>2, <3>1, AdditionIs
  <2> QED
    BY <2>1, <2>2 DEF Obeys
<1>2. Foldable(s, b, Adding(w), Int, E)
  BY SummableFrom
<1>3. f[DOMAIN s] = SeqFold(Adding(w), b, s)
  BY <1>1, <1>2, SeqFoldIs
<1>4. PICK r : IsRun(r, s, b, Adding(w), Int) /\ SeqFold(Adding(w), b, s) = r[Len(s)]
  BY <1>2, SeqFoldRuns
<1>5. PICK z : IsSum(z, w, s)
  BY PartialSums DEF Summed
<1>6. Len(s) \in Nat /\ w \in [E -> Int] /\ \A i \in 1 .. Len(s) : s[i] \in E
  BY DEF Summed
<1> DEFINE T == {j \in Nat : j <= Len(s) => r[j] = b + z[j]}
<1>7. 0 \in T
  BY <1>4, <1>5 DEF IsRun, IsSum
<1>8. \A j \in Nat : j \in T => j + 1 \in T
  <2> SUFFICES ASSUME NEW j \in Nat, j + 1 <= Len(s), r[j] = b + z[j]
               PROVE  r[j + 1] = b + z[j + 1]
    BY <1>6
  <2> DEFINE k == j + 1
  <2>1. k \in 1 .. Len(s) /\ k - 1 = j /\ j \in 0 .. Len(s)
    BY <1>6
  <2> HIDE DEF k
  <2>2. r[k] = Adding(w)[r[j]][s[k]] /\ z[k] = z[j] + w[s[k]]
    BY <1>4, <1>5, <2>1 DEF IsRun, IsSum
  <2>3. r[j] \in Int /\ z[j] \in Int /\ s[k] \in E /\ w[s[k]] \in Int
    BY <1>4, <1>5, <1>6, <2>1 DEF IsRun, IsSum
  <2>4. r[k] = r[j] + w[s[k]]
    BY <1>6, <2>2, <2>3 DEF Adding
  <2>5. r[k] = b + z[k]
    BY <2>2, <2>3, <2>4
  <2> QED
    BY <2>5 DEF k
<1>9. Len(s) \in T
  <2> HIDE DEF T
  <2> QED
    BY <1>6, <1>7, <1>8, NatSetInduction
<1>10. r[Len(s)] = b + z[Len(s)]
  BY <1>6, <1>9
<1> QED
  BY <1>3, <1>4, <1>5, <1>10 DEF IsSum

(* Weights that are not negative add up to a number that is not, and one of  *)
(* them is not more than all together.                                       *)
LEMMA WeightPositive ==
  ASSUME NEW E, NEW w \in [E -> Nat], NEW s \in Seq(E)
  PROVE  Weight(w, s) \in Nat /\ \A i \in DOMAIN s : w[s[i]] <= Weight(w, s)
<1> DEFINE n == Len(s)
<1>1. w \in [E -> Int] /\ n \in Nat /\ DOMAIN s = 1 .. n /\ \A i \in 1 .. n : s[i] \in E
  OBVIOUS
<1>2. PICK r : IsSum(r, w, s)
  BY <1>1, PartialSums
<1> DEFINE T == {j \in Nat : j <= n => r[j] \in Nat /\ \A i \in 1 .. j : w[s[i]] <= r[j]}
<1>3. 0 \in T
  BY <1>2 DEF IsSum
<1>4. \A j \in Nat : j \in T => j + 1 \in T
  <2> SUFFICES ASSUME NEW j \in Nat, j + 1 <= n, r[j] \in Nat, \A i \in 1 .. j : w[s[i]] <= r[j]
               PROVE  r[j + 1] \in Nat /\ \A i \in 1 .. j + 1 : w[s[i]] <= r[j + 1]
    BY <1>1
  <2> DEFINE k == j + 1
  <2>1. k \in 1 .. n /\ k - 1 = j
    BY <1>1
  <2>2. r[k] = r[k - 1] + w[s[k]] /\ w[s[k]] \in Nat
    <3> HIDE DEF k
    <3> QED
      BY <1>1, <1>2, <2>1 DEF IsSum
  <2>3. \A i \in 1 .. k : i = k \/ i \in 1 .. j
    OBVIOUS
  <2>4. r[k] = r[j] + w[s[k]] /\ r[k] \in Nat
    BY <2>1, <2>2
  <2>5. ASSUME NEW i \in 1 .. k PROVE w[s[i]] <= r[k]
    <3>1. w[s[i]] \in Nat
      BY <1>1, <2>1
    <3> HIDE DEF k
    <3>2. CASE i = k
      BY <2>4, <2>2, <3>2
    <3>3. CASE i \in 1 .. j
      <4>1. w[s[i]] <= r[j]
        BY <3>3
      <4>2. r[j] <= r[k]
        BY <2>2, <2>4
      <4> QED
        BY <2>4, <3>1, <4>1, <4>2
    <3> QED
      BY <2>3, <3>2, <3>3
  <2> QED
    BY <2>4, <2>5
<1>5. Nat \subseteq T
  <2> HIDE DEF T
  <2> QED
    BY <1>3, <1>4, NatSetInduction
<1>6. n \in T
  BY <1>1, <1>5
<1> QED
  BY <1>1, <1>2, <1>6 DEF IsSum

(* u is s with another element at place k.                                   *)
Replaced(u, s, k) ==
  k \in DOMAIN s /\ Len(u) = Len(s) /\ \A i \in DOMAIN s : i # k => u[i] = s[i]

(* u is s without its element at place k.                                    *)
Removed(u, s, k) ==
  /\ k \in DOMAIN s /\ Len(u) = Len(s) - 1
  /\ \A i \in DOMAIN u : u[i] = IF i < k THEN s[i] ELSE s[i + 1]

LEMMA WeightReplace ==
  ASSUME NEW E, NEW w, NEW s, NEW u, NEW k,
         Summed(w, s, E), Summed(w, u, E), Replaced(u, s, k)
  PROVE  Weight(w, u) = Weight(w, s) - w[s[k]] + w[u[k]]
<1> SUFFICES ASSUME w \in [E -> Int], s \in Seq(E), u \in Seq(E), k \in DOMAIN s,
                    Len(u) = Len(s), \A i \in DOMAIN s : i # k => u[i] = s[i]
             PROVE  Weight(w, u) = Weight(w, s) - w[s[k]] + w[u[k]]
  BY DEF Summed, Replaced
<1> DEFINE n == Len(s)
           d == w[u[k]] - w[s[k]]
<1>1. n \in Nat /\ DOMAIN s = 1 .. n /\ DOMAIN u = 1 .. n /\ k \in 1 .. n
        /\ \A i \in 1 .. n : s[i] \in E /\ u[i] \in E /\ w[s[i]] \in Int /\ w[u[i]] \in Int
  OBVIOUS
<1>2. PICK r : IsSum(r, w, s)
  BY PartialSums
<1>3. PICK q : IsSum(q, w, u)
  BY PartialSums
<1> DEFINE T == {j \in Nat : j <= n => q[j] = IF j < k THEN r[j] ELSE r[j] + d}
<1>4. 0 \in T
  BY <1>1, <1>2, <1>3 DEF IsSum
<1>5. \A j \in Nat : j \in T => j + 1 \in T
  <2> SUFFICES ASSUME NEW j \in Nat, j + 1 <= n, q[j] = IF j < k THEN r[j] ELSE r[j] + d
               PROVE  q[j + 1] = IF j + 1 < k THEN r[j + 1] ELSE r[j + 1] + d
    BY <1>1
  <2> DEFINE m == j + 1
  <2>1. m \in 1 .. n /\ m - 1 = j /\ j \in 0 .. n
    BY <1>1
  <2>2. r[m] = r[j] + w[s[m]] /\ q[m] = q[j] + w[u[m]] /\ r[j] \in Int
    <3>1. r[m] = r[m - 1] + w[s[m]] /\ q[m] = q[m - 1] + w[u[m]] /\ r[j] \in Int
      <4> HIDE DEF m
      <4> QED
        BY <1>1, <1>2, <1>3, <2>1 DEF IsSum
    <3> QED
      BY <2>1, <3>1
  <2>3. w[s[m]] \in Int /\ w[u[m]] \in Int /\ w[s[k]] \in Int /\ w[u[k]] \in Int
    BY <1>1, <2>1
  <2>4. CASE m = k
    <3>1. q[j] = r[j]
      BY <1>1, <2>1, <2>4
    <3>2. q[m] = r[m] + d
      BY <2>2, <2>3, <2>4, <3>1
    <3> QED
      BY <1>1, <2>4, <3>2
  <2>5. CASE m # k
    <3>1. u[m] = s[m]
      BY <1>1, <2>1, <2>5
    <3>2. CASE m < k
      <4>1. q[j] = r[j]
        BY <1>1, <2>1, <3>2
      <4>2. q[m] = r[m]
        BY <2>2, <3>1, <4>1
      <4> QED
        BY <3>2, <4>2
    <3>3. CASE m > k
      <4>1. q[j] = r[j] + d
        BY <1>1, <2>1, <3>3
      <4>2. d \in Int
        BY <2>3
      <4>3. q[m] = r[m] + d
        <5> HIDE DEF d, n, m
        <5> QED
          BY <2>2, <2>3, <3>1, <4>1, <4>2
      <4> QED
        BY <1>1, <3>3, <4>3
    <3> QED
      BY <1>1, <2>1, <2>5, <3>2, <3>3
  <2> QED
    BY <2>4, <2>5
<1>6. Nat \subseteq T
  <2> HIDE DEF T
  <2> QED
    BY <1>4, <1>5, NatSetInduction
<1>7. q[n] = r[n] + d
  BY <1>1, <1>6
<1>8. Weight(w, u) = q[n] /\ Weight(w, s) = r[n] /\ r[n] \in Int
  BY <1>1, <1>2, <1>3 DEF IsSum
<1> QED
  BY <1>1, <1>7, <1>8

LEMMA WeightRemove ==
  ASSUME NEW E, NEW w, NEW s, NEW u, NEW k,
         Summed(w, s, E), Summed(w, u, E), Removed(u, s, k)
  PROVE  Weight(w, u) = Weight(w, s) - w[s[k]]
<1> SUFFICES ASSUME w \in [E -> Int], s \in Seq(E), u \in Seq(E), k \in DOMAIN s,
                    Len(u) = Len(s) - 1,
                    \A i \in DOMAIN u : u[i] = IF i < k THEN s[i] ELSE s[i + 1]
             PROVE  Weight(w, u) = Weight(w, s) - w[s[k]]
  BY DEF Summed, Removed
<1> DEFINE n == Len(s)
           d == w[s[k]]
<1>1. n \in Nat /\ DOMAIN s = 1 .. n /\ DOMAIN u = 1 .. n - 1 /\ k \in 1 .. n
        /\ \A i \in 1 .. n : s[i] \in E /\ w[s[i]] \in Int
  OBVIOUS
<1>2. PICK r : IsSum(r, w, s)
  BY PartialSums
<1>3. PICK q : IsSum(q, w, u)
  BY PartialSums
<1> DEFINE T == {j \in Nat : j < n => q[j] = IF j < k THEN r[j] ELSE r[j + 1] - d}
<1>4. 0 \in T
  BY <1>1, <1>2, <1>3 DEF IsSum
<1>5. \A j \in Nat : j \in T => j + 1 \in T
  <2> SUFFICES ASSUME NEW j \in Nat, j + 1 < n, q[j] = IF j < k THEN r[j] ELSE r[j + 1] - d
               PROVE  q[j + 1] = IF j + 1 < k THEN r[j + 1] ELSE r[j + 1 + 1] - d
    BY <1>1
  <2> DEFINE m == j + 1
             p == m + 1
  <2>1. m \in 1 .. n - 1 /\ m \in 1 .. n /\ m - 1 = j /\ p \in 1 .. n /\ p - 1 = m /\ j \in 0 .. n
    BY <1>1
  <2>2. r[m] = r[j] + w[s[m]] /\ q[m] = q[j] + w[u[m]] /\ r[p] = r[m] + w[s[p]]
          /\ r[j] \in Int /\ r[m] \in Int /\ r[p] \in Int
    <3>1. Len(u) = n - 1 /\ m \in 0 .. n /\ p \in 0 .. n
      BY <1>1, <2>1
    <3>2. r[m] = r[m - 1] + w[s[m]] /\ q[m] = q[m - 1] + w[u[m]] /\ r[p] = r[p - 1] + w[s[p]]
      <4> HIDE DEF m, p
      <4> QED
        BY <1>1, <1>2, <1>3, <2>1, <3>1 DEF IsSum
    <3>3. r[j] \in Int /\ r[m] \in Int /\ r[p] \in Int
      <4> HIDE DEF m, p
      <4> QED
        BY <1>1, <1>2, <2>1, <3>1 DEF IsSum
    <3> QED
      BY <2>1, <3>2, <3>3
  <2>3. w[s[m]] \in Int /\ w[s[p]] \in Int /\ w[s[k]] \in Int
    <3>1. m \in DOMAIN s /\ p \in DOMAIN s
      BY <1>1, <2>1
    <3> HIDE DEF m, p
    <3>2. \A i \in DOMAIN s : s[i] \in E
      OBVIOUS
    <3>3. \A i \in DOMAIN s : w[s[i]] \in Int
      BY <3>2
    <3> QED
      BY <3>1, <3>3
  <2>4. u[m] = IF m < k THEN s[m] ELSE s[p]
    BY <1>1, <2>1
  <2>5. d \in Int /\ m \in Int /\ k \in Int
    <3>1. k \in Int /\ m \in Int
      BY <1>1
    <3> QED
      BY <2>3, <3>1
  <2>6. CASE m < k
    <3>1. q[j] = r[j] /\ u[m] = s[m]
      BY <1>1, <2>1, <2>4, <2>6
    <3>2. q[m] = r[m]
      <4> HIDE DEF m, p, d, n
      <4> QED
        BY <2>1, <2>2, <3>1
    <3> QED
      BY <2>6, <3>2
  <2>7. CASE m = k
    <3>1. q[j] = r[j] /\ u[m] = s[p] /\ d = w[s[m]]
      BY <1>1, <2>1, <2>4, <2>7
    <3>2. q[m] = r[p] - d
      <4> HIDE DEF m, p, d, n
      <4>1. r[j] = r[m] - d
        <5>1. r[m] = r[j] + d /\ r[j] \in Int /\ d \in Int
          BY <2>2, <2>5, <3>1
        <5> QED
          BY <5>1
      <4>2. q[m] = r[j] + w[s[p]]
        BY <2>2, <3>1
      <4> QED
        BY <2>2, <2>3, <2>5, <4>1, <4>2
    <3> QED
      BY <2>5, <2>7, <3>2
  <2>8. CASE m > k
    <3>1. q[j] = r[m] - d /\ u[m] = s[p]
      BY <1>1, <2>1, <2>4, <2>8
    <3>2. q[m] = r[p] - d
      <4> HIDE DEF m, p, d, n
      <4> QED
        BY <2>2, <2>3, <2>5, <3>1
    <3> QED
      BY <2>5, <2>8, <3>2
  <2> QED
    <3>1. m < k \/ m = k \/ m > k
      BY <2>5
    <3> QED
      BY <2>6, <2>7, <2>8, <3>1
<1>6. Nat \subseteq T
  <2> HIDE DEF T
  <2> QED
    BY <1>4, <1>5, NatSetInduction
<1>7. CASE k = n
  <2> DEFINE j == n - 1
  <2>1. j \in Nat /\ j < n /\ j < k
    BY <1>1, <1>7
  <2>2. q[j] = r[j]
    <3> HIDE DEF j
    <3> QED
      BY <1>6, <2>1
  <2>3. r[n] = r[j] + d
    BY <1>1, <1>2, <1>7 DEF IsSum
  <2>4. Weight(w, u) = q[j] /\ Weight(w, s) = r[n] /\ r[j] \in Int
    BY <1>1, <1>2, <1>3, <2>1 DEF IsSum
  <2> QED
    BY <1>1, <2>2, <2>3, <2>4
<1>8. CASE k # n
  <2> DEFINE j == n - 1
  <2>1. j \in Nat /\ j < n /\ ~ (j < k) /\ j + 1 = n
    BY <1>1, <1>8
  <2>2. q[j] = r[j + 1] - d
    <3> HIDE DEF j
    <3> QED
      BY <1>6, <2>1
  <2>3. Weight(w, u) = q[j] /\ Weight(w, s) = r[n]
    BY <1>1, <1>2, <1>3, <2>1 DEF IsSum
  <2> QED
    BY <1>1, <2>1, <2>2, <2>3
<1> QED
  BY <1>7, <1>8

-----------------------------------------------------------------------------
(* MapThenSumSet: what the members of a finite set weigh together.           *)
Taken(t) == CHOOSE x \in t : TRUE

SetWeight(w, S) == MapThenSumSet(LAMBDA x : w[x], S)

(* g sums the subsets of S; f does as long as it gives numbers.              *)
Sums(g, w, S) ==
  /\ g \in [SUBSET S -> Int]
  /\ g = [t \in SUBSET S |-> IF t = {} THEN 0 ELSE w[Taken(t)] + g[t \ {Taken(t)}]]

ObeysSum(f, w, S) ==
  /\ f[{}] = 0
  /\ \A t \in SUBSET S :
       t # {} /\ f[t \ {Taken(t)}] \in Int => f[t] = w[Taken(t)] + f[t \ {Taken(t)}]

Weighs(w, S) == IsFiniteSet(S) /\ \A x \in S : w[x] \in Int

LEMMA TakenIn == \A t : t # {} => Taken(t) \in t
BY DEF Taken

LEMMA SumWitness ==
  ASSUME NEW w, NEW S, Weighs(w, S)
  PROVE  \E g : Sums(g, w, S)
<1> DEFINE C == [t \in SUBSET S |-> Taken(t)]
           K == [a \in Int |-> [x \in S |-> w[x] + a]]
<1>1. \A t \in SUBSET S : t # {} => C[t] \in t
  BY TakenIn
<1>2. IsFiniteSet(S) /\ \A a \in Int, x \in S : K[a][x] \in Int
  BY DEF Weighs
<1>3. PICK g \in [SUBSET S -> Int] : Iterates(g, S, 0, C, K)
  <2> HIDE DEF C, K
  <2>1. Chooses(C, S)
    BY <1>1 DEF Chooses
  <2>2. 0 \in Int
    OBVIOUS
  <2> QED
    BY <1>2, <2>1, <2>2, IterationExists
<1>4. ASSUME NEW t \in SUBSET S, t # {} PROVE g[t] = w[Taken(t)] + g[t \ {Taken(t)}]
  <2>1. g[t] = K[g[t \ {C[t]}]][C[t]]
    BY <1>3, <1>4 DEF Iterates
  <2>2. C[t] = Taken(t) /\ Taken(t) \in S /\ g[t \ {Taken(t)}] \in Int
    BY <1>1, <1>4
  <2> QED
    BY <2>1, <2>2
<1>5. g[{}] = 0
  BY <1>3 DEF Iterates
<1>6. \A t \in SUBSET S : g[t] = IF t = {} THEN 0 ELSE w[Taken(t)] + g[t \ {Taken(t)}]
  BY <1>4, <1>5
<1> QED
  BY <1>6 DEF Sums

LEMMA SumPinned ==
  ASSUME NEW w, NEW S, Weighs(w, S), NEW g, Sums(g, w, S), NEW f, ObeysSum(f, w, S)
  PROVE  \A t \in SUBSET S : f[t] = g[t]
<1> DEFINE T == {U \in SUBSET S : f[U] = g[U]}
<1>1. \A U \in SUBSET S : (\A V \in SUBSET U : V # U => V \in T) => U \in T
  <2> SUFFICES ASSUME NEW U \in SUBSET S, \A V \in SUBSET U : V # U => V \in T
               PROVE  f[U] = g[U]
    OBVIOUS
  <2>1. CASE U = {}
    BY <2>1 DEF Sums, ObeysSum
  <2>2. CASE U # {}
    <3> DEFINE V == U \ {Taken(U)}
    <3>1. Taken(U) \in U
      BY <2>2, TakenIn
    <3>2. f[V] = g[V] /\ g[V] \in Int
      BY <3>1 DEF Sums
    <3>3. g[U] = w[Taken(U)] + g[V]
      BY <2>2 DEF Sums
    <3>4. f[U] = w[Taken(U)] + f[V]
      BY <2>2, <3>2 DEF ObeysSum
    <3> QED
      BY <3>2, <3>3, <3>4
  <2> QED
    BY <2>1, <2>2
<1>2. IsFiniteSet(S)
  BY DEF Weighs
<1>3. SUBSET S \subseteq T
  <2> HIDE DEF T
  <2> QED
    BY <1>1, <1>2, SubsetInduction
<1> QED
  BY <1>3

LEMMA SetWeightChosen ==
  ASSUME NEW w, NEW S, Weighs(w, S), NEW g, Sums(g, w, S)
  PROVE  SetWeight(w, S) = g[S]
<1> DEFINE F(h) == [t \in SUBSET S |-> IF t = {} THEN 0 ELSE w[Taken(t)] + h[t \ {Taken(t)}]]
           f == CHOOSE h : h = F(h)
<1>1. SetWeight(w, S) = f[S]
  BY DEF SetWeight, MapThenSumSet, MapThenFoldSet, Taken
<1>2. f = F(f)
  BY DEF Sums
<1>3. ObeysSum(f, w, S)
  <2> HIDE DEF f
  <2>1. \A t \in SUBSET S : f[t] = IF t = {} THEN 0 ELSE w[Taken(t)] + f[t \ {Taken(t)}]
    BY <1>2
  <2> QED
    BY <2>1 DEF ObeysSum
<1>4. \A t \in SUBSET S : f[t] = g[t]
  <2> HIDE DEF f
  <2> QED
    BY <1>3, SumPinned
<1> QED
  BY <1>1, <1>4

(* A sum that chooses f is the sum by w when f obeys w.                      *)
LEMMA SetWeightIs ==
  ASSUME NEW w, NEW S, Weighs(w, S), NEW f, ObeysSum(f, w, S)
  PROVE  f[S] = SetWeight(w, S)
<1>1. PICK g : Sums(g, w, S)
  BY SumWitness
<1>2. \A t \in SUBSET S : f[t] = g[t]
  BY <1>1, SumPinned
<1> QED
  BY <1>1, <1>2, SetWeightChosen

(* The sums of the subsets of S are those that g gives.                      *)
LEMMA SubsetSums ==
  ASSUME NEW w, NEW S, Weighs(w, S), NEW g, Sums(g, w, S), NEW V \in SUBSET S
  PROVE  SetWeight(w, V) = g[V]
<1>1. Weighs(w, V)
  BY FS_Subset DEF Weighs
<1>2. PICK h : Sums(h, w, V)
  BY <1>1, SumWitness
<1>3. ObeysSum(g, w, V)
  BY DEF ObeysSum, Sums
<1>4. \A t \in SUBSET V : g[t] = h[t]
  BY <1>1, <1>2, <1>3, SumPinned
<1>5. SetWeight(w, V) = h[V]
  BY <1>1, <1>2, SetWeightChosen
<1> QED
  BY <1>4, <1>5

LEMMA SetWeightType ==
  ASSUME NEW w, NEW S, Weighs(w, S)
  PROVE  SetWeight(w, S) \in Int
<1>1. PICK g : Sums(g, w, S)
  BY SumWitness
<1>2. SetWeight(w, S) = g[S]
  BY <1>1, SetWeightChosen
<1> QED
  BY <1>1, <1>2 DEF Sums

LEMMA SetWeightEmpty ==
  ASSUME NEW w
  PROVE  SetWeight(w, {}) = 0
<1> DEFINE S == {}
<1>1. Weighs(w, S)
  BY FS_EmptySet DEF Weighs
<1>2. PICK g : Sums(g, w, S)
  <2> HIDE DEF S
  <2> QED
    BY <1>1, SumWitness
<1>3. SetWeight(w, S) = g[S]
  <2> HIDE DEF S
  <2> QED
    BY <1>1, <1>2, SetWeightChosen
<1> QED
  BY <1>2, <1>3 DEF Sums

(* Any member of the set may be taken out.                                   *)
LEMMA SetWeightRemove ==
  ASSUME NEW w, NEW S, Weighs(w, S), NEW e \in S
  PROVE  SetWeight(w, S) = SetWeight(w, S \ {e}) + w[e]
<1>1. PICK g : Sums(g, w, S)
  BY SumWitness
<1> DEFINE T == {U \in SUBSET S : \A x \in U : g[U] = g[U \ {x}] + w[x]}
<1>2. \A U \in SUBSET S : (\A V \in SUBSET U : V # U => V \in T) => U \in T
  <2> SUFFICES ASSUME NEW U \in SUBSET S, \A V \in SUBSET U : V # U => V \in T, NEW x \in U
               PROVE  g[U] = g[U \ {x}] + w[x]
    OBVIOUS
  <2> DEFINE c == Taken(U)
  <2>1. c \in U
    BY TakenIn
  <2>2. g[U] = w[c] + g[U \ {c}]
    BY <1>1 DEF Sums
  <2>3. w[c] \in Int /\ w[x] \in Int
    BY <2>1 DEF Weighs
  <2>4. \A V \in SUBSET S : g[V] \in Int
    BY <1>1 DEF Sums
  <2>5. CASE x = c
    <3>1. g[U \ {c}] \in Int
      BY <2>4
    <3> HIDE DEF c
    <3> QED
      BY <2>2, <2>3, <2>5, <3>1
  <2>6. CASE x # c
    <3> DEFINE V == U \ {x}
               W == U \ {c}
               N == V \ {c}
    <3>1. V \in T /\ W \in T /\ c \in V /\ x \in W
      BY <2>1, <2>6
    <3>2. g[V] = g[N] + w[c]
      BY <3>1
    <3>3. W \ {x} = N
      OBVIOUS
    <3>4. g[W] = g[N] + w[x]
      <4>1. g[W] = g[W \ {x}] + w[x]
        BY <3>1
      <4> QED
        BY <3>3, <4>1
    <3>5. g[N] \in Int
      BY <2>4
    <3>6. g[U] = w[c] + g[W]
      BY <2>2
    <3> HIDE DEF V, W, N, c
    <3>7. g[U] = g[V] + w[x]
      BY <2>3, <3>2, <3>4, <3>5, <3>6
    <3> QED
      BY <3>7 DEF V
  <2> QED
    BY <2>5, <2>6
<1>3. SUBSET S \subseteq T
  <2>1. IsFiniteSet(S)
    BY DEF Weighs
  <2> HIDE DEF T
  <2> QED
    BY <1>2, <2>1, SubsetInduction
<1>4. g[S] = g[S \ {e}] + w[e]
  BY <1>3
<1>5. SetWeight(w, S) = g[S]
  BY <1>1, SetWeightChosen
<1>6. SetWeight(w, S \ {e}) = g[S \ {e}]
  <2> DEFINE V == S \ {e}
  <2>1. V \in SUBSET S
    OBVIOUS
  <2> HIDE DEF V
  <2>2. SetWeight(w, V) = g[V]
    BY <1>1, <2>1, SubsetSums
  <2> QED
    BY <2>2 DEF V
<1> QED
  BY <1>4, <1>5, <1>6

(* Only the weights of the members count.                                    *)
LEMMA SetWeightSame ==
  ASSUME NEW w, NEW S, Weighs(w, S), NEW v, \A x \in S : v[x] = w[x]
  PROVE  SetWeight(v, S) = SetWeight(w, S)
<1>1. Weighs(v, S)
  BY DEF Weighs
<1>2. PICK g : Sums(g, w, S)
  BY SumWitness
<1>3. ObeysSum(g, v, S)
  BY <1>2, TakenIn DEF ObeysSum, Sums
<1>4. g[S] = SetWeight(v, S)
  BY <1>1, <1>3, SetWeightIs
<1>5. SetWeight(w, S) = g[S]
  BY <1>2, SetWeightChosen
<1> QED
  BY <1>4, <1>5

(* Weights that are not negative.                                            *)
LEMMA SetWeightPositive ==
  ASSUME NEW w, NEW S, IsFiniteSet(S), \A x \in S : w[x] \in Nat
  PROVE  SetWeight(w, S) \in Nat
<1>1. Weighs(w, S)
  BY DEF Weighs
<1>2. PICK g : Sums(g, w, S)
  BY <1>1, SumWitness
<1> DEFINE T == {U \in SUBSET S : g[U] \in Nat}
<1>3. \A U \in SUBSET S : (\A V \in SUBSET U : V # U => V \in T) => U \in T
  <2> SUFFICES ASSUME NEW U \in SUBSET S, \A V \in SUBSET U : V # U => V \in T
               PROVE  g[U] \in Nat
    OBVIOUS
  <2>1. CASE U = {}
    BY <1>2, <2>1 DEF Sums
  <2>2. CASE U # {}
    <3> DEFINE V == U \ {Taken(U)}
    <3>1. Taken(U) \in U
      BY <2>2, TakenIn
    <3>2. g[V] \in Nat /\ w[Taken(U)] \in Nat
      BY <3>1
    <3>3. g[U] = w[Taken(U)] + g[V]
      BY <1>2, <2>2 DEF Sums
    <3> QED
      BY <3>2, <3>3
  <2> QED
    BY <2>1, <2>2
<1>4. SUBSET S \subseteq T
  <2> HIDE DEF T
  <2> QED
    BY <1>3, SubsetInduction
<1>5. g[S] \in Nat
  BY <1>4
<1> QED
  BY <1>1, <1>2, <1>5, SetWeightChosen

(* The weight that x adds to the sum over S.                                 *)
At(w, S, x) == IF x \in S THEN w[x] ELSE 0

LEMMA SetWeightAt ==
  ASSUME NEW w, NEW S, Weighs(w, S), NEW W, NEW e \in W
  PROVE  /\ SetWeight(w, S \cap W) = SetWeight(w, S \cap (W \ {e})) + At(w, S, e)
         /\ SetWeight(w, S \cap (W \ {e})) \in Int /\ At(w, S, e) \in Int
<1> DEFINE V == S \cap W
           U == S \cap (W \ {e})
<1>1. V \in SUBSET S /\ U \in SUBSET S /\ U = V \ {e}
  OBVIOUS
<1> HIDE DEF V, U
<1>2. Weighs(w, V) /\ Weighs(w, U)
  BY <1>1, FS_Subset DEF Weighs
<1>3. SetWeight(w, U) \in Int /\ SetWeight(w, V) \in Int
  BY <1>2, SetWeightType
<1>4. At(w, S, e) \in Int
  BY DEF At, Weighs
<1>5. CASE e \in S
  <2>1. e \in V
    BY <1>5 DEF V
  <2>2. SetWeight(w, V) = SetWeight(w, V \ {e}) + w[e]
    BY <1>2, <2>1, SetWeightRemove
  <2> QED
    BY <1>1, <1>3, <1>4, <1>5, <2>2 DEF At, V, U
<1>6. CASE e \notin S
  <2>1. U = V
    BY <1>1, <1>6 DEF V
  <2> QED
    BY <1>3, <1>4, <1>6, <2>1 DEF At, V, U
<1> QED
  BY <1>5, <1>6

(* Two sums are at most a third when they are for every single x.            *)
Covered(g, A, u, B, v, C) ==
  /\ Weighs(g, A) /\ Weighs(u, B) /\ Weighs(v, C)
  /\ \A x \in A \cup B \cup C : At(g, A, x) + At(u, B, x) <= At(v, C, x)

LEMMA SetWeightCovers ==
  ASSUME NEW g, NEW A, NEW u, NEW B, NEW v, NEW C, Covered(g, A, u, B, v, C)
  PROVE  SetWeight(g, A) + SetWeight(u, B) <= SetWeight(v, C)
<1> DEFINE U == A \cup B \cup C
           T == {W \in SUBSET U :
                   SetWeight(g, A \cap W) + SetWeight(u, B \cap W) <= SetWeight(v, C \cap W)}
<1>1. \A W \in SUBSET U : (\A V \in SUBSET W : V # W => V \in T) => W \in T
  <2> SUFFICES ASSUME NEW W \in SUBSET U, \A V \in SUBSET W : V # W => V \in T
               PROVE  SetWeight(g, A \cap W) + SetWeight(u, B \cap W) <= SetWeight(v, C \cap W)
    OBVIOUS
  <2>1. CASE W = {}
    <3>1. A \cap W = {} /\ B \cap W = {} /\ C \cap W = {}
      BY <2>1
    <3>2. SetWeight(g, {}) = 0 /\ SetWeight(u, {}) = 0 /\ SetWeight(v, {}) = 0
      BY SetWeightEmpty
    <3> QED
      BY <3>1, <3>2
  <2>2. CASE W # {}
    <3>1. PICK e : e \in W
      BY <2>2
    <3> DEFINE V == W \ {e}
    <3>2. SetWeight(g, A \cap V) + SetWeight(u, B \cap V) <= SetWeight(v, C \cap V)
      BY <3>1
    <3>3. At(g, A, e) + At(u, B, e) <= At(v, C, e)
      BY <3>1 DEF Covered
    <3>4. /\ SetWeight(g, A \cap W) = SetWeight(g, A \cap V) + At(g, A, e)
          /\ SetWeight(u, B \cap W) = SetWeight(u, B \cap V) + At(u, B, e)
          /\ SetWeight(v, C \cap W) = SetWeight(v, C \cap V) + At(v, C, e)
          /\ SetWeight(g, A \cap V) \in Int /\ At(g, A, e) \in Int
          /\ SetWeight(u, B \cap V) \in Int /\ At(u, B, e) \in Int
          /\ SetWeight(v, C \cap V) \in Int /\ At(v, C, e) \in Int
      BY <3>1, SetWeightAt DEF Covered
    <3> HIDE DEF V
    <3> QED
      BY <3>2, <3>3, <3>4
  <2> QED
    BY <2>1, <2>2
<1>2. IsFiniteSet(U)
  BY FS_Union DEF Covered, Weighs
<1>3. SUBSET U \subseteq T
  <2> HIDE DEF T, U
  <2> QED
    BY <1>1, <1>2, SubsetInduction
<1>4. U \in T
  BY <1>3
<1>5. A \cap U = A /\ B \cap U = B /\ C \cap U = C
  OBVIOUS
<1> QED
  BY <1>4, <1>5

(* Fewer members of smaller weight, the others not being negative.           *)
LEMMA SetWeightBelow ==
  ASSUME NEW u, NEW S, NEW v, NEW U, Weighs(v, U), S \subseteq U,
         \A x \in S : u[x] \in Int /\ u[x] <= v[x], \A x \in U \ S : v[x] >= 0
  PROVE  SetWeight(u, S) <= SetWeight(v, U)
<1> DEFINE N == {}
<1>1. Weighs(u, S) /\ Weighs(u, N)
  BY FS_Subset, FS_EmptySet DEF Weighs
<1>2. Covered(u, N, u, S, v, U)
  BY <1>1 DEF Covered, At, Weighs
<1> HIDE DEF N
<1>3. SetWeight(u, N) + SetWeight(u, S) <= SetWeight(v, U)
  BY <1>2, SetWeightCovers
<1>4. SetWeight(u, N) = 0 /\ SetWeight(u, S) \in Int
  BY <1>1, SetWeightEmpty, SetWeightType DEF N
<1> QED
  BY <1>3, <1>4

(* A sum that starts from the negated weights.                               *)
LEMMA SetWeightNegated ==
  ASSUME NEW w, NEW S, Weighs(w, S), NEW v, \A x \in S : v[x] = -w[x]
  PROVE  SetWeight(v, S) = -SetWeight(w, S)
<1> DEFINE T == {W \in SUBSET S : SetWeight(v, W) = -SetWeight(w, W)}
<1>1. IsFiniteSet(S) /\ Weighs(v, S)
  BY DEF Weighs
<1>2. \A W \in SUBSET S : (\A V \in SUBSET W : V # W => V \in T) => W \in T
  <2> SUFFICES ASSUME NEW W \in SUBSET S, \A V \in SUBSET W : V # W => V \in T
               PROVE  SetWeight(v, W) = -SetWeight(w, W)
    OBVIOUS
  <2>1. CASE W = {}
    BY <2>1, SetWeightEmpty
  <2>2. CASE W # {}
    <3>1. PICK e : e \in W
      BY <2>2
    <3>2. Weighs(v, W) /\ Weighs(w, W) /\ Weighs(v, W \ {e}) /\ Weighs(w, W \ {e})
      BY <1>1, FS_Subset DEF Weighs
    <3>3. /\ SetWeight(v, W) = SetWeight(v, W \ {e}) + v[e]
          /\ SetWeight(w, W) = SetWeight(w, W \ {e}) + w[e]
          /\ SetWeight(v, W \ {e}) \in Int /\ SetWeight(w, W \ {e}) \in Int
      BY <3>1, <3>2, SetWeightRemove, SetWeightType
    <3>4. SetWeight(v, W \ {e}) = -SetWeight(w, W \ {e})
      BY <3>1
    <3>5. w[e] \in Int /\ v[e] = -w[e]
      BY <3>1 DEF Weighs
    <3> QED
      BY <3>3, <3>4, <3>5
  <2> QED
    BY <2>1, <2>2
<1>3. SUBSET S \subseteq T
  <2> HIDE DEF T
  <2> QED
    BY <1>1, <1>2, SubsetInduction
<1>4. S \in T
  BY <1>3
<1> QED
  BY <1>4

(* No member weighs more than q.                                             *)
LEMMA SetWeightMost ==
  ASSUME NEW w, NEW S, Weighs(w, S), NEW q \in Nat, \A x \in S : w[x] <= q
  PROVE  SetWeight(w, S) <= q * Cardinality(S)
<1> DEFINE T == {W \in SUBSET S : SetWeight(w, W) <= q * Cardinality(W)}
<1>1. IsFiniteSet(S)
  BY DEF Weighs
<1>2. \A W \in SUBSET S : (\A V \in SUBSET W : V # W => V \in T) => W \in T
  <2> SUFFICES ASSUME NEW W \in SUBSET S, \A V \in SUBSET W : V # W => V \in T
               PROVE  SetWeight(w, W) <= q * Cardinality(W)
    OBVIOUS
  <2>1. CASE W = {}
    <3>1. SetWeight(w, {}) = 0 /\ Cardinality({}) = 0 /\ q * 0 = 0
      BY SetWeightEmpty, FS_EmptySet
    <3> QED
      BY <2>1, <3>1
  <2>2. CASE W # {}
    <3>1. PICK e : e \in W
      BY <2>2
    <3> DEFINE V == W \ {e}
               c == Cardinality(V)
    <3>2. Weighs(w, W) /\ Weighs(w, V) /\ IsFiniteSet(V)
      BY FS_Subset DEF Weighs
    <3>3. SetWeight(w, W) = SetWeight(w, V) + w[e] /\ SetWeight(w, V) \in Int
      BY <3>1, <3>2, SetWeightRemove, SetWeightType
    <3>4. w[e] \in Int /\ w[e] <= q
      BY <3>1 DEF Weighs
    <3>5. SetWeight(w, V) <= q * c
      BY <3>1
    <3>6. Cardinality(W) = c + 1 /\ c \in Nat
      BY <3>1, <3>2, FS_RemoveElement, FS_AddElement, FS_CardinalityType
    <3>7. q * (c + 1) = q * c + q /\ q * c \in Nat
      BY <3>6
    <3> HIDE DEF c, V
    <3> DEFINE p == q * c
    <3>8. q * Cardinality(W) = p + q /\ p \in Nat /\ SetWeight(w, V) <= p
      BY <3>5, <3>6, <3>7
    <3> HIDE DEF p
    <3> QED
      BY <3>3, <3>4, <3>8
  <2> QED
    BY <2>1, <2>2
<1>3. SUBSET S \subseteq T
  <2> HIDE DEF T
  <2> QED
    BY <1>1, <1>2, SubsetInduction
<1>4. S \in T
  BY <1>3
<1> QED
  BY <1>4

(* The order in which a set is put in a sequence does not matter to its sum. *)
LEMMA SetInSequence ==
  ASSUME NEW S, IsFiniteSet(S)
  PROVE  /\ SetToSeq(S) \in Seq(S)
         /\ IsInjective(SetToSeq(S))
         /\ S = {SetToSeq(S)[i] : i \in 1 .. Len(SetToSeq(S))}
<1> DEFINE n == Cardinality(S)
           s == SetToSeq(S)
<1>1. n \in Nat /\ \E f \in [1 .. n -> S] : IsInjective(f)
  BY FS_CardinalityType DEF ExistsBijection, Bijection, Injection
<1>2. s \in [1 .. n -> S] /\ IsInjective(s)
  BY <1>1 DEF SetToSeq
<1>3. s \in Seq(S) /\ Len(s) = n
  BY <1>1, <1>2
<1>4. s \in Surjection(1 .. n, S)
  <2>1. s \in Injection(1 .. n, S)
    BY <1>2 DEF Injection
  <2>2. Cardinality(1 .. n) = n /\ IsFiniteSet(1 .. n)
    BY <1>1, FS_Interval
  <2> HIDE DEF s
  <2> QED
    BY <2>1, <2>2, FS_Injection
<1> QED
  BY <1>2, <1>3, <1>4 DEF Surjection

LEMMA SetToSeqWeight ==
  ASSUME NEW S, IsFiniteSet(S), NEW w \in [S -> Int]
  PROVE  Weight(w, SetToSeq(S)) = SetWeight(w, S)
<1>1. PICK s : s = SetToSeq(S)
  OBVIOUS
<1>2. s \in Seq(S) /\ IsInjective(s) /\ S = {s[i] : i \in 1 .. Len(s)}
  BY <1>1, SetInSequence
<1>3. PICK r : IsSum(r, w, s)
  BY <1>2, PartialSums
<1> DEFINE First(k) == {s[i] : i \in 1 .. k}
           T == {k \in Nat : k <= Len(s) => r[k] = SetWeight(w, First(k))}
<1>4. Len(s) \in Nat /\ DOMAIN s = 1 .. Len(s)
  BY <1>2
<1>5. 0 \in T
  <2>1. First(0) = {}
    OBVIOUS
  <2>2. r[0] = 0 /\ SetWeight(w, {}) = 0
    BY <1>3, SetWeightEmpty DEF IsSum
  <2> QED
    BY <2>1, <2>2
<1>6. \A k \in Nat : k \in T => k + 1 \in T
  <2> SUFFICES ASSUME NEW k \in Nat, k + 1 <= Len(s), r[k] = SetWeight(w, First(k))
               PROVE  r[k + 1] = SetWeight(w, First(k + 1))
    BY <1>4
  <2>1. PICK j : j = k + 1
    OBVIOUS
  <2>2. j \in 1 .. Len(s) /\ j - 1 = k
    BY <1>4, <2>1
  <2>3. r[j] = r[k] + w[s[j]]
    BY <1>3, <2>2 DEF IsSum
  <2>4. s[j] \in First(j) /\ First(j) \ {s[j]} = First(k)
    <3>1. \A i \in 1 .. k : i \in 1 .. j /\ s[i] # s[j]
      BY <1>2, <1>4, <2>1, <2>2 DEF IsInjective
    <3>2. \A i \in 1 .. j : i = j \/ i \in 1 .. k
      BY <2>1
    <3>3. j \in 1 .. j
      BY <2>2
    <3> QED
      BY <3>1, <3>2, <3>3
  <2>5. Weighs(w, First(j))
    <3>1. First(j) \in SUBSET S
      <4>1. \A i \in 1 .. j : i \in 1 .. Len(s)
        BY <1>4, <2>2
      <4> QED
        BY <1>2, <4>1
    <3> QED
      BY <3>1, FS_Subset DEF Weighs
  <2>6. SetWeight(w, First(j)) = SetWeight(w, First(k)) + w[s[j]]
    <3> HIDE DEF First
    <3>1. SetWeight(w, First(j)) = SetWeight(w, First(j) \ {s[j]}) + w[s[j]]
      BY <2>4, <2>5, SetWeightRemove
    <3> QED
      BY <2>4, <3>1
  <2> QED
    BY <2>1, <2>3, <2>6
<1>7. Len(s) \in T
  <2> HIDE DEF T
  <2> QED
    BY <1>4, <1>5, <1>6, NatSetInduction
<1>8. r[Len(s)] = SetWeight(w, S)
  BY <1>2, <1>4, <1>7
<1> QED
  BY <1>1, <1>3, <1>8 DEF IsSum

-----------------------------------------------------------------------------
(* Unsigned arithmetic: the remainders modulo W.                             *)
LEMMA DivMod ==
  ASSUME NEW W \in Nat \ {0}, NEW x \in Int
  PROVE  x = W * (x \div W) + (x % W) /\ x % W \in 0 .. W - 1 /\ x \div W \in Int
OBVIOUS

LEMMA ModOf ==
  ASSUME NEW W \in Nat \ {0}, NEW q \in Int, NEW r \in 0 .. W - 1
  PROVE  (W * q + r) % W = r
OBVIOUS

LEMMA ModSame ==
  ASSUME NEW W \in Nat \ {0}, NEW x \in Int, NEW k \in Int
  PROVE  (W * k + x) % W = x % W
<1> DEFINE q == x \div W
           r == x % W
<1>1. x = W * q + r /\ r \in 0 .. W - 1 /\ q \in Int
  BY DivMod
<1> HIDE DEF q, r
<1>2. W * k + x = W * (k + q) + r
  BY <1>1
<1>3. k + q \in Int
  BY <1>1
<1>4. (W * (k + q) + r) % W = r
  BY <1>1, <1>3, ModOf
<1> QED
  BY <1>2, <1>4 DEF r

(* Wrapping early or late is the same.                                       *)
LEMMA ModAdd ==
  ASSUME NEW W \in Nat \ {0}, NEW x \in Int, NEW f \in Int
  PROVE  ((x % W) + f) % W = (x + f) % W
<1> DEFINE q == x \div W
           r == x % W
<1>1. x = W * q + r /\ r \in Int /\ q \in Int
  BY DivMod
<1> HIDE DEF q, r
<1>2. x + f = W * q + (r + f) /\ r + f \in Int
  BY <1>1
<1>3. (W * q + (r + f)) % W = (r + f) % W
  BY <1>1, <1>2, ModSame
<1> QED
  BY <1>2, <1>3 DEF r

LEMMA ModSubtract ==
  ASSUME NEW W \in Nat \ {0}, NEW x \in Int, NEW f \in Int
  PROVE  ((x % W) - f) % W = (x - f) % W
<1> DEFINE q == x \div W
           r == x % W
<1>1. x = W * q + r /\ r \in Int /\ q \in Int
  BY DivMod
<1> HIDE DEF q, r
<1>2. x - f = W * q + (r - f) /\ r - f \in Int
  BY <1>1
<1>3. (W * q + (r - f)) % W = (r - f) % W
  BY <1>1, <1>2, ModSame
<1> QED
  BY <1>2, <1>3 DEF r

LEMMA ModBelow ==
  ASSUME NEW W \in Nat \ {0}, NEW x \in Nat
  PROVE  x % W \in Nat /\ x % W <= x
OBVIOUS

-----------------------------------------------------------------------------
(* Select, of module Selection: the recursive function it unfolds to.        *)
IsKept(f, s, S, n) ==
  f = [m \in 0 .. n |->
         IF m = 0 THEN <<>>
         ELSE IF s[m] \in S THEN Append(f[m - 1], s[m]) ELSE f[m - 1]]

LEMMA KeptExists ==
  ASSUME NEW s, NEW S, NEW n \in Nat
  PROVE  \E f : IsKept(f, s, S, n)
<1> DEFINE T == {m \in Nat : \E f : IsKept(f, s, S, m)}
<1>1. 0 \in T
  <2>1. IsKept([m \in 0 .. 0 |-> <<>>], s, S, 0)
    BY DEF IsKept
  <2> QED
    BY <2>1
<1>2. ASSUME NEW m \in Nat, m \in T
      PROVE  m + 1 \in T
  <2>1. PICK f : IsKept(f, s, S, m)
    BY <1>2
  <2> DEFINE k == m + 1
             last == IF s[k] \in S THEN Append(f[m], s[k]) ELSE f[m]
             g == [j \in 0 .. k |-> IF j = k THEN last ELSE f[j]]
  <2>2. ASSUME NEW j \in 0 .. m
        PROVE  /\ g[j] = f[j]
               /\ f[j] = IF j = 0 THEN <<>>
                         ELSE IF s[j] \in S THEN Append(f[j - 1], s[j]) ELSE f[j - 1]
               /\ j # 0 => j - 1 \in 0 .. m
    <3>1. j \in 0 .. k /\ j # k /\ (j # 0 => j - 1 \in 0 .. m)
      OBVIOUS
    <3>2. g[j] = f[j]
      BY <3>1
    <3>3. f[j] = IF j = 0 THEN <<>>
                 ELSE IF s[j] \in S THEN Append(f[j - 1], s[j]) ELSE f[j - 1]
      <4> HIDE DEF g, k
      <4> QED
        BY <2>1 DEF IsKept
    <3> HIDE DEF g
    <3> QED
      BY <3>1, <3>2, <3>3
  <2>3. g[k] = last /\ k - 1 = m /\ k # 0 /\ k - 1 \in 0 .. m
    OBVIOUS
  <2>4. \A j \in 0 .. k : j = k \/ j \in 0 .. m
    OBVIOUS
  <2>5. \A j \in 0 .. k :
          g[j] = IF j = 0 THEN <<>>
                 ELSE IF s[j] \in S THEN Append(g[j - 1], s[j]) ELSE g[j - 1]
    <3> SUFFICES ASSUME NEW j \in 0 .. k
                 PROVE  g[j] = IF j = 0 THEN <<>>
                               ELSE IF s[j] \in S THEN Append(g[j - 1], s[j]) ELSE g[j - 1]
      OBVIOUS
    <3>1. CASE j = k
      <4>1. g[k - 1] = f[m]
        BY <2>2, <2>3
      <4> HIDE DEF g
      <4> QED
        BY <2>3, <3>1, <4>1
    <3>2. CASE j \in 0 .. m
      <4>1. j # 0 => g[j - 1] = f[j - 1]
        BY <2>2, <3>2
      <4> HIDE DEF g
      <4> QED
        BY <2>2, <3>2, <4>1
    <3> QED
      BY <2>4, <3>1, <3>2
  <2>6. g = [j \in 0 .. k |-> g[j]]
    OBVIOUS
  <2> HIDE DEF g
  <2>7. IsKept(g, s, S, k)
    BY <2>5, <2>6 DEF IsKept
  <2> QED
    BY <2>7
<1>3. Nat \subseteq T
  <2> HIDE DEF T
  <2> QED
    BY <1>1, <1>2, NatSetInduction
<1> QED
  BY <1>3

LEMMA SelectRuns ==
  ASSUME NEW s, NEW S, Len(s) \in Nat
  PROVE  \E f : IsKept(f, s, S, Len(s)) /\ Select(s, S) = f[Len(s)]
<1> DEFINE f == CHOOSE g : IsKept(g, s, S, Len(s))
<1>1. Select(s, S) = f[Len(s)]
  BY DEF Select, IsKept
<1>2. IsKept(f, s, S, Len(s))
  BY KeptExists
<1> QED
  BY <1>1, <1>2

(* Two runs agree where the sequences and the sets do.                       *)
LEMMA KeptAgree ==
  ASSUME NEW n \in Nat, NEW k \in 0 .. n, NEW j \in Nat, k <= j,
         NEW s, NEW t, NEW S, NEW U, \A i \in 1 .. k : s[i] = t[i] /\ (s[i] \in S <=> t[i] \in U),
         NEW f, IsKept(f, s, S, n), NEW g, IsKept(g, t, U, j)
  PROVE  f[k] = g[k]
<1> DEFINE T == {m \in Nat : m <= k => f[m] = g[m]}
<1>1. 0 \in T
  BY DEF IsKept
<1>2. ASSUME NEW m \in Nat, m \in T
      PROVE  m + 1 \in T
  <2> DEFINE p == m + 1
  <2> SUFFICES ASSUME p <= k
               PROVE  f[p] = g[p]
    OBVIOUS
  <2>1. p \in 0 .. n /\ p \in 0 .. j /\ p # 0 /\ p - 1 = m /\ p \in 1 .. k
    OBVIOUS
  <2>2. /\ f[p] = IF s[p] \in S THEN Append(f[p - 1], s[p]) ELSE f[p - 1]
        /\ g[p] = IF t[p] \in U THEN Append(g[p - 1], t[p]) ELSE g[p - 1]
    <3> HIDE DEF p
    <3> QED
      BY <2>1 DEF IsKept
  <2>3. f[m] = g[m]
    BY <1>2
  <2> QED
    BY <2>1, <2>2, <2>3
<1>3. Nat \subseteq T
  <2> HIDE DEF T
  <2> QED
    BY <1>1, <1>2, NatSetInduction
<1> QED
  BY <1>3

LEMMA SelectType ==
  ASSUME NEW E, NEW S, NEW s \in Seq(E)
  PROVE  Select(s, S) \in Seq(E \cap S)
<1> DEFINE n == Len(s)
<1>1. n \in Nat /\ \A i \in 1 .. n : s[i] \in E
  OBVIOUS
<1>2. PICK f : IsKept(f, s, S, n) /\ Select(s, S) = f[n]
  BY <1>1, SelectRuns
<1> DEFINE T == {m \in Nat : m <= n => f[m] \in Seq(E \cap S)}
<1>3. 0 \in T
  BY <1>1, <1>2, EmptySeq DEF IsKept
<1> HIDE DEF n
<1>4. ASSUME NEW m \in Nat, m \in T
      PROVE  m + 1 \in T
  <2> DEFINE p == m + 1
  <2> SUFFICES ASSUME p <= n
               PROVE  f[p] \in Seq(E \cap S)
    OBVIOUS
  <2>1. p \in 0 .. n /\ p # 0 /\ p - 1 = m /\ p \in 1 .. n
    BY <1>1
  <2> HIDE DEF p
  <2>2. f[p] = IF s[p] \in S THEN Append(f[p - 1], s[p]) ELSE f[p - 1]
    BY <1>2, <2>1 DEF IsKept
  <2>3. f[m] \in Seq(E \cap S)
    BY <1>1, <1>4, <2>1
  <2>4. s[p] \in S => s[p] \in E \cap S
    BY <1>1, <2>1
  <2> QED
    BY <2>1, <2>2, <2>3, <2>4, AppendProperties
<1>5. Nat \subseteq T
  <2> HIDE DEF T
  <2> QED
    BY <1>3, <1>4, NatSetInduction
<1> QED
  BY <1>1, <1>2, <1>5

LEMMA SelectEmpty ==
  ASSUME NEW S
  PROVE  Select(<<>>, S) = <<>>
<1>1. PICK f : IsKept(f, <<>>, S, Len(<<>>)) /\ Select(<<>>, S) = f[Len(<<>>)]
  BY SelectRuns
<1>2. Len(<<>>) = 0
  OBVIOUS
<1> QED
  BY <1>1, <1>2 DEF IsKept

LEMMA SelectAppend ==
  ASSUME NEW E, NEW S, NEW s \in Seq(E), NEW e \in E
  PROVE  Select(Append(s, e), S) =
           IF e \in S THEN Append(Select(s, S), e) ELSE Select(s, S)
<1> DEFINE n == Len(s)
           u == Append(s, e)
<1>1. n \in Nat /\ u \in Seq(E) /\ Len(u) = n + 1 /\ u[n + 1] = e
        /\ \A i \in 1 .. n : u[i] = s[i]
  OBVIOUS
<1>2. PICK f : IsKept(f, s, S, n) /\ Select(s, S) = f[n]
  BY <1>1, SelectRuns
<1> HIDE DEF u
<1>3. PICK g : IsKept(g, u, S, n + 1) /\ Select(u, S) = g[n + 1]
  BY <1>1, SelectRuns
<1> HIDE DEF n
<1>4. f[n] = g[n]
  <2>1. n \in 0 .. n /\ n <= n + 1 /\ n + 1 \in Nat
    BY <1>1
  <2> QED
    BY <1>1, <1>2, <1>3, <2>1, KeptAgree
<1>5. n + 1 \in 0 .. n + 1 /\ n + 1 # 0 /\ (n + 1) - 1 = n
  BY <1>1
<1>6. g[n + 1] = IF u[n + 1] \in S THEN Append(g[n], u[n + 1]) ELSE g[n]
  BY <1>3, <1>5 DEF IsKept
<1> QED
  BY <1>1, <1>2, <1>3, <1>4, <1>6 DEF u

(* Only what of the set is in the sequence matters.                          *)
LEMMA SelectSame ==
  ASSUME NEW E, NEW s \in Seq(E), NEW S, NEW U, \A e \in E : e \in S <=> e \in U
  PROVE  Select(s, S) = Select(s, U)
<1> DEFINE n == Len(s)
<1>1. n \in Nat /\ n \in 0 .. n /\ n <= n /\ \A i \in 1 .. n : s[i] \in E
  OBVIOUS
<1>2. PICK f : IsKept(f, s, S, n) /\ Select(s, S) = f[n]
  BY <1>1, SelectRuns
<1>3. PICK g : IsKept(g, s, U, n) /\ Select(s, U) = g[n]
  BY <1>1, SelectRuns
<1> HIDE DEF n
<1>4. \A i \in 1 .. n : s[i] = s[i] /\ (s[i] \in S <=> s[i] \in U)
  BY <1>1
<1>5. f[n] = g[n]
  BY <1>1, <1>2, <1>3, <1>4, KeptAgree
<1> QED
  BY <1>2, <1>3, <1>5

-----------------------------------------------------------------------------
(* A set that holds the empty sequence and, with a sequence, all that append *)
(* an element to it.                                                         *)
LEMMA SeqSetInduction ==
  ASSUME NEW E, NEW T, <<>> \in T,
         \A s \in Seq(E), e \in E : s \in T => Append(s, e) \in T
  PROVE  Seq(E) \subseteq T
<1> DEFINE N == {n \in Nat : \A s \in Seq(E) : Len(s) = n => s \in T}
<1>1. 0 \in N
  <2>1. \A s \in Seq(E) : Len(s) = 0 => s = <<>>
    BY EmptySeq
  <2> QED
    BY <2>1
<1>2. ASSUME NEW n \in Nat, n \in N
      PROVE  n + 1 \in N
  <2> SUFFICES ASSUME NEW s \in Seq(E), Len(s) = n + 1
               PROVE  s \in T
    OBVIOUS
  <2> DEFINE u == SubSeq(s, 1, n)
             e == s[n + 1]
  <2>1. u \in Seq(E) /\ Len(u) = n /\ e \in E
    OBVIOUS
  <2>2. s = Append(u, e)
    <3>1. Append(u, e) \in Seq(E) /\ Len(Append(u, e)) = n + 1
      BY <2>1
    <3>2. \A i \in 1 .. n + 1 : Append(u, e)[i] = s[i]
      OBVIOUS
    <3> HIDE DEF u, e
    <3> QED
      BY <3>1, <3>2, SeqEqual
  <2>3. u \in T
    <3> HIDE DEF u
    <3> QED
      BY <1>2, <2>1
  <2> HIDE DEF u, e
  <2> QED
    BY <2>1, <2>2, <2>3
<1>3. Nat \subseteq N
  <2> HIDE DEF N
  <2> QED
    BY <1>1, <1>2, NatSetInduction
<1>4. \A s \in Seq(E) : Len(s) \in Nat
  OBVIOUS
<1> QED
  BY <1>3, <1>4

LEMMA AppendConcat ==
  ASSUME NEW E, NEW u \in Seq(E), NEW s \in Seq(E), NEW e \in E
  PROVE  u \o Append(s, e) = Append(u \o s, e)
OBVIOUS

LEMMA SelectConcat ==
  ASSUME NEW E, NEW S, NEW u \in Seq(E), NEW v \in Seq(E)
  PROVE  Select(u \o v, S) = Select(u, S) \o Select(v, S)
<1> DEFINE T == {s \in Seq(E) : Select(u \o s, S) = Select(u, S) \o Select(s, S)}
<1>1. Select(u, S) \in Seq(E)
  <2>1. Select(u, S) \in Seq(E \cap S)
    BY SelectType
  <2> QED
    BY <2>1, SeqMonotonic
<1>2. <<>> \in T
  <2>1. u \o <<>> = u /\ Select(u, S) \o <<>> = Select(u, S) /\ <<>> \in Seq(E)
    BY <1>1
  <2> QED
    BY <2>1, SelectEmpty
<1>3. ASSUME NEW s \in Seq(E), NEW e \in E, s \in T
      PROVE  Append(s, e) \in T
  <2>1. u \o s \in Seq(E) /\ Append(s, e) \in Seq(E)
    OBVIOUS
  <2>2. Select(s, S) \in Seq(E)
    <3>1. Select(s, S) \in Seq(E \cap S)
      BY SelectType
    <3> QED
      BY <3>1, SeqMonotonic
  <2>3. Select(u \o s, S) = Select(u, S) \o Select(s, S)
    BY <1>3
  <2>4. u \o Append(s, e) = Append(u \o s, e)
    BY AppendConcat
  <2>5. Select(Append(s, e), S) = IF e \in S THEN Append(Select(s, S), e) ELSE Select(s, S)
    BY SelectAppend
  <2>6. Select(Append(u \o s, e), S)
          = IF e \in S THEN Append(Select(u \o s, S), e) ELSE Select(u \o s, S)
    <3>1. PICK w \in Seq(E) : w = u \o s
      BY <2>1
    <3>2. Select(Append(w, e), S) = IF e \in S THEN Append(Select(w, S), e) ELSE Select(w, S)
      BY SelectAppend
    <3> QED
      BY <3>1, <3>2
  <2>7. Select(u, S) \o Append(Select(s, S), e) = Append(Select(u, S) \o Select(s, S), e)
    BY <1>1, <2>2, AppendConcat
  <2> QED
    BY <2>1, <2>3, <2>4, <2>5, <2>6, <2>7
<1>4. Seq(E) \subseteq T
  <2> HIDE DEF T
  <2> QED
    BY <1>2, <1>3, SeqSetInduction
<1> QED
  BY <1>4

(* Selecting twice.                                                          *)
LEMMA SelectTwice ==
  ASSUME NEW E, NEW S, NEW U, U \subseteq S, NEW v \in Seq(E)
  PROVE  Select(Select(v, S), U) = Select(v, U)
<1> DEFINE T == {s \in Seq(E) : Select(Select(s, S), U) = Select(s, U)}
<1>1. <<>> \in T
  BY SelectEmpty, EmptySeq
<1>2. ASSUME NEW s \in Seq(E), NEW e \in E, s \in T
      PROVE  Append(s, e) \in T
  <2>1. Select(s, S) \in Seq(E)
    <3>1. Select(s, S) \in Seq(E \cap S)
      BY SelectType
    <3> QED
      BY <3>1, SeqMonotonic
  <2>2. Select(Append(s, e), S) = IF e \in S THEN Append(Select(s, S), e) ELSE Select(s, S)
    BY SelectAppend
  <2>3. Select(Append(s, e), U) = IF e \in U THEN Append(Select(s, U), e) ELSE Select(s, U)
    BY SelectAppend
  <2>4. Select(Append(Select(s, S), e), U)
          = IF e \in U THEN Append(Select(Select(s, S), U), e) ELSE Select(Select(s, S), U)
    BY <2>1, SelectAppend
  <2>5. Select(Select(s, S), U) = Select(s, U) /\ Append(s, e) \in Seq(E)
    BY <1>2
  <2> QED
    BY <2>2, <2>3, <2>4, <2>5
<1>3. Seq(E) \subseteq T
  <2> HIDE DEF T
  <2> QED
    BY <1>1, <1>2, SeqSetInduction
<1> QED
  BY <1>3

-----------------------------------------------------------------------------
(* What a sequence of numbers ends with.                                     *)
Suffix(s, t) == \E u \in Seq(Nat) : t = u \o s

LEMMA SuffixSame ==
  ASSUME NEW s \in Seq(Nat)
  PROVE  Suffix(s, s)
<1>1. <<>> \in Seq(Nat) /\ s = <<>> \o s
  BY EmptySeq
<1> QED
  BY <1>1 DEF Suffix

LEMMA SuffixAppend ==
  ASSUME NEW s \in Seq(Nat), NEW t, Suffix(s, t), NEW x \in Nat
  PROVE  Suffix(Append(s, x), Append(t, x))
<1>1. PICK u \in Seq(Nat) : t = u \o s
  BY DEF Suffix
<1>2. u \o Append(s, x) = Append(u \o s, x)
  BY AppendConcat
<1> QED
  BY <1>1, <1>2 DEF Suffix

LEMMA SuffixDrop ==
  ASSUME NEW v \in Seq(Nat), NEW w \in Seq(Nat), NEW t, Suffix(v \o w, t)
  PROVE  Suffix(w, t)
<1>1. PICK u \in Seq(Nat) : t = u \o (v \o w)
  BY DEF Suffix
<1>2. u \o v \in Seq(Nat) /\ (u \o v) \o w = u \o (v \o w)
  OBVIOUS
<1> QED
  BY <1>1, <1>2 DEF Suffix
=============================================================================
