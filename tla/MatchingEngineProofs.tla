------------------------- MODULE MatchingEngineProofs -------------------------
(***************************************************************************)
(* The book and the engine, for every set of ids, prices and quantities.    *)
(* First the invariants of the book: every way a level shrinks (a partial   *)
(* fill, a full fill, a cancel) keeps the nodes it does not remove, in      *)
(* their order (`Keeps'), and one lemma carries the invariant over all of   *)
(* them.  Then lots: the total a level caches is its queue's, a             *)
(* fill-or-kill order takes no more than it can reach, so that the book is  *)
(* a price-time priority book, and the engine loses no lot it has accepted, *)
(* whatever its callbacks submit, cancel or throw.  A queue, the levels of  *)
(* a side, the trades of an order and the stack of record_trades calls are  *)
(* summed with the lemmas of FoldLemmas.                                    *)
(***************************************************************************)
EXTENDS MatchingEngine, FoldLemmas

(* The inductive invariant.  NeverCrossed is inductive with the types alone; *)
(* the two facts about the index need the queues in order (a node is found   *)
(* by its iterator) and each other.                                          *)
IInv == TypeOK /\ QueuesInOrder /\ IndexSound /\ UniqueOrdersCancellable /\ NeverCrossed

(* Queue r is queue q without the nodes whose iterators are in gone; what    *)
(* stays may be partly filled, never filled.                                 *)
Keeps(r, q, gone) ==
  /\ r \in Seq(Nodes)
  /\ \A i \in DOMAIN r :
       /\ r[i].qty_remaining > 0
       /\ r[i].it \notin gone
       /\ \E j \in DOMAIN q : r[i].id = q[j].id /\ r[i].it = q[j].it
       /\ \A j \in DOMAIN r : i < j => r[i].it < r[j].it
  /\ \A j \in DOMAIN q : q[j].it \notin gone =>
       \E i \in DOMAIN r : r[i].id = q[j].id /\ r[i].it = q[j].it

InOrder(q) ==
  \A i, j \in DOMAIN q :
    q[i].qty_remaining > 0 /\ (i < j => q[i].it < q[j].it)

(* A sequence's domain and the type of its elements.                         *)
LEMMA SeqFacts ==
  ASSUME NEW S, NEW q \in Seq(S)
  PROVE  /\ Len(q) \in Nat /\ DOMAIN q = 1 .. Len(q)
         /\ \A i \in DOMAIN q : i \in 1 .. Len(q) /\ q[i] \in S
         /\ q = <<>> <=> Len(q) = 0
BY LenProperties, EmptySeq

(* std::list::erase: what RemoveAt returns.                                  *)
LEMMA RemoveAtIsErase ==
  ASSUME NEW S, NEW q \in Seq(S), NEW k \in 1 .. Len(q)
  PROVE  /\ RemoveAt(q, k) \in Seq(S)
         /\ Len(RemoveAt(q, k)) = Len(q) - 1
         /\ \A i \in 1 .. Len(q) - 1 :
              RemoveAt(q, k)[i] = IF i < k THEN q[i] ELSE q[i + 1]
<1> DEFINE a == SubSeq(q, 1, k - 1)
           b == SubSeq(q, k + 1, Len(q))
<1>1. a \in Seq(S) /\ Len(a) = k - 1 /\ \A i \in 1 .. k - 1 : a[i] = q[i]
  OBVIOUS
<1>2. b \in Seq(S) /\ Len(b) = Len(q) - k /\ \A i \in 1 .. Len(q) - k : b[i] = q[k + i]
  OBVIOUS
<1> HIDE DEF a, b
<1>3. a \o b \in Seq(S) /\ Len(a \o b) = Len(q) - 1
  <2>1. a \o b \in Seq(S) /\ Len(a \o b) = Len(a) + Len(b)
    BY <1>1, <1>2, ConcatProperties, Zenon
  <2> QED BY <1>1, <1>2, <2>1, LenProperties
<1>4. ASSUME NEW i \in 1 .. Len(q) - 1
      PROVE  (a \o b)[i] = IF i < k THEN q[i] ELSE q[i + 1]
  <2>1. CASE i < k
    BY <1>1, <1>2, <2>1, ConcatProperties
  <2>2. CASE ~(i < k)
    <3>1. i - (k - 1) \in 1 .. Len(q) - k /\ k + (i - (k - 1)) = i + 1
      BY <2>2
    <3>2. (a \o b)[i] = b[i - (k - 1)]
      BY <1>1, <1>2, <2>2, ConcatProperties
    <3> QED BY <1>2, <2>2, <3>1, <3>2
  <2> QED BY <2>1, <2>2
<1> QED BY <1>3, <1>4 DEF RemoveAt, a, b

(* Erasing one node keeps the others.                                        *)
LEMMA EraseKeeps ==
  ASSUME NEW q \in Seq(Nodes), InOrder(q), NEW k \in DOMAIN q
  PROVE  Keeps(RemoveAt(q, k), q, {q[k].it})
<1> DEFINE r == RemoveAt(q, k)
      Old(i) == IF i < k THEN i ELSE i + 1
<1>1. /\ r \in Seq(Nodes) /\ Len(r) = Len(q) - 1 /\ k \in 1 .. Len(q)
      /\ \A i \in 1 .. Len(q) - 1 : r[i] = IF i < k THEN q[i] ELSE q[i + 1]
  BY RemoveAtIsErase, SeqFacts
<1> HIDE DEF r
<1>2. \A i \in DOMAIN q : q[i] \in Nodes /\ q[i].it \in Nat /\ i \in 1 .. Len(q)
  <2>1. \A i \in DOMAIN q : q[i] \in Nodes /\ i \in 1 .. Len(q)
    BY SeqFacts
  <2> QED BY <2>1 DEF Nodes
<1>3. ASSUME NEW i \in DOMAIN r
      PROVE  /\ r[i].qty_remaining > 0
             /\ r[i].it \notin {q[k].it}
             /\ \E j \in DOMAIN q : r[i].id = q[j].id /\ r[i].it = q[j].it
             /\ \A j \in DOMAIN r : i < j => r[i].it < r[j].it
  <2>1. /\ DOMAIN r = 1 .. Len(q) - 1 /\ DOMAIN q = 1 .. Len(q) /\ Len(q) \in Nat
        /\ k \in Int
    BY <1>1, SeqFacts
  <2>2. \A m \in DOMAIN r : Old(m) \in DOMAIN q /\ Old(m) # k /\ r[m] = q[Old(m)]
    BY <1>1, <2>1
  <2>3. \A m \in DOMAIN r : m < i => Old(m) < Old(i)
    BY <2>1
  <2>4. \A m \in DOMAIN r : i < m => Old(i) < Old(m)
    BY <2>1
  <2> HIDE DEF Old
  <2>5. q[Old(i)].it # q[k].it
    <3>1. Old(i) \in DOMAIN q /\ k \in DOMAIN q /\ (Old(i) < k \/ k < Old(i))
      BY <2>1, <2>2
    <3>2. q[Old(i)].it < q[k].it \/ q[k].it < q[Old(i)].it
      BY <3>1 DEF InOrder
    <3> QED BY <1>2, <3>1, <3>2
  <2>6. \A m \in DOMAIN r : i < m => r[i].it < r[m].it
    BY <2>2, <2>4 DEF InOrder
  <2>7. r[i].qty_remaining > 0
    BY <2>2 DEF InOrder
  <2> QED BY <2>2, <2>5, <2>6, <2>7
<1>4. ASSUME NEW j \in DOMAIN q, q[j].it \notin {q[k].it}
      PROVE  \E i \in DOMAIN r : r[i].id = q[j].id /\ r[i].it = q[j].it
  <2> USE SeqFacts
  <2>1. CASE j < k
    BY <1>1, <2>1
  <2>2. CASE j > k
    <3>1. j - 1 \in DOMAIN r /\ r[j - 1] = q[j]
      BY <1>1, <2>2
    <3> QED BY <3>1
  <2>3. j # k
    BY <1>4
  <2> QED BY <1>1, <2>1, <2>2, <2>3
<1> QED BY <1>1, <1>3, <1>4 DEF Keeps, r

(* pop_front is erase of the front.                                         *)
LEMMA PopIsErase ==
  ASSUME NEW q \in Seq(Nodes), q # <<>>
  PROVE  Tail(q) = RemoveAt(q, 1)
<1>1. Tail(q) = SubSeq(q, 2, Len(q))
  BY TailIsSubSeq
<1>2. SubSeq(q, 1, 0) = <<>>
  BY SubSeqEmpty
<1>3. SubSeq(q, 2, Len(q)) \in Seq(Nodes)
  BY <1>1, HeadTailProperties
<1>4. <<>> \o SubSeq(q, 2, Len(q)) = SubSeq(q, 2, Len(q))
  BY <1>3, ConcatEmptySeq, Zenon
<1> QED BY <1>1, <1>2, <1>4 DEF RemoveAt

(* A full fill pops the front.                                               *)
LEMMA PopKeeps ==
  ASSUME NEW q \in Seq(Nodes), InOrder(q), q # <<>>
  PROVE  Keeps(Tail(q), q, {Head(q).it})
<1>1. 1 \in DOMAIN q /\ Head(q) = q[1]
  BY SeqFacts
<1>2. Tail(q) = RemoveAt(q, 1)
  BY PopIsErase
<1> QED BY <1>1, <1>2, EraseKeeps

(* A partial fill keeps every node.                                          *)
LEMMA PartialFillKeeps ==
  ASSUME NEW q \in Seq(Nodes), InOrder(q), q # <<>>,
         NEW fill \in Nat, fill < Head(q).qty_remaining
  PROVE  Keeps([q EXCEPT ![1].qty_remaining = @ - fill], q, {})
<1> DEFINE r == [q EXCEPT ![1].qty_remaining = @ - fill]
           front == [q[1] EXCEPT !.qty_remaining = @ - fill]
<1>1. /\ DOMAIN q = 1 .. Len(q) /\ Len(q) \in Nat \ {0} /\ 1 \in 1 .. Len(q)
      /\ Head(q) = q[1] /\ \A i \in DOMAIN q : q[i] \in Nodes
  BY SeqFacts
<1>2. /\ front \in Nodes /\ front.qty_remaining > 0
      /\ front.id = q[1].id /\ front.it = q[1].it
  <2>1. q[1] \in Nodes /\ fill < q[1].qty_remaining
    BY <1>1
  <2> DEFINE o == q[1]
  <2> HIDE DEF o
  <2>2. o \in Nodes /\ fill < o.qty_remaining
    BY <2>1 DEF o
  <2>3. [o EXCEPT !.qty_remaining = @ - fill]
          = [id |-> o.id, qty_remaining |-> o.qty_remaining - fill, it |-> o.it]
    BY <2>2 DEF Nodes
  <2>4. o.qty_remaining - fill \in Nat \ {0} /\ o.id \in Ids /\ o.it \in Nat
    BY <2>2 DEF Nodes
  <2> QED BY <2>3, <2>4 DEF Nodes, o
<1>3. r = [q EXCEPT ![1] = front]
  OBVIOUS
<1> HIDE DEF r, front
<1>4. /\ r \in Seq(Nodes) /\ Len(r) = Len(q)
      /\ \A j \in 1 .. Len(q) : r[j] = IF j = 1 THEN front ELSE q[j]
  BY <1>1, <1>2, <1>3, ExceptSeq
<1>5. DOMAIN r = DOMAIN q
  BY <1>1, <1>4, SeqFacts
<1>6. \A i \in DOMAIN q : r[i].id = q[i].id /\ r[i].it = q[i].it /\ r[i].qty_remaining > 0
  BY <1>1, <1>2, <1>4 DEF InOrder
<1>7. \A i, j \in DOMAIN r : i < j => r[i].it < r[j].it
  BY <1>5, <1>6 DEF InOrder
<1> QED BY <1>4, <1>5, <1>6, <1>7 DEF Keeps, r

-----------------------------------------------------------------------------
(* A level that only shrinks, with the index entry of a node that leaves it  *)
(* erased, keeps the invariant.                                              *)
LEMMA Shrink ==
  ASSUME IInv, NEW side \in Sides, NEW p \in DOMAIN levels[side],
         NEW lvl \in Levels, NEW gone,
         Keeps(lvl.orders_, levels[side][p].orders_, gone),
         levels' = [levels EXCEPT ![side] = PutLevel(@, p, lvl)],
         nodes' = nodes, reused' = reused,
         \/ gone = {} /\ order_index_' = order_index_
         \/ \E k \in DOMAIN levels[side][p].orders_ :
              LET node == levels[side][p].orders_[k] IN
              gone = {node.it} /\ order_index_' = WithoutId(node.id)
  PROVE  /\ DOMAIN levels' = Sides
         /\ \A s \in Sides : /\ DOMAIN levels'[s] \subseteq DOMAIN levels[s]
                            /\ \A x \in DOMAIN levels'[s] : levels'[s][x] \in Levels
         /\ DOMAIN order_index_' \subseteq Ids
         /\ \A id \in DOMAIN order_index_' : order_index_'[id] \in Locations
         /\ QueuesInOrder' /\ IndexSound' /\ UniqueOrdersCancellable' /\ NeverCrossed'
<1> DEFINE q == levels[side][p].orders_
           r == lvl.orders_
<1>1. /\ DOMAIN levels' = Sides
      /\ \A s \in Sides \ {side} : levels'[s] = levels[s]
      /\ DOMAIN levels'[side] =
           IF r = <<>> THEN DOMAIN levels[side] \ {p} ELSE DOMAIN levels[side]
      /\ r # <<>> => levels'[side][p] = lvl
      /\ \A x \in DOMAIN levels[side] \ {p} : levels'[side][x] = levels[side][x]
  <2>1. /\ levels'[side] = PutLevel(levels[side], p, lvl)
        /\ DOMAIN levels' = Sides /\ \A s \in Sides \ {side} : levels'[s] = levels[s]
    BY DEF IInv, TypeOK
  <2> DEFINE map == levels[side]
  <2>2. p \in DOMAIN map
    OBVIOUS
  <2> HIDE DEF map
  <2>3. /\ DOMAIN PutLevel(map, p, lvl) =
              IF lvl.orders_ = <<>> THEN DOMAIN map \ {p} ELSE DOMAIN map \cup {p}
        /\ lvl.orders_ # <<>> => PutLevel(map, p, lvl)[p] = lvl
        /\ \A x \in DOMAIN map \ {p} : PutLevel(map, p, lvl)[x] = map[x]
    BY DEF PutLevel
  <2>4. DOMAIN map \cup {p} = DOMAIN map
    BY <2>2
  <2> QED BY <2>1, <2>3, <2>4 DEF map
<1>2. \A s \in Sides : /\ DOMAIN levels'[s] \subseteq DOMAIN levels[s]
                     /\ \A x \in DOMAIN levels'[s] : levels'[s][x] \in Levels
  BY <1>1 DEF IInv, TypeOK
<1>3. \A s \in Sides : \A x \in DOMAIN levels'[s] :
        \/ s = side /\ x = p /\ levels'[s][x] = lvl /\ r # <<>>
        \/ (s # side \/ x # p) /\ levels'[s][x] = levels[s][x]
  BY <1>1
<1>4. NeverCrossed'
  <2>1. "Buy" \in Sides /\ "Sell" \in Sides
    BY DEF Sides
  <2> QED BY <1>2, <2>1 DEF NeverCrossed, IInv
<1>5. \A id \in DOMAIN order_index_' :
        id \in DOMAIN order_index_ /\ order_index_'[id] = order_index_[id]
  BY DEF WithoutId
<1>6. /\ DOMAIN order_index_' \subseteq Ids
      /\ \A id \in DOMAIN order_index_' : order_index_'[id] \in Locations
  BY <1>5 DEF IInv, TypeOK
<1>7. QueuesInOrder'
  <2> SUFFICES ASSUME NEW s \in Sides, NEW x \in DOMAIN levels'[s]
               PROVE  /\ levels'[s][x].orders_ # <<>>
                      /\ \A i \in DOMAIN levels'[s][x].orders_ :
                           /\ levels'[s][x].orders_[i].qty_remaining > 0
                           /\ levels'[s][x].orders_[i].it <= nodes'
                           /\ \A j \in DOMAIN levels'[s][x].orders_ :
                                i < j => levels'[s][x].orders_[i].it
                                           < levels'[s][x].orders_[j].it
    BY Zenon DEF QueuesInOrder
  <2>1. CASE s = side /\ x = p
    <3>1. levels'[s][x].orders_ = r /\ r # <<>>
      BY <1>3, <2>1
    <3>2. \A j \in DOMAIN q : q[j].it <= nodes
      BY DEF IInv, QueuesInOrder
    <3>3. Keeps(r, q, gone)
      OBVIOUS
    <3> HIDE DEF q, r
    <3> QED BY <3>1, <3>2, <3>3 DEF Keeps
  <2>2. CASE ~(s = side /\ x = p)
    <3>1. levels'[s][x] = levels[s][x] /\ x \in DOMAIN levels[s]
      BY <1>2, <1>3, <2>2
    <3> QED BY <3>1 DEF IInv, QueuesInOrder
  <2> QED BY <2>1, <2>2
<1>8. IndexSound'
  <2> SUFFICES ASSUME NEW id \in DOMAIN order_index_'
               PROVE  LET loc == order_index_'[id] IN
                      /\ loc.price \in DOMAIN levels'[loc.side]
                      /\ \E i \in DOMAIN levels'[loc.side][loc.price].orders_ :
                           LET node == levels'[loc.side][loc.price].orders_[i] IN
                           node.it = loc.it /\ node.id = id
    BY Zenon DEF IndexSound
  <2> DEFINE loc == order_index_[id]
  <2>1. /\ loc.side \in Sides /\ loc.price \in DOMAIN levels[loc.side]
        /\ \E i \in DOMAIN levels[loc.side][loc.price].orders_ :
             LET node == levels[loc.side][loc.price].orders_[i] IN
             node.it = loc.it /\ node.id = id
    BY <1>5 DEF IInv, IndexSound, TypeOK, Locations
  <2>4. loc = order_index_'[id]
    BY <1>5
  <2> HIDE DEF loc
  <2> SUFFICES /\ loc.price \in DOMAIN levels'[loc.side]
               /\ \E i \in DOMAIN levels'[loc.side][loc.price].orders_ :
                    /\ levels'[loc.side][loc.price].orders_[i].it = loc.it
                    /\ levels'[loc.side][loc.price].orders_[i].id = id
    BY <2>4
  <2>2. CASE loc.side = side /\ loc.price = p
    <3>1. PICK j \in DOMAIN q : q[j].it = loc.it /\ q[j].id = id
      BY <2>1, <2>2
    <3>2. q[j].it \notin gone
      <4>1. CASE gone = {}
        BY <4>1
      <4>2. CASE \E k \in DOMAIN q :
                   gone = {q[k].it} /\ order_index_' = WithoutId(q[k].id)
        <5>1. PICK k \in DOMAIN q :
                   gone = {q[k].it} /\ order_index_' = WithoutId(q[k].id)
          BY <4>2
        <5>2. q[k].id # id
          BY <5>1 DEF WithoutId
        <5>3. \A a, b \in DOMAIN q : a < b => q[a].it < q[b].it
          BY DEF IInv, QueuesInOrder
        <5>4. q \in Seq(Nodes)
          BY DEF IInv, TypeOK, Levels
        <5> HIDE DEF q
        <5>5. /\ j # k /\ j \in Int /\ k \in Int
              /\ q[j].it \in Int /\ q[k].it \in Int
          <6>1. j \in 1 .. Len(q) /\ k \in 1 .. Len(q) /\ q[j] \in Nodes /\ q[k] \in Nodes
            BY <5>4, SeqFacts, Zenon
          <6>2. Len(q) \in Nat
            BY <5>4, SeqFacts, Zenon
          <6> QED BY <3>1, <5>2, <6>1, <6>2 DEF Nodes
        <5> QED BY <5>1, <5>3, <5>5
      <4> QED BY <4>1, <4>2
    <3>3. \E i \in DOMAIN r : r[i].id = id /\ r[i].it = loc.it
      <4> HIDE DEF q, r
      <4>1. Keeps(r, q, gone)
        BY DEF q, r
      <4> QED BY <3>1, <3>2, <4>1 DEF Keeps
    <3>4. r \in Seq(Nodes) /\ r # <<>>
      <4>1. r \in Seq(Nodes)
        BY DEF Levels
      <4> HIDE DEF r
      <4>2. DOMAIN r = 1 .. Len(r) /\ Len(r) \in Nat /\ (r = <<>> <=> Len(r) = 0)
        BY <4>1, SeqFacts, Zenon
      <4> QED BY <3>3, <4>1, <4>2
    <3>5. loc.price \in DOMAIN levels'[loc.side] /\ levels'[loc.side][loc.price].orders_ = r
      BY <1>1, <2>2, <3>4
    <3> HIDE DEF r
    <3> QED BY <3>3, <3>5, Zenon
  <2>3. CASE ~(loc.side = side /\ loc.price = p)
    <3>1. loc.price \in DOMAIN levels'[loc.side]
      BY <1>1, <2>1, <2>3
    <3>2. levels'[loc.side][loc.price] = levels[loc.side][loc.price]
      BY <1>3, <2>1, <2>3, <3>1
    <3> QED BY <2>1, <3>1, <3>2
  <2> QED BY <2>2, <2>3
<1>9. UniqueOrdersCancellable'
  <2> SUFFICES ASSUME NEW s \in Sides, NEW x \in DOMAIN levels'[s],
                      NEW i \in DOMAIN levels'[s][x].orders_,
                      levels'[s][x].orders_[i].id \notin reused'
               PROVE  LET node == levels'[s][x].orders_[i] IN
                      /\ node.id \in DOMAIN order_index_'
                      /\ order_index_'[node.id] =
                           [price |-> x, side |-> s, it |-> node.it]
    BY Zenon DEF UniqueOrdersCancellable
  <2> DEFINE node == levels'[s][x].orders_[i]
  <2>1. x \in DOMAIN levels[s]
    BY <1>2
  <2>2. \E j \in DOMAIN levels[s][x].orders_ :
          LET old == levels[s][x].orders_[j] IN
          /\ old.id = node.id /\ old.it = node.it
          /\ s = side /\ x = p => old.it \notin gone
    <3>1. CASE s = side /\ x = p
      <4>1. levels'[s][x].orders_ = r /\ levels[s][x].orders_ = q
        BY <1>3, <3>1
      <4> HIDE DEF q, r
      <4>2. Keeps(r, q, gone)
        BY DEF q, r
      <4>3. i \in DOMAIN r /\ node = r[i]
        BY <4>1
      <4>4. PICK j \in DOMAIN q : r[i].id = q[j].id /\ r[i].it = q[j].it
        BY <4>2, <4>3 DEF Keeps
      <4>5. r[i].it \notin gone
        BY <4>2, <4>3 DEF Keeps
      <4> HIDE DEF node
      <4> QED BY <4>1, <4>3, <4>4, <4>5
    <3>2. CASE ~(s = side /\ x = p)
      BY <1>3, <3>2
    <3> QED BY <3>1, <3>2
  <2>3. /\ node.id \in DOMAIN order_index_
        /\ order_index_[node.id] = [price |-> x, side |-> s, it |-> node.it]
    <3>1. PICK j \in DOMAIN levels[s][x].orders_ :
            levels[s][x].orders_[j].id = node.id /\ levels[s][x].orders_[j].it = node.it
      BY <2>2
    <3>2. levels[s][x].orders_[j].id \notin reused
      BY <3>1
    <3> HIDE DEF node
    <3>3. \A k \in DOMAIN levels[s][x].orders_ :
             levels[s][x].orders_[k].id \notin reused =>
               /\ levels[s][x].orders_[k].id \in DOMAIN order_index_
               /\ order_index_[levels[s][x].orders_[k].id] =
                    [price |-> x, side |-> s, it |-> levels[s][x].orders_[k].it]
      BY <2>1, Zenon DEF IInv, UniqueOrdersCancellable
    <3> QED BY <3>1, <3>2, <3>3
  <2>4. node.id \in DOMAIN order_index_'
    <3>1. CASE order_index_' = order_index_
      BY <2>3, <3>1
    <3>2. CASE \E k \in DOMAIN q :
                 gone = {q[k].it} /\ order_index_' = WithoutId(q[k].id)
      <4>1. PICK k \in DOMAIN q :
                 gone = {q[k].it} /\ order_index_' = WithoutId(q[k].id)
        BY <3>2
      <4>2. q[k].id # node.id
        <5>1. SUFFICES ASSUME q[k].id = node.id PROVE FALSE
          OBVIOUS
        <5>2. order_index_[node.id] = [price |-> p, side |-> side, it |-> q[k].it]
          <6>1. q[k].id \notin reused
            BY <5>1
          <6>2. order_index_[q[k].id] = [price |-> p, side |-> side, it |-> q[k].it]
            BY <6>1, Zenon DEF IInv, UniqueOrdersCancellable
          <6> QED BY <5>1, <6>2
        <5>3. x = p /\ s = side /\ node.it = q[k].it
          BY <2>3, <5>2
        <5> QED BY <2>2, <4>1, <5>3
      <4> HIDE DEF node, q
      <4> QED BY <2>3, <4>1, <4>2 DEF WithoutId
    <3> QED BY <3>1, <3>2
  <2> QED BY <1>5, <2>3, <2>4
<1> QED BY <1>1, <1>2, <1>4, <1>6, <1>7, <1>8, <1>9
-----------------------------------------------------------------------------
(* Unsigned arithmetic stays in range.                                       *)
LEMMA WrapRange ==
  ASSUME NEW x \in Int
  PROVE  x % Width \in 0 .. Width - 1
BY BookAssumption

(* Steps that touch neither the levels nor the index.                        *)
LEMMA BookUntouched ==
  ASSUME IInv, UNCHANGED <<levels, order_index_, nodes, reused>>,
         aggressor' \in Orders \cup {NoOrder}, trades' \in Seq(Trades)
  PROVE  IInv'
<1>1. TypeOK'
  BY DEF IInv, TypeOK
<1>2. QueuesInOrder'
  BY Zenon DEF IInv, QueuesInOrder
<1>3. IndexSound'
  BY Zenon DEF IInv, IndexSound
<1>4. UniqueOrdersCancellable'
  BY DEF IInv, UniqueOrdersCancellable
<1>5. NeverCrossed'
  BY Zenon DEF IInv, NeverCrossed
<1> QED BY <1>1, <1>2, <1>3, <1>4, <1>5 DEF IInv

(* What the invariant says of one level.                                     *)
LEMMA LevelFacts ==
  ASSUME IInv, NEW side \in Sides, NEW p \in DOMAIN levels[side]
  PROVE  /\ p \in Prices
         /\ levels[side][p].orders_ \in Seq(Nodes)
         /\ levels[side][p].total_qty_ \in Int
         /\ levels[side][p].orders_ # <<>>
         /\ InOrder(levels[side][p].orders_)
         /\ 1 \in DOMAIN levels[side][p].orders_
         /\ Head(levels[side][p].orders_) = levels[side][p].orders_[1]
         /\ Head(levels[side][p].orders_) \in Nodes
         /\ Head(levels[side][p].orders_).qty_remaining > 0
<1> DEFINE q == levels[side][p].orders_
<1>1. p \in Prices /\ q \in Seq(Nodes) /\ levels[side][p].total_qty_ \in Int
  BY BookAssumption DEF IInv, TypeOK, Levels
<1>2. q # <<>> /\ InOrder(q)
  BY DEF IInv, QueuesInOrder, InOrder
<1> HIDE DEF q
<1>3. 1 \in DOMAIN q /\ Head(q) = q[1] /\ q[1] \in Nodes
  BY <1>1, <1>2, SeqFacts
<1>4. q[1].qty_remaining > 0
  BY <1>2, <1>3 DEF InOrder
<1> QED BY <1>1, <1>2, <1>3, <1>4 DEF q

(* std::list::erase through the iterator of the index.                       *)
LEMMA CancelStep ==
  ASSUME IInv, NEW id \in Ids, Cancel(id)
  PROVE  IInv'
<1> DEFINE loc == order_index_[id]
           level == levels[loc.side][loc.price]
           q == level.orders_
           k == CHOOSE i \in DOMAIN q : q[i].it = loc.it
<1>1. /\ loc.side \in Sides /\ loc.price \in DOMAIN levels[loc.side]
      /\ \E i \in DOMAIN q : q[i].it = loc.it /\ q[i].id = id
  BY DEF Cancel, IInv, IndexSound, TypeOK, Locations
<1>2. q \in Seq(Nodes) /\ InOrder(q) /\ level.total_qty_ \in Int
  BY <1>1, LevelFacts
<1>3. k \in DOMAIN q /\ q[k].it = loc.it
  BY <1>1
<1>4. q[k].id = id /\ q[k] \in Nodes
  <2>1. PICK i \in DOMAIN q : q[i].it = loc.it /\ q[i].id = id
    BY <1>1
  <2> HIDE DEF k, q
  <2>2. /\ i \in 1 .. Len(q) /\ k \in 1 .. Len(q) /\ Len(q) \in Nat
        /\ q[i] \in Nodes /\ q[k] \in Nodes
    BY <1>2, <1>3, <2>1, SeqFacts, Zenon
  <2>3. q[i].it \in Nat /\ q[k].it \in Nat
    BY <2>2 DEF Nodes
  <2>4. i = k
    BY <1>2, <1>3, <2>1, <2>2, <2>3 DEF InOrder
  <2> QED BY <2>1, <2>2, <2>4
<1> DEFINE lvl == EraseFrom(level, loc.it)
<1>5. /\ lvl.orders_ = RemoveAt(q, k)
      /\ lvl = [orders_ |-> RemoveAt(q, k),
                total_qty_ |-> (level.total_qty_ - q[k].qty_remaining) % Width]
  BY DEF EraseFrom
<1>6. Keeps(RemoveAt(q, k), q, {q[k].it})
  BY <1>2, <1>3, EraseKeeps
<1>7. lvl \in Levels
  <2> HIDE DEF k, q, level
  <2>1. (level.total_qty_ - q[k].qty_remaining) % Width \in 0 .. Width - 1
    <3>1. level.total_qty_ - q[k].qty_remaining \in Int
      BY <1>2, <1>4 DEF Nodes
    <3> QED BY <3>1, WrapRange, Zenon
  <2>2. RemoveAt(q, k) \in Seq(Nodes)
    BY <1>6 DEF Keeps
  <2> HIDE DEF lvl
  <2> QED BY <1>5, <2>1, <2>2 DEF Levels
<1>8. /\ levels' = [levels EXCEPT ![loc.side] = PutLevel(@, loc.price, lvl)]
      /\ order_index_' = WithoutId(q[k].id)
      /\ aggressor' = aggressor /\ trades' = trades
      /\ nodes' = nodes /\ reused' = reused
  BY <1>4 DEF Cancel
<1> HIDE DEF lvl, k
<1>9. /\ Keeps(lvl.orders_, levels[loc.side][loc.price].orders_, {q[k].it})
      /\ \E i \in DOMAIN levels[loc.side][loc.price].orders_ :
           LET node == levels[loc.side][loc.price].orders_[i] IN
           {q[k].it} = {node.it} /\ order_index_' = WithoutId(node.id)
  BY <1>3, <1>5, <1>6, <1>8
<1> HIDE DEF loc
<1>10. /\ DOMAIN levels' = Sides
       /\ \A s \in Sides : /\ DOMAIN levels'[s] \subseteq DOMAIN levels[s]
                          /\ \A x \in DOMAIN levels'[s] : levels'[s][x] \in Levels
       /\ DOMAIN order_index_' \subseteq Ids
       /\ \A x \in DOMAIN order_index_' : order_index_'[x] \in Locations
       /\ QueuesInOrder' /\ IndexSound' /\ UniqueOrdersCancellable' /\ NeverCrossed'
  BY <1>1, <1>7, <1>8, <1>9, Shrink
<1>11. TypeOK'
  BY <1>8, <1>10 DEF IInv, TypeOK
<1> QED BY <1>10, <1>11 DEF IInv

(* One iteration of the matching loop.                                       *)
LEMMA MatchStep ==
  ASSUME IInv, Match
  PROVE  IInv'
<1> DEFINE side == Opposite(aggressor.side)
<1>1. /\ aggressor \in Orders /\ side \in Sides
      /\ aggressor.qty_remaining \in Nat \ {0}
  BY DEF IInv, TypeOK, Match, Orders, Sides, Opposite
<1> HIDE DEF side
<1>2. PICK p \in DOMAIN levels[side] :
        LET passive == Head(levels[side][p].orders_)
            fill    == Smaller(aggressor.qty_remaining, passive.qty_remaining)
            buy     == aggressor.side = "Buy"
        IN
        /\ trades' = Append(trades,
             [buy_id  |-> IF buy THEN aggressor.id ELSE passive.id,
              sell_id |-> IF buy THEN passive.id ELSE aggressor.id,
              price   |-> p, qty |-> fill])
        /\ aggressor' = [aggressor EXCEPT !.qty_remaining = @ - fill]
        /\ levels' = [levels EXCEPT ![side] =
                        PutLevel(@, p, ReduceFront(levels[side][p], fill))]
        /\ order_index_' = IndexAfterFill(passive, fill)
  BY DEF Match, Crossing, side
<1> DEFINE level == levels[side][p]
           q == level.orders_
           passive == Head(q)
           fill == Smaller(aggressor.qty_remaining, passive.qty_remaining)
           lvl == ReduceFront(level, fill)
<1>3. /\ p \in Prices /\ q \in Seq(Nodes) /\ q # <<>> /\ InOrder(q)
      /\ level.total_qty_ \in Int
      /\ 1 \in DOMAIN q /\ passive = q[1] /\ passive \in Nodes
      /\ passive.qty_remaining > 0
  BY <1>1, LevelFacts
<1>4. nodes' = nodes /\ reused' = reused
  BY DEF Match
<1>5. /\ passive.qty_remaining \in Nat
      /\ fill \in Nat \ {0} /\ fill <= aggressor.qty_remaining
      /\ fill <= passive.qty_remaining
  <2>1. passive.qty_remaining \in Nat \ {0} /\ passive.id \in Ids
    <3> HIDE DEF passive
    <3> QED BY <1>3 DEF Nodes
  <2> HIDE DEF passive
  <2> QED BY <1>1, <2>1 DEF Smaller
<1>6. trades' \in Seq(Trades) /\ aggressor' \in Orders
  <2> HIDE DEF passive, fill
  <2>1. /\ aggressor' = [aggressor EXCEPT !.qty_remaining = @ - fill]
        /\ trades' = Append(trades,
             [buy_id  |-> IF aggressor.side = "Buy" THEN aggressor.id ELSE passive.id,
              sell_id |-> IF aggressor.side = "Buy" THEN passive.id ELSE aggressor.id,
              price   |-> p, qty |-> fill])
    BY <1>2 DEF passive, fill
  <2>2. /\ passive.id \in Ids /\ aggressor.id \in Ids
        /\ aggressor.qty_remaining - fill \in Nat
    BY <1>1, <1>3, <1>5 DEF Nodes, Orders
  <2>3. aggressor' \in Orders
    BY <1>1, <2>1, <2>2 DEF Orders
  <2>4. [buy_id  |-> IF aggressor.side = "Buy" THEN aggressor.id ELSE passive.id,
         sell_id |-> IF aggressor.side = "Buy" THEN passive.id ELSE aggressor.id,
         price   |-> p, qty |-> fill] \in Trades
    BY <1>3, <1>5, <2>2 DEF Trades
  <2>5. trades \in Seq(Trades)
    BY DEF IInv, TypeOK
  <2> QED BY <2>1, <2>3, <2>4, <2>5, AppendProperties
<1>7. /\ levels' = [levels EXCEPT ![side] = PutLevel(@, p, lvl)]
      /\ order_index_' = IndexAfterFill(passive, fill)
  BY <1>2
<1>8. /\ lvl.orders_ = IF passive.qty_remaining = fill THEN Tail(q)
                       ELSE [q EXCEPT ![1].qty_remaining = @ - fill]
      /\ lvl = [orders_ |-> lvl.orders_,
                total_qty_ |-> (level.total_qty_ - fill) % Width]
  BY DEF ReduceFront
<1> DEFINE gone == IF passive.qty_remaining = fill THEN {passive.it} ELSE {}
<1>9. Keeps(lvl.orders_, q, gone)
  <2>1. CASE passive.qty_remaining = fill
    <3> HIDE DEF passive, fill, lvl, q
    <3>1. Keeps(Tail(q), q, {Head(q).it})
      BY <1>3, PopKeeps
    <3> QED BY <1>8, <2>1, <3>1 DEF passive
  <2>2. CASE passive.qty_remaining # fill
    <3>1. fill \in Nat /\ fill < passive.qty_remaining
      BY <1>5, <2>2
    <3> HIDE DEF fill, lvl, q
    <3>2. Keeps([q EXCEPT ![1].qty_remaining = @ - fill], q, {})
      BY <1>3, <3>1, PartialFillKeeps
    <3> QED BY <1>8, <2>2, <3>2
  <2> QED BY <2>1, <2>2
<1>10. lvl \in Levels
  <2> HIDE DEF fill, q, level, gone
  <2>1. (level.total_qty_ - fill) % Width \in 0 .. Width - 1
    <3>1. level.total_qty_ - fill \in Int
      BY <1>3, <1>5
    <3> QED BY <3>1, WrapRange, Zenon
  <2>2. lvl.orders_ \in Seq(Nodes)
    BY <1>9 DEF Keeps
  <2> DEFINE r == lvl.orders_
             total == (level.total_qty_ - fill) % Width
  <2>3. lvl = [orders_ |-> r, total_qty_ |-> total]
    BY <1>8
  <2> HIDE DEF lvl
  <2>4. r \in Seq(Nodes) /\ total \in 0 .. Width - 1
    BY <2>1, <2>2
  <2> HIDE DEF r, total
  <2> QED BY <2>3, <2>4 DEF Levels
<1>11. \/ gone = {} /\ order_index_' = order_index_
       \/ \E k \in DOMAIN q :
            LET node == q[k] IN
            gone = {node.it} /\ order_index_' = WithoutId(node.id)
  <2>1. CASE passive.qty_remaining = fill
    <3>1. order_index_' = WithoutId(passive.id)
      BY <1>7, <2>1 DEF IndexAfterFill
    <3> QED BY <1>3, <2>1, <3>1
  <2>2. CASE passive.qty_remaining # fill
    <3>1. order_index_' = order_index_
      BY <1>7, <2>2 DEF IndexAfterFill
    <3> QED BY <2>2, <3>1
  <2> QED BY <2>1, <2>2
<1> HIDE DEF lvl, gone, fill, passive
<1>12. /\ DOMAIN levels' = Sides
       /\ \A s \in Sides : /\ DOMAIN levels'[s] \subseteq DOMAIN levels[s]
                          /\ \A x \in DOMAIN levels'[s] : levels'[s][x] \in Levels
       /\ DOMAIN order_index_' \subseteq Ids
       /\ \A x \in DOMAIN order_index_' : order_index_'[x] \in Locations
       /\ QueuesInOrder' /\ IndexSound' /\ UniqueOrdersCancellable' /\ NeverCrossed'
  BY <1>1, <1>4, <1>7, <1>9, <1>10, <1>11, Shrink
<1>13. TypeOK'
  BY <1>4, <1>6, <1>12 DEF IInv, TypeOK
<1> QED BY <1>12, <1>13 DEF IInv

(* std::list::push_back.                                                     *)
LEMMA AppendFacts ==
  ASSUME NEW q \in Seq(Nodes), NEW node \in Nodes
  PROVE  /\ Append(q, node) \in Seq(Nodes) /\ Append(q, node) # <<>>
         /\ \A i \in DOMAIN q :
              i \in DOMAIN Append(q, node) /\ Append(q, node)[i] = q[i]
         /\ Len(q) + 1 \in DOMAIN Append(q, node)
         /\ Append(q, node)[Len(q) + 1] = node
         /\ \A i \in DOMAIN Append(q, node) :
              i \in DOMAIN q \/ i = Len(q) + 1
         /\ \A i, j \in DOMAIN Append(q, node) :
              i < j => i \in DOMAIN q
<1> DEFINE r == Append(q, node)
<1>1. /\ r \in Seq(Nodes) /\ Len(r) = Len(q) + 1
      /\ \A i \in 1 .. Len(q) : r[i] = q[i]
      /\ r[Len(q) + 1] = node
  BY AppendProperties
<1> HIDE DEF r
<1>2. DOMAIN r = 1 .. Len(r) /\ DOMAIN q = 1 .. Len(q) /\ Len(q) \in Nat
  BY <1>1, SeqFacts
<1>3. r # <<>>
  BY <1>1, <1>2, SeqFacts
<1> QED BY <1>1, <1>2, <1>3 DEF r

(* The remainder of a GTC order rests.                                       *)
LEMMA RestStep ==
  ASSUME IInv, RestOrder
  PROVE  IInv'
<1> DEFINE o == aggressor
           map == levels[o.side]
           level == IF o.price \in DOMAIN map THEN map[o.price] ELSE NewLevel
           node == [id |-> o.id, qty_remaining |-> o.qty_remaining, it |-> nodes + 1]
           loc == [price |-> o.price, side |-> o.side, it |-> nodes + 1]
           q == level.orders_
           r == Append(q, node)
           lvl == AddTo(level, node)
<1>1. /\ o.id \in Ids /\ o.side \in Sides /\ o.price \in Prices
      /\ o.qty_remaining \in Nat \ {0} /\ nodes \in Nat
  BY DEF IInv, TypeOK, RestOrder, Orders
<1>2. node \in Nodes /\ loc \in Locations
  BY <1>1 DEF Nodes, Locations
<1>3. /\ q \in Seq(Nodes) /\ level.total_qty_ \in Int
      /\ \A i \in DOMAIN q : /\ q[i].qty_remaining > 0 /\ q[i].it <= nodes
                            /\ \A j \in DOMAIN q : i < j => q[i].it < q[j].it
  <2>1. CASE o.price \in DOMAIN map
    <3>1. level = levels[o.side][o.price]
      BY <2>1
    <3> HIDE DEF level
    <3> QED BY <1>1, <2>1, <3>1, LevelFacts DEF IInv, QueuesInOrder
  <2>2. CASE o.price \notin DOMAIN map
    BY <2>2 DEF NewLevel
  <2> QED BY <2>1, <2>2
<1>4. lvl = [orders_ |-> r, total_qty_ |-> (level.total_qty_ + o.qty_remaining) % Width]
  BY DEF AddTo
<1>5. /\ levels' = [levels EXCEPT ![o.side] = PutLevel(@, o.price, lvl)]
      /\ order_index_' = [x \in DOMAIN order_index_ \cup {o.id} |->
                             IF x = o.id THEN loc ELSE order_index_[x]]
      /\ reused' = IF o.id \in RestingIds THEN reused \cup {o.id} ELSE reused
      /\ nodes' = nodes + 1 /\ aggressor' = NoOrder /\ trades' = trades
      /\ Crossing(o) = {}
  BY DEF RestOrder, MatchingOver
<1> HIDE DEF level, lvl, r, q, node, loc
<1>6. lvl \in Levels
  <2>1. (level.total_qty_ + o.qty_remaining) % Width \in 0 .. Width - 1
    <3>1. level.total_qty_ + o.qty_remaining \in Int
      BY <1>1, <1>3
    <3> QED BY <3>1, WrapRange, Zenon
  <2>2. r \in Seq(Nodes)
    BY <1>2, <1>3, AppendFacts DEF r
  <2> DEFINE total == (level.total_qty_ + o.qty_remaining) % Width
  <2> HIDE DEF total
  <2> QED BY <1>4, <2>1, <2>2 DEF Levels, total
<1>7. /\ DOMAIN levels' = Sides
      /\ \A s \in Sides \ {o.side} : levels'[s] = levels[s]
      /\ DOMAIN levels'[o.side] = DOMAIN map \cup {o.price}
      /\ levels'[o.side][o.price] = lvl
      /\ \A x \in DOMAIN map \ {o.price} : levels'[o.side][x] = map[x]
  <2>1. /\ levels'[o.side] = PutLevel(map, o.price, lvl)
        /\ DOMAIN levels' = Sides /\ \A s \in Sides \ {o.side} : levels'[s] = levels[s]
    BY <1>1, <1>5 DEF IInv, TypeOK
  <2>2. lvl.orders_ # <<>>
    BY <1>2, <1>3, <1>4, AppendFacts DEF r
  <2> HIDE DEF map
  <2> QED BY <2>1, <2>2 DEF PutLevel
<1>8. \A s \in Sides : \A x \in DOMAIN levels'[s] :
        \/ s = o.side /\ x = o.price /\ levels'[s][x] = lvl
        \/ /\ s # o.side \/ x # o.price
           /\ x \in DOMAIN levels[s] /\ levels'[s][x] = levels[s][x]
  BY <1>7
<1>9. o.price \in DOMAIN map => q = map[o.price].orders_
  BY DEF q, level
<1>10. lvl.orders_ = r
  BY <1>4
<1>11. TypeOK'
  <2>1. \A s \in Sides : /\ DOMAIN levels'[s] \subseteq Prices
                       /\ \A x \in DOMAIN levels'[s] : levels'[s][x] \in Levels
    BY <1>1, <1>6, <1>8 DEF IInv, TypeOK
  <2>2. /\ DOMAIN order_index_' \subseteq Ids
        /\ \A id \in DOMAIN order_index_' : order_index_'[id] \in Locations
    BY <1>1, <1>2, <1>5 DEF IInv, TypeOK
  <2>3. reused' \subseteq Ids /\ nodes' \in Nat
    BY <1>1, <1>5 DEF IInv, TypeOK
  <2> QED BY <1>5, <1>7, <2>1, <2>2, <2>3 DEF IInv, TypeOK
<1>12. QueuesInOrder'
  <2>1. \A i \in DOMAIN r :
          /\ r[i].qty_remaining > 0 /\ r[i].it <= nodes'
          /\ \A j \in DOMAIN r : i < j => r[i].it < r[j].it
    <3>1. \A i \in DOMAIN q : q[i].it \in Nat
      <4>1. \A i \in DOMAIN q : q[i] \in Nodes
        BY <1>3, SeqFacts, Zenon
      <4> QED BY <4>1 DEF Nodes
    <3>2. node.qty_remaining > 0 /\ node.it = nodes + 1
      BY <1>1 DEF node
    <3>3. /\ \A i \in DOMAIN q : i \in DOMAIN r /\ r[i] = q[i]
          /\ r[Len(q) + 1] = node
          /\ \A i \in DOMAIN r : i \in DOMAIN q \/ i = Len(q) + 1
          /\ \A i, j \in DOMAIN r : i < j => i \in DOMAIN q
      BY <1>2, <1>3, AppendFacts DEF r
    <3>4. ASSUME NEW i \in DOMAIN r
          PROVE  r[i].qty_remaining > 0 /\ r[i].it <= nodes'
      BY <1>1, <1>3, <1>5, <3>1, <3>2, <3>3
    <3>5. ASSUME NEW i \in DOMAIN r, NEW j \in DOMAIN r, i < j
          PROVE  r[i].it < r[j].it
      <4>1. i \in DOMAIN q /\ r[i] = q[i]
        BY <3>3, <3>5
      <4>2. CASE j \in DOMAIN q
        BY <1>3, <3>3, <3>5, <4>1, <4>2
      <4>3. CASE j = Len(q) + 1
        BY <1>1, <1>3, <3>1, <3>2, <3>3, <4>1, <4>3
      <4> QED BY <3>3, <4>2, <4>3
    <3> QED BY <3>4, <3>5
  <2>2. r # <<>>
    BY <1>2, <1>3, AppendFacts DEF r
  <2> SUFFICES ASSUME NEW s \in Sides, NEW x \in DOMAIN levels'[s]
               PROVE  /\ levels'[s][x].orders_ # <<>>
                      /\ \A i \in DOMAIN levels'[s][x].orders_ :
                           /\ levels'[s][x].orders_[i].qty_remaining > 0
                           /\ levels'[s][x].orders_[i].it <= nodes'
                           /\ \A j \in DOMAIN levels'[s][x].orders_ :
                                i < j => levels'[s][x].orders_[i].it
                                           < levels'[s][x].orders_[j].it
    BY Zenon DEF QueuesInOrder
  <2>3. CASE s = o.side /\ x = o.price
    BY <1>7, <1>10, <2>1, <2>2, <2>3
  <2>4. CASE ~(s = o.side /\ x = o.price)
    <3>1. x \in DOMAIN levels[s] /\ levels'[s][x] = levels[s][x]
      BY <1>8, <2>4
    <3>2. \A i \in DOMAIN levels[s][x].orders_ :
            levels[s][x].orders_[i] \in Nodes
      BY <3>1, LevelFacts, SeqFacts
    <3> QED BY <1>1, <1>5, <3>1, <3>2 DEF IInv, QueuesInOrder, Nodes
  <2> QED BY <2>3, <2>4
<1>13. \A s \in Sides : \A x \in DOMAIN levels[s] :
         /\ x \in DOMAIN levels'[s]
         /\ \A i \in DOMAIN levels[s][x].orders_ :
              /\ i \in DOMAIN levels'[s][x].orders_
              /\ levels'[s][x].orders_[i] = levels[s][x].orders_[i]
  <2> SUFFICES ASSUME NEW s \in Sides, NEW x \in DOMAIN levels[s]
               PROVE  /\ x \in DOMAIN levels'[s]
                      /\ \A i \in DOMAIN levels[s][x].orders_ :
                           /\ i \in DOMAIN levels'[s][x].orders_
                           /\ levels'[s][x].orders_[i] = levels[s][x].orders_[i]
    OBVIOUS
  <2>1. CASE s = o.side /\ x = o.price
    <3>1. \A i \in DOMAIN q : i \in DOMAIN r /\ r[i] = q[i]
      BY <1>2, <1>3, AppendFacts DEF r
    <3> QED BY <1>7, <1>9, <1>10, <2>1, <3>1
  <2>2. CASE ~(s = o.side /\ x = o.price)
    BY <1>7, <2>2
  <2> QED BY <2>1, <2>2
<1>14. /\ Len(q) + 1 \in DOMAIN levels'[o.side][o.price].orders_
       /\ levels'[o.side][o.price].orders_[Len(q) + 1] = node
  BY <1>2, <1>3, <1>7, <1>10, AppendFacts DEF r
<1>15. IndexSound'
  <2> SUFFICES ASSUME NEW id \in DOMAIN order_index_'
               PROVE  LET l == order_index_'[id] IN
                      /\ l.price \in DOMAIN levels'[l.side]
                      /\ \E i \in DOMAIN levels'[l.side][l.price].orders_ :
                           /\ levels'[l.side][l.price].orders_[i].it = l.it
                           /\ levels'[l.side][l.price].orders_[i].id = id
    BY Zenon DEF IndexSound
  <2>1. CASE id = o.id
    <3>1. /\ order_index_'[id] = loc /\ loc.price = o.price /\ loc.side = o.side
          /\ loc.it = node.it /\ node.id = id
      BY <1>5, <2>1 DEF loc, node
    <3> QED BY <1>7, <1>14, <3>1
  <2>2. CASE id # o.id
    <3> DEFINE l == order_index_[id]
    <3>1. id \in DOMAIN order_index_ /\ order_index_'[id] = l
      BY <1>5, <2>2
    <3>2. /\ l.side \in Sides /\ l.price \in DOMAIN levels[l.side]
          /\ \E i \in DOMAIN levels[l.side][l.price].orders_ :
               /\ levels[l.side][l.price].orders_[i].it = l.it
               /\ levels[l.side][l.price].orders_[i].id = id
      BY <3>1 DEF IInv, IndexSound, TypeOK, Locations
    <3> HIDE DEF l
    <3> QED BY <1>13, <3>1, <3>2
  <2> QED BY <2>1, <2>2
<1>16. UniqueOrdersCancellable'
  <2> SUFFICES ASSUME NEW s \in Sides, NEW x \in DOMAIN levels'[s],
                      NEW i \in DOMAIN levels'[s][x].orders_,
                      levels'[s][x].orders_[i].id \notin reused'
               PROVE  LET n == levels'[s][x].orders_[i] IN
                      /\ n.id \in DOMAIN order_index_'
                      /\ order_index_'[n.id] = [price |-> x, side |-> s, it |-> n.it]
    BY Zenon DEF UniqueOrdersCancellable
  <2> DEFINE n == levels'[s][x].orders_[i]
  <2>1. \/ s = o.side /\ x = o.price /\ n = node
        \/ /\ x \in DOMAIN levels[s] /\ i \in DOMAIN levels[s][x].orders_
           /\ n = levels[s][x].orders_[i]
    <3>1. CASE s = o.side /\ x = o.price
      <4>1. i \in DOMAIN r /\ n = r[i]
        BY <1>7, <1>10, <3>1
      <4>2. i = Len(q) + 1 \/ i \in DOMAIN q
        BY <1>2, <1>3, <4>1, AppendFacts DEF r
      <4>3. CASE i = Len(q) + 1
        BY <1>14, <3>1, <4>3
      <4>4. CASE i \in DOMAIN q
        <5>1. o.price \in DOMAIN map
          <6>1. SUFFICES ASSUME o.price \notin DOMAIN map PROVE FALSE
            OBVIOUS
          <6>2. q = <<>>
            BY <6>1 DEF q, level, NewLevel
          <6> QED BY <4>4, <6>2
        <5> QED BY <1>9, <1>13, <3>1, <4>4, <5>1
      <4> QED BY <4>2, <4>3, <4>4
    <3>2. CASE ~(s = o.side /\ x = o.price)
      BY <1>8, <3>2
    <3> QED BY <3>1, <3>2
  <2>2. n.id \notin reused'
    OBVIOUS
  <2> HIDE DEF n
  <2>3. CASE s = o.side /\ x = o.price /\ n = node
    <3>1. n.id = o.id /\ n.it = nodes + 1
      BY <2>3 DEF node
    <3> QED BY <1>5, <2>3, <3>1 DEF loc, n
  <2>4. CASE /\ x \in DOMAIN levels[s] /\ i \in DOMAIN levels[s][x].orders_
             /\ n = levels[s][x].orders_[i]
    <3>1. n.id \in RestingIds
      <4>1. levels[s][x].orders_[i].id \in Ids
        <5>1. levels[s][x].orders_ \in Seq(Nodes)
          BY <2>4, LevelFacts
        <5> DEFINE old == levels[s][x].orders_
        <5> HIDE DEF old
        <5>2. old[i] \in Nodes
          BY <2>4, <5>1, SeqFacts, Zenon DEF old
        <5> QED BY <5>2 DEF Nodes, old
      <4> QED BY <2>4, <4>1, Zenon DEF RestingIds
    <3>2. n.id # o.id /\ n.id \notin reused
      BY <1>5, <2>2, <3>1
    <3>3. /\ n.id \in DOMAIN order_index_
          /\ order_index_[n.id] = [price |-> x, side |-> s, it |-> n.it]
      BY <2>4, <3>2, Zenon DEF IInv, UniqueOrdersCancellable
    <3> QED BY <1>5, <3>2, <3>3 DEF n
  <2> QED BY <2>1, <2>3, <2>4
<1>17. NeverCrossed'
  <2> SUFFICES ASSUME NEW bid \in DOMAIN levels'["Buy"],
                      NEW ask \in DOMAIN levels'["Sell"]
               PROVE  bid < ask
    BY DEF NeverCrossed
  <2>1. "Buy" \in Sides /\ "Sell" \in Sides /\ o.side \in {"Buy", "Sell"}
    BY <1>1 DEF Sides
  <2>2. \A s \in Sides : DOMAIN levels'[s] \subseteq Int
    <3>1. \A s \in Sides : DOMAIN levels'[s] \subseteq Prices
      BY <1>11, Zenon DEF TypeOK
    <3>2. Prices \subseteq Int
      BY BookAssumption
    <3> QED BY <3>1, <3>2, Zenon
  <2>3. \A p \in DOMAIN levels[Opposite(o.side)] : ~Crosses(o, p)
    BY <1>5 DEF Crossing
  <2>4. CASE o.side = "Buy"
    <3>1. ask \in DOMAIN levels["Sell"]
      BY <1>7, <2>1, <2>4
    <3>2. ~(o.price >= ask)
      BY <2>3, <2>4, <3>1 DEF Crosses, Opposite
    <3>3. bid = o.price \/ bid \in DOMAIN levels["Buy"]
      BY <1>7, <2>4
    <3> QED BY <2>1, <2>2, <3>1, <3>2, <3>3 DEF IInv, NeverCrossed
  <2>5. CASE o.side = "Sell"
    <3>1. bid \in DOMAIN levels["Buy"]
      BY <1>7, <2>1, <2>5
    <3>2. ~(o.price <= bid)
      BY <2>3, <2>5, <3>1 DEF Crosses, Opposite
    <3>3. ask = o.price \/ ask \in DOMAIN levels["Sell"]
      BY <1>7, <2>5
    <3> QED BY <2>1, <2>2, <3>1, <3>2, <3>3 DEF IInv, NeverCrossed
  <2> QED BY <2>1, <2>4, <2>5
<1> QED BY <1>11, <1>12, <1>15, <1>16, <1>17 DEF IInv

-----------------------------------------------------------------------------
LEMMA Initially == Init => IInv
<1> SUFFICES ASSUME Init PROVE IInv
  OBVIOUS
<1>1. \A side \in Sides : DOMAIN levels[side] = {}
  BY DEF Init, Sides
<1>2. TypeOK
  BY <1>1 DEF Init, TypeOK
<1>3. QueuesInOrder /\ UniqueOrdersCancellable
  BY <1>1 DEF QueuesInOrder, UniqueOrdersCancellable
<1>4. IndexSound
  BY DEF Init, IndexSound
<1>5. NeverCrossed
  BY <1>1 DEF NeverCrossed, Sides
<1> QED BY <1>2, <1>3, <1>4, <1>5 DEF IInv

(* Every call of the book, at every iteration of its matching loop.          *)
LEMMA Inductive == IInv /\ [Next]_bookVars => IInv'
<1> SUFFICES ASSUME IInv, [Next]_bookVars PROVE IInv'
  OBVIOUS
<1> DEFINE New == [id : Ids, side : Sides, price : Prices,
                   qty_remaining : Quantities, tif : TimesInForce]
<1>1. aggressor \in Orders \cup {NoOrder} /\ trades \in Seq(Trades)
  BY DEF IInv, TypeOK
<1>2. <<>> \in Seq(Trades)
  BY EmptySeq
<1>3. ASSUME NEW o \in New, KillFok(o) PROVE IInv'
  BY <1>1, <1>2, <1>3, BookUntouched DEF KillFok
<1>4. ASSUME NEW o \in New, AddLimitOrder(o) PROVE IInv'
  <2>1. Quantities \subseteq Nat
    BY BookAssumption
  <2>2. o \in Orders
    BY <2>1 DEF Orders
  <2> QED BY <1>2, <1>4, <2>2, BookUntouched DEF AddLimitOrder
<1>5. CASE Match
  BY <1>5, MatchStep
<1>6. CASE Finish
  BY <1>1, <1>6, BookUntouched DEF Finish
<1>7. CASE RestOrder
  BY <1>7, RestStep
<1>8. ASSUME NEW id \in Ids, Cancel(id) PROVE IInv'
  BY <1>8, CancelStep
<1>9. CASE UNCHANGED bookVars
  BY <1>1, <1>9, BookUntouched DEF bookVars
<1> QED BY <1>3, <1>4, <1>5, <1>6, <1>7, <1>8, <1>9 DEF Next

LEMMA Invariance == Spec => []IInv
BY Initially, Inductive, PTL DEF Spec

(* No call leaves a negative quantity, a total outside the unsigned range or *)
(* an index entry that is no location (order_book.cpp, price_level.hpp).     *)
THEOREM TypeCorrect == Spec => []TypeOK
<1>1. IInv => TypeOK
  BY DEF IInv
<1> QED BY <1>1, Invariance, PTL

(* The best bid stays below the best ask for every sequence of calls and at  *)
(* every iteration of match (order_book.cpp:8-45).                           *)
THEOREM BookNeverCrossed == Spec => []NeverCrossed
<1>1. IInv => NeverCrossed
  BY DEF IInv
<1> QED BY <1>1, Invariance, PTL

(* Time priority inside a level: queues stay in arrival order and hold no    *)
(* filled order (price_level.hpp:16-40).                                     *)
THEOREM TimePriority == Spec => []QueuesInOrder
<1>1. IInv => QueuesInOrder
  BY DEF IInv
<1> QED BY <1>1, Invariance, PTL

(* No iterator of the index dangles, also when ids are reused                *)
(* (order_book.cpp:85-99).                                                   *)
THEOREM NoDanglingIterator == Spec => []IndexSound
<1>1. IInv => IndexSound
  BY DEF IInv
<1> QED BY <1>1, Invariance, PTL

(* An order with an id of its own can be cancelled as long as it rests       *)
(* (order_book.cpp:76-99).                                                   *)
THEOREM UniqueIdsCancellable == Spec => []UniqueOrdersCancellable
<1>1. IInv => UniqueOrdersCancellable
  BY DEF IInv
<1> QED BY <1>1, Invariance, PTL

-----------------------------------------------------------------------------
(* Refinement.  A call changes one level, by taking its front, filling it in *)
(* part, erasing one node or adding one; `LevelChange' turns each of these   *)
(* into the change of the set of resting orders of LimitOrderBook.           *)
(* The resting order that a node of a level stands for.                      *)
Order(side, p, node) ==
  [id |-> node.id, side |-> side, price |-> p,
   qty_remaining |-> node.qty_remaining, rank |-> node.it]

InQueue(x, side, p, q) == \E i \in DOMAIN q : x = Order(side, p, q[i])

(* x rests at a level other than side and p.                                 *)
Elsewhere(x, lv, side, p) ==
  \E s \in Sides : \E y \in DOMAIN lv[s] :
    (s # side \/ y # p) /\ InQueue(x, s, y, lv[s][y].orders_)

RestingIn(lv) ==
  UNION {UNION {{[id |-> o.id, side |-> side, price |-> p,
                  qty_remaining |-> o.qty_remaining, rank |-> o.it] :
                 o \in Range(lv[side][p].orders_)} :
                p \in DOMAIN lv[side]} : side \in Sides}

LEMMA RestingMeans ==
  ASSUME NEW lv, NEW x
  PROVE  x \in RestingIn(lv) <=>
           \E s \in Sides : \E y \in DOMAIN lv[s] : InQueue(x, s, y, lv[s][y].orders_)
BY DEF RestingIn, InQueue, Order, Range

(* The orders of one level and those of the others.                          *)
LEMMA LevelSplit ==
  ASSUME NEW lv, NEW side \in Sides, NEW p \in DOMAIN lv[side], NEW x
  PROVE  x \in RestingIn(lv) <=>
           Elsewhere(x, lv, side, p) \/ InQueue(x, side, p, lv[side][p].orders_)
BY RestingMeans DEF Elsewhere

LEMMA LevelAbsent ==
  ASSUME NEW lv, NEW side \in Sides, NEW p, p \notin DOMAIN lv[side], NEW x
  PROVE  x \in RestingIn(lv) <=> Elsewhere(x, lv, side, p)
BY RestingMeans DEF Elsewhere

LEMMA LevelChange ==
  ASSUME NEW lv, NEW lw, NEW side \in Sides, NEW p, NEW lvl,
         lw[side] = PutLevel(lv[side], p, lvl),
         \A s \in Sides \ {side} : lw[s] = lv[s],
         NEW x
  PROVE  x \in RestingIn(lw) <=>
           Elsewhere(x, lv, side, p) \/ InQueue(x, side, p, lvl.orders_)
<1> DEFINE map == lv[side]
           new == PutLevel(map, p, lvl)
<1>1. lw[side] = new /\ \A s \in Sides \ {side} : lw[s] = lv[s]
  OBVIOUS
<1>2. \A y : y # p => /\ y \in DOMAIN new <=> y \in DOMAIN map
                      /\ y \in DOMAIN map => new[y] = map[y]
  BY DEF PutLevel
<1>3. CASE lvl.orders_ = <<>>
  <2>1. p \notin DOMAIN lw[side]
    BY <1>1, <1>3 DEF PutLevel
  <2>2. ~InQueue(x, side, p, lvl.orders_)
    BY <1>3 DEF InQueue
  <2> HIDE DEF new
  <2>3. Elsewhere(x, lw, side, p) <=> Elsewhere(x, lv, side, p)
    BY <1>1, <1>2 DEF Elsewhere
  <2> QED BY <2>1, <2>2, <2>3, LevelAbsent
<1>4. CASE lvl.orders_ # <<>>
  <2>1. p \in DOMAIN lw[side] /\ lw[side][p] = lvl
    BY <1>1, <1>4 DEF PutLevel
  <2> HIDE DEF new
  <2>2. Elsewhere(x, lw, side, p) <=> Elsewhere(x, lv, side, p)
    BY <1>1, <1>2 DEF Elsewhere
  <2> QED BY <2>1, <2>2, LevelSplit
<1> QED BY <1>3, <1>4

(* Two orders are the same only if they rest at the same level under the     *)
(* same iterator.                                                            *)
LEMMA OrderFields ==
  ASSUME NEW s, NEW p, NEW a, NEW t, NEW q, NEW b, Order(s, p, a) = Order(t, q, b)
  PROVE  s = t /\ p = q /\ a.it = b.it
<1>1. /\ Order(s, p, a).side = Order(t, q, b).side
      /\ Order(s, p, a).price = Order(t, q, b).price
      /\ Order(s, p, a).rank = Order(t, q, b).rank
  OBVIOUS
<1> QED BY <1>1 DEF Order

LEMMA NotElsewhere ==
  ASSUME NEW lv, NEW side, NEW p, NEW node
  PROVE  ~Elsewhere(Order(side, p, node), lv, side, p)
BY OrderFields DEF Elsewhere, InQueue

-----------------------------------------------------------------------------
(* What a queue's operations do to its orders.                               *)
LEMMA Distinct ==
  ASSUME NEW q \in Seq(Nodes), InOrder(q), NEW s, NEW p, NEW i \in DOMAIN q, NEW j \in DOMAIN q,
         Order(s, p, q[i]) = Order(s, p, q[j])
  PROVE  i = j
<1>1. q[i].it = q[j].it
  BY OrderFields
<1>2. i \in Int /\ j \in Int /\ q[i] \in Nodes /\ q[j] \in Nodes
  <2>1. Len(q) \in Nat /\ i \in 1 .. Len(q) /\ j \in 1 .. Len(q)
    BY SeqFacts
  <2> QED BY <2>1, SeqFacts
<1>3. q[i].it \in Nat /\ q[j].it \in Nat
  BY <1>2 DEF Nodes
<1> QED BY <1>1, <1>2, <1>3 DEF InOrder

LEMMA QueueErase ==
  ASSUME NEW q \in Seq(Nodes), InOrder(q), NEW k \in DOMAIN q, NEW s, NEW p, NEW x
  PROVE  InQueue(x, s, p, RemoveAt(q, k)) <=>
           InQueue(x, s, p, q) /\ x # Order(s, p, q[k])
<1> DEFINE r == RemoveAt(q, k)
           Old(i) == IF i < k THEN i ELSE i + 1
           New(j) == IF j < k THEN j ELSE j - 1
<1>1. /\ r \in Seq(Nodes) /\ Len(r) = Len(q) - 1 /\ k \in 1 .. Len(q) /\ Len(q) \in Nat
      /\ DOMAIN q = 1 .. Len(q)
      /\ \A i \in 1 .. Len(q) - 1 : r[i] = IF i < k THEN q[i] ELSE q[i + 1]
  BY RemoveAtIsErase, SeqFacts
<1>2. DOMAIN r = 1 .. Len(q) - 1
  BY <1>1, SeqFacts
<1> HIDE DEF r
<1>3. \A i \in DOMAIN r : Old(i) \in DOMAIN q /\ Old(i) # k /\ r[i] = q[Old(i)]
  BY <1>1, <1>2
<1>4. \A j \in DOMAIN q : j # k => New(j) \in DOMAIN r /\ r[New(j)] = q[j]
  BY <1>1, <1>2
<1> HIDE DEF Old, New
<1>5. ASSUME InQueue(x, s, p, r)
      PROVE  InQueue(x, s, p, q) /\ x # Order(s, p, q[k])
  BY <1>3, <1>5, Distinct DEF InQueue
<1>6. ASSUME InQueue(x, s, p, q), x # Order(s, p, q[k])
      PROVE  InQueue(x, s, p, r)
  <2>1. PICK j \in DOMAIN q : x = Order(s, p, q[j])
    BY <1>6 DEF InQueue
  <2>2. j # k
    BY <1>6, <2>1
  <2> QED BY <1>4, <2>1, <2>2 DEF InQueue
<1> QED BY <1>5, <1>6 DEF r

LEMMA QueueTail ==
  ASSUME NEW q \in Seq(Nodes), InOrder(q), q # <<>>, NEW s, NEW p, NEW x
  PROVE  InQueue(x, s, p, Tail(q)) <=> InQueue(x, s, p, q) /\ x # Order(s, p, q[1])
<1>1. 1 \in DOMAIN q
  BY SeqFacts
<1>2. Tail(q) = RemoveAt(q, 1)
  BY PopIsErase
<1>3. InQueue(x, s, p, RemoveAt(q, 1)) <=> InQueue(x, s, p, q) /\ x # Order(s, p, q[1])
  BY <1>1, QueueErase
<1> QED BY <1>2, <1>3, Zenon

LEMMA QueueAppend ==
  ASSUME NEW q \in Seq(Nodes), NEW node \in Nodes, NEW s, NEW p, NEW x
  PROVE  InQueue(x, s, p, Append(q, node)) <=>
           InQueue(x, s, p, q) \/ x = Order(s, p, node)
<1> DEFINE r == Append(q, node)
<1>1. /\ \A i \in DOMAIN q : i \in DOMAIN r /\ r[i] = q[i]
      /\ Len(q) + 1 \in DOMAIN r /\ r[Len(q) + 1] = node
      /\ \A i \in DOMAIN r : i \in DOMAIN q \/ i = Len(q) + 1
  BY AppendFacts
<1> HIDE DEF r
<1> QED BY <1>1 DEF InQueue, r

(* The front after a partial fill.                                           *)
LEMMA QueuePartial ==
  ASSUME NEW q \in Seq(Nodes), InOrder(q), q # <<>>, NEW fill, NEW s, NEW p, NEW x
  PROVE  InQueue(x, s, p, [q EXCEPT ![1].qty_remaining = @ - fill]) <=>
           \/ InQueue(x, s, p, q) /\ x # Order(s, p, q[1])
           \/ x = [Order(s, p, q[1]) EXCEPT !.qty_remaining = @ - fill]
<1> DEFINE front == [q[1] EXCEPT !.qty_remaining = @ - fill]
           r == [q EXCEPT ![1] = front]
<1>1. 1 \in DOMAIN q /\ q[1] \in Nodes
  BY SeqFacts
<1>2. [q EXCEPT ![1].qty_remaining = @ - fill] = r
  OBVIOUS
<1>3. Order(s, p, front) = [Order(s, p, q[1]) EXCEPT !.qty_remaining = @ - fill]
  <2> DEFINE o == q[1]
  <2>1. o \in Nodes
    BY <1>1
  <2> HIDE DEF o
  <2>2. [o EXCEPT !.qty_remaining = @ - fill]
          = [id |-> o.id, qty_remaining |-> o.qty_remaining - fill, it |-> o.it]
    BY <2>1 DEF Nodes
  <2>3. Order(s, p, [o EXCEPT !.qty_remaining = @ - fill])
          = [Order(s, p, o) EXCEPT !.qty_remaining = @ - fill]
    BY <2>2 DEF Order
  <2> QED BY <2>3 DEF o
<1> HIDE DEF front
<1>4. DOMAIN r = DOMAIN q /\ r[1] = front /\ \A i \in DOMAIN q \ {1} : r[i] = q[i]
  BY <1>1
<1> HIDE DEF r
<1>5. \A i \in DOMAIN q : i # 1 => Order(s, p, q[i]) # Order(s, p, q[1])
  BY <1>1, Distinct
<1> QED BY <1>1, <1>2, <1>3, <1>4, <1>5 DEF InQueue

-----------------------------------------------------------------------------
(* The steps.                                                                *)
LEMMA RestingState == Resting = RestingIn(levels)
BY DEF Resting, RestingIn

LEMMA RestingNext == Resting' = RestingIn(levels')
BY DEF Resting, RestingIn

(* The orders an incoming order may trade with rest at the crossing levels.  *)
LEMMA MakersMean ==
  ASSUME IInv, NEW o \in Orders, NEW x
  PROVE  x \in {m \in Resting : m.side # o.side /\ Lob!Reaches(o, m.price)} <=>
           \E p \in Crossing(o) :
             InQueue(x, Opposite(o.side), p, levels[Opposite(o.side)][p].orders_)
<1> DEFINE opp == Opposite(o.side)
<1>1. /\ opp \in Sides /\ o.side \in Sides /\ o.side # opp
      /\ \A s \in Sides : s # o.side => s = opp
  BY DEF Opposite, Sides, Orders
<1>2. \A s, p, node : /\ Order(s, p, node).side = s
                     /\ Order(s, p, node).price = p
  BY DEF Order
<1>3. \A p : Lob!Reaches(o, p) <=> Crosses(o, p)
  BY DEF Lob!Reaches, Crosses
<1>4. x \in Resting <=> \E s \in Sides : \E y \in DOMAIN levels[s] :
                          InQueue(x, s, y, levels[s][y].orders_)
  BY RestingState, RestingMeans
<1>5. \A s, y, q : InQueue(x, s, y, q) => x.side = s /\ x.price = y
  BY <1>2 DEF InQueue
<1> QED BY <1>1, <1>3, <1>4, <1>5 DEF Crossing

LEMMA ArriveStep ==
  ASSUME IInv,
         NEW o \in [id : Ids, side : Sides, price : Prices,
                    qty_remaining : Quantities, tif : TimesInForce],
         AddLimitOrder(o)
  PROVE  Lob!Arrive
<1>1. Resting' = Resting
  BY DEF AddLimitOrder, Resting
<1>2. o \in Lob!Incoming
  BY DEF Lob!Incoming, Sides, TimesInForce, Lob!Sides, Lob!TimesInForce
<1> QED BY <1>1, <1>2 DEF AddLimitOrder, Lob!Arrive

LEMMA KillStep ==
  ASSUME NEW o, KillFok(o)
  PROVE  Lob!Kill
BY DEF KillFok, Lob!Kill, Resting

(* One iteration of match is a trade with the best of the makers.            *)
LEMMA ExecuteStep ==
  ASSUME IInv, Match
  PROVE  Lob!Execute
<1> DEFINE o == aggressor
           opp == Opposite(o.side)
<1>1. o \in Orders /\ o.side \in Sides /\ opp \in Sides /\ o.qty_remaining \in Nat \ {0}
  BY DEF IInv, TypeOK, Match, Orders, Sides, Opposite
<1>2. PICK p \in Crossing(o) :
        LET passive == Head(levels[opp][p].orders_)
            fill    == Smaller(o.qty_remaining, passive.qty_remaining)
            buy     == o.side = "Buy"
        IN
        /\ IsBest(opp, p)
        /\ trades' = Append(trades,
             [buy_id  |-> IF buy THEN o.id ELSE passive.id,
              sell_id |-> IF buy THEN passive.id ELSE o.id,
              price   |-> p, qty |-> fill])
        /\ aggressor' = [aggressor EXCEPT !.qty_remaining = @ - fill]
        /\ levels' = [levels EXCEPT ![opp] = PutLevel(@, p, ReduceFront(levels[opp][p], fill))]
  BY DEF Match
<1> DEFINE level == levels[opp][p]
           q == level.orders_
           passive == Head(q)
           fill == Smaller(o.qty_remaining, passive.qty_remaining)
           lvl == ReduceFront(level, fill)
           m == Order(opp, p, q[1])
           rest == [m EXCEPT !.qty_remaining = @ - fill]
           Makers == {x \in Resting : x.side # o.side /\ Lob!Reaches(o, x.price)}
<1>3. p \in DOMAIN levels[opp]
  BY DEF Crossing
<1>4. /\ p \in Prices /\ q \in Seq(Nodes) /\ q # <<>> /\ InOrder(q)
      /\ 1 \in DOMAIN q /\ passive = q[1] /\ passive \in Nodes /\ passive.qty_remaining > 0
  BY <1>1, <1>3, LevelFacts
<1>5. /\ m.id = passive.id /\ m.side = opp /\ m.price = p /\ m.rank = passive.it
      /\ m.qty_remaining = passive.qty_remaining
      /\ rest.qty_remaining = passive.qty_remaining - fill
  BY <1>4 DEF Order
<1>6. /\ lvl.orders_ = IF passive.qty_remaining = fill THEN Tail(q)
                       ELSE [q EXCEPT ![1].qty_remaining = @ - fill]
      /\ levels' = [levels EXCEPT ![opp] = PutLevel(@, p, lvl)]
  BY <1>2 DEF ReduceFront
<1>7. fill \in Nat /\ fill <= passive.qty_remaining /\ passive.qty_remaining \in Nat
  <2>1. passive.qty_remaining \in Nat
    <3> HIDE DEF passive
    <3> QED BY <1>4 DEF Nodes
  <2> HIDE DEF passive
  <2> QED BY <1>1, <2>1 DEF Smaller
<1>8. fill = Lob!Lesser(o.qty_remaining, m.qty_remaining)
  BY <1>5 DEF Smaller, Lob!Lesser
<1>9. /\ aggressor' = [aggressor EXCEPT !.qty_remaining = @ - fill]
      /\ trades' = Append(trades, Lob!TradeOf(o, m, fill))
  <2>1. Lob!TradeOf(o, m, fill) =
          [buy_id  |-> IF o.side = "Buy" THEN o.id ELSE passive.id,
           sell_id |-> IF o.side = "Buy" THEN passive.id ELSE o.id,
           price   |-> p, qty |-> fill]
    BY <1>5 DEF Lob!TradeOf
  <2> QED BY <1>2, <2>1
<1>10. m \in Makers
  BY <1>1, <1>2, <1>4, MakersMean DEF InQueue
<1>11. ASSUME NEW n \in Makers \ {m}
       PROVE  Lob!Before(m, n)
  <2>1. PICK y \in Crossing(o) : InQueue(n, opp, y, levels[opp][y].orders_)
    BY <1>1, <1>11, MakersMean
  <2>2. PICK i \in DOMAIN levels[opp][y].orders_ : n = Order(opp, y, levels[opp][y].orders_[i])
    BY <2>1 DEF InQueue
  <2>3. n.side = opp /\ n.price = y /\ n.rank = levels[opp][y].orders_[i].it
    BY <2>2 DEF Order
  <2>4. CASE y # p
    <3>1. Better(opp, p, y)
      BY <1>2, <2>1, <2>4 DEF IsBest, Crossing
    <3> QED BY <1>5, <2>3, <3>1 DEF Better, Lob!Before
  <2>5. CASE y = p
    <3>1. i # 1
      BY <1>11, <2>2, <2>5
    <3>2. i \in DOMAIN q /\ 1 < i
      BY <1>4, <2>2, <2>5, <3>1, SeqFacts
    <3>3. q[1].it < q[i].it
      BY <1>4, <3>2 DEF InOrder
    <3> QED BY <1>4, <1>5, <2>3, <2>5, <3>3 DEF Lob!Before
  <2> QED BY <2>4, <2>5
<1>12. DOMAIN levels = Sides
  BY DEF IInv, TypeOK
<1> HIDE DEF q, level, passive, fill, lvl, rest, m
<1>13. Resting' = (Resting \ {m}) \cup {x \in {rest} : x.qty_remaining > 0}
  <2> DEFINE now == Resting
             later == Resting'
  <2> HIDE DEF now, later
  <2> SUFFICES ASSUME NEW x
               PROVE  x \in later <=> (x \in now /\ x # m) \/ (x = rest /\ rest.qty_remaining > 0)
    <3>1. \A x : x \in later <=> x \in (now \ {m}) \cup {y \in {rest} : y.qty_remaining > 0}
      OBVIOUS
    <3>2. later = (now \ {m}) \cup {y \in {rest} : y.qty_remaining > 0}
      BY <3>1, SetExtensionality
    <3> QED BY <3>2 DEF now, later
  <2>1. x \in later <=> Elsewhere(x, levels, opp, p) \/ InQueue(x, opp, p, lvl.orders_)
    <3> DEFINE before == levels
               after == levels'
    <3>1. /\ after[opp] = PutLevel(before[opp], p, lvl) /\ opp \in Sides
          /\ \A s \in Sides \ {opp} : after[s] = before[s]
      BY <1>1, <1>6, <1>12
    <3> HIDE DEF before, after, opp
    <3>2. x \in RestingIn(after) <=> Elsewhere(x, before, opp, p) \/ InQueue(x, opp, p, lvl.orders_)
      BY <3>1, LevelChange
    <3> QED BY <3>2, RestingNext DEF before, after, later
  <2>2. x \in now <=> Elsewhere(x, levels, opp, p) \/ InQueue(x, opp, p, q)
    BY <1>1, <1>3, LevelSplit, RestingState DEF q, level, now
  <2>3. Elsewhere(x, levels, opp, p) => x # m
    BY NotElsewhere DEF m
  <2>4. CASE passive.qty_remaining = fill
    <3>1. InQueue(x, opp, p, lvl.orders_) <=> InQueue(x, opp, p, q) /\ x # m
      BY <1>4, <1>6, <2>4, QueueTail DEF m
    <3>2. ~(rest.qty_remaining > 0)
      BY <1>5, <1>7, <2>4
    <3> QED BY <2>1, <2>2, <2>3, <3>1, <3>2, Zenon
  <2>5. CASE passive.qty_remaining # fill
    <3>1. InQueue(x, opp, p, lvl.orders_) <=> (InQueue(x, opp, p, q) /\ x # m) \/ x = rest
      <4>1. lvl.orders_ = [q EXCEPT ![1].qty_remaining = @ - fill]
        BY <1>6, <2>5
      <4>2. InQueue(x, opp, p, [q EXCEPT ![1].qty_remaining = @ - fill]) <=>
              \/ InQueue(x, opp, p, q) /\ x # Order(opp, p, q[1])
              \/ x = [Order(opp, p, q[1]) EXCEPT !.qty_remaining = @ - fill]
        BY <1>4, QueuePartial
      <4> QED BY <4>1, <4>2 DEF m, rest
    <3>2. rest.qty_remaining > 0
      BY <1>5, <1>7, <2>5
    <3> QED BY <2>1, <2>2, <2>3, <3>1, <3>2, Zenon
  <2> QED BY <2>4, <2>5
<1>14. aggressor # NoOrder /\ aggressor.qty_remaining > 0
  BY DEF Match
<1> QED BY <1>8, <1>9, <1>10, <1>11, <1>13, <1>14 DEF Lob!Execute, Lob!Makers, rest

LEMMA NobodyToTradeWith ==
  ASSUME IInv, aggressor # NoOrder, MatchingOver
  PROVE  aggressor.qty_remaining = 0 \/ Lob!Makers(aggressor) = {}
<1>1. aggressor \in Orders
  BY DEF IInv, TypeOK
<1>2. CASE Crossing(aggressor) = {}
  BY <1>1, <1>2, MakersMean DEF Lob!Makers
<1> QED BY <1>2 DEF MatchingOver

LEMMA FinishStep ==
  ASSUME IInv, Finish, aggressor.tif = "FOK" => aggressor.qty_remaining = 0
  PROVE  Lob!Depart
<1>1. Resting' = Resting
  BY DEF Finish, Resting
<1>2. ~(aggressor.tif = "GTC" /\ aggressor.qty_remaining > 0)
  BY DEF Finish
<1> QED BY <1>1, <1>2, NobodyToTradeWith DEF Finish, Lob!Depart

(* The remainder rests behind everything that rests.                         *)
LEMMA RemainderStep ==
  ASSUME IInv, RestOrder
  PROVE  Lob!Depart
<1> DEFINE o == aggressor
           map == levels[o.side]
           level == IF o.price \in DOMAIN map THEN map[o.price] ELSE NewLevel
           node == [id |-> o.id, qty_remaining |-> o.qty_remaining, it |-> nodes + 1]
           q == level.orders_
           lvl == AddTo(level, node)
           m == Order(o.side, o.price, node)
<1>1. /\ o \in Orders /\ o.id \in Ids /\ o.side \in Sides /\ o.price \in Prices
      /\ o.qty_remaining \in Nat \ {0} /\ nodes \in Nat /\ DOMAIN levels = Sides
      /\ o.tif = "GTC"
  BY DEF IInv, TypeOK, RestOrder, Orders
<1>2. node \in Nodes
  BY <1>1 DEF Nodes
<1>3. /\ levels' = [levels EXCEPT ![o.side] = PutLevel(@, o.price, lvl)]
      /\ aggressor' = NoOrder /\ trades' = trades
      /\ lvl.orders_ = Append(q, node)
  BY DEF RestOrder, AddTo
<1>4. q \in Seq(Nodes)
  <2>1. CASE o.price \in DOMAIN map
    <3>1. level = levels[o.side][o.price]
      BY <2>1
    <3> HIDE DEF level
    <3> QED BY <1>1, <2>1, <3>1, LevelFacts
  <2>2. CASE o.price \notin DOMAIN map
    BY <2>2 DEF NewLevel
  <2> QED BY <2>1, <2>2
<1>5. m = [id |-> o.id, side |-> o.side, price |-> o.price,
           qty_remaining |-> o.qty_remaining, rank |-> m.rank]
      /\ m.rank = nodes + 1
  BY DEF Order
<1> DEFINE now == Resting
           later == Resting'
<1> HIDE DEF level, node, lvl, m
<1>6. ASSUME NEW x
      PROVE  x \in later <=> x \in now \/ x = m
  <2>1. x \in later <=> Elsewhere(x, levels, o.side, o.price)
                        \/ InQueue(x, o.side, o.price, lvl.orders_)
    <3> DEFINE before == levels
               after == levels'
               side == o.side
               price == o.price
    <3>1. /\ after[side] = PutLevel(before[side], price, lvl) /\ side \in Sides
          /\ \A s \in Sides \ {side} : after[s] = before[s]
      BY <1>1, <1>3
    <3> HIDE DEF before, after, side, price
    <3>2. x \in RestingIn(after) <=> Elsewhere(x, before, side, price)
                                   \/ InQueue(x, side, price, lvl.orders_)
      BY <3>1, LevelChange
    <3> QED BY <3>2, RestingNext DEF before, after, side, price
  <2>2. InQueue(x, o.side, o.price, lvl.orders_) <=>
          InQueue(x, o.side, o.price, q) \/ x = m
    BY <1>2, <1>3, <1>4, QueueAppend DEF m
  <2>3. x \in now <=> Elsewhere(x, levels, o.side, o.price) \/ InQueue(x, o.side, o.price, q)
    <3>1. CASE o.price \in DOMAIN map
      <4>1. q = levels[o.side][o.price].orders_
        BY <3>1 DEF level
      <4> QED BY <1>1, <3>1, <4>1, LevelSplit, RestingState
    <3>2. CASE o.price \notin DOMAIN map
      <4>1. q = <<>>
        BY <3>2 DEF level, NewLevel
      <4>2. ~InQueue(x, o.side, o.price, q)
        BY <4>1 DEF InQueue
      <4> QED BY <1>1, <3>2, <4>2, LevelAbsent, RestingState
    <3> QED BY <3>1, <3>2
  <2> QED BY <2>1, <2>2, <2>3, Zenon
<1>7. ASSUME NEW n \in now
      PROVE  n.rank < m.rank
  <2>a. PICK s \in Sides : \E y \in DOMAIN levels[s] : InQueue(n, s, y, levels[s][y].orders_)
    BY RestingState, RestingMeans
  <2>1. PICK y \in DOMAIN levels[s] : InQueue(n, s, y, levels[s][y].orders_)
    BY <2>a
  <2>2. PICK i \in DOMAIN levels[s][y].orders_ : n = Order(s, y, levels[s][y].orders_[i])
    BY <2>1 DEF InQueue
  <2> DEFINE old == levels[s][y].orders_
  <2>3. n.rank = old[i].it /\ old[i].it <= nodes /\ old \in Seq(Nodes)
    BY <2>1, <2>2, LevelFacts DEF Order, IInv, QueuesInOrder
  <2> HIDE DEF old
  <2>4. old[i] \in Nodes
    BY <2>2, <2>3, SeqFacts DEF old
  <2>5. old[i].it \in Nat
    BY <2>4 DEF Nodes
  <2> QED BY <1>1, <1>5, <2>3, <2>5
<1>8. later = now \cup {m}
  <2> HIDE DEF now, later
  <2>1. \A x : x \in later <=> x \in now \cup {m}
    BY <1>6
  <2> QED BY <2>1, SetExtensionality
<1>9. aggressor # NoOrder /\ MatchingOver
  BY DEF RestOrder
<1>10. o.tif = "GTC" /\ o.qty_remaining > 0 /\ ~(o.tif = "FOK")
  BY <1>1
<1>11. m \in later
  BY <1>6
<1> HIDE DEF now, later
<1>12. \E x \in later :
         /\ later = now \cup {x}
         /\ \A n \in now : n.rank < x.rank
         /\ x = [id |-> o.id, side |-> o.side, price |-> o.price,
                 qty_remaining |-> o.qty_remaining, rank |-> x.rank]
  BY <1>5, <1>7, <1>8, <1>11, Zenon
<1> QED BY <1>3, <1>9, <1>10, <1>12, NobodyToTradeWith DEF Lob!Depart, now, later

(* A cancelled order, and no other, leaves the book.                         *)
LEMMA WithdrawStep ==
  ASSUME IInv, NEW id \in Ids, Cancel(id)
  PROVE  Lob!Withdraw
<1> DEFINE loc == order_index_[id]
           side == loc.side
           p == loc.price
           q == levels[side][p].orders_
           k == CHOOSE i \in DOMAIN q : q[i].it = loc.it
           lvl == EraseFrom(levels[side][p], loc.it)
           m == Order(side, p, q[k])
           now == Resting
           later == Resting'
<1>1. /\ side \in Sides /\ p \in DOMAIN levels[side] /\ DOMAIN levels = Sides
      /\ \E i \in DOMAIN q : q[i].it = loc.it
  BY DEF Cancel, IInv, IndexSound, TypeOK, Locations
<1>2. q \in Seq(Nodes) /\ InOrder(q) /\ k \in DOMAIN q
  BY <1>1, LevelFacts
<1>3. /\ lvl.orders_ = RemoveAt(q, k) /\ aggressor = NoOrder
      /\ levels' = [levels EXCEPT ![side] = PutLevel(@, p, lvl)]
      /\ aggressor' = aggressor /\ trades' = trades
  BY DEF EraseFrom, Cancel
<1> HIDE DEF k, lvl, m, q, side, p
<1>4. ASSUME NEW x
      PROVE  x \in later <=> x \in now /\ x # m
  <2>1. x \in later <=> Elsewhere(x, levels, side, p) \/ InQueue(x, side, p, lvl.orders_)
    <3> DEFINE before == levels
               after == levels'
    <3>1. /\ after[side] = PutLevel(before[side], p, lvl) /\ side \in Sides
          /\ \A s \in Sides \ {side} : after[s] = before[s]
      BY <1>1, <1>3
    <3> HIDE DEF before, after
    <3>2. x \in RestingIn(after) <=> Elsewhere(x, before, side, p)
                                   \/ InQueue(x, side, p, lvl.orders_)
      BY <3>1, LevelChange
    <3> QED BY <3>2, RestingNext DEF before, after
  <2>2. InQueue(x, side, p, lvl.orders_) <=> InQueue(x, side, p, q) /\ x # m
    BY <1>2, <1>3, QueueErase DEF m
  <2>3. x \in now <=> Elsewhere(x, levels, side, p) \/ InQueue(x, side, p, q)
    BY <1>1, LevelSplit, RestingState DEF q
  <2>4. Elsewhere(x, levels, side, p) => x # m
    BY NotElsewhere DEF m
  <2> QED BY <2>1, <2>2, <2>3, <2>4, Zenon
<1>5. m \in now
  <2>1. InQueue(m, side, p, q)
    BY <1>2 DEF m, InQueue
  <2> QED BY <1>1, <2>1, LevelSplit, RestingState DEF q
<1> HIDE DEF now, later
<1>6. later = now \ {m}
  <2>1. \A x : x \in later <=> x \in now \ {m}
    BY <1>4
  <2> QED BY <2>1, SetExtensionality
<1> QED BY <1>3, <1>5, <1>6 DEF Lob!Withdraw, now, later

-----------------------------------------------------------------------------
LEMMA InitRefines == Init => Lob!LobInit
<1> SUFFICES ASSUME Init PROVE Resting = {}
  BY DEF Init, Lob!LobInit
<1>1. \A s \in Sides : DOMAIN levels[s] = {}
  BY DEF Init
<1>2. \A x : ~(x \in Resting)
  BY <1>1, RestingState, RestingMeans
<1> QED BY <1>2

(* A step of the book is a move of LimitOrderBook, as long as no             *)
(* fill-or-kill order leaves with a remainder; that none does rests on the   *)
(* sums below.                                                               *)
LEMMA StepRefines ==
  ASSUME IInv, [Next]_bookVars,
         [aggressor # NoOrder /\ aggressor' = NoOrder /\ aggressor.tif = "FOK"
            => aggressor.qty_remaining = 0]_bookVars
  PROVE  [Lob!LobNext]_(Lob!lobVars)
<1>1. CASE UNCHANGED bookVars
  BY <1>1 DEF bookVars, Lob!lobVars, Resting
<1>2. ASSUME NEW o \in [id : Ids, side : Sides, price : Prices,
                         qty_remaining : Quantities, tif : TimesInForce],
             KillFok(o) \/ AddLimitOrder(o)
      PROVE  Lob!LobNext
  BY <1>2, ArriveStep, KillStep, Zenon DEF Lob!LobNext
<1>3. CASE Match
  BY <1>3, ExecuteStep DEF Lob!LobNext
<1>4. CASE Finish
  <2>1. aggressor # NoOrder /\ aggressor' = NoOrder
    BY <1>4 DEF Finish
  <2>2. aggressor.tif = "FOK" => aggressor.qty_remaining = 0
    BY <2>1 DEF bookVars
  <2> QED BY <1>4, <2>2, FinishStep DEF Lob!LobNext
<1>5. CASE RestOrder
  BY <1>5, RemainderStep DEF Lob!LobNext
<1>6. ASSUME NEW id \in Ids, Cancel(id) PROVE Lob!LobNext
  BY <1>6, WithdrawStep, Zenon DEF Lob!LobNext
<1> QED BY <1>1, <1>2, <1>3, <1>4, <1>5, <1>6, Zenon DEF Next

-----------------------------------------------------------------------------
(* Lots.                                                                     *)
QtyOf == [n \in Nodes |-> n.qty_remaining]

QueueLots(q) == Weight(QtyOf, q)

LEMMA QtyTypes == QtyOf \in [Nodes -> Nat] /\ QtyOf \in [Nodes -> Int]
  /\ \A n \in Nodes : QtyOf[n] = n.qty_remaining /\ n.qty_remaining \in Nat
BY DEF QtyOf, Nodes

LEMMA QueueFold ==
  ASSUME NEW q \in Seq(Nodes)
  PROVE  FoldLeft(LAMBDA sum, o : sum + o.qty_remaining, 0, q) = QueueLots(q)
<1> DEFINE F(h) == [t \in SUBSET DOMAIN q |->
                      IF t = {} THEN 0 ELSE h[t \ {Max(t)}] + q[Max(t)].qty_remaining]
           f == CHOOSE h : h = F(h)
<1>1. FoldLeft(LAMBDA sum, o : sum + o.qty_remaining, 0, q) = f[DOMAIN q]
  BY DEF FoldLeft, MapThenFoldSet
<1>2. \A t \in SUBSET DOMAIN q : t # {} => QtyOf[q[Max(t)]] = q[Max(t)].qty_remaining
  BY LastPlace, QtyTypes
<1>3. \A h : h = F(h) <=> AddsUp(h, QtyOf, 0, q)
  BY <1>2 DEF AddsUp
<1>4. Summed(QtyOf, q, Nodes)
  BY QtyTypes DEF Summed
<1>5. f = F(f)
  <2>1. PICK h : AddsUp(h, QtyOf, 0, q)
    BY <1>4, SumExists
  <2>2. h = F(h)
    BY <1>3, <2>1
  <2> QED
    BY <2>2
<1>6. AddsUp(f, QtyOf, 0, q)
  BY <1>3, <1>5
<1>7. f[DOMAIN q] = 0 + Weight(QtyOf, q)
  <2> HIDE DEF f
  <2> QED
    BY <1>4, <1>6, SumFrom
<1>8. Weight(QtyOf, q) \in Int
  BY QtyTypes, WeightType
<1>9. f[DOMAIN q] = QueueLots(q)
  <2> HIDE DEF f
  <2> QED
    BY <1>7, <1>8 DEF QueueLots
<1> QED
  BY <1>1, <1>9

LEMMA LotsType ==
  ASSUME NEW q \in Seq(Nodes)
  PROVE  QueueLots(q) \in Nat /\ QueueLots(<<>>) = 0
<1>1. QueueLots(q) \in Nat
  BY QtyTypes, WeightPositive DEF QueueLots
<1>2. QueueLots(<<>>) = 0
  BY QtyTypes, WeightEmpty DEF QueueLots
<1> QED
  BY <1>1, <1>2

(* What the operations on a queue do to its lots.                            *)
LEMMA LotsErased ==
  ASSUME NEW q \in Seq(Nodes), NEW k \in DOMAIN q
  PROVE  QueueLots(RemoveAt(q, k)) = QueueLots(q) - q[k].qty_remaining
<1> DEFINE u == RemoveAt(q, k)
<1>1. k \in 1 .. Len(q) /\ Len(q) \in Nat /\ q[k] \in Nodes
  BY SeqFacts
<1>2. u \in Seq(Nodes) /\ Len(u) = Len(q) - 1
        /\ \A i \in 1 .. Len(q) - 1 : u[i] = IF i < k THEN q[i] ELSE q[i + 1]
  BY <1>1, RemoveAtIsErase
<1>3. DOMAIN u = 1 .. Len(q) - 1
  <2> HIDE DEF u
  <2> QED
    BY <1>2
<1>4. Weight(QtyOf, u) = Weight(QtyOf, q) - QtyOf[q[k]]
  <2>1. \A i \in DOMAIN u : u[i] = IF i < k THEN q[i] ELSE q[i + 1]
    BY <1>2, <1>3
  <2> HIDE DEF u
  <2>2. Summed(QtyOf, q, Nodes) /\ Summed(QtyOf, u, Nodes)
    BY <1>2, QtyTypes DEF Summed
  <2>3. Removed(u, q, k)
    BY <1>2, <2>1 DEF Removed
  <2> QED
    BY <2>2, <2>3, WeightRemove
<1> QED
  BY <1>1, <1>4, QtyTypes DEF QueueLots

LEMMA NodeFilled ==
  ASSUME NEW o \in Nodes, NEW fill \in Nat, fill <= o.qty_remaining
  PROVE  /\ [o EXCEPT !.qty_remaining = @ - fill] \in Nodes
         /\ [o EXCEPT !.qty_remaining = @ - fill].qty_remaining = o.qty_remaining - fill
<1>1. [o EXCEPT !.qty_remaining = @ - fill]
        = [id |-> o.id, qty_remaining |-> o.qty_remaining - fill, it |-> o.it]
  BY DEF Nodes
<1>2. o.qty_remaining - fill \in Nat /\ o.id \in Ids /\ o.it \in Nat
  BY DEF Nodes
<1> QED
  BY <1>1, <1>2 DEF Nodes

LEMMA LotsFilled ==
  ASSUME NEW q \in Seq(Nodes), q # <<>>, NEW fill \in Nat, fill <= Head(q).qty_remaining
  PROVE  LET r == [q EXCEPT ![1].qty_remaining = @ - fill] IN
         r \in Seq(Nodes) /\ QueueLots(r) = QueueLots(q) - fill
<1> DEFINE r == [q EXCEPT ![1].qty_remaining = @ - fill]
           front == [q[1] EXCEPT !.qty_remaining = @ - fill]
<1>1. /\ DOMAIN q = 1 .. Len(q) /\ Len(q) \in Nat \ {0} /\ 1 \in 1 .. Len(q)
      /\ Head(q) = q[1] /\ q[1] \in Nodes
  BY SeqFacts
<1>2. front \in Nodes /\ front.qty_remaining = q[1].qty_remaining - fill
  BY <1>1, NodeFilled
<1>3. r = [q EXCEPT ![1] = front]
  OBVIOUS
<1> HIDE DEF r, front
<1>4. /\ r \in Seq(Nodes) /\ Len(r) = Len(q)
      /\ \A j \in 1 .. Len(q) : r[j] = IF j = 1 THEN front ELSE q[j]
  BY <1>1, <1>2, <1>3, ExceptSeq
<1>5. Weight(QtyOf, r) = Weight(QtyOf, q) - QtyOf[q[1]] + QtyOf[r[1]]
  <2>1. \A i \in DOMAIN q : i # 1 => r[i] = q[i]
    BY <1>1, <1>4
  <2>2. 1 \in DOMAIN q /\ Len(r) = Len(q) /\ r \in Seq(Nodes)
    BY <1>1, <1>4
  <2>3. Summed(QtyOf, q, Nodes) /\ Summed(QtyOf, r, Nodes)
    BY <2>2, QtyTypes DEF Summed
  <2>4. Replaced(r, q, 1)
    BY <2>1, <2>2 DEF Replaced
  <2> QED
    BY <2>3, <2>4, WeightReplace
<1>6. QtyOf[r[1]] = q[1].qty_remaining - fill /\ QtyOf[q[1]] = q[1].qty_remaining
  BY <1>1, <1>2, <1>4, QtyTypes
<1>7. QueueLots(r) = QueueLots(q) - fill
  <2>1. QueueLots(q) \in Int /\ q[1].qty_remaining \in Int
    BY <1>1, LotsType, QtyTypes
  <2> QED
    BY <1>5, <1>6, <2>1 DEF QueueLots
<1> QED
  BY <1>4, <1>7 DEF r

LEMMA LotsFront ==
  ASSUME NEW level, level.orders_ \in Seq(Nodes), level.orders_ # <<>>,
         NEW fill \in Nat, fill <= Head(level.orders_).qty_remaining
  PROVE  /\ ReduceFront(level, fill).orders_ \in Seq(Nodes)
         /\ QueueLots(ReduceFront(level, fill).orders_) = QueueLots(level.orders_) - fill
         /\ ReduceFront(level, fill).total_qty_ = (level.total_qty_ - fill) % Width
<1> DEFINE q == level.orders_
           r == [q EXCEPT ![1].qty_remaining = @ - fill]
<1>1. ReduceFront(level, fill).total_qty_ = (level.total_qty_ - fill) % Width
      /\ ReduceFront(level, fill).orders_ = IF Head(q).qty_remaining = fill THEN Tail(q) ELSE r
  BY DEF ReduceFront
<1>2. CASE Head(q).qty_remaining = fill
  <2>1. Tail(q) = RemoveAt(q, 1) /\ 1 \in DOMAIN q /\ Head(q) = q[1]
    <3>1. q \in Seq(Nodes) /\ q # <<>>
      OBVIOUS
    <3> HIDE DEF q
    <3>2. Tail(q) = RemoveAt(q, 1)
      BY <3>1, PopIsErase
    <3> QED
      BY <3>1, <3>2, SeqFacts
  <2>2. QueueLots(Tail(q)) = QueueLots(q) - fill
    BY <1>2, <2>1, LotsErased
  <2>3. Tail(q) \in Seq(Nodes)
    OBVIOUS
  <2> QED
    BY <1>1, <1>2, <2>2, <2>3
<1>3. CASE Head(q).qty_remaining # fill
  <2>1. r \in Seq(Nodes) /\ QueueLots(r) = QueueLots(q) - fill
    BY LotsFilled
  <2> HIDE DEF r
  <2> QED
    BY <1>1, <1>3, <2>1
<1> QED
  BY <1>2, <1>3

LEMMA LotsAdded ==
  ASSUME NEW q \in Seq(Nodes), NEW n \in Nodes
  PROVE  QueueLots(Append(q, n)) = QueueLots(q) + n.qty_remaining
BY QtyTypes, WeightAppend DEF QueueLots

-----------------------------------------------------------------------------
(* The cached totals, with the sum of a queue as QueueLots.                  *)
TotalsHold ==
  \A side \in Sides : \A p \in DOMAIN levels[side] :
    levels[side][p].total_qty_ = QueueLots(levels[side][p].orders_) % Width

LEMMA TotalsMean == TypeOK => (CachedTotals <=> TotalsHold)
<1> SUFFICES ASSUME TypeOK PROVE CachedTotals <=> TotalsHold
  OBVIOUS
<1>1. \A side \in Sides : \A p \in DOMAIN levels[side] :
        FoldLeft(LAMBDA sum, o : sum + o.qty_remaining, 0, levels[side][p].orders_)
          = QueueLots(levels[side][p].orders_)
  BY QueueFold DEF TypeOK, Levels
<1> QED
  BY <1>1 DEF CachedTotals, TotalsHold

(* One level changes, together with its total.                               *)
LEMMA TotalsChange ==
  ASSUME TypeOK, TotalsHold, NEW side \in Sides, NEW p, NEW lvl,
         levels' = [levels EXCEPT ![side] = PutLevel(@, p, lvl)],
         lvl.total_qty_ = QueueLots(lvl.orders_) % Width
  PROVE  TotalsHold'
<1>1. levels'[side] = PutLevel(levels[side], p, lvl)
      /\ \A s \in Sides \ {side} : levels'[s] = levels[s]
  BY DEF TypeOK
<1>2. \A x \in DOMAIN levels'[side] :
        \/ x = p /\ levels'[side][x] = lvl
        \/ x \in DOMAIN levels[side] /\ levels'[side][x] = levels[side][x]
  BY <1>1 DEF PutLevel
<1> QED
  BY <1>1, <1>2 DEF TotalsHold

LEMMA WidthType == Width \in Nat \ {0}
BY BookAssumption

(* Each operation of PriceLevel keeps the total of its queue.                *)
LEMMA EraseTotal ==
  ASSUME NEW level, NEW it, NEW k, level.orders_ \in Seq(Nodes),
         k = CHOOSE i \in DOMAIN level.orders_ : level.orders_[i].it = it,
         k \in DOMAIN level.orders_,
         level.total_qty_ = QueueLots(level.orders_) % Width
  PROVE  /\ EraseFrom(level, it).total_qty_ = QueueLots(EraseFrom(level, it).orders_) % Width
         /\ EraseFrom(level, it).orders_ = RemoveAt(level.orders_, k)
         /\ QueueLots(EraseFrom(level, it).orders_)
              = QueueLots(level.orders_) - level.orders_[k].qty_remaining
<1> DEFINE q == level.orders_
           f == q[k].qty_remaining
<1>1. /\ EraseFrom(level, it).orders_ = RemoveAt(q, k)
      /\ EraseFrom(level, it).total_qty_ = (level.total_qty_ - f) % Width
  BY DEF EraseFrom
<1>2. q[k] \in Nodes
  BY SeqFacts
<1>3. f \in Int /\ QueueLots(q) \in Int
  BY <1>2, LotsType, QtyTypes
<1>4. QueueLots(RemoveAt(q, k)) = QueueLots(q) - f
  BY LotsErased
<1>5. ((QueueLots(q) % Width) - f) % Width = (QueueLots(q) - f) % Width
  <2> HIDE DEF f, q
  <2> QED
    BY <1>3, WidthType, ModSubtract
<1> QED
  BY <1>1, <1>4, <1>5

LEMMA FrontTotal ==
  ASSUME NEW level, level.orders_ \in Seq(Nodes), level.orders_ # <<>>,
         NEW fill \in Nat, fill <= Head(level.orders_).qty_remaining,
         level.total_qty_ = QueueLots(level.orders_) % Width
  PROVE  ReduceFront(level, fill).total_qty_ = QueueLots(ReduceFront(level, fill).orders_) % Width
<1> DEFINE x == QueueLots(level.orders_)
<1>1. x \in Int /\ fill \in Int
  BY LotsType
<1>2. ReduceFront(level, fill).total_qty_ = ((x % Width) - fill) % Width
      /\ QueueLots(ReduceFront(level, fill).orders_) = x - fill
  BY LotsFront
<1>3. ((x % Width) - fill) % Width = (x - fill) % Width
  <2> HIDE DEF x
  <2> QED
    BY <1>1, WidthType, ModSubtract
<1> QED
  BY <1>2, <1>3

LEMMA AddTotal ==
  ASSUME NEW level, level.orders_ \in Seq(Nodes), NEW node \in Nodes,
         level.total_qty_ = QueueLots(level.orders_) % Width
  PROVE  /\ AddTo(level, node).total_qty_ = QueueLots(AddTo(level, node).orders_) % Width
         /\ QueueLots(AddTo(level, node).orders_)
              = QueueLots(level.orders_) + node.qty_remaining
<1> DEFINE x == QueueLots(level.orders_)
           f == node.qty_remaining
<1>1. x \in Int /\ f \in Int
  BY LotsType, QtyTypes
<1>2. AddTo(level, node).total_qty_ = ((x % Width) + f) % Width
      /\ AddTo(level, node).orders_ = Append(level.orders_, node)
  BY DEF AddTo
<1>3. QueueLots(Append(level.orders_, node)) = x + f
  BY LotsAdded
<1>4. ((x % Width) + f) % Width = (x + f) % Width
  <2> HIDE DEF x, f
  <2> QED
    BY <1>1, WidthType, ModAdd
<1> QED
  BY <1>2, <1>3, <1>4

(* The level a step changes, what it becomes, and the lots it loses.         *)
Becomes(side, p, lvl) ==
  /\ side \in Sides
  /\ levels' = [levels EXCEPT ![side] = PutLevel(@, p, lvl)]
  /\ lvl.total_qty_ = QueueLots(lvl.orders_) % Width
  /\ lvl.orders_ \in Seq(Nodes)

Cancelled(id, side, p, lvl) ==
  LET q == levels[side][p].orders_
      k == CHOOSE i \in DOMAIN q : q[i].it = order_index_[id].it
  IN
  /\ Becomes(side, p, lvl)
  /\ p \in DOMAIN levels[side]
  /\ order_index_[id].side = side /\ order_index_[id].price = p
  /\ q[k].qty_remaining \in Nat
  /\ QueueLots(lvl.orders_) = QueueLots(q) - q[k].qty_remaining

Traded(side, p, lvl, fill) ==
  /\ Becomes(side, p, lvl)
  /\ side = Opposite(aggressor.side)
  /\ p \in Crossing(aggressor) /\ p \in DOMAIN levels[side]
  /\ fill \in Nat /\ fill <= aggressor.qty_remaining
  /\ QueueLots(lvl.orders_) = QueueLots(levels[side][p].orders_) - fill
  /\ aggressor \in Orders
  /\ aggressor' = [aggressor EXCEPT !.qty_remaining = @ - fill]
  /\ \E t : t.qty = fill /\ t \in Trades /\ trades' = Append(trades, t)

Rested(o, lvl) ==
  LET map == levels[o.side]
      old == IF o.price \in DOMAIN map THEN QueueLots(map[o.price].orders_) ELSE 0
  IN
  /\ o \in Orders
  /\ Becomes(o.side, o.price, lvl)
  /\ QueueLots(lvl.orders_) = old + o.qty_remaining

LEMMA CancelLevel ==
  ASSUME IInv, TotalsHold, NEW id \in Ids, Cancel(id)
  PROVE  \E side, p, lvl : Cancelled(id, side, p, lvl)
<1> DEFINE loc == order_index_[id]
           level == levels[loc.side][loc.price]
           q == level.orders_
           k == CHOOSE i \in DOMAIN q : q[i].it = loc.it
           lvl == EraseFrom(level, loc.it)
<1>1. /\ loc.side \in Sides /\ loc.price \in DOMAIN levels[loc.side]
      /\ \E i \in DOMAIN q : q[i].it = loc.it /\ q[i].id = id
  BY DEF Cancel, IInv, IndexSound, TypeOK, Locations
<1>2. q \in Seq(Nodes)
  BY <1>1, LevelFacts
<1>3. k \in DOMAIN q
  BY <1>1
<1>4. level.total_qty_ = QueueLots(q) % Width
  BY <1>1 DEF TotalsHold
<1>5. /\ lvl.total_qty_ = QueueLots(lvl.orders_) % Width
      /\ lvl.orders_ = RemoveAt(q, k)
      /\ QueueLots(lvl.orders_) = QueueLots(q) - q[k].qty_remaining
  <2> HIDE DEF lvl, loc
  <2>1. k = CHOOSE i \in DOMAIN level.orders_ : level.orders_[i].it = loc.it
    OBVIOUS
  <2> HIDE DEF k, level
  <2> QED
    BY <1>2, <1>3, <1>4, <2>1, EraseTotal DEF lvl
<1>6. levels' = [levels EXCEPT ![loc.side] = PutLevel(@, loc.price, lvl)]
  BY DEF Cancel
<1>7. q[k] \in Nodes
  <2> HIDE DEF k, q
  <2> QED
    BY <1>2, <1>3, SeqFacts
<1>8. q[k].qty_remaining \in Nat
  <2> HIDE DEF k, q
  <2> QED
    BY <1>7, QtyTypes
<1>9. RemoveAt(q, k) \in Seq(Nodes)
  <2> HIDE DEF k, q
  <2>1. k \in 1 .. Len(q)
    BY <1>2, <1>3, SeqFacts
  <2> QED
    BY <1>2, <2>1, RemoveAtIsErase
<1>10. Cancelled(id, loc.side, loc.price, lvl)
  <2> HIDE DEF lvl
  <2> QED
    BY <1>1, <1>5, <1>6, <1>8, <1>9 DEF Cancelled, Becomes
<1> QED
  BY <1>10

LEMMA MatchLevel ==
  ASSUME IInv, TotalsHold, Match
  PROVE  \E side, p, lvl, fill : Traded(side, p, lvl, fill)
<1> DEFINE side == Opposite(aggressor.side)
<1>1. /\ aggressor \in Orders /\ side \in Sides
      /\ aggressor.qty_remaining \in Nat \ {0}
  BY DEF IInv, TypeOK, Match, Orders, Sides, Opposite
<1> HIDE DEF side
<1>2. PICK p \in Crossing(aggressor) :
        LET passive == Head(levels[side][p].orders_)
            fill    == Smaller(aggressor.qty_remaining, passive.qty_remaining)
            buy     == aggressor.side = "Buy"
        IN
        /\ p \in DOMAIN levels[side]
        /\ trades' = Append(trades,
             [buy_id  |-> IF buy THEN aggressor.id ELSE passive.id,
              sell_id |-> IF buy THEN passive.id ELSE aggressor.id,
              price   |-> p, qty |-> fill])
        /\ aggressor' = [aggressor EXCEPT !.qty_remaining = @ - fill]
        /\ levels' = [levels EXCEPT ![side] =
                        PutLevel(@, p, ReduceFront(levels[side][p], fill))]
  BY DEF Match, Crossing, side
<1> DEFINE level == levels[side][p]
           q == level.orders_
           passive == Head(q)
           fill == Smaller(aggressor.qty_remaining, passive.qty_remaining)
           lvl == ReduceFront(level, fill)
           buy == aggressor.side = "Buy"
           t == [buy_id  |-> IF buy THEN aggressor.id ELSE passive.id,
                 sell_id |-> IF buy THEN passive.id ELSE aggressor.id,
                 price   |-> p, qty |-> fill]
<1>3. /\ p \in Prices /\ q \in Seq(Nodes) /\ q # <<>> /\ passive \in Nodes
  BY <1>1, <1>2, LevelFacts
<1>4. fill \in Nat /\ fill <= aggressor.qty_remaining /\ fill <= passive.qty_remaining
  <2>1. passive.qty_remaining \in Nat
    <3> HIDE DEF passive
    <3> QED
      BY <1>3, QtyTypes
  <2> HIDE DEF passive
  <2> QED
    BY <1>1, <2>1 DEF Smaller
<1>5. level.total_qty_ = QueueLots(q) % Width
  BY <1>1, <1>2 DEF TotalsHold
<1>6. lvl.total_qty_ = QueueLots(lvl.orders_) % Width
  <2> HIDE DEF fill, level
  <2> QED
    BY <1>3, <1>4, <1>5, FrontTotal
<1>7. lvl.orders_ \in Seq(Nodes) /\ QueueLots(lvl.orders_) = QueueLots(q) - fill
  <2> HIDE DEF fill, level
  <2> QED
    BY <1>3, <1>4, LotsFront
<1>8. t \in Trades
  <2>1. passive.id \in Ids /\ aggressor.id \in Ids
    <3> HIDE DEF passive
    <3> QED
      BY <1>1, <1>3 DEF Nodes, Orders
  <2> HIDE DEF fill, passive
  <2> QED
    BY <1>3, <1>4, <2>1 DEF Trades
<1>9. /\ trades' = Append(trades, t) /\ t.qty = fill
      /\ aggressor' = [aggressor EXCEPT !.qty_remaining = @ - fill]
      /\ levels' = [levels EXCEPT ![side] = PutLevel(@, p, lvl)]
  BY <1>2
<1>10. Traded(side, p, lvl, fill)
  <2> HIDE DEF t, fill, lvl
  <2> QED
    BY <1>1, <1>2, <1>4, <1>6, <1>7, <1>8, <1>9 DEF side, Traded, Becomes
<1> QED
  BY <1>10

LEMMA RestLevel ==
  ASSUME IInv, TotalsHold, RestOrder
  PROVE  \E lvl : Rested(aggressor, lvl)
<1> DEFINE o == aggressor
           map == levels[o.side]
           level == IF o.price \in DOMAIN map THEN map[o.price] ELSE NewLevel
           node == [id |-> o.id, qty_remaining |-> o.qty_remaining, it |-> nodes + 1]
           q == level.orders_
           lvl == AddTo(level, node)
           old == IF o.price \in DOMAIN map THEN QueueLots(map[o.price].orders_) ELSE 0
<1>1. /\ o \in Orders /\ o.id \in Ids /\ o.side \in Sides /\ o.price \in Prices
      /\ o.qty_remaining \in Nat \ {0} /\ nodes \in Nat
  BY DEF IInv, TypeOK, RestOrder, Orders
<1>2. node \in Nodes /\ node.qty_remaining = o.qty_remaining
  BY <1>1 DEF Nodes
<1>3. q \in Seq(Nodes) /\ level.total_qty_ = QueueLots(q) % Width /\ QueueLots(q) = old
  <2>1. CASE o.price \in DOMAIN map
    <3>1. level = levels[o.side][o.price] /\ old = QueueLots(q)
      BY <2>1
    <3> HIDE DEF level, old
    <3> QED
      BY <1>1, <2>1, <3>1, LevelFacts DEF TotalsHold
  <2>2. CASE o.price \notin DOMAIN map
    <3>1. q = <<>> /\ level.total_qty_ = 0 /\ old = 0
      BY <2>2 DEF NewLevel
    <3>2. q \in Seq(Nodes)
      <4>1. <<>> \in Seq(Nodes)
        OBVIOUS
      <4> HIDE DEF level
      <4> QED
        BY <3>1, <4>1
    <3>3. QueueLots(q) = 0
      BY <3>1, <3>2, LotsType
    <3>4. 0 % Width = 0
      BY WidthType
    <3> HIDE DEF level, old
    <3> QED
      BY <3>1, <3>2, <3>3, <3>4
  <2> QED
    BY <2>1, <2>2
<1>4. levels' = [levels EXCEPT ![o.side] = PutLevel(@, o.price, lvl)]
  BY DEF RestOrder
<1>5. lvl.total_qty_ = QueueLots(lvl.orders_) % Width
      /\ QueueLots(lvl.orders_) = QueueLots(q) + node.qty_remaining
  <2> HIDE DEF level, node
  <2> QED
    BY <1>2, <1>3, AddTotal
<1>6. lvl.orders_ \in Seq(Nodes)
  BY <1>2, <1>3 DEF AddTo
<1>7. Rested(o, lvl)
  <2> HIDE DEF lvl, level, node
  <2> QED
    BY <1>1, <1>2, <1>3, <1>4, <1>5, <1>6 DEF Rested, Becomes
<1> QED
  BY <1>7

-----------------------------------------------------------------------------
(* Sums over the levels of a side.                                           *)
LotsAt(map) == [p \in DOMAIN map |-> QueueLots(map[p].orders_)]

LotsIn(map, prices) == SetWeight(LotsAt(map), DOMAIN map \cap prices)

(* A side of the book: finitely many levels, each with a queue.              *)
Side(map) == IsFiniteSet(DOMAIN map) /\ \A p \in DOMAIN map : map[p].orders_ \in Seq(Nodes)

LEMMA SideWeighs ==
  ASSUME NEW map, Side(map), NEW S \in SUBSET DOMAIN map
  PROVE  /\ Weighs(LotsAt(map), S) /\ IsFiniteSet(S)
         /\ \A p \in S : LotsAt(map)[p] = QueueLots(map[p].orders_) /\ LotsAt(map)[p] \in Nat
<1>1. IsFiniteSet(S)
  BY FS_Subset DEF Side
<1>2. \A p \in S : LotsAt(map)[p] = QueueLots(map[p].orders_) /\ LotsAt(map)[p] \in Nat
  BY LotsType DEF Side, LotsAt
<1> QED
  BY <1>1, <1>2 DEF Weighs

(* PutLevel changes the sum by what it puts, less what it replaces.          *)
LEMMA LevelPut ==
  ASSUME NEW map, Side(map), NEW prices, NEW p \in prices, NEW lvl, lvl.orders_ \in Seq(Nodes)
  PROVE  /\ Side(PutLevel(map, p, lvl))
         /\ LotsIn(PutLevel(map, p, lvl), prices)
              = LotsIn(map, prices)
                  - (IF p \in DOMAIN map THEN QueueLots(map[p].orders_) ELSE 0)
                  + QueueLots(lvl.orders_)
<1> DEFINE new == PutLevel(map, p, lvl)
           D == DOMAIN map \cap prices
           E == DOMAIN new \cap prices
           R == D \ {p}
           w == LotsAt(map)
           v == LotsAt(new)
           a == QueueLots(lvl.orders_)
           b == IF p \in DOMAIN map THEN QueueLots(map[p].orders_) ELSE 0
<1>1. /\ DOMAIN new = IF lvl.orders_ = <<>> THEN DOMAIN map \ {p} ELSE DOMAIN map \cup {p}
      /\ \A x \in DOMAIN map \ {p} : new[x] = map[x]
      /\ lvl.orders_ # <<>> => new[p] = lvl
  BY DEF PutLevel
<1>2. Side(new)
  <2>1. IsFiniteSet(DOMAIN map \cup {p}) /\ IsFiniteSet(DOMAIN map \ {p})
    BY FS_AddElement, FS_Subset DEF Side
  <2> HIDE DEF new
  <2>2. IsFiniteSet(DOMAIN new)
    BY <1>1, <2>1
  <2>3. \A x \in DOMAIN new : new[x].orders_ \in Seq(Nodes)
    BY <1>1 DEF Side
  <2> QED
    BY <2>2, <2>3 DEF Side
<1> HIDE DEF new
<1>3. R = E \ {p}
  BY <1>1
<1>4. Weighs(w, D) /\ Weighs(w, R) /\ Weighs(v, E)
  BY <1>2, <1>3, SideWeighs
<1>5. SetWeight(w, D) = SetWeight(w, R) + b /\ SetWeight(w, R) \in Int
  <2>1. SetWeight(w, R) \in Int
    BY <1>4, SetWeightType
  <2>2. CASE p \in DOMAIN map
    <3>1. p \in D
      BY <2>2
    <3>2. SetWeight(w, D) = SetWeight(w, D \ {p}) + w[p]
      <4> HIDE DEF D, w
      <4> QED
        BY <1>4, <3>1, SetWeightRemove
    <3>3. w[p] = b
      BY <2>2 DEF LotsAt
    <3> QED
      BY <2>1, <3>2, <3>3
  <2>3. CASE p \notin DOMAIN map
    <3>1. D = R /\ b = 0
      BY <2>3
    <3> HIDE DEF D, R, w, b
    <3> QED
      BY <2>1, <3>1
  <2> QED
    BY <2>1, <2>2, <2>3
<1>6. SetWeight(v, E) = SetWeight(v, E \ {p}) + a /\ SetWeight(v, E \ {p}) \in Int
  <2>1. E \ {p} \in SUBSET DOMAIN new
    OBVIOUS
  <2>2. Weighs(v, E \ {p})
    <3> HIDE DEF E
    <3> QED
      BY <1>2, <2>1, SideWeighs
  <2>3. SetWeight(v, E \ {p}) \in Int
    <3> HIDE DEF E, v
    <3> QED
      BY <2>2, SetWeightType
  <2>4. CASE lvl.orders_ # <<>>
    <3>1. p \in E /\ v[p] = a
      BY <1>1, <2>4 DEF LotsAt
    <3>2. SetWeight(v, E) = SetWeight(v, E \ {p}) + v[p]
      <4> HIDE DEF E, v
      <4> QED
        BY <1>4, <3>1, SetWeightRemove
    <3> QED
      BY <2>3, <3>1, <3>2
  <2>5. CASE lvl.orders_ = <<>>
    <3>1. E = E \ {p}
      BY <1>1, <2>5
    <3>2. a = 0
      BY <2>5, LotsType
    <3>3. SetWeight(v, E) = SetWeight(v, E \ {p})
      BY <3>1
    <3> HIDE DEF E, v, a
    <3> QED
      BY <2>3, <3>2, <3>3
  <2> QED
    BY <2>3, <2>4, <2>5
<1>7. SetWeight(v, R) = SetWeight(w, R)
  <2>1. \A x \in R : v[x] = w[x]
    BY <1>1 DEF LotsAt
  <2> HIDE DEF R, v, w
  <2> QED
    BY <1>4, <2>1, SetWeightSame
<1>8. a \in Nat /\ b \in Nat
  BY LotsType DEF Side
<1>9. SetWeight(v, E) = SetWeight(w, D) - b + a
  <2> HIDE DEF D, E, R, v, w, a, b
  <2>1. SetWeight(v, E) = SetWeight(w, R) + a
    BY <1>3, <1>6, <1>7
  <2> QED
    BY <1>5, <1>8, <2>1
<1>10. LotsIn(new, prices) = SetWeight(v, E) /\ LotsIn(map, prices) = SetWeight(w, D)
  BY DEF LotsIn
<1> HIDE DEF D, E, R, v, w, a
<1>11. LotsIn(new, prices) = LotsIn(map, prices) - b + a
  BY <1>9, <1>10
<1> QED
  BY <1>2, <1>11 DEF new, a

-----------------------------------------------------------------------------
(* What the pre-check of a fill-or-kill order finds.                         *)
Reach(o) == {p \in Prices : Crosses(o, p)}

Reachable(o) == LotsIn(levels[Opposite(o.side)], Reach(o))

FiniteLevels == \A side \in Sides : IsFiniteSet(DOMAIN levels[side])

LEMMA SidesAre ==
  ASSUME TypeOK, FiniteLevels, NEW side \in Sides
  PROVE  Side(levels[side])
BY DEF TypeOK, FiniteLevels, Side, Levels

LEMMA CrossingIs ==
  ASSUME TypeOK, NEW o \in Orders
  PROVE  /\ Opposite(o.side) \in Sides
         /\ Crossing(o) = DOMAIN levels[Opposite(o.side)] \cap Reach(o)
<1>1. Opposite(o.side) \in Sides
  BY DEF Orders, Sides, Opposite
<1>2. DOMAIN levels[Opposite(o.side)] \subseteq Prices
  BY <1>1 DEF TypeOK
<1> QED
  BY <1>1, <1>2 DEF Crossing, Reach

LEMMA WorstIn ==
  ASSUME NEW side, NEW t \in SUBSET Int, IsFiniteSet(t), t # {}
  PROVE  Worst(side, t) \in t
<1>1. \E p \in t : \A q \in t \ {p} : Better(side, q, p)
  <2>1. CASE side = "Buy"
    <3>1. PICK p \in t : \A q \in t : p <= q
      BY SmallestExists
    <3>2. \A q \in t \ {p} : q > p
      BY <3>1
    <3> QED
      BY <2>1, <3>2 DEF Better
  <2>2. CASE side # "Buy"
    <3>1. PICK p \in t : \A q \in t : p >= q
      BY LargestExists
    <3>2. \A q \in t \ {p} : q < p
      BY <3>1
    <3> QED
      BY <2>2, <3>2 DEF Better
  <2> QED
    BY <2>1, <2>2
<1> QED
  BY <1>1 DEF Worst

(* However the additions wrap, the walk never finds more lots than rest.     *)
LEMMA PreCheckNotOptimistic ==
  ASSUME TypeOK, TotalsHold, FiniteLevels, NEW o \in Orders
  PROVE  FillableQty(o) \in Nat /\ FillableQty(o) <= Reachable(o)
<1> DEFINE side == Opposite(o.side)
           map == levels[side]
           S == Crossing(o)
           w == LotsAt(map)
           need == o.qty_remaining
           Next1(p, a) == IF a >= need THEN a ELSE (a + map[p].total_qty_) % Width
           F(h) == [t \in SUBSET S |->
                      IF t = {} THEN 0
                      ELSE Next1(Worst(side, t), h[t \ {Worst(side, t)}])]
           f == CHOOSE h : h = F(h)
           C == [t \in SUBSET S |-> Worst(side, t)]
           K == [a \in Nat |-> [p \in S |-> Next1(p, a)]]
<1>1. /\ side \in Sides /\ S = DOMAIN map \cap Reach(o) /\ S \subseteq DOMAIN map
      /\ need \in Nat
  BY CrossingIs DEF Orders
<1>2. Side(map) /\ S \subseteq Int
  <2>1. S \subseteq Prices
    BY <1>1 DEF Reach
  <2>2. Prices \subseteq Int
    BY BookAssumption
  <2>3. Side(map)
    BY <1>1, SidesAre
  <2> HIDE DEF S
  <2> QED
    BY <2>1, <2>2, <2>3
<1>3. IsFiniteSet(S)
  BY <1>1, <1>2, FS_Subset DEF Side
<1>4. \A t \in SUBSET S : IsFiniteSet(t) /\ t \in SUBSET Int
  BY <1>2, <1>3, FS_Subset
<1>5. \A t \in SUBSET S : t # {} => Worst(side, t) \in t
  <2> HIDE DEF S, side
  <2> QED
    BY <1>4, WorstIn
<1>6. \A p \in S : w[p] \in Nat /\ map[p].total_qty_ = w[p] % Width
                    /\ map[p].total_qty_ \in Nat /\ map[p].total_qty_ <= w[p]
  <2> SUFFICES ASSUME NEW p \in S
               PROVE  w[p] \in Nat /\ map[p].total_qty_ = w[p] % Width
                      /\ map[p].total_qty_ \in Nat /\ map[p].total_qty_ <= w[p]
    OBVIOUS
  <2>1. w[p] = QueueLots(map[p].orders_) /\ w[p] \in Nat
    <3> HIDE DEF S, map, w
    <3>1. \A x \in S : LotsAt(map)[x] = QueueLots(map[x].orders_) /\ LotsAt(map)[x] \in Nat
      BY <1>1, <1>2, SideWeighs
    <3> QED
      BY <3>1 DEF w
  <2>2. map[p].total_qty_ = QueueLots(map[p].orders_) % Width
    BY <1>1 DEF TotalsHold
  <2>3. w[p] % Width \in Nat /\ w[p] % Width <= w[p]
    <3> HIDE DEF w
    <3> QED
      BY <2>1, WidthType, ModBelow
  <2> QED
    BY <2>1, <2>2, <2>3
<1>7. \A a \in Nat, p \in S : Next1(p, a) \in Nat /\ Next1(p, a) <= a + w[p]
  <2> SUFFICES ASSUME NEW a \in Nat, NEW p \in S
               PROVE  Next1(p, a) \in Nat /\ Next1(p, a) <= a + w[p]
    OBVIOUS
  <2> DEFINE x == map[p].total_qty_
  <2>1. x \in Nat /\ x <= w[p] /\ w[p] \in Nat
    BY <1>6
  <2>2. (a + x) % Width \in Nat /\ (a + x) % Width <= a + x
    <3>1. a + x \in Nat
      BY <2>1
    <3> HIDE DEF x
    <3> QED
      BY <3>1, WidthType, ModBelow
  <2> HIDE DEF x, w
  <2> QED
    BY <1>1, <2>1, <2>2 DEF x
<1>8. FillableQty(o) = f[S]
  BY DEF FillableQty, Offered, MapThenFoldSet
<1>9. \E h : h = F(h)
  <2>1. PICK h \in [SUBSET S -> Nat] : Iterates(h, S, 0, C, K)
    <3>1. Chooses(C, S)
      BY <1>5 DEF Chooses
    <3>2. \A a \in Nat, p \in S : K[a][p] \in Nat
      BY <1>7
    <3>3. 0 \in Nat
      OBVIOUS
    <3> HIDE DEF C, K, S
    <3> QED
      BY <1>3, <3>1, <3>2, <3>3, IterationExists
  <2>2. ASSUME NEW t \in SUBSET S, t # {}
        PROVE  h[t] = Next1(Worst(side, t), h[t \ {Worst(side, t)}])
    <3>1. h[t] = K[h[t \ {C[t]}]][C[t]]
      BY <2>1, <2>2 DEF Iterates
    <3>2. C[t] = Worst(side, t) /\ Worst(side, t) \in S
      BY <1>5, <2>2
    <3>3. h[t \ {Worst(side, t)}] \in Nat
      OBVIOUS
    <3> QED
      BY <3>1, <3>2, <3>3
  <2>3. h = [t \in SUBSET S |-> h[t]] /\ h[{}] = 0
    BY <2>1 DEF Iterates
  <2> HIDE DEF Next1
  <2>4. \A t \in SUBSET S :
          h[t] = IF t = {} THEN 0 ELSE Next1(Worst(side, t), h[t \ {Worst(side, t)}])
    BY <2>2, <2>3
  <2>5. h = F(h)
    BY <2>3, <2>4
  <2> QED
    BY <2>5
<1>10. f = F(f)
  BY <1>9
<1> DEFINE T == {U \in SUBSET S : f[U] \in Nat /\ f[U] <= SetWeight(w, U)}
<1>11. \A U \in SUBSET S : (\A V \in SUBSET U : V # U => V \in T) => U \in T
  <2> SUFFICES ASSUME NEW U \in SUBSET S, \A V \in SUBSET U : V # U => V \in T
               PROVE  f[U] \in Nat /\ f[U] <= SetWeight(w, U)
    OBVIOUS
  <2>1. f[U] = IF U = {} THEN 0 ELSE Next1(Worst(side, U), f[U \ {Worst(side, U)}])
    <3> HIDE DEF f, Next1
    <3> QED
      BY <1>10
  <2>2. CASE U = {}
    <3>1. SetWeight(w, U) = 0
      BY <2>2, SetWeightEmpty
    <3> HIDE DEF f
    <3> QED
      BY <2>1, <2>2, <3>1
  <2>3. CASE U # {}
    <3> DEFINE c == Worst(side, U)
               V == U \ {c}
    <3>1. c \in U /\ c \in S
      BY <1>5, <2>3
    <3>2. V \in T
      <4>1. V \in SUBSET U /\ V # U
        BY <3>1
      <4> HIDE DEF V, T
      <4> QED
        BY <4>1
    <3>3. Weighs(w, U)
      <4>1. U \in SUBSET DOMAIN map
        BY <1>1
      <4> HIDE DEF map
      <4> QED
        BY <1>2, <4>1, SideWeighs
    <3>4. SetWeight(w, U) = SetWeight(w, V) + w[c]
      <4> HIDE DEF w, c
      <4> QED
        BY <3>1, <3>3, SetWeightRemove
    <3>5. f[U] = Next1(c, f[V]) /\ f[V] \in Nat /\ f[V] <= SetWeight(w, V)
      <4> HIDE DEF f, Next1
      <4> QED
        BY <2>1, <2>3, <3>2
    <3>6. SetWeight(w, V) \in Int /\ w[c] \in Nat
      <4>1. V \in SUBSET DOMAIN map
        BY <1>1
      <4>2. Weighs(w, V)
        <5> HIDE DEF map, V
        <5> QED
          BY <1>2, <4>1, SideWeighs
      <4>3. SetWeight(w, V) \in Int
        <5> HIDE DEF w, V
        <5> QED
          BY <4>2, SetWeightType
      <4> QED
        BY <1>6, <3>1, <4>3
    <3>7. f[U] \in Nat /\ f[U] <= f[V] + w[c]
      <4> HIDE DEF f, Next1, w, c, V
      <4> QED
        BY <1>7, <3>1, <3>5
    <3> HIDE DEF f, w, c, V
    <3> QED
      BY <3>4, <3>5, <3>6, <3>7
  <2> QED
    BY <2>2, <2>3
<1>12. SUBSET S \subseteq T
  <2> HIDE DEF T, S
  <2> QED
    BY <1>3, <1>11, SubsetInduction
<1>13. f[S] \in Nat /\ f[S] <= SetWeight(w, S)
  BY <1>12
<1>14. Reachable(o) = SetWeight(w, S)
  BY <1>1 DEF Reachable, LotsIn
<1> QED
  BY <1>8, <1>13, <1>14

-----------------------------------------------------------------------------
(* The inductive invariant of the totals: a fill-or-kill order in flight     *)
(* never needs more than rests within its limit.                             *)
FokCovered ==
  aggressor # NoOrder /\ aggressor.tif = "FOK" => aggressor.qty_remaining <= Reachable(aggressor)

SumsInv == TotalsHold /\ FiniteLevels /\ FokCovered

LEMMA FiniteChange ==
  ASSUME TypeOK, FiniteLevels, NEW side \in Sides, NEW p, NEW lvl,
         levels' = [levels EXCEPT ![side] = PutLevel(@, p, lvl)]
  PROVE  FiniteLevels'
<1>1. levels'[side] = PutLevel(levels[side], p, lvl)
      /\ \A s \in Sides \ {side} : levels'[s] = levels[s]
  BY DEF TypeOK
<1>2. IsFiniteSet(DOMAIN levels[side] \cup {p}) /\ IsFiniteSet(DOMAIN levels[side] \ {p})
  BY FS_AddElement, FS_Subset DEF FiniteLevels
<1>3. DOMAIN PutLevel(levels[side], p, lvl)
        \in {DOMAIN levels[side] \cup {p}, DOMAIN levels[side] \ {p}}
  BY DEF PutLevel
<1>4. IsFiniteSet(DOMAIN levels'[side])
  BY <1>1, <1>2, <1>3
<1> QED
  BY <1>1, <1>4 DEF FiniteLevels

(* A trade takes as much from the order as from what it can reach.           *)
LEMMA MatchCovered ==
  ASSUME IInv, SumsInv, Match
  PROVE  SumsInv'
<1> DEFINE o == aggressor
           side == Opposite(o.side)
           map == levels[side]
<1>0. PICK sd, p, lvl, fill : Traded(sd, p, lvl, fill)
  BY MatchLevel DEF SumsInv
<1>1. /\ side \in Sides /\ p \in DOMAIN map /\ p \in Crossing(o)
      /\ levels' = [levels EXCEPT ![side] = PutLevel(@, p, lvl)]
      /\ lvl.total_qty_ = QueueLots(lvl.orders_) % Width
      /\ lvl.orders_ \in Seq(Nodes)
      /\ QueueLots(lvl.orders_) = QueueLots(map[p].orders_) - fill
      /\ fill \in Nat /\ fill <= o.qty_remaining
      /\ o \in Orders
      /\ aggressor' = [o EXCEPT !.qty_remaining = @ - fill]
  BY <1>0 DEF Traded, Becomes
<1>2. TotalsHold' /\ FiniteLevels'
  BY <1>1, TotalsChange, FiniteChange DEF IInv, SumsInv
<1>3. /\ aggressor'.tif = o.tif /\ aggressor'.side = o.side /\ aggressor'.price = o.price
      /\ aggressor'.qty_remaining = o.qty_remaining - fill
      /\ o.qty_remaining \in Nat
  BY <1>1 DEF Orders
<1>4. Reach(aggressor') = Reach(o) /\ Opposite(aggressor'.side) = side
  BY <1>3 DEF Reach, Crosses
<1>5. ASSUME aggressor' # NoOrder, aggressor'.tif = "FOK"
      PROVE  aggressor'.qty_remaining <= LotsIn(levels'[side], Reach(o))
  <2>1. o.qty_remaining <= LotsIn(map, Reach(o))
    <3>1. o # NoOrder /\ o.tif = "FOK"
      BY <1>3, <1>5 DEF Match
    <3> QED
      BY <3>1 DEF SumsInv, FokCovered, Reachable
  <2>2. Side(map) /\ p \in Reach(o)
    <3>1. Side(map)
      BY <1>1, SidesAre DEF IInv, SumsInv
    <3>2. p \in Reach(o)
      BY <1>1, CrossingIs DEF IInv
    <3> QED
      BY <3>1, <3>2
  <2>3. LotsIn(PutLevel(map, p, lvl), Reach(o))
          = LotsIn(map, Reach(o)) - (IF p \in DOMAIN map THEN QueueLots(map[p].orders_) ELSE 0)
              + QueueLots(lvl.orders_)
    <3> HIDE DEF map
    <3> QED
      BY <1>1, <2>2, LevelPut
  <2>4. levels'[side] = PutLevel(map, p, lvl)
    BY <1>1 DEF IInv, TypeOK
  <2>5. QueueLots(map[p].orders_) \in Nat /\ LotsIn(map, Reach(o)) \in Int
    <3>1. QueueLots(map[p].orders_) \in Nat
      BY <1>1, <2>2, LotsType DEF Side
    <3>2. Weighs(LotsAt(map), DOMAIN map \cap Reach(o))
      <4> HIDE DEF map
      <4> QED
        BY <2>2, SideWeighs
    <3>3. LotsIn(map, Reach(o)) \in Int
      BY <3>2, SetWeightType DEF LotsIn
    <3> QED
      BY <3>1, <3>3
  <2>6. LotsIn(levels'[side], Reach(o)) = LotsIn(map, Reach(o)) - fill
    <3> HIDE DEF map, side, o
    <3> QED
      BY <1>1, <2>3, <2>4, <2>5
  <2>7. fill \in Int
    BY <1>1
  <2> HIDE DEF map, side, o
  <2> QED
    BY <1>3, <2>1, <2>5, <2>6, <2>7
<1>6. FokCovered'
  BY <1>4, <1>5 DEF FokCovered, Reachable
<1> QED
  BY <1>2, <1>6 DEF SumsInv

LEMMA SumsUntouched ==
  ASSUME SumsInv, UNCHANGED levels, FokCovered'
  PROVE  SumsInv'
BY DEF SumsInv, TotalsHold, FiniteLevels

LEMMA SumsStep ==
  ASSUME IInv, SumsInv, [Next]_bookVars
  PROVE  SumsInv'
<1> DEFINE New == [id : Ids, side : Sides, price : Prices,
                   qty_remaining : Quantities, tif : TimesInForce]
<1>1. ASSUME NEW o \in New, KillFok(o) PROVE SumsInv'
  <2>1. UNCHANGED <<levels, aggressor>>
    BY <1>1 DEF KillFok
  <2>2. FokCovered'
    BY <2>1 DEF SumsInv, FokCovered, Reachable
  <2> QED
    BY <2>1, <2>2, SumsUntouched
<1>2. ASSUME NEW o \in New, AddLimitOrder(o) PROVE SumsInv'
  <2>1. UNCHANGED levels /\ aggressor' = o /\ (o.tif = "FOK" => FillableQty(o) >= o.qty_remaining)
    BY <1>2 DEF AddLimitOrder
  <2>2. o \in Orders
    <3>1. Quantities \subseteq Nat
      BY BookAssumption
    <3> QED
      BY <3>1 DEF Orders
  <2>3. FillableQty(o) \in Nat /\ FillableQty(o) <= Reachable(o)
    BY <2>2, PreCheckNotOptimistic DEF IInv, SumsInv
  <2>4. Reachable(o) \in Int
    <3>1. Side(levels[Opposite(o.side)])
      BY <2>2, CrossingIs, SidesAre DEF IInv, SumsInv
    <3>2. Weighs(LotsAt(levels[Opposite(o.side)]), DOMAIN levels[Opposite(o.side)] \cap Reach(o))
      BY <3>1, SideWeighs
    <3> QED
      BY <3>2, SetWeightType DEF Reachable, LotsIn
  <2>5. o.tif = "FOK" => o.qty_remaining <= Reachable(o)
    BY <2>1, <2>2, <2>3, <2>4 DEF Orders
  <2>6. FokCovered'
    BY <2>1, <2>5 DEF FokCovered, Reachable
  <2> QED
    BY <2>1, <2>6, SumsUntouched
<1>3. CASE Match
  BY <1>3, MatchCovered
<1>4. CASE Finish
  <2>1. UNCHANGED levels /\ aggressor' = NoOrder
    BY <1>4 DEF Finish
  <2>2. FokCovered'
    BY <2>1 DEF FokCovered
  <2> QED
    BY <2>1, <2>2, SumsUntouched
<1>5. CASE RestOrder
  <2>1. PICK lvl : Rested(aggressor, lvl)
    BY <1>5, RestLevel DEF SumsInv
  <2>2. Becomes(aggressor.side, aggressor.price, lvl)
    BY <2>1 DEF Rested
  <2>3. TotalsHold' /\ FiniteLevels'
    BY <2>2, TotalsChange, FiniteChange DEF IInv, SumsInv, Becomes
  <2>4. FokCovered'
    BY <1>5 DEF RestOrder, FokCovered
  <2> QED
    BY <2>3, <2>4 DEF SumsInv
<1>6. ASSUME NEW id \in Ids, Cancel(id) PROVE SumsInv'
  <2>1. PICK side, p, lvl : Cancelled(id, side, p, lvl)
    BY <1>6, CancelLevel DEF SumsInv
  <2>2. TotalsHold' /\ FiniteLevels'
    BY <2>1, TotalsChange, FiniteChange DEF IInv, SumsInv, Cancelled, Becomes
  <2>3. FokCovered'
    BY <1>6 DEF Cancel, FokCovered
  <2> QED
    BY <2>2, <2>3 DEF SumsInv
<1>7. CASE UNCHANGED bookVars
  <2>1. UNCHANGED <<levels, aggressor>>
    BY <1>7 DEF bookVars
  <2>2. FokCovered'
    BY <2>1 DEF SumsInv, FokCovered, Reachable
  <2> QED
    BY <2>1, <2>2, SumsUntouched
<1> QED
  BY <1>1, <1>2, <1>3, <1>4, <1>5, <1>6, <1>7 DEF Next

LEMMA SumsInitially == Init => SumsInv
<1> SUFFICES ASSUME Init PROVE SumsInv
  OBVIOUS
<1>1. \A side \in Sides : DOMAIN levels[side] = {}
  BY DEF Init, Sides
<1>2. FiniteLevels
  BY <1>1, FS_EmptySet DEF FiniteLevels
<1> QED
  BY <1>1, <1>2 DEF Init, SumsInv, TotalsHold, FokCovered

LEMMA SumsAlways == Spec => [](IInv /\ SumsInv)
<1>1. Init => IInv /\ SumsInv
  BY Initially, SumsInitially
<1>2. (IInv /\ SumsInv) /\ [Next]_bookVars => (IInv /\ SumsInv)'
  BY Inductive, SumsStep
<1> QED
  BY <1>1, <1>2, PTL DEF Spec

(* The total a level caches is always the sum of its queue modulo Width      *)
(* (price_level.hpp:16-40), after any fills, cancels and additions.          *)
THEOREM TotalsExact == Spec => []CachedTotals
<1>1. IInv /\ SumsInv => CachedTotals
  BY TotalsMean DEF IInv, SumsInv
<1> QED
  BY <1>1, SumsAlways, PTL

LEMMA FokEnds ==
  ASSUME IInv, SumsInv, [Next]_bookVars
  PROVE  [aggressor # NoOrder /\ aggressor' = NoOrder /\ aggressor.tif = "FOK"
            => aggressor.qty_remaining = 0]_bookVars
<1> SUFFICES ASSUME Next, aggressor # NoOrder, aggressor' = NoOrder, aggressor.tif = "FOK"
             PROVE  aggressor.qty_remaining = 0
  BY DEF bookVars
<1>1. aggressor \in Orders
  BY DEF IInv, TypeOK
<1>2. aggressor' # NoOrder => ~Finish /\ ~RestOrder
  BY DEF Finish, RestOrder
<1>3. ~Match
  <2> SUFFICES ASSUME Match PROVE FALSE
    OBVIOUS
  <2>1. PICK side, p, lvl, fill : Traded(side, p, lvl, fill)
    BY MatchLevel DEF SumsInv
  <2>2. aggressor' \in Orders
    BY <1>1, <2>1 DEF Orders, Traded
  <2> QED
    BY <2>2, BookAssumption
<1>4. Finish
  BY <1>1, <1>3 DEF Next, KillFok, AddLimitOrder, Cancel, RestOrder
<1>5. CASE Crossing(aggressor) = {}
  <2>1. Reachable(aggressor) = 0
    <3>1. DOMAIN levels[Opposite(aggressor.side)] \cap Reach(aggressor) = {}
      BY <1>1, <1>5, CrossingIs DEF IInv
    <3> QED
      BY <3>1, SetWeightEmpty DEF Reachable, LotsIn
  <2> QED
    BY <1>1, <2>1 DEF SumsInv, FokCovered, Orders
<1> QED
  BY <1>4, <1>5 DEF Finish, MatchingOver

(* A fill-or-kill order that starts to trade leaves with nothing (left       *)
(* order_book.cpp:47-65): the pre-check is never optimistic, however the     *)
(* totals and its own sum wrap.                                              *)
THEOREM FokFillsOrDies == Spec => FokFillsOrKills
BY SumsAlways, FokEnds, PTL DEF Spec, FokFillsOrKills

(* The C++ book is a price-time priority book (order_book.cpp:8-99): every   *)
(* call and every iteration of match is one of the moves LimitOrderBook      *)
(* allows.                                                                   *)
THEOREM BookIsPriceTime == Spec => PriceTimePriority
<1>1. IInv /\ SumsInv /\ [Next]_bookVars => [Lob!LobNext]_(Lob!lobVars)
  BY FokEnds, StepRefines
<1> QED
  BY <1>1, SumsAlways, InitRefines, PTL DEF Spec, PriceTimePriority, Lob!LobSpec

-----------------------------------------------------------------------------
(* The lots of the engine, as sums.                                          *)
TradeQty == [t \in Trades |-> t.qty]

TradedLots(ts) == Weight(TradeQty, ts)

LEMMA TradeQtyTypes ==
  TradeQty \in [Trades -> Nat] /\ TradeQty \in [Trades -> Int]
  /\ \A t \in Trades : TradeQty[t] = t.qty /\ t.qty \in Nat
BY DEF TradeQty, Trades

LEMMA TradeFold ==
  ASSUME NEW ts \in Seq(Trades)
  PROVE  SumOf(ts) = TradedLots(ts)
<1> DEFINE F(h) == [t \in SUBSET DOMAIN ts |->
                      IF t = {} THEN 0 ELSE h[t \ {Max(t)}] + ts[Max(t)].qty]
           f == CHOOSE h : h = F(h)
<1>1. SumOf(ts) = f[DOMAIN ts]
  BY DEF SumOf, FoldLeft, MapThenFoldSet
<1>2. \A t \in SUBSET DOMAIN ts : t # {} => TradeQty[ts[Max(t)]] = ts[Max(t)].qty
  BY LastPlace, TradeQtyTypes
<1>3. \A h : h = F(h) <=> AddsUp(h, TradeQty, 0, ts)
  BY <1>2 DEF AddsUp
<1>4. Summed(TradeQty, ts, Trades)
  BY TradeQtyTypes DEF Summed
<1>5. f = F(f)
  <2>1. PICK h : AddsUp(h, TradeQty, 0, ts)
    BY <1>4, SumExists
  <2>2. h = F(h)
    BY <1>3, <2>1
  <2> QED
    BY <2>2
<1>6. AddsUp(f, TradeQty, 0, ts)
  BY <1>3, <1>5
<1>7. f[DOMAIN ts] = 0 + Weight(TradeQty, ts)
  <2> HIDE DEF f
  <2> QED
    BY <1>4, <1>6, SumFrom
<1>8. Weight(TradeQty, ts) \in Int
  BY TradeQtyTypes, WeightType
<1>9. f[DOMAIN ts] = TradedLots(ts)
  <2> HIDE DEF f
  <2> QED
    BY <1>7, <1>8 DEF TradedLots
<1> QED
  BY <1>1, <1>9

LEMMA TradedType ==
  ASSUME NEW ts \in Seq(Trades)
  PROVE  TradedLots(ts) \in Int /\ TradedLots(<<>>) = 0
<1>1. TradedLots(ts) \in Int
  BY TradeQtyTypes, WeightType DEF TradedLots
<1>2. TradedLots(<<>>) = 0
  BY TradeQtyTypes, WeightEmpty DEF TradedLots
<1> QED
  BY <1>1, <1>2

LEMMA TradedMore ==
  ASSUME NEW ts \in Seq(Trades), NEW t \in Trades
  PROVE  TradedLots(Append(ts, t)) = TradedLots(ts) + t.qty
BY TradeQtyTypes, WeightAppend DEF TradedLots

LEMMA TradedFirst ==
  ASSUME NEW ts \in Seq(Trades), ts # <<>>
  PROVE  /\ Head(ts) \in Trades /\ Tail(ts) \in Seq(Trades)
         /\ TradedLots(Tail(ts)) = TradedLots(ts) - Head(ts).qty
<1> DEFINE u == Tail(ts)
<1>1. /\ 1 \in DOMAIN ts /\ Len(u) = Len(ts) - 1 /\ u \in Seq(Trades)
      /\ \A i \in DOMAIN u : u[i] = ts[i + 1]
      /\ \A i \in DOMAIN u : ~(i < 1)
      /\ Head(ts) = ts[1] /\ ts[1] \in Trades
  OBVIOUS
<1>2. Removed(u, ts, 1)
  <2> HIDE DEF u
  <2> QED
    BY <1>1 DEF Removed
<1>3. Summed(TradeQty, ts, Trades) /\ Summed(TradeQty, u, Trades)
  BY <1>1, TradeQtyTypes DEF Summed
<1>4. Weight(TradeQty, u) = Weight(TradeQty, ts) - TradeQty[ts[1]]
  <2> HIDE DEF u
  <2> QED
    BY <1>2, <1>3, WeightRemove
<1> QED
  BY <1>1, <1>4, TradeQtyTypes DEF TradedLots

(* A record_trades call, and the lots of the trades it has still to count.   *)
Frames == {f \in [left : Seq(Trades), calling : BOOLEAN] : f.calling => f.left # <<>>}

ToCount(f) == IF f.calling THEN Tail(f.left) ELSE f.left

LotsToCount == [f \in Frames |-> TradedLots(ToCount(f))]

LEMMA FrameFacts ==
  ASSUME NEW f \in Frames
  PROVE  /\ f.left \in Seq(Trades) /\ f.calling \in BOOLEAN
         /\ f.calling => f.left # <<>>
         /\ ToCount(f) \in Seq(Trades)
         /\ LotsToCount[f] = TradedLots(ToCount(f)) /\ LotsToCount[f] \in Int
         /\ LotsToCount[f] = SumOf(IF f.calling THEN Tail(f.left) ELSE f.left)
<1>1. /\ f.left \in Seq(Trades) /\ f.calling \in BOOLEAN
      /\ f.calling => f.left # <<>>
  BY DEF Frames
<1>2. ToCount(f) \in Seq(Trades)
  BY <1>1, TradedFirst DEF ToCount
<1>3. LotsToCount[f] = TradedLots(ToCount(f)) /\ LotsToCount[f] \in Int
  BY <1>2, TradedType DEF LotsToCount
<1>4. TradedLots(ToCount(f)) = SumOf(ToCount(f))
  BY <1>2, TradeFold
<1> QED
  BY <1>1, <1>2, <1>3, <1>4 DEF ToCount

LEMMA ToCountType == LotsToCount \in [Frames -> Int]
BY FrameFacts DEF LotsToCount

InFlightTrades == IF aggressor = NoOrder THEN 0 ELSE TradedLots(trades)

LEMMA FrameFold ==
  ASSUME frames \in Seq(Frames), trades \in Seq(Trades)
  PROVE  Uncounted = InFlightTrades + Weight(LotsToCount, frames)
<1> DEFINE s == frames
           b == IF aggressor = NoOrder THEN 0 ELSE SumOf(trades)
           F(h) == [t \in SUBSET DOMAIN s |->
                      IF t = {} THEN b
                      ELSE h[t \ {Max(t)}] + SumOf(IF s[Max(t)].calling THEN Tail(s[Max(t)].left)
                                                   ELSE s[Max(t)].left)]
           f == CHOOSE h : h = F(h)
<1>1. Uncounted = f[DOMAIN s]
  BY DEF Uncounted, FoldLeft, MapThenFoldSet
<1>2. b = InFlightTrades /\ b \in Int
  BY TradeFold, TradedType DEF InFlightTrades
<1> HIDE DEF b
<1>3. \A t \in SUBSET DOMAIN s : t # {} =>
        LotsToCount[s[Max(t)]] = SumOf(IF s[Max(t)].calling THEN Tail(s[Max(t)].left)
                                       ELSE s[Max(t)].left)
  BY LastPlace, FrameFacts
<1>4. \A h : h = F(h) <=> AddsUp(h, LotsToCount, b, s)
  BY <1>3 DEF AddsUp
<1>5. Summed(LotsToCount, s, Frames)
  BY ToCountType DEF Summed
<1>6. f = F(f)
  <2>1. PICK h : AddsUp(h, LotsToCount, b, s)
    BY <1>2, <1>5, SumExists
  <2>2. h = F(h)
    BY <1>4, <2>1
  <2> QED
    BY <2>2
<1>7. AddsUp(f, LotsToCount, b, s)
  BY <1>4, <1>6
<1>8. f[DOMAIN s] = b + Weight(LotsToCount, s)
  <2> HIDE DEF f
  <2> QED
    BY <1>2, <1>5, <1>7, SumFrom
<1> HIDE DEF f
<1> QED
  BY <1>1, <1>2, <1>8

-----------------------------------------------------------------------------
(* The lots that rest.                                                       *)
SideLots(side) == LotsIn(levels[side], Prices)

Held == SideLots("Buy") + SideLots("Sell")

LEMMA SideLotsAre ==
  ASSUME TypeOK, FiniteLevels, NEW side \in Sides
  PROVE  /\ SideLots(side) \in Int
         /\ SideLots(side) = SetWeight(LotsAt(levels[side]), DOMAIN levels[side])
<1>1. Side(levels[side]) /\ DOMAIN levels[side] \cap Prices = DOMAIN levels[side]
  BY SidesAre DEF TypeOK
<1>2. Weighs(LotsAt(levels[side]), DOMAIN levels[side])
  BY <1>1, SideWeighs
<1>3. SetWeight(LotsAt(levels[side]), DOMAIN levels[side]) \in Int
  BY <1>2, SetWeightType
<1> QED
  BY <1>1, <1>3 DEF SideLots, LotsIn

PerLevel(side) ==
  MapThenSumSet(LAMBDA p :
    FoldLeft(LAMBDA sum, o : sum + o.qty_remaining, 0, levels[side][p].orders_),
    DOMAIN levels[side])

LEMMA SideFold ==
  ASSUME TypeOK, FiniteLevels, NEW side \in Sides
  PROVE  PerLevel(side) = SideLots(side)
<1> DEFINE S == DOMAIN levels[side]
           w == LotsAt(levels[side])
           L(p) == FoldLeft(LAMBDA sum, o : sum + o.qty_remaining, 0, levels[side][p].orders_)
           F(h) == [t \in SUBSET S |-> IF t = {} THEN 0
                      ELSE L(CHOOSE x \in t : TRUE) + h[t \ {CHOOSE x \in t : TRUE}]]
           f == CHOOSE h : h = F(h)
<1>1. PerLevel(side) = f[S]
  BY DEF PerLevel, MapThenSumSet, MapThenFoldSet
<1>2. Side(levels[side])
  BY SidesAre
<1>3. \A p \in S : L(p) = w[p]
  <2>1. \A p \in S : levels[side][p].orders_ \in Seq(Nodes)
    BY <1>2 DEF Side
  <2>2. \A p \in S : w[p] = QueueLots(levels[side][p].orders_)
    BY DEF LotsAt
  <2> QED
    BY <2>1, <2>2, QueueFold
<1>4. \A t \in SUBSET S : t # {} => Taken(t) \in t /\ w[Taken(t)] = L(CHOOSE x \in t : TRUE)
  BY <1>3 DEF Taken
<1>5. Weighs(w, S)
  BY <1>2, SideWeighs
<1> HIDE DEF L, w
<1>6. \A h : h = F(h) <=> h = [t \in SUBSET S |-> IF t = {} THEN 0
                                  ELSE w[Taken(t)] + h[t \ {Taken(t)}]]
  BY <1>4 DEF Taken
<1>7. f = F(f)
  <2>1. PICK h : Sums(h, w, S)
    BY <1>5, SumWitness
  <2>2. h = F(h)
    BY <1>6, <2>1 DEF Sums
  <2> QED
    BY <2>2
<1>8. f = [t \in SUBSET S |-> IF t = {} THEN 0 ELSE w[Taken(t)] + f[t \ {Taken(t)}]]
  BY <1>6, <1>7
<1>9. ObeysSum(f, w, S)
  <2> HIDE DEF f
  <2> QED
    BY <1>8 DEF ObeysSum
<1>10. f[S] = SetWeight(w, S)
  <2> HIDE DEF f, S
  <2> QED
    BY <1>5, <1>9, SetWeightIs
<1>11. f[S] = SideLots(side)
  <2> HIDE DEF f
  <2> QED
    BY <1>10, SideLotsAre DEF w
<1> HIDE DEF f
<1> QED
  BY <1>1, <1>11

LEMMA RestingIs ==
  ASSUME TypeOK, FiniteLevels
  PROVE  RestingLots = Held /\ Held \in Int
<1>1. "Buy" \in Sides /\ "Sell" \in Sides
  BY DEF Sides
<1>2. RestingLots = PerLevel("Buy") + PerLevel("Sell")
  BY DEF RestingLots, PerLevel
<1>3. PerLevel("Buy") = SideLots("Buy") /\ PerLevel("Sell") = SideLots("Sell")
  BY <1>1, SideFold
<1>4. SideLots("Buy") \in Int /\ SideLots("Sell") \in Int
  BY <1>1, SideLotsAre
<1> QED
  BY <1>2, <1>3, <1>4 DEF Held

(* A change of one level changes what rests by as much.                      *)
LEMMA HeldChange ==
  ASSUME TypeOK, FiniteLevels, NEW side, NEW p \in Prices, NEW lvl, Becomes(side, p, lvl)
  PROVE  Held' = Held
           - (IF p \in DOMAIN levels[side] THEN QueueLots(levels[side][p].orders_) ELSE 0)
           + QueueLots(lvl.orders_)
<1> DEFINE old == IF p \in DOMAIN levels[side] THEN QueueLots(levels[side][p].orders_) ELSE 0
           new == QueueLots(lvl.orders_)
<1>1. side \in Sides /\ lvl.orders_ \in Seq(Nodes)
  BY DEF Becomes
<1>2. levels'[side] = PutLevel(levels[side], p, lvl)
      /\ \A s \in Sides \ {side} : levels'[s] = levels[s]
  BY DEF TypeOK, Becomes
<1>3. SideLots(side)' = SideLots(side) - old + new
  <2>1. Side(levels[side])
    BY <1>1, SidesAre
  <2>2. LotsIn(PutLevel(levels[side], p, lvl), Prices) = LotsIn(levels[side], Prices) - old + new
    BY <1>1, <2>1, LevelPut
  <2> QED
    BY <1>2, <2>2 DEF SideLots
<1>4. \A s \in Sides \ {side} : SideLots(s)' = SideLots(s)
  BY <1>2 DEF SideLots
<1>5. old \in Int /\ new \in Int
  <2>1. CASE p \in DOMAIN levels[side]
    <3>1. levels[side][p].orders_ \in Seq(Nodes)
      BY <1>1, <2>1, SidesAre DEF Side
    <3> QED
      BY <1>1, <2>1, <3>1, LotsType
  <2>2. CASE p \notin DOMAIN levels[side]
    BY <1>1, <2>2, LotsType
  <2> QED
    BY <2>1, <2>2
<1>6. SideLots("Buy") \in Int /\ SideLots("Sell") \in Int
  BY SideLotsAre DEF Sides
<1> HIDE DEF old, new
<1>7. CASE side = "Buy"
  <2>1. SideLots("Sell")' = SideLots("Sell")
    BY <1>4, <1>7 DEF Sides
  <2> QED
    BY <1>3, <1>5, <1>6, <1>7, <2>1 DEF Held, old, new
<1>8. CASE side = "Sell"
  <2>1. SideLots("Buy")' = SideLots("Buy")
    BY <1>4, <1>8 DEF Sides
  <2> QED
    BY <1>3, <1>5, <1>6, <1>8, <2>1 DEF Held, old, new
<1> QED
  BY <1>1, <1>7, <1>8 DEF Sides, old, new

-----------------------------------------------------------------------------
(* The balance of the engine's lots; what it is made of are numbers.         *)
Stats == [accepted : Int, rejected : Int, cancelled : Int, executed : Int, volume : Int]

Ghosts == [taken : Int, withdrawn : Int, untold : Int]

CountsTyped == frames \in Seq(Frames) /\ stats \in Stats /\ lots \in Ghosts

InFlight == IF aggressor = NoOrder THEN 0 ELSE aggressor.qty_remaining

Waiting == Weight(LotsToCount, frames)

Balance ==
  lots.taken - (Held + InFlight + lots.withdrawn
                + 2 * (InFlightTrades + Waiting + lots.untold + stats.volume))

EngineInv == IInv /\ SumsInv /\ CountsTyped /\ Balance % Width = 0

LEMMA PartsTyped ==
  ASSUME IInv, SumsInv, CountsTyped
  PROVE  /\ Held \in Int /\ InFlight \in Int /\ InFlightTrades \in Int /\ Waiting \in Int
         /\ lots.taken \in Int /\ lots.withdrawn \in Int /\ lots.untold \in Int
         /\ stats.volume \in Int
<1>1. Held \in Int
  BY RestingIs DEF IInv, SumsInv
<1>2. InFlight \in Int
  BY DEF IInv, TypeOK, InFlight, Orders
<1>3. InFlightTrades \in Int
  BY TradedType DEF IInv, TypeOK, InFlightTrades
<1>4. Waiting \in Int
  BY ToCountType, WeightType DEF CountsTyped, Waiting
<1> QED
  BY <1>1, <1>2, <1>3, <1>4 DEF CountsTyped, Stats, Ghosts

LEMMA BalanceMeans ==
  ASSUME IInv, SumsInv, CountsTyped
  PROVE  LotsConserved <=> Balance % Width = 0
<1>1. RestingLots = Held
  BY RestingIs DEF IInv, SumsInv
<1>2. Uncounted = InFlightTrades + Waiting
  BY FrameFold DEF IInv, TypeOK, CountsTyped, Waiting
<1> QED
  BY <1>1, <1>2 DEF LotsConserved, Balance, InFlight

(* The stack of record_trades calls.                                         *)
LEMMA FramePushed ==
  ASSUME frames \in Seq(Frames), NEW ts \in Seq(Trades),
         frames' = Append(frames, [left |-> ts, calling |-> FALSE])
  PROVE  frames' \in Seq(Frames) /\ Waiting' = Waiting + TradedLots(ts)
<1> DEFINE f == [left |-> ts, calling |-> FALSE]
<1>1. f \in Frames /\ ToCount(f) = ts
  BY DEF Frames, ToCount
<1>2. LotsToCount[f] = TradedLots(ts)
  BY <1>1, FrameFacts
<1>3. Weight(LotsToCount, Append(frames, f)) = Weight(LotsToCount, frames) + LotsToCount[f]
  <2> HIDE DEF f
  <2> QED
    BY <1>1, ToCountType, WeightAppend
<1>4. Append(frames, f) \in Seq(Frames)
  <2> HIDE DEF f
  <2> QED
    BY <1>1
<1> QED
  BY <1>2, <1>3, <1>4 DEF Waiting

LEMMA LastFrame ==
  ASSUME frames \in Seq(Frames), frames # <<>>
  PROVE  /\ Len(frames) \in DOMAIN frames
         /\ Last(frames) = frames[Len(frames)] /\ Last(frames) \in Frames
         /\ Front(frames) \in Seq(Frames) /\ frames = Append(Front(frames), Last(frames))
<1>1. Len(frames) \in Nat \ {0} /\ DOMAIN frames = 1 .. Len(frames)
        /\ Len(frames) \in DOMAIN frames
  OBVIOUS
<1>2. Last(frames) = frames[Len(frames)] /\ frames[Len(frames)] \in Frames
  BY <1>1 DEF Last
<1>3. Front(frames) \in Seq(Frames) /\ frames = Append(Front(frames), Last(frames))
  BY <1>1, <1>2 DEF Front
<1> QED
  BY <1>1, <1>2, <1>3, Zenon

LEMMA FramePopped ==
  ASSUME frames \in Seq(Frames), frames # <<>>, frames' = Front(frames)
  PROVE  frames' \in Seq(Frames) /\ Waiting' = Waiting - LotsToCount[Last(frames)]
<1> DEFINE u == Front(frames)
           f == Last(frames)
<1>1. u \in Seq(Frames) /\ f \in Frames /\ frames = Append(u, f)
  BY LastFrame
<1> HIDE DEF u, f
<1>2. Weight(LotsToCount, Append(u, f)) = Weight(LotsToCount, u) + LotsToCount[f]
  BY <1>1, ToCountType, WeightAppend
<1>3. Weight(LotsToCount, u) \in Int /\ LotsToCount[f] \in Int
  BY <1>1, ToCountType, WeightType
<1>4. Weight(LotsToCount, u) = Weight(LotsToCount, frames) - LotsToCount[f]
  BY <1>1, <1>2, <1>3
<1> QED
  BY <1>1, <1>4 DEF Waiting, u, f

LEMMA FrameChanged ==
  ASSUME frames \in Seq(Frames), frames # <<>>, NEW f \in Frames,
         frames' = [frames EXCEPT ![Len(frames)] = f]
  PROVE  frames' \in Seq(Frames)
         /\ Waiting' = Waiting - LotsToCount[Last(frames)] + LotsToCount[f]
<1> DEFINE n == Len(frames)
           u == [frames EXCEPT ![n] = f]
<1>1. n \in DOMAIN frames /\ Last(frames) = frames[n]
  BY LastFrame
<1>2. u \in Seq(Frames) /\ Len(u) = Len(frames) /\ u[n] = f
      /\ \A i \in DOMAIN frames : i # n => u[i] = frames[i]
  BY <1>1
<1> HIDE DEF u, n
<1>3. Replaced(u, frames, n)
  BY <1>1, <1>2 DEF Replaced
<1>4. Summed(LotsToCount, frames, Frames) /\ Summed(LotsToCount, u, Frames)
  BY <1>2, ToCountType DEF Summed
<1>5. Weight(LotsToCount, u)
        = Weight(LotsToCount, frames) - LotsToCount[frames[n]] + LotsToCount[u[n]]
  BY <1>3, <1>4, WeightReplace
<1> QED
  BY <1>1, <1>2, <1>5 DEF Waiting, u, n

-----------------------------------------------------------------------------
(* Every step keeps the balance.                                             *)
LEMMA SameBalance ==
  ASSUME UNCHANGED <<levels, aggressor, trades, frames, lots>>, stats'.volume = stats.volume
  PROVE  Balance' = Balance
BY DEF Balance, Held, SideLots, InFlight, InFlightTrades, Waiting

LEMMA StatsCounted ==
  ASSUME CountsTyped, NEW e,
         \/ e = [stats EXCEPT !.accepted = @ + 1]
         \/ e = [stats EXCEPT !.rejected = @ + 1]
         \/ e = [stats EXCEPT !.cancelled = @ + 1]
  PROVE  e \in Stats /\ e.volume = stats.volume
<1>1. stats \in Stats
  BY DEF CountsTyped
<1>2. CASE e = [stats EXCEPT !.accepted = @ + 1]
  BY <1>1, <1>2 DEF Stats
<1>3. CASE e = [stats EXCEPT !.rejected = @ + 1]
  BY <1>1, <1>3 DEF Stats
<1>4. CASE e = [stats EXCEPT !.cancelled = @ + 1]
  BY <1>1, <1>4 DEF Stats
<1> QED
  BY <1>2, <1>3, <1>4

LEMMA RejectBalance ==
  ASSUME CountsTyped, NEW o, Reject(o)
  PROVE  CountsTyped' /\ Balance' = Balance
<1>1. UNCHANGED <<levels, aggressor, trades, frames, lots>>
      /\ stats' = [stats EXCEPT !.rejected = @ + 1]
  BY DEF Reject, bookVars
<1>2. stats'.volume = stats.volume /\ CountsTyped'
  BY <1>1, StatsCounted DEF CountsTyped
<1> QED
  BY <1>1, <1>2, SameBalance

(* What validate lets through is an order the book is specified for.         *)
LEMMA ValidatedOrders ==
  ASSUME NEW o \in [id : Ids, side : Sides, price : Prices \cup {0},
                    qty_remaining : Quantities \cup {0}, tif : TimesInForce],
         Validate(o)
  PROVE  o \in [id : Ids, side : Sides, price : Prices,
                qty_remaining : Quantities, tif : TimesInForce]
BY DEF Validate

LEMMA SubmitBalance ==
  ASSUME IInv, SumsInv, CountsTyped,
         NEW o \in [id : Ids, side : Sides, price : Prices \cup {0},
                    qty_remaining : Quantities \cup {0}, tif : TimesInForce],
         Submit(o)
  PROVE  CountsTyped' /\ Balance' = Balance
<1> DEFINE q == o.qty_remaining
<1>1. /\ o \in Orders /\ o # NoOrder /\ q \in Int
  <2>1. o \in [id : Ids, side : Sides, price : Prices,
               qty_remaining : Quantities, tif : TimesInForce]
    BY ValidatedOrders DEF Submit
  <2>2. Quantities \subseteq Nat
    BY BookAssumption
  <2>3. o \in Orders
    BY <2>1, <2>2 DEF Orders
  <2>4. o.qty_remaining \in Nat
    BY <2>3 DEF Orders
  <2> QED
    BY <2>3, <2>4, BookAssumption
<1>2. /\ UNCHANGED <<levels, frames>> /\ aggressor = NoOrder
      /\ stats' = [stats EXCEPT !.accepted = @ + 1]
      /\ lots' = [lots EXCEPT !.taken = @ + q,
                              !.withdrawn = IF aggressor' = NoOrder THEN @ + q ELSE @]
      /\ \/ aggressor' = o /\ trades' = <<>>
         \/ aggressor' = NoOrder
  BY DEF Submit, AddLimitOrder, KillFok
<1>3. stats'.volume = stats.volume /\ CountsTyped'
  <2>1. stats' \in Stats /\ stats'.volume = stats.volume
    BY <1>2, StatsCounted
  <2>2. lots' \in Ghosts
    <3>1. lots \in Ghosts /\ lots.taken + q \in Int /\ lots.withdrawn + q \in Int
          /\ lots.withdrawn \in Int
      BY <1>1 DEF CountsTyped, Ghosts
    <3> HIDE DEF q
    <3>2. lots' = [lots EXCEPT !.taken = lots.taken + q, !.withdrawn = lots.withdrawn + q]
          \/ lots' = [lots EXCEPT !.taken = lots.taken + q, !.withdrawn = lots.withdrawn]
      BY <1>2
    <3> QED
      BY <3>1, <3>2 DEF Ghosts
  <2> QED
    BY <1>2, <2>1, <2>2 DEF CountsTyped, Ghosts
<1>4. Held' = Held /\ Waiting' = Waiting /\ InFlight = 0 /\ InFlightTrades = 0
  BY <1>2 DEF Held, SideLots, Waiting, InFlight, InFlightTrades
<1>5. /\ InFlightTrades' = 0 /\ lots'.taken = lots.taken + q /\ lots'.untold = lots.untold
      /\ InFlight' + lots'.withdrawn = lots.withdrawn + q
  <2>1. lots'.taken = lots.taken + q /\ lots'.untold = lots.untold
    BY <1>2 DEF CountsTyped, Ghosts
  <2>2. CASE aggressor' = o /\ trades' = <<>>
    <3>1. InFlightTrades' = 0 /\ InFlight' = q /\ lots'.withdrawn = lots.withdrawn
      <4>1. <<>> \in Seq(Trades)
        OBVIOUS
      <4> QED
        BY <1>1, <1>2, <2>2, <4>1, TradedType DEF InFlightTrades, InFlight, CountsTyped, Ghosts
    <3> QED
      BY <1>1, <2>1, <3>1, PartsTyped
  <2>3. CASE aggressor' = NoOrder
    <3>1. InFlightTrades' = 0 /\ InFlight' = 0 /\ lots'.withdrawn = lots.withdrawn + q
      BY <1>2, <2>3 DEF InFlightTrades, InFlight, CountsTyped, Ghosts
    <3> QED
      BY <1>1, <2>1, <3>1, PartsTyped
  <2> QED
    BY <1>2, <2>2, <2>3, <2>1
<1>6. InFlight' \in Int /\ lots'.withdrawn \in Int
  BY <1>1, <1>2, <1>3 DEF InFlight, CountsTyped, Ghosts
<1> HIDE DEF q
<1>7. Balance' = Balance
  BY <1>1, <1>3, <1>4, <1>5, <1>6, PartsTyped DEF Balance
<1> QED
  BY <1>3, <1>7

LEMMA MatchBalance ==
  ASSUME IInv, SumsInv, CountsTyped, MatchIteration
  PROVE  CountsTyped' /\ Balance' = Balance
<1>1. Match /\ UNCHANGED <<stats, frames, lots>>
  BY DEF MatchIteration, engineVars
<1>2. PICK side, p, lvl, fill : Traded(side, p, lvl, fill)
  BY <1>1, MatchLevel DEF SumsInv
<1>3. PICK t : t.qty = fill /\ t \in Trades /\ trades' = Append(trades, t)
  BY <1>2 DEF Traded
<1>4. /\ fill \in Int /\ aggressor # NoOrder /\ aggressor \in Orders
      /\ aggressor' = [aggressor EXCEPT !.qty_remaining = @ - fill]
      /\ aggressor' \in Orders
  BY <1>2, BookAssumption DEF Traded, Orders
<1>5. Held' = Held - fill
  <2>1. p \in DOMAIN levels[side] /\ p \in Prices /\ Becomes(side, p, lvl)
        /\ QueueLots(lvl.orders_) = QueueLots(levels[side][p].orders_) - fill
    BY <1>2 DEF Traded, Becomes, IInv, TypeOK
  <2>2. Held' = Held - QueueLots(levels[side][p].orders_) + QueueLots(lvl.orders_)
    BY <2>1, HeldChange DEF IInv, SumsInv
  <2>3. QueueLots(levels[side][p].orders_) \in Int
    <3>1. levels[side][p].orders_ \in Seq(Nodes)
      BY <2>1, LevelFacts DEF Becomes
    <3> QED
      BY <3>1, LotsType
  <2> QED
    BY <1>4, <2>1, <2>2, <2>3, PartsTyped
<1>6. InFlight' = InFlight - fill
  BY <1>4, BookAssumption DEF InFlight, Orders
<1>7. InFlightTrades' = InFlightTrades + fill
  <2>1. aggressor' # NoOrder
    BY <1>4, BookAssumption
  <2>2. TradedLots(trades') = TradedLots(trades) + fill
    BY <1>3, TradedMore DEF IInv, TypeOK
  <2> QED
    BY <1>4, <2>1, <2>2 DEF InFlightTrades
<1>8. Waiting' = Waiting /\ CountsTyped'
  BY <1>1 DEF Waiting, CountsTyped
<1> QED
  BY <1>1, <1>4, <1>5, <1>6, <1>7, <1>8, PartsTyped DEF Balance

LEMMA AddedBalance ==
  ASSUME IInv, SumsInv, CountsTyped, Added
  PROVE  CountsTyped' /\ Balance' = Balance
<1> DEFINE q == aggressor.qty_remaining
<1>1. /\ aggressor \in Orders /\ aggressor # NoOrder /\ q \in Int
      /\ trades \in Seq(Trades) /\ aggressor' = NoOrder
      /\ frames' = Append(frames, [left |-> trades, calling |-> FALSE])
      /\ UNCHANGED <<stats, trades>>
      /\ lots' = [lots EXCEPT !.withdrawn = IF aggressor.tif = "GTC" THEN @ ELSE @ + q]
  BY DEF Added, Finish, RestOrder, IInv, TypeOK, Orders
<1>2. frames' \in Seq(Frames) /\ Waiting' = Waiting + TradedLots(trades)
  BY <1>1, FramePushed DEF CountsTyped
<1>3. InFlight = q /\ InFlight' = 0
      /\ InFlightTrades = TradedLots(trades) /\ InFlightTrades' = 0
  BY <1>1 DEF InFlight, InFlightTrades
<1>4. /\ lots' \in Ghosts /\ lots'.taken = lots.taken /\ lots'.untold = lots.untold
      /\ lots'.withdrawn = IF aggressor.tif = "GTC" THEN lots.withdrawn ELSE lots.withdrawn + q
  <2>1. lots \in Ghosts
    BY DEF CountsTyped
  <2> HIDE DEF q
  <2>2. CASE aggressor.tif = "GTC"
    BY <1>1, <2>1, <2>2 DEF Ghosts
  <2>3. CASE aggressor.tif # "GTC"
    BY <1>1, <2>1, <2>3 DEF Ghosts
  <2> QED
    BY <2>2, <2>3
<1>5. Held' + lots'.withdrawn = Held + lots.withdrawn + q /\ Held' \in Int
  <2>1. CASE Finish
    <3>1. Held' = Held /\ (aggressor.tif # "GTC" \/ q = 0)
      BY <2>1 DEF Finish, Held, SideLots
    <3> HIDE DEF q
    <3> QED
      BY <1>1, <1>4, <3>1, PartsTyped
  <2>2. CASE RestOrder
    <3>1. PICK lvl : Rested(aggressor, lvl)
      BY <2>2, RestLevel DEF SumsInv
    <3> DEFINE p == aggressor.price
               map == levels[aggressor.side]
               old == IF p \in DOMAIN map THEN QueueLots(map[p].orders_) ELSE 0
    <3>2. Becomes(aggressor.side, p, lvl) /\ QueueLots(lvl.orders_) = old + q /\ p \in Prices
      BY <1>1, <3>1 DEF Rested, Orders
    <3>3. Held' = Held - old + QueueLots(lvl.orders_)
      BY <3>2, HeldChange DEF IInv, SumsInv
    <3>4. old \in Int
      <4>1. aggressor.side \in Sides
        BY <1>1 DEF Orders
      <4>2. CASE p \in DOMAIN map
        <5>1. map[p].orders_ \in Seq(Nodes)
          BY <4>1, <4>2, LevelFacts
        <5> QED
          BY <4>2, <5>1, LotsType
      <4>3. CASE p \notin DOMAIN map
        BY <4>3
      <4> QED
        BY <4>2, <4>3
    <3>5. aggressor.tif = "GTC"
      BY <2>2 DEF RestOrder
    <3> HIDE DEF old, q
    <3> QED
      BY <1>1, <1>4, <3>2, <3>3, <3>4, <3>5, PartsTyped
  <2> QED
    BY <2>1, <2>2 DEF Added
<1>6. CountsTyped'
  BY <1>1, <1>2, <1>4 DEF CountsTyped
<1>7. stats'.volume = stats.volume /\ lots'.withdrawn \in Int
  BY <1>1, <1>4 DEF Ghosts
<1>8. TradedLots(trades) \in Int
  BY <1>1, TradedType
<1>9. Balance' = Balance
  <2>1. PICK x \in Int : x = q
    BY <1>1
  <2>2. PICK y \in Int : y = TradedLots(trades)
    BY <1>8
  <2>3. /\ Waiting' = Waiting + y /\ InFlight = x /\ InFlight' = 0
        /\ InFlightTrades = y /\ InFlightTrades' = 0
        /\ Held' + lots'.withdrawn = Held + lots.withdrawn + x
    BY <1>2, <1>3, <1>5, <2>1, <2>2
  <2>4. lots'.taken = lots.taken /\ lots'.untold = lots.untold /\ Held' \in Int
    BY <1>4, <1>5
  <2> HIDE DEF q
  <2> QED
    BY <1>7, <2>3, <2>4, PartsTyped DEF Balance
<1> QED
  BY <1>6, <1>9

(* One trade of the innermost call is counted.                               *)
LEMMA TradeCounted ==
  ASSUME frames \in Seq(Frames), RecordTrade
  PROVE  \E t \in Trades :
           /\ t = Head(Last(frames).left)
           /\ frames' \in Seq(Frames) /\ Waiting' = Waiting - t.qty
<1>1. PICK f \in Frames : f = Last(frames)
  BY LastFrame DEF RecordTrade
<1>2. /\ ~f.calling /\ f.left # <<>> /\ f.left \in Seq(Trades) /\ frames # <<>>
      /\ f = [left |-> f.left, calling |-> FALSE]
  <2>1. f = [left |-> f.left, calling |-> f.calling] /\ f.left \in Seq(Trades)
        /\ f.calling \in BOOLEAN
    BY DEF Frames
  <2> QED
    BY <1>1, <2>1 DEF RecordTrade
<1>3. PICK t : t = Head(f.left)
  OBVIOUS
<1>4. /\ Tail(f.left) \in Seq(Trades) /\ t \in Trades /\ t.qty \in Int
      /\ TradedLots(Tail(f.left)) = TradedLots(f.left) - t.qty
  BY <1>2, <1>3, TradedFirst, TradeQtyTypes
<1>5. PICK g : g = IF callback THEN [left |-> f.left, calling |-> TRUE]
                   ELSE [left |-> Tail(f.left), calling |-> FALSE]
  OBVIOUS
<1>6. g \in Frames /\ ToCount(g) = Tail(f.left)
  BY <1>2, <1>4, <1>5 DEF Frames, ToCount
<1>7. frames' = [frames EXCEPT ![Len(frames)] = g]
  <2>1. PICK n : n = Len(frames)
    OBVIOUS
  <2>2. frames' = [frames EXCEPT ![n] = IF callback THEN [left |-> frames[n].left, calling |-> TRUE]
                                        ELSE [left |-> Tail(frames[n].left), calling |-> FALSE]]
    BY <2>1, Zenon DEF RecordTrade
  <2>3. frames[n] = f
    BY <1>1, <1>2, <2>1, LastFrame
  <2> QED
    BY <1>5, <2>1, <2>2, <2>3, Zenon
<1>8. frames' \in Seq(Frames) /\ Waiting' = Waiting - LotsToCount[f] + LotsToCount[g]
  BY <1>1, <1>2, <1>6, <1>7, FrameChanged
<1>9. LotsToCount[f] = TradedLots(f.left) /\ LotsToCount[g] = TradedLots(f.left) - t.qty
      /\ TradedLots(f.left) \in Int
  <2>1. ToCount(f) = f.left
    BY <1>2 DEF ToCount
  <2> QED
    BY <1>2, <1>4, <1>6, <2>1, FrameFacts, TradedType
<1>10. Waiting \in Int
  BY ToCountType, WeightType DEF Waiting
<1> QED
  BY <1>1, <1>3, <1>4, <1>8, <1>9, <1>10

LEMMA VolumeCounted ==
  ASSUME stats \in Stats, NEW v \in Int,
         stats' = [stats EXCEPT !.executed = @ + 1, !.volume = v]
  PROVE  stats' \in Stats /\ stats'.volume = v
<1>1. PICK e : e = [stats EXCEPT !.executed = @ + 1]
  OBVIOUS
<1>2. e \in Stats
  BY <1>1 DEF Stats
<1>3. stats' = [e EXCEPT !.volume = v]
  BY <1>1
<1> QED
  BY <1>2, <1>3 DEF Stats

(* What moves from the trades to the volume is the same, modulo Width.       *)
Moved(n, v, q, r, b) == r = (v + q) % Width /\ b = n - 2 * (r - q - v)

LEMMA VolumeWraps ==
  ASSUME NEW n \in Int, NEW v \in Int, NEW q \in Int, NEW r, NEW b, Moved(n, v, q, r, b)
  PROVE  r \in Int /\ \E k \in Int : b = Width * k + n
<1> DEFINE x == v + q
           k == x \div Width
<1>1. x \in Int /\ Width \in Nat \ {0}
  BY WidthType
<1> HIDE DEF x
<1>2. x = Width * k + (x % Width) /\ k \in Int /\ x % Width \in 0 .. Width - 1
  BY <1>1, DivMod
<1> HIDE DEF k
<1>3. r \in Int /\ x = Width * k + r
  BY <1>1, <1>2 DEF x, Moved
<1>4. PICK m \in Int : m = Width * k
  BY <1>1, <1>2
<1>5. b = n + 2 * m
  BY <1>3, <1>4 DEF x, Moved
<1>6. Width * (2 * k) = 2 * m /\ 2 * k \in Int
  BY <1>1, <1>2, <1>4
<1>7. b = Width * (2 * k) + n
  BY <1>5, <1>6
<1> QED
  BY <1>3, <1>6, <1>7

(* A trade is counted: its lots move to total_volume, which wraps.           *)
LEMMA RecordBalance ==
  ASSUME IInv, SumsInv, CountsTyped, RecordTrade
  PROVE  CountsTyped' /\ \E k \in Int : Balance' = Width * k + Balance
<1>1. PICK t \in Trades :
        /\ t = Head(Last(frames).left)
        /\ frames' \in Seq(Frames) /\ Waiting' = Waiting - t.qty
  BY TradeCounted DEF CountsTyped
<1>2. /\ stats' = [stats EXCEPT !.executed = @ + 1, !.volume = (stats.volume + t.qty) % Width]
      /\ UNCHANGED <<bookVars, lots>>
  BY <1>1 DEF RecordTrade, Counted
<1>3. t.qty \in Int /\ stats.volume \in Int
  BY PartsTyped, TradeQtyTypes
<1>4. PICK v : v = (stats.volume + t.qty) % Width
  OBVIOUS
<1>5. v \in Int
  BY <1>3, <1>4, WrapRange
<1>6. stats' \in Stats /\ stats'.volume = v
  BY <1>2, <1>4, <1>5, VolumeCounted DEF CountsTyped
<1>7. /\ Held' = Held /\ InFlight' = InFlight /\ InFlightTrades' = InFlightTrades
      /\ lots' = lots
  BY <1>2 DEF bookVars, Held, SideLots, InFlight, InFlightTrades
<1>8. Balance \in Int /\ Balance' = Balance - 2 * (v - t.qty - stats.volume)
  <2>1. PICK q \in Int : q = t.qty
    BY <1>3
  <2>2. Waiting' = Waiting - q /\ stats'.volume = v
    BY <1>1, <1>6, <2>1
  <2>3. lots'.taken = lots.taken /\ lots'.withdrawn = lots.withdrawn /\ lots'.untold = lots.untold
    BY <1>7
  <2>4. Balance \in Int /\ Balance' = Balance - 2 * (v - q - stats.volume)
    BY <1>5, <1>7, <2>2, <2>3, PartsTyped DEF Balance
  <2> QED
    BY <2>1, <2>4
<1>9. CountsTyped'
  BY <1>1, <1>6, <1>7 DEF CountsTyped
<1>10. \E k \in Int : Balance' = Width * k + Balance
  <2>1. PICK q \in Int : q = t.qty
    BY <1>3
  <2>2. PICK n \in Int : n = Balance
    BY <1>8
  <2>3. PICK b : b = Balance'
    OBVIOUS
  <2>4. PICK w \in Int : w = stats.volume
    BY <1>3
  <2>5. Moved(n, w, q, v, b)
    BY <1>4, <1>8, <2>1, <2>2, <2>3, <2>4 DEF Moved
  <2>6. \E k \in Int : b = Width * k + n
    BY <2>5, VolumeWraps
  <2> QED
    BY <2>2, <2>3, <2>6
<1> QED
  BY <1>9, <1>10

LEMMA ReturnBalance ==
  ASSUME IInv, SumsInv, CountsTyped, CallbackReturns
  PROVE  CountsTyped' /\ Balance' = Balance
<1>1. /\ UNCHANGED <<levels, aggressor, trades, stats, lots>>
      /\ frames \in Seq(Frames) /\ frames # <<>> /\ Last(frames).calling
  BY DEF CallbackReturns, bookVars, CountsTyped
<1>2. PICK f \in Frames : f = Last(frames)
  BY <1>1, LastFrame
<1>3. PICK g : g = [left |-> Tail(f.left), calling |-> FALSE]
  OBVIOUS
<1>4. f.left \in Seq(Trades) /\ f.left # <<>> /\ ToCount(f) = Tail(f.left)
  BY <1>1, <1>2, FrameFacts DEF ToCount
<1>5. Tail(f.left) \in Seq(Trades)
  BY <1>4, TradedFirst
<1>6. g \in Frames /\ ToCount(g) = Tail(f.left)
  BY <1>3, <1>5 DEF Frames, ToCount
<1>7. frames' = [frames EXCEPT ![Len(frames)] = g]
  <2>1. PICK n : n = Len(frames)
    OBVIOUS
  <2>2. frames' = [frames EXCEPT ![n] = [left |-> Tail(frames[n].left), calling |-> FALSE]]
    BY <2>1, Zenon DEF CallbackReturns
  <2>3. frames[n] = f
    BY <1>1, <1>2, <2>1, LastFrame
  <2> QED
    BY <1>3, <2>1, <2>2, <2>3, Zenon
<1>8. frames' \in Seq(Frames) /\ Waiting' = Waiting - LotsToCount[f] + LotsToCount[g]
  BY <1>1, <1>2, <1>6, <1>7, FrameChanged
<1>9. LotsToCount[f] = LotsToCount[g] /\ LotsToCount[f] \in Int
  BY <1>4, <1>6, FrameFacts
<1>10. Waiting' = Waiting
  BY <1>8, <1>9, PartsTyped
<1> QED
  BY <1>1, <1>8, <1>10 DEF CountsTyped, Balance, Held, SideLots, InFlight, InFlightTrades

(* The trades behind the one whose callback threw are never counted.         *)
LEMMA ThrowBalance ==
  ASSUME IInv, SumsInv, CountsTyped, CallbackThrows
  PROVE  CountsTyped' /\ Balance' = Balance
<1>1. /\ UNCHANGED <<levels, aggressor, trades, stats>>
      /\ frames \in Seq(Frames) /\ frames # <<>> /\ Last(frames).calling
      /\ frames' = Front(frames)
      /\ lots' = [lots EXCEPT !.untold = @ + SumOf(Tail(Last(frames).left))]
  BY DEF CallbackThrows, bookVars, CountsTyped
<1>2. PICK f \in Frames : f = Last(frames)
  BY <1>1, LastFrame
<1>3. LotsToCount[f] = SumOf(Tail(f.left)) /\ LotsToCount[f] \in Int
  BY <1>1, <1>2, FrameFacts
<1>4. PICK x \in Int : x = LotsToCount[f]
  BY <1>3
<1>5. frames' \in Seq(Frames) /\ Waiting' = Waiting - x
  BY <1>1, <1>2, <1>4, FramePopped
<1>6. lots' = [lots EXCEPT !.untold = @ + x]
  BY <1>1, <1>2, <1>3, <1>4
<1>7. /\ lots' \in Ghosts /\ lots'.untold = lots.untold + x
      /\ lots'.taken = lots.taken /\ lots'.withdrawn = lots.withdrawn
  <2>1. lots \in Ghosts
    BY DEF CountsTyped
  <2> QED
    BY <1>6, <2>1 DEF Ghosts
<1>8. Held' = Held /\ InFlight' = InFlight /\ InFlightTrades' = InFlightTrades
  BY <1>1 DEF Held, SideLots, InFlight, InFlightTrades
<1>9. CountsTyped'
  BY <1>1, <1>5, <1>7 DEF CountsTyped
<1>10. Balance' = Balance
  BY <1>1, <1>5, <1>7, <1>8, PartsTyped DEF Balance
<1> QED
  BY <1>9, <1>10

LEMMA RecordedBalance ==
  ASSUME IInv, SumsInv, CountsTyped, Recorded
  PROVE  CountsTyped' /\ Balance' = Balance
<1>1. /\ UNCHANGED <<levels, aggressor, trades, stats, lots>>
      /\ frames \in Seq(Frames) /\ frames # <<>> /\ Last(frames).left = <<>>
      /\ frames' = Front(frames)
  BY DEF Recorded, bookVars, CountsTyped
<1>2. PICK f \in Frames : f = Last(frames)
  BY <1>1, LastFrame
<1>3. ToCount(f) = <<>>
  BY <1>1, <1>2, FrameFacts DEF ToCount
<1>4. LotsToCount[f] = 0
  <2>1. <<>> \in Seq(Trades)
    OBVIOUS
  <2> QED
    BY <1>3, <2>1, FrameFacts, TradedType
<1>5. frames' \in Seq(Frames) /\ Waiting' = Waiting
  BY <1>1, <1>2, <1>4, FramePopped, PartsTyped
<1> QED
  BY <1>1, <1>5 DEF CountsTyped, Balance, Held, SideLots, InFlight, InFlightTrades

LEMMA CancelBalance ==
  ASSUME IInv, SumsInv, CountsTyped, NEW id \in Ids, EngineCancel(id)
  PROVE  CountsTyped' /\ Balance' = Balance
<1>1. /\ Cancel(id) /\ UNCHANGED <<aggressor, trades, frames>>
      /\ stats' = [stats EXCEPT !.cancelled = @ + 1]
  BY DEF EngineCancel, Cancel
<1>2. PICK side, p, lvl : Cancelled(id, side, p, lvl)
  BY <1>1, CancelLevel DEF SumsInv
<1> DEFINE queue == levels[side][p].orders_
           k == CHOOSE i \in DOMAIN queue : queue[i].it = order_index_[id].it
<1>3. PICK x \in Int : x = queue[k].qty_remaining
  <2>1. queue[k].qty_remaining \in Nat
    BY <1>2 DEF Cancelled
  <2> HIDE DEF k, queue
  <2>2. \E x \in Int : x = queue[k].qty_remaining
    BY <2>1
  <2> QED
    BY <2>2 DEF k, queue
<1>4. lots' = [lots EXCEPT !.withdrawn = @ + x]
  BY <1>2, <1>3 DEF EngineCancel, Cancelled
<1>5. /\ lots' \in Ghosts /\ lots'.withdrawn = lots.withdrawn + x
      /\ lots'.taken = lots.taken /\ lots'.untold = lots.untold
  <2>1. lots \in Ghosts
    BY DEF CountsTyped
  <2> QED
    BY <1>4, <2>1 DEF Ghosts
<1>6. Held' = Held - x
  <2>1. p \in DOMAIN levels[side] /\ p \in Prices /\ Becomes(side, p, lvl)
        /\ QueueLots(lvl.orders_) = QueueLots(queue) - x
    BY <1>2, <1>3 DEF Cancelled, Becomes, IInv, TypeOK
  <2>2. Held' = Held - QueueLots(queue) + QueueLots(lvl.orders_)
    BY <2>1, HeldChange DEF IInv, SumsInv
  <2>3. QueueLots(queue) \in Int
    <3>1. queue \in Seq(Nodes)
      BY <2>1, LevelFacts DEF Becomes
    <3> QED
      BY <3>1, LotsType
  <2> HIDE DEF queue
  <2> QED
    BY <2>1, <2>2, <2>3, PartsTyped
<1>7. InFlight' = InFlight /\ InFlightTrades' = InFlightTrades /\ Waiting' = Waiting
  BY <1>1 DEF InFlight, InFlightTrades, Waiting
<1>8. stats' \in Stats /\ stats'.volume = stats.volume
  BY <1>1, StatsCounted
<1>9. CountsTyped'
  BY <1>1, <1>5, <1>8 DEF CountsTyped
<1>10. Balance' = Balance
  BY <1>5, <1>6, <1>7, <1>8, PartsTyped DEF Balance
<1> QED
  BY <1>9, <1>10

LEMMA EngineBalance ==
  ASSUME IInv, SumsInv, CountsTyped, [EngineNext]_<<bookVars, engineVars>>
  PROVE  CountsTyped' /\ \E k \in Int : Balance' = Width * k + Balance
<1>1. ASSUME CountsTyped', Balance' = Balance
      PROVE  CountsTyped' /\ \E k \in Int : Balance' = Width * k + Balance
  <2>1. Balance' = Width * 0 + Balance
    BY <1>1, WidthType, PartsTyped DEF Balance
  <2> QED
    BY <1>1, <2>1
<1>2. ASSUME NEW o, Reject(o) PROVE CountsTyped' /\ Balance' = Balance
  BY <1>2, RejectBalance
<1>3. ASSUME NEW o \in [id : Ids, side : Sides, price : Prices \cup {0},
                        qty_remaining : Quantities \cup {0}, tif : TimesInForce], Submit(o)
      PROVE  CountsTyped' /\ Balance' = Balance
  BY <1>3, SubmitBalance
<1>4. CASE MatchIteration
  BY <1>1, <1>4, MatchBalance
<1>5. CASE Added
  BY <1>1, <1>5, AddedBalance
<1>6. CASE RecordTrade
  BY <1>6, RecordBalance
<1>7. CASE CallbackReturns
  BY <1>1, <1>7, ReturnBalance
<1>8. CASE CallbackThrows
  BY <1>1, <1>8, ThrowBalance
<1>9. CASE Recorded
  BY <1>1, <1>9, RecordedBalance
<1>10. ASSUME NEW id \in Ids, EngineCancel(id) PROVE CountsTyped' /\ Balance' = Balance
  BY <1>10, CancelBalance
<1>11. CASE OnTrade \/ UNCHANGED <<bookVars, engineVars>>
  <2>1. UNCHANGED <<levels, aggressor, trades, stats, frames, lots>>
    BY <1>11 DEF OnTrade, bookVars, engineVars
  <2>2. CountsTyped' /\ Balance' = Balance
    BY <2>1, SameBalance DEF CountsTyped
  <2> QED
    BY <1>1, <2>2
<1> QED
  BY <1>1, <1>2, <1>3, <1>4, <1>5, <1>6, <1>7, <1>8, <1>9, <1>10, <1>11, Zenon DEF EngineNext

LEMMA EngineInitially == EngineInit => EngineInv
<1> SUFFICES ASSUME EngineInit PROVE EngineInv
  OBVIOUS
<1>1. IInv /\ SumsInv
  BY Initially, SumsInitially DEF EngineInit
<1>2. frames = <<>> /\ frames \in Seq(Frames)
  <2>1. <<>> \in Seq(Frames)
    OBVIOUS
  <2> QED
    BY <2>1 DEF EngineInit
<1>3. CountsTyped
  BY <1>2 DEF EngineInit, CountsTyped, Stats, Ghosts
<1>4. Waiting = 0
  BY <1>2, ToCountType, WeightEmpty DEF Waiting
<1>5. InFlight = 0 /\ InFlightTrades = 0
  BY DEF EngineInit, Init, InFlight, InFlightTrades
<1>6. Held = 0
  <2>1. \A side \in Sides : SideLots(side) = 0
    <3> SUFFICES ASSUME NEW side \in Sides PROVE SideLots(side) = 0
      OBVIOUS
    <3>1. levels[side] = <<>> /\ DOMAIN levels[side] \cap Prices = {}
      BY DEF EngineInit, Init, Sides
    <3> QED
      BY <3>1, SetWeightEmpty DEF SideLots, LotsIn
  <2> QED
    BY <2>1 DEF Held, Sides
<1>7. Balance = 0
  BY <1>4, <1>5, <1>6 DEF EngineInit, Balance
<1> QED
  BY <1>1, <1>3, <1>7, WidthType DEF EngineInv

(* To its book the engine is a client that calls one operation at a time.   *)
LEMMA EngineStep ==
  ASSUME [EngineNext]_<<bookVars, engineVars>>
  PROVE  [Next]_bookVars
<1> DEFINE Sent == [id : Ids, side : Sides, price : Prices \cup {0},
                    qty_remaining : Quantities \cup {0}, tif : TimesInForce]
<1>1. ASSUME NEW o \in Sent, Reject(o) PROVE UNCHANGED bookVars
  BY <1>1 DEF Reject
<1>2. ASSUME NEW o \in Sent, Submit(o) PROVE Next
  <2>1. AddLimitOrder(o) \/ KillFok(o)
    BY <1>2 DEF Submit
  <2>2. o \in [id : Ids, side : Sides, price : Prices,
               qty_remaining : Quantities, tif : TimesInForce]
    BY <1>2, ValidatedOrders DEF Submit
  <2> QED BY <2>1, <2>2, Zenon DEF Next
<1>3. CASE MatchIteration
  BY <1>3, Zenon DEF MatchIteration, Next
<1>4. CASE Added
  BY <1>4, Zenon DEF Added, Next
<1>5. CASE RecordTrade \/ CallbackReturns \/ CallbackThrows \/ Recorded \/ OnTrade
  BY <1>5, Zenon DEF RecordTrade, CallbackReturns, CallbackThrows, Recorded, OnTrade
<1>6. ASSUME NEW id \in Ids, EngineCancel(id) PROVE Next
  BY <1>6, Zenon DEF EngineCancel, Next
<1>7. CASE UNCHANGED <<bookVars, engineVars>>
  BY <1>7, Zenon
<1> QED BY <1>1, <1>2, <1>3, <1>4, <1>5, <1>6, <1>7, Zenon DEF EngineNext

LEMMA EngineInductive ==
  ASSUME EngineInv, [EngineNext]_<<bookVars, engineVars>>
  PROVE  EngineInv'
<1>1. [Next]_bookVars
  BY EngineStep
<1>2. IInv' /\ SumsInv'
  BY <1>1, Inductive, SumsStep DEF EngineInv
<1>3. PICK k \in Int : CountsTyped' /\ Balance' = Width * k + Balance
  BY EngineBalance DEF EngineInv
<1>4. Balance \in Int
  BY PartsTyped DEF EngineInv, Balance
<1>5. Balance' % Width = 0
  BY <1>3, <1>4, WidthType, ModSame DEF EngineInv
<1> QED
  BY <1>2, <1>3, <1>5 DEF EngineInv

(* Every lot the engine accepts rests, is in flight, was withdrawn or is on  *)
(* one side of a trade, and total_volume has each trade once, however deep   *)
(* the callbacks nest and wherever one throws (matching_engine.cpp:11-35).   *)
THEOREM NoLotLost == EngineSpec => []LotsConserved
<1>1. EngineInv => LotsConserved
  BY BalanceMeans DEF EngineInv
<1>2. EngineInv /\ [EngineNext]_<<bookVars, engineVars>> => EngineInv'
  BY EngineInductive
<1> QED
  BY <1>1, <1>2, EngineInitially, PTL DEF EngineSpec

(* The engine is an order book to its book: whatever the callbacks do, the   *)
(* calls add_limit_order and cancel never overlap (matching_engine.cpp:11-35).*)
THEOREM EngineImplementsBook == EngineSpec => Spec
<1>1. EngineInit => Init
  BY DEF EngineInit
<1> QED BY <1>1, EngineStep, PTL DEF EngineSpec, Spec

(* No trade callback, however it re-enters or fails, leaves the book crossed *)
(* (matching_engine.cpp:11-35, order_book.cpp:8-45).                         *)
THEOREM EngineNeverCrossed == EngineSpec => []NeverCrossed
BY EngineImplementsBook, BookNeverCrossed, PTL

(* A cancel from inside a trade callback never follows an index entry to an  *)
(* erased node (matching_engine.cpp:23-35, order_book.cpp:85-99).            *)
THEOREM EngineIndexSound == EngineSpec => []IndexSound
BY EngineImplementsBook, NoDanglingIterator, PTL
=============================================================================
