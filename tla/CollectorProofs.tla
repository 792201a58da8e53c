---------------------------- MODULE CollectorProofs ----------------------------
(***************************************************************************)
(* The collector's depth path for every set of prices and sizes: the C++    *)
(* mirror never trades and follows the local book level by level, the       *)
(* recorded rows rebuild the local book, and no cursor outlives its         *)
(* connection, whatever books the repairs leave.  The mirror is the hard    *)
(* part: `Twin' is what every mirror operation keeps, `ApplyWithin' that an *)
(* event leaves no level but with its local size, and `ApplyExact' that an  *)
(* event whose book does not cross clears nothing but what it names.        *)
(***************************************************************************)
EXTENDS Collector, FiniteSetTheorems, TLAPS

IInv ==
  /\ TypeOK
  /\ writtenGen <= generation /\ mirrorGen <= generation
  /\ EngineTwin
  /\ RecordedRebuildsBook
  /\ MirrorExact
  /\ CursorOfConnection

Events == [Sides -> [Prices -> Qtys \cup {0, -1}]]

SizeLots(size) == IF size > 0 THEN Lots(size) ELSE 0

Apart(b) == \A x, y \in Ticks : b["bid"][x] > 0 /\ b["ask"][y] > 0 => x < y

Twin(m) == m \in Mirrors /\ m.engine = m.levels /\ m.trades = 0 /\ Apart(m.levels)

(* Each of the levels is gone or has the book's size.                        *)
Within(levels, book) ==
  \A side \in Sides, t \in Ticks : levels[side][t] \in {0, LotsOfBook(book)[side][t]}

-----------------------------------------------------------------------------
(* Ticks and lots.                                                           *)
LEMMA TickFacts ==
  /\ Ticks \subseteq Int
  /\ \A p \in Prices : Tick[p] \in Ticks /\ (CHOOSE q \in Prices : Tick[q] = Tick[p]) = p
  /\ \A t \in Ticks : \E p \in Prices : t = Tick[p]
<1>1. \A p, q \in Prices : Tick[p] = Tick[q] => p = q
  BY MirrorAssumption
<1>2. \A p \in Prices : Tick[p] \in Ticks /\ (CHOOSE q \in Prices : Tick[q] = Tick[p]) = p
  <2> SUFFICES ASSUME NEW p \in Prices
               PROVE  Tick[p] \in Ticks /\ (CHOOSE q \in Prices : Tick[q] = Tick[p]) = p
    OBVIOUS
  <2> DEFINE c == CHOOSE q \in Prices : Tick[q] = Tick[p]
  <2>1. c \in Prices /\ Tick[c] = Tick[p]
    OBVIOUS
  <2> QED BY <1>1, <2>1 DEF Ticks
<1> QED BY <1>2, MirrorAssumption DEF Ticks

LEMMA LotsPositive ==
  ASSUME NEW qty \in Nat \ {0}
  PROVE  Lots(qty) \in Nat \ {0}
<1> DEFINE n == 2 * qty + LotUnits
           d == 2 * LotUnits
<1>1. n \in Int /\ d \in Int /\ d > 0
  BY MirrorAssumption
<1> HIDE DEF n, d
<1>2. n \div d \in Int
  BY <1>1
<1> QED BY <1>2 DEF Lots, n, d

(* The lots of an event, by price.                                           *)
LEMMA LotsFacts ==
  ASSUME NEW e \in Events, NEW side \in Sides
  PROVE  /\ LotsOf(e, side) \in [Ticks -> Nat]
         /\ \A p \in Prices :
              /\ LotsOf(e, side)[Tick[p]] = SizeLots(e[side][p])
              /\ LotsOf(e, side)[Tick[p]] > 0 <=> e[side][p] > 0
<1> DEFINE Price(t) == CHOOSE q \in Prices : Tick[q] = t
           At(p) == SizeLots(e[side][p])
<1>1. \A p \in Prices : e[side][p] > 0 => e[side][p] \in Nat \ {0}
  <2>1. \A p \in Prices : e[side][p] \in Qtys \/ e[side][p] = 0 \/ e[side][p] = -1
    <3>1. \A p \in Prices : e[side][p] \in Qtys \cup {0, -1}
      BY Zenon DEF Events
    <3> QED BY <3>1, Zenon
  <2>2. \A x : x \in Qtys => x \in Nat \ {0}
    BY MirrorAssumption, Zenon
  <2> QED BY <2>1, <2>2
<1>2. \A p \in Prices : At(p) \in Nat /\ (At(p) > 0 <=> e[side][p] > 0)
  BY <1>1, LotsPositive DEF SizeLots
<1>3. LotsOf(e, side) = [t \in Ticks |-> At(Price(t))]
  BY DEF LotsOf, SizeLots
<1>4. \A t \in Ticks : Price(t) \in Prices
  BY TickFacts
<1>5. \A p \in Prices : Tick[p] \in Ticks /\ Price(Tick[p]) = p
  BY TickFacts
<1> HIDE DEF Price, At
<1>6. \A p \in Prices : LotsOf(e, side)[Tick[p]] = At(p)
  BY <1>3, <1>5
<1> QED BY <1>2, <1>3, <1>4, <1>6 DEF At

-----------------------------------------------------------------------------
(* The mirror's operations.                                                  *)
LEMMA RemoveFacts ==
  ASSUME NEW m, Twin(m), NEW side \in Sides, NEW gone
  PROVE  /\ Twin(Remove(m, side, gone))
         /\ \A s \in Sides, t \in Ticks :
              Remove(m, side, gone).levels[s][t] =
                IF s = side /\ t \in gone THEN 0 ELSE m.levels[s][t]
<1> DEFINE l == m.levels
           Rest(b) == Without(b, side, gone)
<1>1. m \in Mirrors /\ m.engine = l /\ m.trades = 0 /\ Apart(l)
  BY DEF Twin
<1>2. l \in LotBooks
  BY <1>1 DEF Mirrors
<1>3. Remove(m, side, gone) = [levels |-> Rest(l), engine |-> Rest(l), trades |-> 0]
  BY <1>1 DEF Mirrors, Remove
<1> HIDE DEF l
<1>4. Rest(l) \in LotBooks
  BY <1>2 DEF LotBooks, Without
<1>5. \A s \in Sides, t \in Ticks :
        Rest(l)[s][t] = IF s = side /\ t \in gone THEN 0 ELSE l[s][t]
  BY <1>2 DEF LotBooks, Without
<1> HIDE DEF Rest
<1>6. Apart(Rest(l))
  <2>1. "bid" \in Sides /\ "ask" \in Sides
    BY DEF Sides
  <2> QED BY <1>1, <1>5, <2>1 DEF Apart, l
<1> QED BY <1>3, <1>4, <1>5, <1>6 DEF Twin, Mirrors, l

(* An insert trades with nothing, for the levels it crosses are gone first.  *)
LEMMA InsertFacts ==
  ASSUME NEW m, Twin(m), NEW side \in Sides, NEW lots \in [Ticks -> Nat]
  PROVE  /\ Twin(InsertSide(m, side, lots))
         /\ \A t \in Ticks :
              /\ InsertSide(m, side, lots).levels[side][t] =
                   IF lots[t] > 0 THEN lots[t] ELSE m.levels[side][t]
              /\ InsertSide(m, side, lots).levels[Other(side)][t] =
                   IF \E px \in Ticks : lots[px] > 0 /\ CrossesLevel(side, px, t)
                   THEN 0 ELSE m.levels[Other(side)][t]
<1> DEFINE other == Other(side)
           new == {t \in Ticks : lots[t] > 0}
           stale == {t \in Ticks : m.levels[other][t] > 0
                                   /\ \E px \in new : Stale(side, px, t)}
           c == Remove(m, other, stale)
           hit == {t \in Ticks : /\ c.engine[other][t] > 0
                                 /\ \E px \in new : CrossesLevel(side, px, t)}
           Put(b) == [b EXCEPT ![side] = [t \in Ticks |-> IF t \in new THEN lots[t] ELSE @[t]]]
           kept == Without(c.engine, other, hit)
           r == InsertSide(m, side, lots)
<1>1. r = [levels |-> Put(c.levels), engine |-> Put(kept),
           trades |-> m.trades + Cardinality(hit)]
  BY DEF InsertSide
<1>2. other \in Sides /\ other # side
  BY DEF Other, Sides
<1> HIDE DEF other
<1>3. /\ Twin(c)
      /\ \A s \in Sides, t \in Ticks :
           c.levels[s][t] = IF s = other /\ t \in stale THEN 0 ELSE m.levels[s][t]
  <2> HIDE DEF stale
  <2> QED BY <1>2, RemoveFacts DEF c
<1> HIDE DEF c
<1>4. c.levels \in LotBooks /\ m.levels \in LotBooks /\ c.engine = c.levels
  BY <1>3 DEF Twin, Mirrors
<1>5. \A t \in Ticks : c.levels[other][t] =
        IF \E px \in Ticks : lots[px] > 0 /\ CrossesLevel(side, px, t)
        THEN 0 ELSE m.levels[other][t]
  <2>1. \A t \in Ticks : m.levels[other][t] \in Nat
    BY <1>2, <1>4 DEF LotBooks
  <2> QED BY <1>2, <1>3, <2>1 DEF Stale
<1>6. hit = {}
  BY <1>4, <1>5
<1> HIDE DEF hit
<1>7. kept = c.levels
  BY <1>2, <1>4, <1>6 DEF LotBooks, Without
<1>8. m.trades + Cardinality(hit) = 0
  BY <1>6, FS_EmptySet DEF Twin
<1> HIDE DEF kept, r
<1>9. /\ Put(c.levels) \in LotBooks
      /\ \A t \in Ticks :
           /\ Put(c.levels)[side][t] = IF lots[t] > 0 THEN lots[t] ELSE c.levels[side][t]
           /\ Put(c.levels)[other][t] = c.levels[other][t]
  BY <1>2, <1>4 DEF LotBooks
<1> DEFINE out == Put(c.levels)
<1> HIDE DEF out
<1>10. /\ out \in LotBooks
       /\ \A t \in Ticks :
            /\ out[side][t] = IF lots[t] > 0 THEN lots[t] ELSE m.levels[side][t]
            /\ out[other][t] = IF \E px \in Ticks : lots[px] > 0 /\ CrossesLevel(side, px, t)
                               THEN 0 ELSE m.levels[other][t]
  BY <1>2, <1>3, <1>5, <1>9 DEF out
<1>11. Apart(out)
  <2>1. CASE side = "bid"
    BY <1>10, <2>1, TickFacts DEF Twin, Apart, Other, other, CrossesLevel
  <2>2. CASE side = "ask"
    BY <1>10, <2>2, TickFacts DEF Twin, Apart, Other, other, CrossesLevel
  <2> QED BY <2>1, <2>2 DEF Sides
<1>12. r = [levels |-> out, engine |-> out, trades |-> 0]
  BY <1>1, <1>7, <1>8 DEF out
<1> QED BY <1>10, <1>11, <1>12 DEF Twin, Mirrors, r, other

(* The levels an event names, of a side and then of both.                    *)
LEMMA NamedTicks ==
  ASSUME NEW e \in Events, NEW side \in Sides, NEW p \in Prices
  PROVE  Tick[p] \in TicksOf(e, side) <=> e[side][p] # -1
<1>1. \A q \in Prices : Tick[q] = Tick[p] => q = p
  BY MirrorAssumption
<1> QED BY <1>1 DEF TicksOf

LEMMA NamedRemoved ==
  ASSUME NEW m, Twin(m), NEW e \in Events
  PROVE  LET g == Remove(Remove(m, "bid", TicksOf(e, "bid")), "ask", TicksOf(e, "ask")) IN
         /\ Twin(g)
         /\ \A s \in Sides, p \in Prices :
              g.levels[s][Tick[p]] = IF e[s][p] # -1 THEN 0 ELSE m.levels[s][Tick[p]]
<1> DEFINE b == Remove(m, "bid", TicksOf(e, "bid"))
           g == Remove(b, "ask", TicksOf(e, "ask"))
<1>1. "bid" \in Sides /\ "ask" \in Sides /\ Sides = {"bid", "ask"}
  BY DEF Sides
<1>2. /\ Twin(b)
      /\ \A s \in Sides, t \in Ticks : b.levels[s][t] =
           IF s = "bid" /\ t \in TicksOf(e, "bid") THEN 0 ELSE m.levels[s][t]
  BY <1>1, RemoveFacts
<1> HIDE DEF b
<1>3. /\ Twin(g)
      /\ \A s \in Sides, t \in Ticks : g.levels[s][t] =
           IF s = "ask" /\ t \in TicksOf(e, "ask") THEN 0 ELSE b.levels[s][t]
  BY <1>1, <1>2, RemoveFacts
<1> HIDE DEF g
<1>4. ASSUME NEW s \in Sides, NEW p \in Prices
      PROVE  g.levels[s][Tick[p]] = IF e[s][p] # -1 THEN 0 ELSE m.levels[s][Tick[p]]
  <2>1. Tick[p] \in Ticks
    BY TickFacts
  <2>2. \A side \in Sides : Tick[p] \in TicksOf(e, side) <=> e[side][p] # -1
    BY NamedTicks
  <2> QED BY <1>1, <1>2, <1>3, <2>1, <2>2
<1> QED BY <1>3, <1>4 DEF g, b

LEMMA ApplyTwin ==
  ASSUME NEW m, Twin(m), NEW e \in Events
  PROVE  Twin(ApplyToMirror(m, e))
<1> DEFINE g == Remove(Remove(m, "bid", TicksOf(e, "bid")), "ask", TicksOf(e, "ask"))
           i == InsertSide(g, "bid", LotsOf(e, "bid"))
<1>1. "bid" \in Sides /\ "ask" \in Sides
  BY DEF Sides
<1>2. LotsOf(e, "bid") \in [Ticks -> Nat] /\ LotsOf(e, "ask") \in [Ticks -> Nat]
  BY <1>1, LotsFacts
<1>3. Twin(g)
  BY NamedRemoved
<1> HIDE DEF g
<1>4. Twin(i)
  BY <1>1, <1>2, <1>3, InsertFacts
<1> HIDE DEF i
<1>5. Twin(InsertSide(i, "ask", LotsOf(e, "ask")))
  BY <1>1, <1>2, <1>4, InsertFacts
<1> QED BY <1>5 DEF ApplyToMirror, g, i

(* The lots of a book, by price.                                             *)
LEMMA BookLots ==
  ASSUME NEW book \in LocalBooks, NEW s \in Sides, NEW p \in Prices
  PROVE  LotsOfBook(book)[s][Tick[p]] = SizeLots(book[s][p])
<1>1. book \in Events
  BY DEF LocalBooks, Events
<1>2. LotsOfBook(book)[s] = LotsOf(book, s)
  BY DEF LotsOfBook
<1> QED BY <1>1, <1>2, LotsFacts

(* Whatever the books, an event leaves no level with another size.           *)
LEMMA ApplyWithin ==
  ASSUME NEW m, Twin(m), NEW e \in Events, NEW book \in LocalBooks,
         Within(m.levels, book),
         NEW after \in LocalBooks, after = Apply(book, e)
  PROVE  Within(ApplyToMirror(m, e).levels, after)
<1> DEFINE g == Remove(Remove(m, "bid", TicksOf(e, "bid")), "ask", TicksOf(e, "ask"))
           bids == LotsOf(e, "bid")
           asks == LotsOf(e, "ask")
           i == InsertSide(g, "bid", bids)
           r == InsertSide(i, "ask", asks)
<1>1. "bid" \in Sides /\ "ask" \in Sides /\ Sides = {"bid", "ask"}
  BY DEF Sides
<1>2. /\ bids \in [Ticks -> Nat] /\ asks \in [Ticks -> Nat]
      /\ \A p \in Prices :
           /\ bids[Tick[p]] = SizeLots(e["bid"][p]) /\ (bids[Tick[p]] > 0 <=> e["bid"][p] > 0)
           /\ asks[Tick[p]] = SizeLots(e["ask"][p]) /\ (asks[Tick[p]] > 0 <=> e["ask"][p] > 0)
  BY <1>1, LotsFacts
<1>3. \A p \in Prices : Tick[p] \in Ticks
  BY TickFacts
<1>4. \A s \in Sides, p \in Prices : m.levels[s][Tick[p]] \in {0, SizeLots(book[s][p])}
  BY <1>3, BookLots DEF Within
<1>5. \A s \in Sides, p \in Prices :
        after[s][p] = IF e[s][p] = -1 THEN book[s][p] ELSE e[s][p]
  BY DEF Apply
<1>6. \A s \in Sides, p \in Prices : e[s][p] > 0 => e[s][p] # -1
  OBVIOUS
<1>7. /\ Twin(g)
      /\ \A s \in Sides, p \in Prices : g.levels[s][Tick[p]] =
           IF e[s][p] # -1 THEN 0 ELSE m.levels[s][Tick[p]]
  BY NamedRemoved
<1> HIDE DEF g, bids, asks
<1>8. /\ Twin(i)
      /\ \A t \in Ticks :
           /\ i.levels["bid"][t] = IF bids[t] > 0 THEN bids[t] ELSE g.levels["bid"][t]
           /\ i.levels["ask"][t] \in {0, g.levels["ask"][t]}
  BY <1>1, <1>2, <1>7, InsertFacts DEF Other
<1> HIDE DEF i
<1>9. /\ Twin(r)
      /\ \A t \in Ticks :
           /\ r.levels["ask"][t] = IF asks[t] > 0 THEN asks[t] ELSE i.levels["ask"][t]
           /\ r.levels["bid"][t] \in {0, i.levels["bid"][t]}
  BY <1>1, <1>2, <1>8, InsertFacts DEF Other
<1> HIDE DEF r
<1>10. \A s \in Sides, p \in Prices :
         /\ e[s][p] > 0 => SizeLots(after[s][p]) = SizeLots(e[s][p])
         /\ g.levels[s][Tick[p]] \in {0, SizeLots(after[s][p])}
  BY <1>4, <1>5, <1>6, <1>7
<1>11. \A p \in Prices : r.levels["bid"][Tick[p]] \in {0, SizeLots(after["bid"][p])}
  BY <1>1, <1>2, <1>3, <1>8, <1>9, <1>10
<1>12. \A p \in Prices : r.levels["ask"][Tick[p]] \in {0, SizeLots(after["ask"][p])}
  BY <1>1, <1>2, <1>3, <1>8, <1>9, <1>10
<1>13. Within(r.levels, after)
  BY <1>1, <1>11, <1>12, TickFacts, BookLots DEF Within
<1> QED BY <1>13 DEF ApplyToMirror, g, i, r, bids, asks

(* An event after which the local book does not cross leaves the mirror that *)
(* book: its inserts clear nothing.                                          *)
LEMMA ApplyExact ==
  ASSUME NEW m, Twin(m), NEW e \in Events, NEW book \in LocalBooks,
         m.levels = LotsOfBook(book),
         NEW after \in LocalBooks, after = Apply(book, e), Uncrossed(after)
  PROVE  ApplyToMirror(m, e).levels = LotsOfBook(after)
<1> DEFINE g == Remove(Remove(m, "bid", TicksOf(e, "bid")), "ask", TicksOf(e, "ask"))
           bids == LotsOf(e, "bid")
           asks == LotsOf(e, "ask")
           i == InsertSide(g, "bid", bids)
           r == InsertSide(i, "ask", asks)
<1>1. "bid" \in Sides /\ "ask" \in Sides /\ Sides = {"bid", "ask"}
  BY DEF Sides
<1>2. LocalBooks \subseteq Events
  BY DEF LocalBooks, Events
<1>3. /\ bids \in [Ticks -> Nat] /\ asks \in [Ticks -> Nat]
      /\ \A p \in Prices :
           /\ bids[Tick[p]] = SizeLots(e["bid"][p]) /\ (bids[Tick[p]] > 0 <=> e["bid"][p] > 0)
           /\ asks[Tick[p]] = SizeLots(e["ask"][p]) /\ (asks[Tick[p]] > 0 <=> e["ask"][p] > 0)
  BY <1>1, LotsFacts
<1>4. \A s \in Sides, p \in Prices :
        /\ m.levels[s][Tick[p]] = SizeLots(book[s][p])
        /\ LotsOfBook(after)[s][Tick[p]] = SizeLots(after[s][p])
  <2>1. \A s \in Sides : /\ LotsOfBook(book)[s] = LotsOf(book, s)
                        /\ LotsOfBook(after)[s] = LotsOf(after, s)
    BY DEF LotsOfBook
  <2> QED BY <1>2, <2>1, LotsFacts
<1>5. \A s \in Sides, p \in Prices :
        after[s][p] = IF e[s][p] = -1 THEN book[s][p] ELSE e[s][p]
  BY DEF Apply
<1>6. /\ Twin(g)
      /\ \A s \in Sides, p \in Prices : g.levels[s][Tick[p]] =
           IF e[s][p] # -1 THEN 0 ELSE SizeLots(book[s][p])
  BY <1>4, NamedRemoved
<1> HIDE DEF g, bids, asks
<1>7. /\ Twin(i)
      /\ \A t \in Ticks :
           /\ i.levels["bid"][t] = IF bids[t] > 0 THEN bids[t] ELSE g.levels["bid"][t]
           /\ i.levels["ask"][t] = IF \E px \in Ticks : bids[px] > 0 /\ t <= px
                                   THEN 0 ELSE g.levels["ask"][t]
  BY <1>1, <1>3, <1>6, InsertFacts DEF Other, CrossesLevel
<1> HIDE DEF i
<1>8. /\ Twin(r)
      /\ \A t \in Ticks :
           /\ r.levels["ask"][t] = IF asks[t] > 0 THEN asks[t] ELSE i.levels["ask"][t]
           /\ r.levels["bid"][t] = IF \E px \in Ticks : asks[px] > 0 /\ t >= px
                                   THEN 0 ELSE i.levels["bid"][t]
  BY <1>1, <1>3, <1>7, InsertFacts DEF Other, CrossesLevel
<1> HIDE DEF r
<1>9. \A s \in Sides, p \in Prices :
        /\ after[s][p] \in Nat /\ (SizeLots(after[s][p]) > 0 <=> after[s][p] > 0)
        /\ SizeLots(after[s][p]) \in Nat
  <2>1. \A s \in Sides, p \in Prices : after[s][p] \in Nat
    <3>1. \A s \in Sides, p \in Prices : after[s][p] \in Qtys \cup {0}
      BY Zenon DEF LocalBooks
    <3>2. Qtys \cup {0} \subseteq Nat
      BY MirrorAssumption
    <3> QED BY <3>1, <3>2, Zenon
  <2> QED BY <2>1, LotsPositive DEF SizeLots
<1>10. \A p, q \in Prices : after["bid"][p] > 0 /\ after["ask"][q] > 0 => Tick[p] < Tick[q]
  BY MirrorAssumption DEF Uncrossed
<1>11. \A p \in Prices : Tick[p] \in Ticks /\ Tick[p] \in Int
  BY TickFacts
<1>12. \A p \in Prices : i.levels["bid"][Tick[p]] = SizeLots(after["bid"][p])
  BY <1>1, <1>3, <1>5, <1>6, <1>7, <1>11 DEF SizeLots
<1>13. \A p \in Prices : i.levels["ask"][Tick[p]] = g.levels["ask"][Tick[p]]
  <2> SUFFICES ASSUME NEW p \in Prices, g.levels["ask"][Tick[p]] # 0,
                      NEW px \in Ticks, bids[px] > 0, Tick[p] <= px
               PROVE  FALSE
    BY <1>7, <1>11
  <2>1. PICK q \in Prices : px = Tick[q]
    BY TickFacts
  <2>2. after["bid"][q] > 0
    BY <1>1, <1>3, <1>5, <2>1
  <2>3. after["ask"][p] > 0
    BY <1>1, <1>5, <1>6, <1>9
  <2> QED BY <1>10, <1>11, <2>1, <2>2, <2>3
<1>14. \A p \in Prices : r.levels["ask"][Tick[p]] = SizeLots(after["ask"][p])
  BY <1>1, <1>3, <1>5, <1>6, <1>8, <1>11, <1>13 DEF SizeLots
<1>15. \A p \in Prices : r.levels["bid"][Tick[p]] = i.levels["bid"][Tick[p]]
  <2> SUFFICES ASSUME NEW p \in Prices, i.levels["bid"][Tick[p]] # 0,
                      NEW px \in Ticks, asks[px] > 0, Tick[p] >= px
               PROVE  FALSE
    BY <1>8, <1>11
  <2>1. PICK q \in Prices : px = Tick[q]
    BY TickFacts
  <2>2. after["ask"][q] > 0
    BY <1>1, <1>3, <1>5, <2>1
  <2>3. after["bid"][p] > 0
    BY <1>1, <1>9, <1>12
  <2> QED BY <1>10, <1>11, <2>1, <2>2, <2>3
<1>16. r.levels = LotsOfBook(after)
  <2>1. r.levels \in LotBooks /\ LotsOfBook(after) \in LotBooks
    BY <1>1, <1>2, <1>8, LotsFacts DEF Twin, Mirrors, LotBooks, LotsOfBook
  <2>2. \A s \in Sides, t \in Ticks : r.levels[s][t] = LotsOfBook(after)[s][t]
    BY <1>1, <1>4, <1>12, <1>14, <1>15, TickFacts
  <2> DEFINE x == r.levels
             y == LotsOfBook(after)
  <2> HIDE DEF x, y
  <2>3. x \in LotBooks /\ y \in LotBooks /\ \A s \in Sides, t \in Ticks : x[s][t] = y[s][t]
    BY <2>1, <2>2 DEF x, y
  <2>4. x = y
    BY <2>3 DEF LotBooks
  <2> QED BY <2>4 DEF x, y
<1> QED BY <1>16 DEF ApplyToMirror, g, i, r, bids, asks

(* A sync reloads the mirror: what it holds no longer matters.               *)
LEMMA LoadFacts ==
  ASSUME NEW m, Twin(m), NEW book \in LocalBooks
  PROVE  /\ Twin(LoadSnapshot(m, book))
         /\ Within(LoadSnapshot(m, book).levels, book)
         /\ Uncrossed(book) => LoadSnapshot(m, book).levels = LotsOfBook(book)
<1> DEFINE n == [NewMirror EXCEPT !.trades = m.trades]
<1>1. n = [levels |-> NoLots, engine |-> NoLots, trades |-> 0]
  BY DEF Twin, NewMirror
<1>2. NoLots \in LotBooks /\ \A s \in Sides, t \in Ticks : NoLots[s][t] = 0
  BY DEF NoLots, LotBooks
<1> HIDE DEF n
<1>3. Twin(n)
  <2>1. Apart(NoLots)
    BY <1>2 DEF Apart, Sides
  <2> QED BY <1>1, <1>2, <2>1 DEF Twin, Mirrors
<1>4. book \in Events
  BY DEF LocalBooks, Events
<1>5. EmptyLocal \in LocalBooks /\ EmptyLocal \in Events
  BY DEF LocalBooks, Events, EmptyLocal
<1>6. n.levels = LotsOfBook(EmptyLocal)
  <2>1. \A s \in Sides, p \in Prices : EmptyLocal[s][p] = 0
    BY DEF EmptyLocal
  <2>2. \A s \in Sides : LotsOf(EmptyLocal, s) = [t \in Ticks |-> 0]
    BY <2>1, TickFacts DEF LotsOf
  <2> QED BY <1>1, <2>2 DEF LotsOfBook, NoLots
<1>7. Apply(EmptyLocal, book) = book
  <2>1. \A s \in Sides, p \in Prices : book[s][p] # -1
    <3>1. \A s \in Sides, p \in Prices : book[s][p] \in Qtys \cup {0}
      BY Zenon DEF LocalBooks
    <3>2. \A x \in Qtys \cup {0} : x # -1
      BY MirrorAssumption
    <3> QED BY <3>1, <3>2, Zenon
  <2>2. Apply(EmptyLocal, book) = [s \in Sides |-> [p \in Prices |-> book[s][p]]]
    BY <2>1 DEF Apply
  <2> QED BY <2>2 DEF LocalBooks
<1>8. LoadSnapshot(m, book) = ApplyToMirror(n, book)
  BY DEF LoadSnapshot, n
<1>9. Within(n.levels, EmptyLocal)
  BY <1>6 DEF Within
<1> QED BY <1>3, <1>4, <1>5, <1>6, <1>7, <1>8, <1>9, ApplyTwin, ApplyWithin, ApplyExact

-----------------------------------------------------------------------------
(* Books and events.                                                         *)
LEMMA ApplyTyped ==
  ASSUME NEW book \in LocalBooks, NEW e \in Events
  PROVE  Apply(book, e) \in LocalBooks /\ Apply(Apply(book, e), e) = Apply(book, e)
<1>1. \A s \in Sides, p \in Prices :
        book[s][p] \in Qtys \cup {0} /\ (e[s][p] = -1 \/ e[s][p] \in Qtys \cup {0})
  <2>1. \A s \in Sides, p \in Prices :
          book[s][p] \in Qtys \cup {0} /\ e[s][p] \in Qtys \cup {0, -1}
    BY Zenon DEF LocalBooks, Events
  <2> QED BY <2>1, Zenon
<1>2. \A s \in Sides, p \in Prices : Apply(book, e)[s][p] \in Qtys \cup {0}
  BY <1>1 DEF Apply
<1>3. Apply(book, e) \in LocalBooks
  BY <1>1 DEF Apply, LocalBooks
<1>4. Apply(Apply(book, e), e) = Apply(book, e)
  BY DEF Apply
<1> QED BY <1>3, <1>4

LEMMA EventsTyped ==
  ASSUME NEW e \in ExchangeEvents
  PROVE  e \in Events
<1>1. PICK c \in LevelSets : \E sizes \in [c -> Qtys \cup {0}] : e = EventFor(sizes)
  BY Zenon DEF ExchangeEvents
<1>2. PICK sizes \in [c -> Qtys \cup {0}] : e = EventFor(sizes)
  BY <1>1
<1>3. \A s \in Sides, p \in Prices :
        (IF <<s, p>> \in DOMAIN sizes THEN sizes[<<s, p>>] ELSE -1) \in Qtys \cup {0, -1}
  BY <1>2
<1>4. EventFor(sizes) \in Events
  BY <1>3 DEF EventFor, Events
<1> QED BY <1>2, <1>4

LEMMA EmptyTyped == EmptyLocal \in LocalBooks
BY DEF EmptyLocal, LocalBooks

LEMMA RowsTyped ==
  ASSUME NEW book \in LocalBooks
  PROVE  Rows(book) \in Events
<1>1. \A s \in Sides, p \in Prices : book[s][p] \in Qtys \cup {0}
  BY Zenon DEF LocalBooks
<1> QED BY <1>1 DEF Rows, Events

-----------------------------------------------------------------------------
(* The steps.  The client's loop keeps its types, whatever it does.          *)
LinkTyped ==
  /\ link \in {"connecting", "open", "sleeping", "ended"}
  /\ backoff \in 1 .. MaxBackoff /\ stopped \in BOOLEAN

LEMMA ClientTyped ==
  ASSUME IInv,
         Opened \/ OpenFails \/ Breaks \/ EndsCleanly \/ Wake \/ StopClient \/ UNCHANGED wsVars
  PROVE  LinkTyped'
<1>1. LinkTyped /\ 1 \in 1 .. MaxBackoff
  BY BackoffAssumption DEF IInv, TypeOK, LinkTyped
<1>2. CASE Opened
  BY <1>1, <1>2 DEF LinkTyped, Opened
<1>3. CASE OpenFails \/ Breaks \/ EndsCleanly
  BY <1>1, <1>3 DEF LinkTyped, OpenFails, Breaks, EndsCleanly, BackOff
<1>4. CASE Wake
  BY <1>1, <1>4, BackoffAssumption DEF LinkTyped, Wake
<1>5. CASE StopClient \/ UNCHANGED wsVars
  BY <1>1, <1>5 DEF LinkTyped, StopClient, wsVars
<1> QED BY <1>2, <1>3, <1>4, <1>5

(* So does the exchange, and the sizes seen are sizes.                       *)
ExchangeTyped ==
  /\ exchange \in LocalBooks
  /\ seen \in [Sides -> [Prices -> SUBSET (Qtys \cup {0})]]
  /\ events \in 0 .. MaxEvents /\ losses \in 0 .. MaxLosses

(* While the manager has no book, nothing is promised of the sinks but what  *)
(* holds of the mirror itself.                                               *)
LEMMA UnsyncedKeeps ==
  ASSUME IInv, LinkTyped', ExchangeTyped', synced' = FALSE, local' \in LocalBooks,
         recorded' \in LocalBooks, captured' \in LocalBooks,
         cursor' \in Cursors, fresh' \in BOOLEAN,
         generation' = generation, writtenGen' \in 0 .. generation,
         UNCHANGED <<mirror, mirrorGen, clean>>
  PROVE  IInv'
<1>1. {generation, mirrorGen, writtenGen}' \subseteq 0 .. MaxSyncs
  BY CollectorAssumption DEF IInv, TypeOK
<1>2. TypeOK'
  BY <1>1 DEF IInv, TypeOK, LinkTyped, ExchangeTyped
<1>3. EngineTwin'
  BY DEF IInv, EngineTwin
<1>4. writtenGen' <= generation' /\ mirrorGen' <= generation'
  BY DEF IInv, TypeOK
<1> QED BY <1>2, <1>3, <1>4 DEF IInv, RecordedRebuildsBook, MirrorExact, CursorOfConnection

(* The connection comes, goes or waits, and nothing else happens.            *)
LEMMA ClientKeeps ==
  ASSUME IInv, LinkTyped', UNCHANGED <<depthVars, sinkVars, exchangeVars>>,
         link = "ended" => link' = "ended"
  PROVE  IInv'
<1> USE DEF depthVars, sinkVars, exchangeVars
<1>1. TypeOK'
  BY DEF IInv, TypeOK, LinkTyped
<1>2. EngineTwin' /\ RecordedRebuildsBook' /\ MirrorExact'
  BY DEF IInv, EngineTwin, RecordedRebuildsBook, MirrorExact
<1>3. CursorOfConnection'
  BY DEF IInv, CursorOfConnection, LinkTyped
<1> QED BY <1>1, <1>2, <1>3 DEF IInv

LEMMA SyncKeeps ==
  ASSUME IInv, SyncCompletes
  PROVE  IInv'
<1> USE DEF sinkVars, wsVars, exchangeVars, SyncCompletes
<1>1. generation \in Nat /\ mirrorGen <= generation /\ writtenGen <= generation
      /\ mirrorGen \in Nat /\ writtenGen \in Nat /\ generation' \in 0 .. MaxSyncs
  BY CollectorAssumption DEF IInv, TypeOK
<1>2. TypeOK'
  <2>1. {generation, mirrorGen, writtenGen}' \subseteq 0 .. MaxSyncs
    BY <1>1, CollectorAssumption
  <2> QED BY <2>1 DEF IInv, TypeOK
<1>3. writtenGen' < generation' /\ mirrorGen' < generation'
  BY <1>1
<1>4. EngineTwin'
  BY DEF IInv, EngineTwin
<1>5. RecordedRebuildsBook' /\ MirrorExact' /\ CursorOfConnection'
  BY <1>1, <1>3 DEF RecordedRebuildsBook, MirrorExact, CursorOfConnection
<1> QED BY <1>1, <1>2, <1>3, <1>4, <1>5 DEF IInv

LEMMA EventTyped ==
  ASSUME IInv, NEW e \in ExchangeEvents, Moves(e), losses' \in 0 .. MaxLosses
  PROVE  e \in Events /\ ExchangeTyped'
<1>1. e \in Events /\ exchange' \in LocalBooks
  BY EventsTyped, ApplyTyped DEF IInv, TypeOK, Moves
<1>2. \A side \in Sides, p \in Prices : exchange'[side][p] \in Qtys \cup {0}
  BY <1>1, Zenon DEF LocalBooks
<1>3. \A side \in Sides, p \in Prices :
        seen[side][p] \cup {exchange'[side][p]} \in SUBSET (Qtys \cup {0})
  BY <1>2 DEF IInv, TypeOK
<1>4. seen' \in [Sides -> [Prices -> SUBSET (Qtys \cup {0})]]
  BY <1>3 DEF Moves
<1>5. events' \in 0 .. MaxEvents
  BY CollectorAssumption DEF IInv, TypeOK, Moves
<1> QED BY <1>1, <1>4, <1>5 DEF ExchangeTyped

LEMMA LossKeeps ==
  ASSUME IInv, EventLost
  PROVE  IInv'
<1> USE DEF sinkVars, wsVars
<1>1. losses' \in 0 .. MaxLosses /\ cursor' \in Cursors
  BY CollectorAssumption DEF IInv, TypeOK, EventLost, Cursors
<1>2. ExchangeTyped'
  BY <1>1, EventTyped DEF EventLost
<1>3. TypeOK'
  BY <1>1, <1>2 DEF IInv, TypeOK, EventLost, ExchangeTyped
<1>4. EngineTwin' /\ RecordedRebuildsBook' /\ MirrorExact' /\ CursorOfConnection'
  BY DEF IInv, EventLost, EngineTwin, RecordedRebuildsBook, MirrorExact, CursorOfConnection
<1> QED BY <1>3, <1>4 DEF IInv, EventLost

(* An event the manager applies reaches the depth file and the mirror.       *)
LEMMA AppliedKeeps ==
  ASSUME IInv, NEW e \in ExchangeEvents, Moves(e), synced,
         local' = Apply(local, e), cursor' = "next", Distribute(e),
         UNCHANGED <<wsVars, synced, generation, fresh, losses>>
  PROVE  IInv'
<1> USE DEF wsVars
<1>1. e \in Events /\ ExchangeTyped'
  BY EventTyped DEF IInv, TypeOK
<1>2. /\ local \in LocalBooks /\ recorded \in LocalBooks /\ captured \in LocalBooks
      /\ generation \in Nat /\ mirrorGen \in Nat /\ writtenGen \in Nat
      /\ generation \in 0 .. MaxSyncs
  BY CollectorAssumption DEF IInv, TypeOK
<1>3. local' \in LocalBooks /\ Apply(local', e) = local'
  BY <1>1, <1>2, ApplyTyped
<1>4. Twin(mirror)
  BY DEF IInv, TypeOK, EngineTwin, Twin, Apart
<1>5. /\ clean' \in BOOLEAN
      /\ clean' => Uncrossed(local')
      /\ clean' /\ ~Outdated(mirrorGen) => clean
  BY DEF Distribute, IInv, TypeOK
<1>6. /\ Twin(mirror') /\ Within(mirror'.levels, local')
      /\ clean' => mirror'.levels = LotsOfBook(local')
  <2>1. CASE Outdated(mirrorGen)
    <3>1. mirror' = LoadSnapshot(mirror, local')
      BY <2>1 DEF Distribute, MirrorAfter
    <3> QED BY <1>3, <1>4, <1>5, <3>1, LoadFacts
  <2>2. CASE ~Outdated(mirrorGen)
    <3>1. mirror' = ApplyToMirror(mirror, e) /\ mirrorGen = generation
      BY <1>2, <2>2 DEF Distribute, MirrorAfter, Outdated, IInv
    <3>2. Within(mirror.levels, local) /\ (clean => mirror.levels = LotsOfBook(local))
      BY <3>1 DEF IInv, MirrorExact, Within
    <3>3. Twin(mirror') /\ Within(mirror'.levels, local')
      BY <1>1, <1>2, <1>3, <1>4, <3>1, <3>2, ApplyTwin, ApplyWithin
    <3>4. clean' => mirror'.levels = LotsOfBook(local')
      BY <1>1, <1>2, <1>3, <1>4, <1>5, <2>2, <3>1, <3>2, ApplyExact
    <3> QED BY <3>3, <3>4
  <2> QED BY <2>1, <2>2
<1>7. recorded' = local'
  <2>1. CASE Outdated(writtenGen)
    BY <1>3, <2>1 DEF Distribute, Baseline
  <2>2. CASE ~Outdated(writtenGen)
    <3>1. recorded = local
      BY <1>2, <2>2 DEF IInv, RecordedRebuildsBook, Outdated
    <3> QED BY <2>2, <3>1 DEF Distribute, Baseline
  <2> QED BY <2>1, <2>2
<1>8. captured' \in LocalBooks
  <2>1. Rows(local') \in Events
    BY <1>3, RowsTyped
  <2>2. Apply(captured, Rows(local')) \in LocalBooks
    BY <1>2, <2>1, ApplyTyped
  <2>3. captured' = Apply(IF Baseline(writtenGen) THEN Apply(captured, Rows(local')) ELSE captured, e)
    BY DEF Distribute, CaptureAfter
  <2> QED BY <1>1, <1>2, <2>2, <2>3, ApplyTyped
<1>9. generation' = generation /\ mirrorGen' = generation /\ writtenGen' = generation
  BY DEF Distribute
<1>10. TypeOK'
  <2>1. mirror' \in Mirrors
    BY <1>6 DEF Twin
  <2>2. {generation, mirrorGen, writtenGen}' \subseteq 0 .. MaxSyncs
    BY <1>2, <1>9
  <2> QED BY <1>1, <1>3, <1>5, <1>7, <1>8, <2>1, <2>2 DEF IInv, TypeOK, ExchangeTyped, Cursors
<1>11. EngineTwin'
  BY <1>6 DEF EngineTwin, Twin, Apart
<1>12. RecordedRebuildsBook' /\ MirrorExact' /\ CursorOfConnection'
  BY <1>6, <1>7 DEF IInv, RecordedRebuildsBook, MirrorExact, CursorOfConnection, Within
<1> QED BY <1>2, <1>9, <1>10, <1>11, <1>12 DEF IInv

(* A writer raises before or after its file has the event's baseline.        *)
LEMMA RaiseKeeps ==
  ASSUME IInv, NEW e \in ExchangeEvents, Moves(e), WriterRaises(e), losses' = losses
  PROVE  IInv'
<1>1. e \in Events /\ ExchangeTyped'
  BY EventTyped DEF IInv, TypeOK
<1>2. LinkTyped'
  BY ClientTyped DEF WriterRaises
<1>3. Apply(local, e) \in LocalBooks
  BY <1>1, ApplyTyped DEF IInv, TypeOK
<1>4. Apply(captured, Rows(Apply(local, e))) \in LocalBooks
  BY <1>3, RowsTyped, ApplyTyped DEF IInv, TypeOK
<1>5. /\ recorded' \in LocalBooks /\ captured' \in LocalBooks
      /\ writtenGen' = writtenGen \/ writtenGen' = generation
  BY <1>3, <1>4 DEF WriterRaises, IInv, TypeOK
<1>6. writtenGen' \in 0 .. generation
  BY <1>5, CollectorAssumption DEF IInv, TypeOK
<1> QED BY <1>1, <1>2, <1>5, <1>6, EmptyTyped, UnsyncedKeeps
        DEF WriterRaises, OnDisconnect, IInv, TypeOK, Cursors

LEMMA HandleKeeps ==
  ASSUME IInv, HandleDepth
  PROVE  IInv'
<1>1. PICK e \in ExchangeEvents :
        /\ Moves(e) /\ losses' = losses
        /\ \/ /\ ~synced
              /\ UNCHANGED <<wsVars, depthVars, sinkVars>>
           \/ /\ synced /\ Gap
              /\ synced' = FALSE /\ cursor' = "none"
              /\ UNCHANGED <<wsVars, local, generation, fresh, sinkVars>>
           \/ /\ synced /\ ~Gap
              /\ local' = Apply(local, e)
              /\ cursor' = "next"
              /\ Distribute(e)
              /\ UNCHANGED <<wsVars, synced, generation, fresh>>
           \/ synced /\ ~Gap /\ WriterRaises(e)
  BY Zenon DEF HandleDepth
<1>2. ExchangeTyped'
  BY <1>1, EventTyped DEF IInv, TypeOK
<1>3. writtenGen \in 0 .. generation
  BY CollectorAssumption DEF IInv, TypeOK
<1>4. CASE ~synced /\ UNCHANGED <<wsVars, depthVars, sinkVars>>
  <2>1. LinkTyped'
    BY <1>4, ClientTyped
  <2> QED BY <1>1, <1>2, <1>3, <1>4, <2>1, UnsyncedKeeps DEF depthVars, sinkVars, IInv, TypeOK
<1>5. CASE /\ synced' = FALSE /\ cursor' = "none"
           /\ UNCHANGED <<wsVars, local, generation, fresh, sinkVars>>
  <2>1. LinkTyped'
    BY <1>5, ClientTyped
  <2> QED BY <1>1, <1>2, <1>3, <1>5, <2>1, UnsyncedKeeps DEF sinkVars, IInv, TypeOK, Cursors
<1>6. CASE /\ synced /\ ~Gap
           /\ local' = Apply(local, e)
           /\ cursor' = "next"
           /\ Distribute(e)
           /\ UNCHANGED <<wsVars, synced, generation, fresh>>
  BY <1>1, <1>6, AppliedKeeps
<1>7. CASE WriterRaises(e)
  BY <1>1, <1>7, RaiseKeeps
<1> QED BY <1>1, <1>4, <1>5, <1>6, <1>7

LEMMA DropKeeps ==
  ASSUME IInv, OpenFails \/ Breaks \/ EndsCleanly, OnDisconnect,
         UNCHANGED <<sinkVars, exchangeVars>>
  PROVE  IInv'
<1>1. LinkTyped'
  BY ClientTyped
<1>2. writtenGen \in 0 .. generation
  BY CollectorAssumption DEF IInv, TypeOK
<1>3. ExchangeTyped'
  BY DEF IInv, TypeOK, exchangeVars, ExchangeTyped
<1> QED BY <1>1, <1>2, <1>3, EmptyTyped, UnsyncedKeeps
        DEF OnDisconnect, sinkVars, IInv, TypeOK, Cursors

-----------------------------------------------------------------------------
LEMMA Initially == Init => IInv
<1> SUFFICES ASSUME Init PROVE IInv
  OBVIOUS
<1>1. Twin(mirror)
  <2>1. NoLots \in LotBooks /\ \A s \in Sides, t \in Ticks : NoLots[s][t] = 0
    BY DEF NoLots, LotBooks
  <2>2. Apart(NoLots)
    BY <2>1 DEF Apart, Sides
  <2> QED BY <2>1, <2>2 DEF Init, NewMirror, Twin, Mirrors
<1>2. LinkTyped
  <2>1. 1 \in 1 .. MaxBackoff
    BY BackoffAssumption
  <2> QED BY <2>1 DEF Init, WsInit, LinkTyped
<1>3. TypeOK
  <2>1. {generation, mirrorGen, writtenGen} \subseteq 0 .. MaxSyncs
    BY CollectorAssumption DEF Init
  <2>2. events \in 0 .. MaxEvents /\ losses \in 0 .. MaxLosses
    BY CollectorAssumption DEF Init
  <2>3. seen \in [Sides -> [Prices -> SUBSET (Qtys \cup {0})]]
    BY DEF Init
  <2> QED BY <1>1, <1>2, <2>1, <2>2, <2>3, EmptyTyped DEF Init, TypeOK, LinkTyped, Twin, Cursors
<1>4. EngineTwin
  BY <1>1 DEF EngineTwin, Twin, Apart
<1> QED BY <1>3, <1>4, EmptyTyped
        DEF Init, IInv, RecordedRebuildsBook, MirrorExact, CursorOfConnection

(* Every message, repair, disconnect and failing writer.                     *)
LEMMA Inductive == IInv /\ [Next]_collectorVars => IInv'
<1> SUFFICES ASSUME IInv, [Next]_collectorVars PROVE IInv'
  OBVIOUS
<1>1. CASE Connect
  BY <1>1, ClientTyped, ClientKeeps DEF Connect, Opened
<1>2. CASE ConnectFails
  BY <1>2, DropKeeps DEF ConnectFails
<1>3. CASE ConnectionBreaks
  BY <1>3, DropKeeps DEF ConnectionBreaks
<1>4. CASE ConnectionEnds
  <2>1. CASE stopped
    BY <1>4, <2>1, ClientTyped, ClientKeeps DEF ConnectionEnds, EndsCleanly
  <2>2. CASE ~stopped
    BY <1>4, <2>2, DropKeeps DEF ConnectionEnds
  <2> QED BY <2>1, <2>2
<1>5. CASE Reconnect
  BY <1>5, ClientTyped, ClientKeeps DEF Reconnect, Wake
<1>6. CASE Stop
  BY <1>6, ClientTyped, ClientKeeps DEF Stop, StopClient
<1>7. CASE SyncCompletes
  BY <1>7, SyncKeeps
<1>8. CASE EventLost
  BY <1>8, LossKeeps
<1>9. CASE HandleDepth
  BY <1>9, HandleKeeps
<1>10. CASE UNCHANGED collectorVars
  BY <1>10, ClientTyped, ClientKeeps DEF collectorVars, wsVars
<1> QED BY <1>1, <1>2, <1>3, <1>4, <1>5, <1>6, <1>7, <1>8, <1>9, <1>10 DEF Next

LEMMA Invariance == Spec => []IInv
BY Initially, Inductive, PTL DEF Spec

(* Books, mirror, client and counters keep their types: sizes and lots stay  *)
(* naturals through every update, repair and disconnect.                     *)
THEOREM TypeCorrect == Spec => []TypeOK
<1>1. IInv => TypeOK
  BY DEF IInv
<1> QED BY <1>1, Invariance, PTL

(* For every grid of prices, lot size and event: the C++ mirror holds one    *)
(* order per level the bridge knows, never crosses and never trades          *)
(* (engine_mirror.py:7-11), also after lost events and failed writers.       *)
THEOREM MirrorNeverTrades == Spec => []EngineTwin
<1>1. IInv => EngineTwin
  BY DEF IInv
<1> QED BY <1>1, Invariance, PTL

(* Whatever book a repair leaves, each level of the mirror has the size of   *)
(* the local one; the mirror is the local book when that has not crossed     *)
(* since the last load (engine_mirror.py:3-12, collector.py:322-335).        *)
THEOREM MirrorIsLocalBook == Spec => []MirrorExact
<1>1. IInv => MirrorExact
  BY DEF IInv
<1> QED BY <1>1, Invariance, PTL

(* The last baseline and the rows after it rebuild the local book            *)
(* (collector.py:288-320).                                                   *)
THEOREM RowsRebuildBook == Spec => []RecordedRebuildsBook
<1>1. IInv => RecordedRebuildsBook
  BY DEF IInv
<1> QED BY <1>1, Invariance, PTL

(* A synced book was synced after the last connection was lost               *)
(* (binance_ws_client.py:107-131, collector.py:258-262).                     *)
THEOREM CursorNeverOutlives == Spec => []CursorOfConnection
<1>1. IInv => CursorOfConnection
  BY DEF IInv
<1> QED BY <1>1, Invariance, PTL
=============================================================================
