------------------------------- MODULE LiveProofs ------------------------------
(***************************************************************************)
(* What a recorded session gives when it is replayed, for every number of   *)
(* events, refits, failed calibrations and fits.  The log and the engines   *)
(* move together: replaying the log gives the live engines up to what a     *)
(* calibration that failed left in the Hawkes parameters, and exactly once  *)
(* trading has started (Agree); every prefix of the log has recorded no     *)
(* more than it replays to (Faithful).  The orders that count at the        *)
(* parameters end the market orders of the log, and the engine knows the    *)
(* last trade of it, so that it counts each order once (Counted, Excited).  *)
(* A backtest sees the events in the order of the recording: the merge      *)
(* weaves the two streams by their times, no other weaving is possible when *)
(* times only grow, and the live order is one (Woven).                      *)
(***************************************************************************)
EXTENDS LiveBacktest, FoldLemmas

Feeds == [features : FeatureStates, sim : Sims \cup {None}]

(* What the log alone says of the features before the first calibration.     *)
Shares(f, g) ==
  /\ f.top = g.top /\ f.lastTs = g.lastTs /\ f.vol = g.vol
  /\ f.lastOrder = g.lastOrder /\ f.events = g.events

Agree(e, g) ==
  /\ e.sim = g.sim /\ Shares(e.features, g.features)
  /\ g.sim # None => e = g

-----------------------------------------------------------------------------
(* The engines keep their types.                                             *)
LEMMA Constants ==
  /\ Interval \in Nat /\ RoundTrip \in Nat /\ MaxTs \in Nat /\ History \in Nat \ {0}
  /\ SampleMs \in Nat \ {0}
  /\ None \notin Sims /\ None \notin Tops /\ None \notin FeatureStates
  /\ Window \in [Params \cup {Default} -> Nat]
BY LiveAssumption, FeaturesAssumption DEF LiveAssumption, FeaturesAssumption

LEMMA FeedBookType ==
  ASSUME NEW f \in FeatureStates, NEW ts \in Nat, NEW top \in Tops
  PROVE  /\ FeedBook(f, ts, top) \in FeatureStates
         /\ FeedBook(f, ts, top).lastTs = ts
         /\ FeedBook(f, ts, top).params = f.params
         /\ FeedBook(f, ts, top).heat = f.heat /\ FeedBook(f, ts, top).events = f.events
<1> DEFINE v == IF top \in CrossedTops THEN f.vol ELSE Append(f.vol, <<ts, top>>)
<1>1. v \in Seq(Nat \X Tops)
  <2>1. f.vol \in Seq(Nat \X Tops) /\ <<ts, top>> \in Nat \X Tops
    BY DEF FeatureStates
  <2> QED
    BY <2>1, AppendProperties
<1>2. FeedBook(f, ts, top) = [f EXCEPT !.top = top, !.lastTs = ts, !.vol = v]
  BY DEF FeedBook, FeatureStates
<1> HIDE DEF v
<1> QED
  BY <1>1, <1>2 DEF FeatureStates

LEMMA PushedType ==
  ASSUME NEW q \in Seq(Nat), NEW ts \in Nat
  PROVE  /\ Pushed(q, ts) \in Seq(Nat)
         /\ \/ Pushed(q, ts) = Append(q, ts)
            \/ q # <<>> /\ Pushed(q, ts) = Append(Tail(q), ts)
<1>1. CASE Len(q) < History
  <2>1. Pushed(q, ts) = Append(q, ts)
    BY <1>1 DEF Pushed
  <2> QED
    BY <2>1, AppendProperties
<1>2. CASE ~(Len(q) < History)
  <2>1. Pushed(q, ts) = Append(Tail(q), ts)
    BY <1>2 DEF Pushed
  <2>2. q # <<>>
    BY <1>2, Constants
  <2>3. Tail(q) \in Seq(Nat)
    BY <2>2
  <2> QED
    BY <2>1, <2>2, <2>3, AppendProperties
<1> QED
  BY <1>1, <1>2

LEMMA FeedTradeType ==
  ASSUME NEW f \in FeatureStates, NEW ts \in Nat, NEW taker \in Takers
  PROVE  /\ FeedTrade(f, ts, taker) \in FeatureStates
         /\ FeedTrade(f, ts, taker).lastTs = f.lastTs
         /\ FeedTrade(f, ts, taker).params = f.params
         /\ f.lastOrder # <<ts, taker>> =>
              /\ FeedTrade(f, ts, taker).heat = [f.heat EXCEPT ![taker] = Append(@, ts)]
              /\ FeedTrade(f, ts, taker).events = [f.events EXCEPT ![taker] = Pushed(@, ts)]
<1>1. CASE f.lastOrder = <<ts, taker>>
  BY <1>1 DEF FeedTrade
<1>2. CASE f.lastOrder # <<ts, taker>>
  <2> DEFINE h == [f.heat EXCEPT ![taker] = Append(@, ts)]
             v == [f.events EXCEPT ![taker] = Pushed(@, ts)]
             last == <<ts, taker>>
  <2>1. h \in [Takers -> Seq(Nat)]
    <3>1. f.heat \in [Takers -> Seq(Nat)]
      BY DEF FeatureStates
    <3>2. Append(f.heat[taker], ts) \in Seq(Nat)
      BY <3>1, AppendProperties
    <3> QED
      BY <3>1, <3>2
  <2>2. v \in [Takers -> Seq(Nat)]
    <3>1. f.events \in [Takers -> Seq(Nat)]
      BY DEF FeatureStates
    <3>2. Pushed(f.events[taker], ts) \in Seq(Nat)
      BY <3>1, PushedType
    <3> QED
      BY <3>1, <3>2
  <2>3. last \in (Nat \X Takers) \cup {None}
    OBVIOUS
  <2>4. FeedTrade(f, ts, taker) = [f EXCEPT !.lastOrder = last, !.heat = h, !.events = v]
    BY <1>2 DEF FeedTrade, FeatureStates
  <2> HIDE DEF h, v, last
  <2>5. FeedTrade(f, ts, taker) \in FeatureStates
    BY <2>1, <2>2, <2>3, <2>4 DEF FeatureStates
  <2>6. /\ FeedTrade(f, ts, taker).lastTs = f.lastTs
        /\ FeedTrade(f, ts, taker).params = f.params
        /\ FeedTrade(f, ts, taker).heat = h /\ FeedTrade(f, ts, taker).events = v
    BY <2>4 DEF FeatureStates
  <2> QED
    BY <2>5, <2>6 DEF h, v
<1> QED
  BY <1>1, <1>2

LEMMA RecentType ==
  ASSUME NEW f \in FeatureStates, NEW p, NEW taker \in Takers
  PROVE  Recent(f, p, taker) \in Seq(Nat)
<1>1. f.events[taker] \in Seq(Nat)
  BY DEF FeatureStates
<1>2. PICK S : S = Since(f.lastTs - Window[p])
  OBVIOUS
<1>3. Select(f.events[taker], S) \in Seq(Nat \cap S)
  BY <1>1, SelectType
<1>4. Select(f.events[taker], S) \in Seq(Nat)
  BY <1>3, SeqMonotonic
<1> QED
  BY <1>2, <1>4 DEF Recent

LEMMA SetHawkesType ==
  ASSUME NEW f \in FeatureStates, NEW p \in Params
  PROVE  /\ SetHawkes(f, p) \in FeatureStates
         /\ SetHawkes(f, p).params = p /\ Shares(SetHawkes(f, p), f)
         /\ SetHawkes(f, p).heat = [taker \in Takers |-> Recent(f, p, taker)]
<1> DEFINE h == [taker \in Takers |-> Recent(f, p, taker)]
<1>1. h \in [Takers -> Seq(Nat)]
  BY RecentType
<1>2. SetHawkes(f, p) = [f EXCEPT !.params = p, !.heat = h]
  BY DEF SetHawkes
<1> HIDE DEF h
<1>3. SetHawkes(f, p) \in FeatureStates
  BY <1>1, <1>2 DEF FeatureStates
<1>4. /\ SetHawkes(f, p).params = p /\ Shares(SetHawkes(f, p), f)
      /\ SetHawkes(f, p).heat = h
  BY <1>2 DEF FeatureStates, Shares
<1> QED
  BY <1>3, <1>4 DEF h

(* What the log says is enough for a fit to give the same in both.           *)
LEMMA SetHawkesSame ==
  ASSUME NEW f \in FeatureStates, NEW g \in FeatureStates, NEW p \in Params, Shares(f, g)
  PROVE  SetHawkes(f, p) = SetHawkes(g, p)
<1> DEFINE h(x) == [taker \in Takers |-> Recent(x, p, taker)]
<1>1. h(f) = h(g)
  BY DEF Shares, Recent
<1>2. ASSUME NEW x \in FeatureStates
      PROVE  SetHawkes(x, p) = [top |-> x.top, lastTs |-> x.lastTs, vol |-> x.vol, params |-> p,
                                lastOrder |-> x.lastOrder, heat |-> h(x), events |-> x.events]
  <2>1. PICK y : y = h(x)
    OBVIOUS
  <2>2. SetHawkes(x, p) = [x EXCEPT !.params = p, !.heat = y]
    BY <2>1 DEF SetHawkes
  <2> HIDE DEF h
  <2>3. SetHawkes(x, p) = [top |-> x.top, lastTs |-> x.lastTs, vol |-> x.vol, params |-> p,
                           lastOrder |-> x.lastOrder, heat |-> y, events |-> x.events]
    BY <2>2 DEF FeatureStates
  <2> QED
    BY <2>1, <2>3
<1> HIDE DEF h
<1> QED
  BY <1>1, <1>2 DEF Shares

LEMMA FeedBookShares ==
  ASSUME NEW f \in FeatureStates, NEW g \in FeatureStates, Shares(f, g), NEW ts, NEW top
  PROVE  Shares(FeedBook(f, ts, top), FeedBook(g, ts, top))
<1> DEFINE v == IF top \in CrossedTops THEN f.vol ELSE Append(f.vol, <<ts, top>>)
<1>1. FeedBook(f, ts, top) = [f EXCEPT !.top = top, !.lastTs = ts, !.vol = v]
  BY DEF FeedBook, FeatureStates
<1>2. FeedBook(g, ts, top) = [g EXCEPT !.top = top, !.lastTs = ts, !.vol = v]
  BY DEF FeedBook, FeatureStates, Shares
<1> HIDE DEF v
<1> QED
  BY <1>1, <1>2 DEF FeatureStates, Shares

LEMMA FeedTradeShares ==
  ASSUME NEW f \in FeatureStates, NEW g \in FeatureStates, Shares(f, g),
         NEW ts \in Nat, NEW taker \in Takers
  PROVE  Shares(FeedTrade(f, ts, taker), FeedTrade(g, ts, taker))
<1>1. ASSUME NEW x \in FeatureStates, x.lastOrder # <<ts, taker>>
      PROVE  LET y == FeedTrade(x, ts, taker) IN
             /\ y.top = x.top /\ y.lastTs = x.lastTs /\ y.vol = x.vol
             /\ y.lastOrder = <<ts, taker>>
             /\ y.events = [x.events EXCEPT ![taker] = Pushed(@, ts)]
  <2> DEFINE h == [x.heat EXCEPT ![taker] = Append(@, ts)]
             v == [x.events EXCEPT ![taker] = Pushed(@, ts)]
             last == <<ts, taker>>
  <2>1. FeedTrade(x, ts, taker) = [x EXCEPT !.lastOrder = last, !.heat = h, !.events = v]
    BY <1>1 DEF FeedTrade, FeatureStates
  <2> HIDE DEF h, v, last
  <2>2. LET y == FeedTrade(x, ts, taker) IN
        /\ y.top = x.top /\ y.lastTs = x.lastTs /\ y.vol = x.vol
        /\ y.lastOrder = last /\ y.events = v
    BY <2>1 DEF FeatureStates
  <2> QED
    BY <2>2 DEF v, last
<1>2. CASE f.lastOrder = <<ts, taker>>
  BY <1>2 DEF FeedTrade, Shares
<1>3. CASE f.lastOrder # <<ts, taker>>
  <2>1. g.lastOrder # <<ts, taker>>
    BY <1>3 DEF Shares
  <2> QED
    BY <1>1, <1>3, <2>1 DEF Shares
<1> QED
  BY <1>2, <1>3

LEMMA FeedIs ==
  ASSUME NEW e \in Feeds
  PROVE  /\ e = [features |-> e.features, sim |-> e.sim]
         /\ e.features \in FeatureStates /\ e.sim \in Sims \cup {None}
BY DEF Feeds

LEMMA FillsType ==
  ASSUME NEW e \in Feeds
  PROVE  Fills(e) \in Seq(FillRecords)
<1>1. CASE e.sim = None
  BY <1>1, EmptySeq DEF Fills
<1>2. CASE e.sim # None
  BY <1>2 DEF Fills, Feeds, Sims
<1> QED
  BY <1>1, <1>2

(* A sample fills at most once, when it finds that max_drawdown is lost.     *)
Filled(a, b) == b = a \/ \E x \in FillRecords : b = Append(a, x)

LEMMA SimFields ==
  ASSUME NEW sim \in Sims
  PROVE  /\ sim.qty \in Tops \cup {None} /\ sim.position \in Int
         /\ sim.fills \in Seq(FillRecords)
BY DEF Sims

LEMMA MarkFacts ==
  ASSUME NEW sim \in Sims, NEW ts \in Nat, NEW f \in FeatureStates
  PROVE  Mark(sim, ts, f) \in Sims /\ Filled(sim.fills, Mark(sim, ts, f).fills)
<1> DEFINE marked == [sim EXCEPT !.sampled = TRUE]
<1>1. CASE sim.cancelled # None \/ <<sim.position, f.top>> \notin Drawdowns
  <2>1. Mark(sim, ts, f) = marked
    BY <1>1 DEF Mark
  <2>2. marked \in Sims /\ marked.fills = sim.fills
    BY DEF Sims
  <2> QED
    BY <2>1, <2>2 DEF Filled
<1>2. CASE ~(sim.cancelled # None \/ <<sim.position, f.top>> \notin Drawdowns)
  <2> DEFINE long == sim.position > 0
             close == [ts |-> ts, taker |-> IF long THEN "sell" ELSE "buy", maker |-> FALSE,
                       lots |-> IF long THEN sim.position ELSE -sim.position,
                       qty |-> sim.qty, basis |-> f]
             fills == IF sim.position = 0 THEN sim.fills ELSE Append(sim.fills, close)
             until == ts + RoundTrip
             halted == [sim EXCEPT !.sampled = TRUE, !.cancelled = until, !.position = 0,
                                   !.fills = fills]
  <2>1. Mark(sim, ts, f) = halted
    BY <1>2 DEF Mark, Sims
  <2>2. close \in FillRecords
    <3>1. (IF long THEN "sell" ELSE "buy") \in Takers
      BY DEF Takers
    <3>2. (IF long THEN sim.position ELSE -sim.position) \in Int
      BY SimFields
    <3> QED
      BY <3>1, <3>2, SimFields DEF FillRecords
  <2>3. until \in Nat
    BY Constants
  <2> HIDE DEF close, until
  <2>4. fills \in Seq(FillRecords) /\ Filled(sim.fills, fills)
    BY <2>2, SimFields, AppendProperties DEF Filled
  <2> HIDE DEF fills
  <2>5. halted \in Sims /\ halted.fills = fills
    <3> DEFINE sent == [sim EXCEPT !.sampled = TRUE, !.cancelled = until]
    <3>1. sent \in Sims /\ sent.fills = sim.fills
      BY <2>3 DEF Sims
    <3> DEFINE flat == [sent EXCEPT !.position = 0]
    <3>2. halted = [flat EXCEPT !.fills = fills]
      OBVIOUS
    <3> HIDE DEF sent
    <3>3. flat \in Sims
      BY <3>1 DEF Sims
    <3> HIDE DEF flat, halted
    <3> QED
      BY <2>4, <3>2, <3>3 DEF Sims
  <2> QED
    BY <2>1, <2>4, <2>5
<1> QED
  BY <1>1, <1>2

LEMMA NextSampleType ==
  ASSUME NEW ts \in Nat
  PROVE  NextSample(ts) \in Int
<1>1. ts % SampleMs \in Int
  BY Constants
<1> QED
  BY <1>1, Constants DEF NextSample

LEMMA SampleFacts ==
  ASSUME NEW sim \in Sims, NEW ts \in Nat, NEW f \in FeatureStates
  PROVE  Sample(sim, ts, f) \in Sims /\ Filled(sim.fills, Sample(sim, ts, f).fills)
<1> DEFINE next == NextSample(ts)
<1>1. next \in Int
  BY NextSampleType
<1>2. ASSUME NEW s \in Sims
      PROVE  /\ [s EXCEPT !.nextSample = next] \in Sims
             /\ [s EXCEPT !.nextSample = next].fills = s.fills
  <2> HIDE DEF next
  <2> QED
    BY <1>1 DEF Sims
<1>3. Mark(sim, ts, f) \in Sims /\ Filled(sim.fills, Mark(sim, ts, f).fills)
  BY MarkFacts
<1>4. \/ Sample(sim, ts, f) = [sim EXCEPT !.nextSample = next]
      \/ Sample(sim, ts, f) = sim
      \/ Sample(sim, ts, f) = [Mark(sim, ts, f) EXCEPT !.nextSample = next]
  BY DEF Sample
<1> HIDE DEF next
<1> QED
  BY <1>2, <1>3, <1>4 DEF Filled

LEMMA DecideFacts ==
  ASSUME NEW sim \in Sims, NEW ts \in Nat, NEW f \in FeatureStates
  PROVE  Decide(sim, ts, f) \in Sims /\ Decide(sim, ts, f).fills = sim.fills
<1> DEFINE next == ts + Interval
           basis == IF sim.cancelled = None THEN f ELSE sim.basis
<1>1. CASE ts < sim.nextDecision
  BY <1>1 DEF Decide
<1>2. CASE ~(ts < sim.nextDecision)
  <2>1. Decide(sim, ts, f) = [sim EXCEPT !.nextDecision = next, !.basis = basis]
    BY <1>2 DEF Decide, Sims
  <2>2. next \in Nat /\ basis \in FeatureStates \cup {None}
    BY Constants DEF Sims
  <2> HIDE DEF next, basis
  <2> QED
    BY <2>1, <2>2 DEF Sims
<1> QED
  BY <1>1, <1>2

LEMMA OnBookFacts ==
  ASSUME NEW e \in Feeds, NEW ts \in Nat, NEW top \in Tops
  PROVE  LET b == OnBook(e, ts, top) IN
         /\ b \in Feeds /\ (b.sim = None <=> e.sim = None)
         /\ Filled(Fills(e), Fills(b))
         /\ b.features = e.features \/ b.features = FeedBook(e.features, ts, top)
         /\ e.sim = None => b = [features |-> FeedBook(e.features, ts, top), sim |-> None]
<1> DEFINE b == OnBook(e, ts, top)
           f == FeedBook(e.features, ts, top)
<1>1. /\ e.features \in FeatureStates /\ e.sim \in Sims \cup {None} /\ f \in FeatureStates
      /\ e = [features |-> e.features, sim |-> e.sim]
  BY FeedIs, FeedBookType
<1>2. CASE e.sim = None
  <2>1. b = [features |-> f, sim |-> None]
    BY <1>2 DEF OnBook
  <2> HIDE DEF b, f
  <2> QED
    BY <1>1, <1>2, <2>1 DEF Feeds, Fills, Filled, b, f
<1>3. CASE e.sim # None /\ top \in CrossedTops
  BY <1>3 DEF OnBook, Filled
<1>4. CASE e.sim # None /\ top \notin CrossedTops
  <2> DEFINE s == Decide(Sample(e.sim, ts, f), ts, f)
  <2>1. b = [features |-> f, sim |-> s]
    BY <1>4 DEF OnBook
  <2> HIDE DEF b, f
  <2>2. e.sim \in Sims
    BY <1>1, <1>4
  <2>3. Sample(e.sim, ts, f) \in Sims /\ Filled(e.sim.fills, Sample(e.sim, ts, f).fills)
    BY <1>1, <2>2, SampleFacts
  <2>4. s \in Sims /\ s.fills = Sample(e.sim, ts, f).fills
    BY <1>1, <2>3, DecideFacts
  <2> HIDE DEF s
  <2>5. s # None
    BY <2>4, Constants
  <2>6. Fills(b) = s.fills /\ Fills(e) = e.sim.fills
    BY <1>4, <2>1, <2>5 DEF Fills
  <2>7. Filled(Fills(e), Fills(b))
    BY <2>3, <2>4, <2>6
  <2> QED
    BY <1>1, <1>4, <2>1, <2>4, <2>5, <2>7 DEF Feeds, b, f
<1> QED
  BY <1>2, <1>3, <1>4

LEMMA OnBookAgrees ==
  ASSUME NEW e \in Feeds, NEW g \in Feeds, Agree(e, g), NEW ts \in Nat, NEW top \in Tops
  PROVE  Agree(OnBook(e, ts, top), OnBook(g, ts, top))
<1>1. CASE g.sim # None
  <2>1. e = g
    BY <1>1 DEF Agree
  <2> QED
    BY <2>1 DEF Agree, Shares
<1>2. CASE g.sim = None
  <2>1. /\ OnBook(e, ts, top) = [features |-> FeedBook(e.features, ts, top), sim |-> None]
        /\ OnBook(g, ts, top) = [features |-> FeedBook(g.features, ts, top), sim |-> None]
    BY <1>2, OnBookFacts DEF Agree
  <2>2. Shares(FeedBook(e.features, ts, top), FeedBook(g.features, ts, top))
    BY FeedBookShares, FeedIs DEF Agree
  <2> QED
    BY <2>1, <2>2 DEF Agree
<1> QED
  BY <1>1, <1>2

LEMMA OnTradeFacts ==
  ASSUME NEW e \in Feeds, NEW ts \in Nat, NEW taker \in Takers
  PROVE  LET b == OnTrade(e, ts, taker) IN
         /\ b \in Feeds /\ (b.sim = None <=> e.sim = None)
         /\ Filled(Fills(e), Fills(b))
         /\ b.features = FeedTrade(e.features, ts, taker)
         /\ e.sim = None => b = [features |-> FeedTrade(e.features, ts, taker), sim |-> None]
<1> DEFINE b == OnTrade(e, ts, taker)
           f == FeedTrade(e.features, ts, taker)
           x == [ts |-> ts, taker |-> taker, maker |-> TRUE, lots |-> 1,
                 qty |-> e.sim.qty, basis |-> e.sim.basis]
           at == IF taker = "sell" THEN e.sim.position + 1 ELSE e.sim.position - 1
           fills == Append(e.sim.fills, x)
           s == [e.sim EXCEPT !.fills = fills, !.position = at]
<1>1. /\ e.features \in FeatureStates /\ e.sim \in Sims \cup {None} /\ f \in FeatureStates
  BY FeedIs, FeedTradeType
<1>2. CASE e.sim = None \/ ~Ready(f) \/ ~Quoting(e.sim, ts)
  <2>1. b = [features |-> f, sim |-> e.sim]
    BY <1>2 DEF OnTrade
  <2> HIDE DEF b, f, x, s
  <2>2. b \in Feeds /\ b.sim = e.sim /\ b.features = f
    BY <1>1, <2>1 DEF Feeds
  <2>3. Fills(b) = Fills(e)
    BY <2>2 DEF Fills
  <2> QED
    BY <2>1, <2>2, <2>3 DEF Filled, b, f
<1>3. CASE e.sim # None /\ Ready(f) /\ Quoting(e.sim, ts)
  <2>1. e.sim \in Sims
    BY <1>1, <1>3
  <2>2. b = [features |-> f, sim |-> s]
    BY <1>3, <2>1 DEF OnTrade, Sims
  <2>3. x \in FillRecords /\ at \in Int
    <3>1. e.sim.basis \in FeatureStates
      BY <1>3, <2>1 DEF Sims, Quoting
    <3> QED
      BY <2>1, <3>1, SimFields DEF FillRecords
  <2> HIDE DEF b, f, x, at
  <2>4. fills \in Seq(FillRecords)
    BY <2>1, <2>3, SimFields, AppendProperties
  <2> HIDE DEF fills
  <2>5. s \in Sims /\ s.fills = fills
    BY <2>1, <2>3, <2>4 DEF Sims
  <2> HIDE DEF s
  <2>6. b \in Feeds /\ b.sim = s /\ b.features = f /\ s # None
    BY <1>1, <2>2, <2>5, Constants DEF Feeds
  <2>7. Fills(b) = Append(Fills(e), x)
    BY <1>3, <2>5, <2>6 DEF Fills, fills
  <2> QED
    BY <1>3, <2>3, <2>6, <2>7 DEF Filled, b, f
<1> QED
  BY <1>2, <1>3

LEMMA OnTradeAgrees ==
  ASSUME NEW e \in Feeds, NEW g \in Feeds, Agree(e, g), NEW ts \in Nat, NEW taker \in Takers
  PROVE  Agree(OnTrade(e, ts, taker), OnTrade(g, ts, taker))
<1>1. CASE g.sim # None
  <2>1. e = g
    BY <1>1 DEF Agree
  <2> QED
    BY <2>1 DEF Agree, Shares
<1>2. CASE g.sim = None
  <2>1. /\ OnTrade(e, ts, taker) = [features |-> FeedTrade(e.features, ts, taker), sim |-> None]
        /\ OnTrade(g, ts, taker) = [features |-> FeedTrade(g.features, ts, taker), sim |-> None]
    BY <1>2, OnTradeFacts DEF Agree
  <2>2. Shares(FeedTrade(e.features, ts, taker), FeedTrade(g.features, ts, taker))
    BY FeedTradeShares, FeedIs DEF Agree
  <2> QED
    BY <2>1, <2>2 DEF Agree
<1> QED
  BY <1>1, <1>2

-----------------------------------------------------------------------------
(* Replaying a log, line by line.                                            *)
IsReplay(f, s, n) ==
  f = [m \in 0 .. n |-> IF m = 0 THEN NewFeed ELSE ReplayLine(f[m - 1], s[m])]

LEMMA ReplayExists ==
  ASSUME NEW s, NEW n \in Nat
  PROVE  \E f : IsReplay(f, s, n)
<1> DEFINE T == {m \in Nat : \E f : IsReplay(f, s, m)}
<1>1. 0 \in T
  <2>1. IsReplay([m \in 0 .. 0 |-> NewFeed], s, 0)
    BY DEF IsReplay
  <2> QED
    BY <2>1
<1>2. ASSUME NEW m \in Nat, m \in T
      PROVE  m + 1 \in T
  <2>1. PICK f : IsReplay(f, s, m)
    BY <1>2
  <2> DEFINE k == m + 1
             last == ReplayLine(f[m], s[k])
             g == [j \in 0 .. k |-> IF j = k THEN last ELSE f[j]]
  <2>2. ASSUME NEW j \in 0 .. m
        PROVE  /\ g[j] = f[j]
               /\ f[j] = IF j = 0 THEN NewFeed ELSE ReplayLine(f[j - 1], s[j])
               /\ j # 0 => j - 1 \in 0 .. m
    <3>1. j \in 0 .. k /\ j # k /\ (j # 0 => j - 1 \in 0 .. m)
      OBVIOUS
    <3>2. g[j] = f[j]
      BY <3>1
    <3>3. f[j] = IF j = 0 THEN NewFeed ELSE ReplayLine(f[j - 1], s[j])
      <4> HIDE DEF g, k
      <4> QED
        BY <2>1 DEF IsReplay
    <3> HIDE DEF g
    <3> QED
      BY <3>1, <3>2, <3>3
  <2>3. g[k] = last /\ k - 1 = m /\ k # 0 /\ k - 1 \in 0 .. m
    OBVIOUS
  <2>4. \A j \in 0 .. k : j = k \/ j \in 0 .. m
    OBVIOUS
  <2>5. \A j \in 0 .. k : g[j] = IF j = 0 THEN NewFeed ELSE ReplayLine(g[j - 1], s[j])
    <3> SUFFICES ASSUME NEW j \in 0 .. k
                 PROVE  g[j] = IF j = 0 THEN NewFeed ELSE ReplayLine(g[j - 1], s[j])
      OBVIOUS
    <3>1. CASE j = k
      <4>1. g[k - 1] = f[m]
        BY <2>2, <2>3
      <4> HIDE DEF g
      <4> QED
        BY <2>3, <3>1, <4>1
    <3>2. CASE j \in 0 .. m
      <4>1. j # 0 => g[j - 1] = f[j - 1]
        BY <2>2, <3>2
      <4> HIDE DEF g
      <4> QED
        BY <2>2, <3>2, <4>1
    <3> QED
      BY <2>4, <3>1, <3>2
  <2>6. g = [j \in 0 .. k |-> g[j]]
    OBVIOUS
  <2> HIDE DEF g
  <2>7. IsReplay(g, s, k)
    BY <2>5, <2>6 DEF IsReplay
  <2> QED
    BY <2>7
<1>3. Nat \subseteq T
  <2> HIDE DEF T
  <2> QED
    BY <1>1, <1>2, NatSetInduction
<1> QED
  BY <1>3

LEMMA ReplayRuns ==
  ASSUME NEW s, Len(s) \in Nat
  PROVE  \E f : IsReplay(f, s, Len(s)) /\ Replay(s) = f[Len(s)]
<1> DEFINE f == CHOOSE g : IsReplay(g, s, Len(s))
<1>1. Replay(s) = f[Len(s)]
  BY DEF Replay, IsReplay
<1>2. IsReplay(f, s, Len(s))
  BY ReplayExists
<1> QED
  BY <1>1, <1>2

LEMMA ReplayEmpty == Replay(<<>>) = NewFeed
<1>1. PICK f : IsReplay(f, <<>>, Len(<<>>)) /\ Replay(<<>>) = f[Len(<<>>)]
  BY ReplayRuns
<1>2. Len(<<>>) = 0
  OBVIOUS
<1> QED
  BY <1>1, <1>2 DEF IsReplay

LEMMA ReplayAppend ==
  ASSUME NEW L, NEW s \in Seq(L), NEW x \in L
  PROVE  Replay(Append(s, x)) = ReplayLine(Replay(s), x)
<1> DEFINE n == Len(s)
           u == Append(s, x)
<1>1. n \in Nat /\ Len(u) = n + 1 /\ u[n + 1] = x /\ \A i \in 1 .. n : u[i] = s[i]
  OBVIOUS
<1>2. PICK f : IsReplay(f, s, n) /\ Replay(s) = f[n]
  BY <1>1, ReplayRuns
<1> HIDE DEF u
<1>3. PICK g : IsReplay(g, u, n + 1) /\ Replay(u) = g[n + 1]
  BY <1>1, ReplayRuns
<1> HIDE DEF n
<1> DEFINE T == {m \in Nat : m <= n => f[m] = g[m]}
<1>4. 0 \in T
  BY <1>1, <1>2, <1>3 DEF IsReplay
<1>5. ASSUME NEW m \in Nat, m \in T
      PROVE  m + 1 \in T
  <2> DEFINE p == m + 1
  <2> SUFFICES ASSUME p <= n
               PROVE  f[p] = g[p]
    OBVIOUS
  <2>1. p \in 0 .. n /\ p \in 0 .. n + 1 /\ p # 0 /\ p - 1 = m /\ p \in 1 .. n
    BY <1>1
  <2>2. f[p] = ReplayLine(f[p - 1], s[p]) /\ g[p] = ReplayLine(g[p - 1], u[p])
    <3> HIDE DEF p
    <3> QED
      BY <1>2, <1>3, <2>1 DEF IsReplay
  <2>3. f[m] = g[m]
    BY <1>1, <1>5
  <2> QED
    BY <1>1, <2>1, <2>2, <2>3
<1>6. Nat \subseteq T
  <2> HIDE DEF T
  <2> QED
    BY <1>4, <1>5, NatSetInduction
<1>7. f[n] = g[n]
  BY <1>1, <1>6
<1>8. n + 1 \in 0 .. n + 1 /\ n + 1 # 0 /\ (n + 1) - 1 = n
  BY <1>1
<1>9. g[n + 1] = ReplayLine(g[n], u[n + 1])
  BY <1>3, <1>8 DEF IsReplay
<1> QED
  BY <1>1, <1>2, <1>3, <1>7, <1>9 DEF u

-----------------------------------------------------------------------------
(* The fills that a log has recorded.                                        *)
Recorded(lines) ==
  LET of == OfKind(lines, "fill") IN [i \in DOMAIN of |-> of[i].fill]

LEMMA OfKindIs ==
  ASSUME NEW L, NEW s \in Seq(L), NEW k
  PROVE  OfKind(s, k) = Select(s, {x \in L : x.k = k})
<1> DEFINE E == Range(s)
           S == {x \in E : x.k = k}
           U == {x \in L : x.k = k}
<1>1. s \in Seq(E) /\ E \subseteq L
  BY DEF Range
<1>2. \A x \in E : x \in S <=> x \in U
  BY <1>1
<1>3. OfKind(s, k) = Select(s, S)
  BY DEF OfKind
<1> HIDE DEF E, S, U
<1>4. Select(s, S) = Select(s, U)
  BY <1>1, <1>2, SelectSame
<1> QED
  BY <1>3, <1>4 DEF U

LEMMA RecordedEmpty == Recorded(<<>>) = <<>>
<1>1. OfKind(<<>>, "fill") = <<>>
  BY SelectEmpty DEF OfKind
<1> QED
  BY <1>1 DEF Recorded

LEMMA RecordedAppend ==
  ASSUME NEW L, NEW s \in Seq(L), NEW x \in L
  PROVE  /\ x.k # "fill" => Recorded(Append(s, x)) = Recorded(s)
         /\ x.k = "fill" => Recorded(Append(s, x)) = Append(Recorded(s), x.fill)
<1> DEFINE S == {y \in L : y.k = "fill"}
           of == OfKind(s, "fill")
<1>1. Append(s, x) \in Seq(L)
  BY AppendProperties
<1>2. of = Select(s, S) /\ OfKind(Append(s, x), "fill") = Select(Append(s, x), S)
  BY <1>1, OfKindIs
<1>3. of \in Seq(L \cap S)
  <2> HIDE DEF S, of
  <2> QED
    BY <1>2, SelectType
<1>4. of \in Seq(L)
  <2> HIDE DEF S, of
  <2> QED
    BY <1>3, SeqMonotonic
<1>5. Select(Append(s, x), S) = IF x \in S THEN Append(of, x) ELSE of
  <2> HIDE DEF S, of
  <2> QED
    BY <1>2, SelectAppend
<1> HIDE DEF of
<1>6. CASE x.k # "fill"
  <2>1. OfKind(Append(s, x), "fill") = of
    BY <1>2, <1>5, <1>6
  <2> QED
    BY <1>6, <2>1 DEF Recorded, of
<1>7. CASE x.k = "fill"
  <2>1. OfKind(Append(s, x), "fill") = Append(of, x)
    BY <1>2, <1>5, <1>7
  <2> DEFINE r == [i \in DOMAIN of |-> of[i].fill]
             n == Len(of)
             v == [i \in DOMAIN Append(of, x) |-> Append(of, x)[i].fill]
             W == {y.fill : y \in L}
  <2>2. Recorded(s) = r /\ Recorded(Append(s, x)) = v
    BY <2>1 DEF Recorded, of
  <2>3. n \in Nat /\ DOMAIN of = 1 .. n /\ \A i \in 1 .. n : of[i] \in L
    BY <1>4
  <2>4. r \in Seq(W) /\ Len(r) = n
    BY <2>3
  <2>5. DOMAIN Append(of, x) = 1 .. n + 1
    BY <1>4
  <2>6. \A i \in 1 .. n : v[i] = r[i]
    BY <1>4
  <2>7. v[n + 1] = x.fill
    BY <1>4
  <2>8. x.fill \in W
    OBVIOUS
  <2>9. v \in Seq(W) /\ Len(v) = n + 1
    BY <1>4, <2>3, <2>5
  <2> HIDE DEF r, n, v, W
  <2>10. Append(r, x.fill) \in Seq(W) /\ Len(Append(r, x.fill)) = n + 1
         /\ Append(r, x.fill)[n + 1] = x.fill
         /\ \A i \in 1 .. n : Append(r, x.fill)[i] = r[i]
    BY <2>4, <2>8
  <2>11. \A i \in 1 .. n + 1 : v[i] = Append(r, x.fill)[i]
    <3> SUFFICES ASSUME NEW i \in 1 .. n + 1
                 PROVE  v[i] = Append(r, x.fill)[i]
      OBVIOUS
    <3>1. i = n + 1 \/ i \in 1 .. n
      BY <2>3
    <3> QED
      BY <2>6, <2>7, <2>10, <3>1
  <2>12. v = Append(r, x.fill)
    BY <2>9, <2>10, <2>11, SeqEqual
  <2> QED
    BY <1>7, <2>2, <2>12
<1> QED
  BY <1>6, <1>7

-----------------------------------------------------------------------------
(* What a log has recorded, what it replays to and what the session did.     *)
Pre(a, b) ==
  /\ a \in Seq(FillRecords) /\ b \in Seq(FillRecords)
  /\ Len(a) <= Len(b) /\ \A i \in 1 .. Len(a) : a[i] = b[i]

Faithful(s, e) == Pre(Recorded(s), Fills(Replay(s))) /\ Pre(Fills(Replay(s)), Fills(e))

Logged(s, e, recorded) ==
  /\ s \in Seq(Range(s))
  /\ e \in Feeds /\ Replay(s) \in Feeds /\ Agree(Replay(s), e)
  /\ Recorded(s) = recorded /\ Pre(recorded, Fills(e))
  /\ \A n \in 0 .. Len(s) : Faithful(SubSeq(s, 1, n), e)

LEMMA PreSame ==
  ASSUME NEW a \in Seq(FillRecords)
  PROVE  Pre(a, a)
<1>1. Len(a) \in Nat
  OBVIOUS
<1> QED
  BY <1>1 DEF Pre

LEMMA PreTransitive ==
  ASSUME NEW a, NEW b, NEW c, Pre(a, b), Pre(b, c)
  PROVE  Pre(a, c)
<1>1. Len(a) \in Nat /\ Len(b) \in Nat /\ Len(c) \in Nat
  BY DEF Pre
<1>2. Len(a) <= Len(c)
  BY <1>1 DEF Pre
<1>3. \A i \in 1 .. Len(a) : i \in 1 .. Len(b)
  BY <1>1 DEF Pre
<1> QED
  BY <1>2, <1>3 DEF Pre

LEMMA PreAppend ==
  ASSUME NEW a \in Seq(FillRecords), NEW x \in FillRecords
  PROVE  Pre(a, Append(a, x)) /\ Append(a, x) \in Seq(FillRecords)
<1> DEFINE b == Append(a, x)
<1>1. b \in Seq(FillRecords) /\ Len(b) = Len(a) + 1 /\ Len(a) \in Nat
      /\ \A i \in 1 .. Len(a) : b[i] = a[i]
  OBVIOUS
<1> HIDE DEF b
<1>2. Len(a) <= Len(b)
  BY <1>1
<1>3. Pre(a, b)
  BY <1>1, <1>2 DEF Pre
<1> QED
  BY <1>1, <1>3 DEF b

LEMMA PreEmpty ==
  ASSUME NEW a \in Seq(FillRecords)
  PROVE  Pre(<<>>, a)
<1>1. <<>> \in Seq(FillRecords) /\ Len(<<>>) = 0 /\ Len(a) \in Nat
  BY EmptySeq
<1>2. Len(<<>>) <= Len(a) /\ 1 .. Len(<<>>) = {}
  BY <1>1
<1> QED
  BY <1>1, <1>2 DEF Pre

LEMMA PreIsPrefix ==
  ASSUME NEW a, NEW b, Pre(a, b)
  PROVE  IsPrefix(a, b)
<1> DEFINE n == Len(a)
<1>1. n \in Nat /\ n <= Len(b) /\ Len(b) \in Nat /\ \A i \in 1 .. n : a[i] = b[i]
  BY DEF Pre
<1>2. \A i \in 1 .. n : a[i] \in FillRecords /\ b[i] \in FillRecords
  BY <1>1 DEF Pre
<1>3. SubSeq(a, 1, n) = [i \in 1 .. n |-> a[i]] /\ SubSeq(b, 1, n) = [i \in 1 .. n |-> b[i]]
  BY <1>1 DEF Pre
<1> QED
  BY <1>1, <1>3 DEF IsPrefix

LEMMA Heads ==
  ASSUME NEW L, NEW s \in Seq(L), NEW x \in L
  PROVE  /\ SubSeq(s, 1, Len(s)) = s
         /\ \A n \in 0 .. Len(s) : SubSeq(Append(s, x), 1, n) = SubSeq(s, 1, n)
         /\ SubSeq(Append(s, x), 1, Len(s) + 1) = Append(s, x)
<1>1. ASSUME NEW t \in Seq(L)
      PROVE  SubSeq(t, 1, Len(t)) = t
  <2>1. Len(t) \in Nat
    OBVIOUS
  <2>2. SubSeq(t, 1, Len(t)) = [i \in 1 .. Len(t) |-> t[i]]
    BY <2>1
  <2>3. t = [i \in 1 .. Len(t) |-> t[i]]
    OBVIOUS
  <2> QED
    BY <2>2, <2>3
<1>2. Append(s, x) \in Seq(L) /\ Len(Append(s, x)) = Len(s) + 1 /\ Len(s) \in Nat
      /\ \A i \in 1 .. Len(s) : Append(s, x)[i] = s[i]
  OBVIOUS
<1>3. ASSUME NEW n \in 0 .. Len(s)
      PROVE  SubSeq(Append(s, x), 1, n) = SubSeq(s, 1, n)
  <2> DEFINE u == Append(s, x)
  <2>1. \A i \in 1 .. n : u[i] = s[i] /\ u[i] \in L /\ s[i] \in L
    BY <1>2
  <2> HIDE DEF u
  <2>2. u \in Seq(L) /\ Len(u) = Len(s) + 1
    BY <1>2 DEF u
  <2>3. SubSeq(u, 1, n) = [i \in 1 .. n |-> u[i]] /\ SubSeq(s, 1, n) = [i \in 1 .. n |-> s[i]]
    BY <1>2, <2>2
  <2> QED
    BY <2>1, <2>3 DEF u
<1> QED
  BY <1>1, <1>2, <1>3

LEMMA InRange ==
  ASSUME NEW L, NEW s \in Seq(L)
  PROVE  s \in Seq(Range(s))
BY DEF Range

LEMMA AgreeFills ==
  ASSUME NEW e, NEW g, Agree(e, g)
  PROVE  Fills(e) = Fills(g)
BY DEF Agree, Fills

(* A line more, of an event or of a fill.                                    *)
LEMMA LoggedAppend ==
  ASSUME NEW s, NEW e, NEW r, Logged(s, e, r), NEW x, NEW g \in Feeds,
         ReplayLine(Replay(s), x) \in Feeds, Agree(ReplayLine(Replay(s), x), g),
         Pre(Fills(e), Fills(g)), NEW q, Pre(q, Fills(g)),
         q = IF x.k = "fill" THEN Append(r, x.fill) ELSE r
  PROVE  Logged(Append(s, x), g, q)
<1> DEFINE u == Append(s, x)
           L == Range(s) \cup {x}
<1>1. s \in Seq(L) /\ x \in L
  <2>1. s \in Seq(Range(s))
    BY DEF Logged
  <2>2. Range(s) \subseteq L
    OBVIOUS
  <2> QED
    BY <2>1, <2>2, SeqMonotonic, Zenon
<1> HIDE DEF L
<1>2. u \in Seq(L) /\ Len(u) = Len(s) + 1 /\ Len(s) \in Nat
  BY <1>1
<1>3. u \in Seq(Range(u))
  BY <1>2, InRange
<1>4. Replay(u) = ReplayLine(Replay(s), x)
  BY <1>1, ReplayAppend
<1>5. Recorded(u) = q
  <2>1. Recorded(s) = r
    BY DEF Logged
  <2> HIDE DEF u
  <2> QED
    BY <1>1, <2>1, RecordedAppend DEF u
<1>6. Faithful(u, g)
  <2>1. Fills(Replay(u)) = Fills(g)
    BY <1>4, AgreeFills
  <2>2. Pre(Fills(g), Fills(g))
    BY FillsType, PreSame
  <2> HIDE DEF u
  <2> QED
    BY <1>5, <2>1, <2>2 DEF Faithful
<1>7. ASSUME NEW n \in 0 .. Len(u)
      PROVE  Faithful(SubSeq(u, 1, n), g)
  <2>1. CASE n = Len(s) + 1
    <3>1. SubSeq(u, 1, n) = u
      BY <1>1, <2>1, Heads
    <3> QED
      BY <1>6, <3>1
  <2>2. CASE n \in 0 .. Len(s)
    <3>1. SubSeq(u, 1, n) = SubSeq(s, 1, n)
      BY <1>1, <2>2, Heads
    <3>2. Faithful(SubSeq(s, 1, n), e)
      BY <2>2 DEF Logged
    <3> HIDE DEF u
    <3> QED
      BY <3>1, <3>2, PreTransitive DEF Faithful
  <2>3. n = Len(s) + 1 \/ n \in 0 .. Len(s)
    BY <1>2
  <2> QED
    BY <2>1, <2>2, <2>3
<1> HIDE DEF u
<1> QED
  BY <1>3, <1>4, <1>5, <1>7 DEF Logged, u

(* No line, and a change that the log does not say.                          *)
LEMMA LoggedSame ==
  ASSUME NEW s, NEW e, Logged(s, e, Fills(e)), NEW g \in Feeds,
         Agree(Replay(s), g), Fills(e) = Fills(g)
  PROVE  Logged(s, g, Fills(g))
BY DEF Logged, Faithful

(* The line of a fill that the session has made.                             *)
LEMMA LoggedFill ==
  ASSUME NEW s, NEW e, NEW r, Logged(s, e, r), NEW x \in FillRecords, Fills(e) = Append(r, x)
  PROVE  Logged(Append(s, FillLine(x)), e, Fills(e))
<1> DEFINE line == FillLine(x)
<1>1. line.k = "fill" /\ line.fill = x
  BY DEF FillLine
<1>2. ReplayLine(Replay(s), line) = Replay(s)
  BY <1>1 DEF ReplayLine
<1>3. e \in Feeds /\ Replay(s) \in Feeds /\ Agree(Replay(s), e)
  BY DEF Logged
<1>4. Pre(Fills(e), Fills(e))
  BY <1>3, FillsType, PreSame
<1>5. PICK q : q = Fills(e)
  OBVIOUS
<1> HIDE DEF line
<1>6. q = IF line.k = "fill" THEN Append(r, line.fill) ELSE r
  BY <1>1, <1>5
<1>7. Logged(Append(s, line), e, q)
  BY <1>2, <1>3, <1>4, <1>5, <1>6, LoggedAppend
<1> QED
  BY <1>5, <1>7 DEF line

(* The line of an event that fills nothing.                                  *)
LEMMA LoggedLine ==
  ASSUME NEW s, NEW e, Logged(s, e, Fills(e)), NEW x, x.k # "fill", NEW g \in Feeds,
         ReplayLine(Replay(s), x) \in Feeds, Agree(ReplayLine(Replay(s), x), g),
         Pre(Fills(e), Fills(g))
  PROVE  Logged(Append(s, x), g, Fills(e))
<1>1. PICK q : q = Fills(e)
  OBVIOUS
<1> QED
  BY <1>1, LoggedAppend

LEMMA NoFills == NewFeed.sim = None /\ Fills(NewFeed) = <<>>
BY DEF NewFeed, Fills

-----------------------------------------------------------------------------
(* The lines of the log, and what the replay makes of them.                  *)
LEMMA ReplayLines ==
  ASSUME NEW e
  PROVE  /\ \A ts, top : ReplayLine(e, BookLine(ts, top)) = OnBook(e, ts, top)
         /\ \A ts, taker : ReplayLine(e, TradeLine(ts, taker)) = OnTrade(e, ts, taker)
         /\ \A ts, p, qty : e.sim = None => ReplayLine(e, CalibrationLine(ts, p, qty)) =
              [features |-> SetHawkes(e.features, p), sim |-> NewSim(qty)]
         /\ \A ts, p : e.sim # None => ReplayLine(e, HawkesLine(ts, p)) =
              [e EXCEPT !.features = SetHawkes(@, p)]
         /\ \A n : ReplayLine(e, EndLine(n)) = e
<1>1. ASSUME NEW ts, NEW top
      PROVE  ReplayLine(e, BookLine(ts, top)) = OnBook(e, ts, top)
  BY DEF ReplayLine, BookLine
<1>2. ASSUME NEW ts, NEW taker
      PROVE  ReplayLine(e, TradeLine(ts, taker)) = OnTrade(e, ts, taker)
  BY DEF ReplayLine, TradeLine
<1>3. ASSUME NEW ts, NEW p, NEW qty, e.sim = None
      PROVE  ReplayLine(e, CalibrationLine(ts, p, qty)) =
               [features |-> SetHawkes(e.features, p), sim |-> NewSim(qty)]
  BY <1>3 DEF ReplayLine, CalibrationLine
<1>4. ASSUME NEW ts, NEW p, e.sim # None
      PROVE  ReplayLine(e, HawkesLine(ts, p)) = [e EXCEPT !.features = SetHawkes(@, p)]
  BY <1>4 DEF ReplayLine, HawkesLine
<1>5. ASSUME NEW n
      PROVE  ReplayLine(e, EndLine(n)) = e
  BY DEF ReplayLine, EndLine
<1> QED
  BY <1>1, <1>2, <1>3, <1>4, <1>5

LEMMA NoMore ==
  ASSUME NEW n, n = 0, NEW f, f = [i \in 1 .. n |-> f[i]]
  PROVE  f = <<>>
<1>1. f \in Seq({f[i] : i \in 1 .. n}) /\ Len(f) = 0
  OBVIOUS
<1> QED
  BY <1>1, EmptySeq

LEMMA NewSimType ==
  ASSUME NEW qty \in Tops \cup {None}
  PROVE  NewSim(qty) \in Sims /\ NewSim(qty) # None /\ NewSim(qty).fills = <<>>
<1>1. <<>> \in Seq(FillRecords)
  BY EmptySeq
<1>2. NewSim(qty) \in Sims /\ NewSim(qty).fills = <<>>
  BY <1>1 DEF NewSim, Sims
<1> QED
  BY <1>2, Constants

(* The engines after a fit: before trading only the features have it.        *)
LEMMA FitType ==
  ASSUME NEW e \in Feeds, NEW p \in Params
  PROVE  LET g == [e EXCEPT !.features = SetHawkes(@, p)] IN
         /\ g \in Feeds /\ g.sim = e.sim /\ g.features = SetHawkes(e.features, p)
         /\ Fills(g) = Fills(e)
         /\ \A h \in Feeds : e.sim = None /\ Agree(h, e) => Agree(h, g)
<1> DEFINE g == [e EXCEPT !.features = SetHawkes(@, p)]
           f == SetHawkes(e.features, p)
<1>1. f \in FeatureStates /\ Shares(f, e.features) /\ e.sim \in Sims \cup {None}
      /\ e = [features |-> e.features, sim |-> e.sim]
  BY FeedIs, SetHawkesType
<1>2. g = [features |-> f, sim |-> e.sim]
  <2>1. PICK y : y = f
    OBVIOUS
  <2>2. g = [e EXCEPT !.features = y]
    BY <2>1
  <2> HIDE DEF g, f
  <2>3. g = [features |-> y, sim |-> e.sim]
    BY <1>1, <2>2
  <2> QED
    BY <2>1, <2>3
<1> HIDE DEF g, f
<1>3. g \in Feeds /\ g.sim = e.sim /\ g.features = f /\ Fills(g) = Fills(e)
  BY <1>1, <1>2 DEF Feeds, Fills
<1>4. ASSUME NEW h \in Feeds, e.sim = None, Agree(h, e)
      PROVE  Agree(h, g)
  BY <1>1, <1>3, <1>4 DEF Agree, Shares
<1> QED
  BY <1>3, <1>4 DEF g, f

LEMMA FillsCount ==
  ASSUME NEW e \in Feeds
  PROVE  Len(Fills(e)) \in Nat
BY FillsType

(* A trade fills once or not at all, and the log grows by as many lines.     *)
LEMMA LogGrows ==
  ASSUME feed \in Feeds, NEW g \in Feeds, NEW u, u \in Seq(Range(u))
  PROVE  /\ Fills(g) = Fills(feed) => u \o NewFills(g) = u
         /\ \A x \in FillRecords :
              Fills(g) = Append(Fills(feed), x) => u \o NewFills(g) = Append(u, FillLine(x))
<1>1. CASE Fills(g) = Fills(feed)
  <2>1. Len(Fills(g)) - Len(Fills(feed)) = 0
    BY <1>1, FillsCount
  <2>2. NewFills(g) = [i \in 1 .. Len(Fills(g)) - Len(Fills(feed)) |-> NewFills(g)[i]]
    BY DEF NewFills
  <2>3. NewFills(g) = <<>>
    BY <2>1, <2>2, NoMore
  <2> QED
    BY <1>1, <2>3
<1>2. ASSUME NEW x \in FillRecords, Fills(g) = Append(Fills(feed), x)
      PROVE  u \o NewFills(g) = Append(u, FillLine(x))
  <2> DEFINE n == Len(Fills(feed))
  <2>1. n \in Nat /\ Len(Fills(g)) = n + 1 /\ Fills(g)[n + 1] = x
    BY <1>2, FillsType
  <2> HIDE DEF n
  <2>2. Len(Fills(g)) - n = 1
    BY <2>1
  <2>3. NewFills(g) = [i \in 1 .. 1 |-> FillLine(Fills(g)[n + i])]
    BY <2>2 DEF NewFills, n
  <2>4. NewFills(g) = [i \in 1 .. 1 |-> FillLine(x)]
    <3>1. \A i \in 1 .. 1 : i = 1
      OBVIOUS
    <3> QED
      BY <2>1, <2>3, <3>1
  <2> DEFINE y == FillLine(x)
  <2> HIDE DEF y
  <2>5. NewFills(g) = <<y>>
    BY <2>4 DEF y
  <2>6. u \o <<y>> = Append(u, y)
    OBVIOUS
  <2> QED
    BY <2>5, <2>6 DEF y
<1> QED
  <2>1. ASSUME Fills(g) # Fills(feed)
        PROVE  Fills(g) = Fills(feed) => u \o NewFills(g) = u
    BY <2>1
  <2> QED
    BY <1>1, <1>2, <2>1

(* The line of an event and that of its fill, if any.                        *)
Extends(l, u) == l = u \/ \E x \in FillRecords : l = Append(u, FillLine(x))

LEMMA EventLogged ==
  ASSUME Logged(log, feed, Fills(feed)), NEW line, line.k # "fill", NEW g \in Feeds,
         Filled(Fills(feed), Fills(g)), ReplayLine(Replay(log), line) \in Feeds,
         Agree(ReplayLine(Replay(log), line), g),
         NEW l, l = Append(log, line) \o NewFills(g)
  PROVE  /\ Logged(l, g, Fills(g)) /\ Extends(l, Append(log, line))
         /\ log \in Seq(Range(log)) /\ Append(log, line) \in Seq(Range(Append(log, line)))
<1> DEFINE u == Append(log, line)
<1>1. feed \in Feeds /\ log \in Seq(Range(log))
  BY DEF Logged
<1>2. Pre(Fills(feed), Fills(g))
  BY <1>1, FillsType, PreSame, PreAppend DEF Filled
<1>3. Logged(u, g, Fills(feed))
  BY <1>2, LoggedLine
<1>4. u \in Seq(Range(u))
  BY <1>3 DEF Logged
<1>5. l = u \o NewFills(g)
  OBVIOUS
<1> HIDE DEF u
<1>6. CASE Fills(g) = Fills(feed)
  <2>1. l = u
    BY <1>1, <1>4, <1>5, <1>6, LogGrows
  <2> QED
    BY <1>1, <1>3, <1>4, <1>6, <2>1 DEF Extends, u
<1>7. CASE \E x \in FillRecords : Fills(g) = Append(Fills(feed), x)
  <2>1. PICK x \in FillRecords : Fills(g) = Append(Fills(feed), x)
    BY <1>7
  <2>2. l = Append(u, FillLine(x))
    BY <1>1, <1>4, <1>5, <2>1, LogGrows
  <2>3. Logged(Append(u, FillLine(x)), g, Fills(g))
    BY <1>3, <2>1, LoggedFill
  <2> QED
    BY <1>1, <1>4, <2>2, <2>3 DEF Extends, u
<1> QED
  BY <1>6, <1>7 DEF Filled

LEMMA BookLogged ==
  ASSUME NEW ts \in Nat, NEW top \in Tops, NEW g, g = OnBook(feed, ts, top),
         NEW l, l = Append(log, BookLine(ts, top)) \o NewFills(g),
         Logged(log, feed, Fills(feed))
  PROVE  /\ Logged(l, g, Fills(g)) /\ Extends(l, Append(log, BookLine(ts, top)))
         /\ log \in Seq(Range(log))
<1> DEFINE line == BookLine(ts, top)
           r == Replay(log)
           h == OnBook(r, ts, top)
<1>1. feed \in Feeds /\ r \in Feeds /\ Agree(r, feed)
  BY DEF Logged
<1>2. g \in Feeds /\ Filled(Fills(feed), Fills(g)) /\ h \in Feeds
  BY <1>1, OnBookFacts
<1>3. Agree(h, g)
  BY <1>1, OnBookAgrees
<1>4. ReplayLine(r, line) = h
  <2>1. \A a, b : ReplayLine(r, BookLine(a, b)) = OnBook(r, a, b)
    BY ReplayLines, Zenon
  <2> QED
    BY <2>1
<1>5. line.k # "fill"
  BY DEF BookLine
<1> HIDE DEF line, h
<1> QED
  BY <1>2, <1>3, <1>4, <1>5, EventLogged DEF line

LEMMA TradeLogged ==
  ASSUME NEW ts \in Nat, NEW taker \in Takers, NEW g, g = OnTrade(feed, ts, taker),
         NEW l, l = Append(log, TradeLine(ts, taker)) \o NewFills(g),
         Logged(log, feed, Fills(feed))
  PROVE  /\ Logged(l, g, Fills(g)) /\ Extends(l, Append(log, TradeLine(ts, taker)))
         /\ log \in Seq(Range(log))
<1> DEFINE line == TradeLine(ts, taker)
           r == Replay(log)
           h == OnTrade(r, ts, taker)
<1>1. feed \in Feeds /\ r \in Feeds /\ Agree(r, feed)
  BY DEF Logged
<1>2. g \in Feeds /\ Filled(Fills(feed), Fills(g)) /\ h \in Feeds
  BY <1>1, OnTradeFacts
<1>3. Agree(h, g)
  BY <1>1, OnTradeAgrees
<1>4. ReplayLine(r, line) = h
  <2>1. \A x, y : ReplayLine(r, TradeLine(x, y)) = OnTrade(r, x, y)
    <3> HIDE DEF r, line, h
    <3> QED
      BY ReplayLines, Zenon
  <2> QED
    BY <2>1, Zenon
<1>5. line.k # "fill"
  BY DEF TradeLine
<1> HIDE DEF line, h
<1> QED
  BY <1>2, <1>3, <1>4, <1>5, EventLogged DEF line

-----------------------------------------------------------------------------
(* The market orders of a log that grows by a line.                          *)
Firsts(trades, taker) ==
  {i \in DOMAIN trades : trades[i].taker = taker /\ (i = 1 \/ trades[i - 1] # trades[i])}

Indices(trades) == [i \in DOMAIN trades |-> i]

Times(trades, taker) ==
  LET places == Select(Indices(trades), Firsts(trades, taker))
  IN [n \in DOMAIN places |-> trades[places[n]].ts]

LEMMA MarketOrdersAre ==
  ASSUME NEW s
  PROVE  MarketOrders(s) = [taker \in Takers |-> Times(OfKind(s, "trade"), taker)]
BY DEF MarketOrders, Times, Indices, Firsts

LEMMA OfKindAppend ==
  ASSUME NEW L, NEW s \in Seq(L), NEW x \in L, NEW k
  PROVE  /\ OfKind(s, k) \in Seq(L)
         /\ OfKind(Append(s, x), k) = IF x.k = k THEN Append(OfKind(s, k), x) ELSE OfKind(s, k)
<1> DEFINE S == {y \in L : y.k = k}
           kept == Select(s, S)
<1>1. Append(s, x) \in Seq(L)
  BY AppendProperties
<1>2. OfKind(s, k) = kept /\ OfKind(Append(s, x), k) = Select(Append(s, x), S)
  BY <1>1, OfKindIs
<1>3. x \in S <=> x.k = k
  OBVIOUS
<1> HIDE DEF S
<1>4. Select(Append(s, x), S) = IF x \in S THEN Append(kept, x) ELSE kept
  BY SelectAppend
<1>5. kept \in Seq(L \cap S)
  BY SelectType
<1>6. kept \in Seq(L)
  <2> HIDE DEF kept
  <2> QED
    BY <1>5, SeqMonotonic
<1> QED
  BY <1>2, <1>3, <1>4, <1>6

(* The places of the first prints, when a trade x comes at the end.          *)
LEMMA PlacesAppend ==
  ASSUME NEW L, NEW t \in Seq(L), NEW x \in L, NEW taker
  PROVE  LET places == Select(Indices(t), Firsts(t, taker))
             first == x.taker = taker /\ (t = <<>> \/ t[Len(t)] # x)
         IN /\ places \in Seq(1 .. Len(t))
            /\ Select(Indices(Append(t, x)), Firsts(Append(t, x), taker)) =
                 IF first THEN Append(places, Len(t) + 1) ELSE places
<1> DEFINE n == Len(t)
           u == Append(t, x)
           first == x.taker = taker /\ (t = <<>> \/ t[Len(t)] # x)
<1>1. /\ n \in Nat /\ DOMAIN t = 1 .. n /\ DOMAIN u = 1 .. n + 1
      /\ u[n + 1] = x /\ \A i \in 1 .. n : u[i] = t[i]
  OBVIOUS
<1>2. t = <<>> <=> n = 0
  BY EmptySeq
<1> HIDE DEF n, u
<1>3. Indices(t) \in Seq(1 .. n) /\ Indices(t) \in Seq(Nat)
  <2>1. \A i \in 1 .. n : i \in Nat
    OBVIOUS
  <2> QED
    BY <1>1, <2>1 DEF Indices
<1>4. Indices(u) = Append(Indices(t), n + 1)
  <2> DEFINE a == Indices(u)
             b == Append(Indices(t), n + 1)
  <2>1. a \in Seq(Nat) /\ Len(a) = n + 1 /\ \A i \in 1 .. n + 1 : a[i] = i
    BY <1>1 DEF Indices
  <2>2. Len(Indices(t)) = n /\ \A i \in 1 .. n : Indices(t)[i] = i
    BY <1>1 DEF Indices
  <2>3. b \in Seq(Nat) /\ Len(b) = n + 1 /\ \A i \in 1 .. n + 1 : b[i] = i
    BY <1>1, <1>3, <2>2
  <2> HIDE DEF a, b
  <2>4. a = b
    BY <2>1, <2>3, SeqEqual
  <2> QED
    BY <2>4 DEF a, b
<1> DEFINE S == Firsts(t, taker)
           U == Firsts(u, taker)
<1>5. \A i \in 1 .. n : i \in S <=> i \in U
  <2> SUFFICES ASSUME NEW i \in 1 .. n
               PROVE  i \in S <=> i \in U
    OBVIOUS
  <2>1. i = 1 \/ i - 1 \in 1 .. n
    BY <1>1
  <2>2. u[i] = t[i] /\ (i # 1 => u[i - 1] = t[i - 1]) /\ i \in DOMAIN t /\ i \in DOMAIN u
    BY <1>1, <2>1
  <2> QED
    BY <2>2 DEF Firsts
<1>6. n + 1 \in U <=> first
  <2>1. n + 1 \in DOMAIN u /\ (n + 1) - 1 = n /\ (n + 1 = 1 <=> n = 0)
    BY <1>1
  <2>2. n # 0 => u[n] = t[n]
    BY <1>1
  <2>3. n + 1 \in U <=> x.taker = taker /\ (n = 0 \/ u[n] # x)
    BY <1>1, <2>1 DEF Firsts
  <2> QED
    BY <1>2, <2>2, <2>3 DEF n
<1> HIDE DEF S, U, first
<1> DEFINE E == 1 .. n
           ids == Indices(t)
<1>7. ids \in Seq(E) /\ ids \in Seq(Nat) /\ \A i \in E : i \in S <=> i \in U
  BY <1>3, <1>5
<1>8. n + 1 \in Nat
  BY <1>1
<1> HIDE DEF E, ids
<1>9. Select(ids, S) = Select(ids, U)
  BY <1>7, SelectSame
<1>10. Select(Append(ids, n + 1), U) =
         IF n + 1 \in U THEN Append(Select(ids, U), n + 1) ELSE Select(ids, U)
  <2>1. PICK k \in Nat : k = n + 1
    BY <1>8
  <2>2. PICK V : V = U
    OBVIOUS
  <2>3. PICK v \in Seq(Nat) : v = ids
    BY <1>7
  <2>4. Select(Append(v, k), V) = IF k \in V THEN Append(Select(v, V), k) ELSE Select(v, V)
    BY SelectAppend
  <2> QED
    BY <2>1, <2>2, <2>3, <2>4
<1>11. Select(ids, S) \in Seq(E)
  <2>1. Select(ids, S) \in Seq(E \cap S)
    BY <1>7, SelectType
  <2>2. E \cap S \subseteq E
    OBVIOUS
  <2> QED
    BY <2>1, <2>2, SeqMonotonic
<1> QED
  BY <1>4, <1>6, <1>9, <1>10, <1>11 DEF S, U, u, n, first, E, ids

LEMMA TimesAppend ==
  ASSUME NEW L, NEW t \in Seq(L), NEW x \in L, NEW taker, Times(t, taker) \in Seq(Nat), x.ts \in Nat
  PROVE  LET first == x.taker = taker /\ (t = <<>> \/ t[Len(t)] # x) IN
         Times(Append(t, x), taker) =
           IF first THEN Append(Times(t, taker), x.ts) ELSE Times(t, taker)
<1> DEFINE n == Len(t)
           u == Append(t, x)
           first == x.taker = taker /\ (t = <<>> \/ t[Len(t)] # x)
           p == Select(Indices(t), Firsts(t, taker))
           q == Select(Indices(u), Firsts(u, taker))
<1>1. /\ n \in Nat /\ u[n + 1] = x /\ \A i \in 1 .. n : u[i] = t[i]
  OBVIOUS
<1>2. p \in Seq(1 .. n) /\ q = IF first THEN Append(p, n + 1) ELSE p
  BY PlacesAppend
<1>3. /\ Times(t, taker) = [i \in DOMAIN p |-> t[p[i]].ts]
      /\ Times(u, taker) = [i \in DOMAIN q |-> u[q[i]].ts]
  BY DEF Times
<1> DEFINE m == Len(p)
           v == Times(t, taker)
           w == Times(u, taker)
<1> HIDE DEF n, u, first, p, q, v, w
<1>4. m \in Nat /\ DOMAIN p = 1 .. m /\ \A i \in 1 .. m : p[i] \in 1 .. n
  <2> DEFINE E == 1 .. n
  <2>1. p \in Seq(E)
    BY <1>2
  <2> HIDE DEF E
  <2>2. m \in Nat /\ DOMAIN p = 1 .. m /\ \A i \in 1 .. m : p[i] \in E
    BY <2>1
  <2> QED
    BY <2>2 DEF E
<1> HIDE DEF m
<1>5. \A i \in 1 .. m : u[p[i]].ts = t[p[i]].ts
  BY <1>1, <1>4
<1>6. v \in Seq(Nat) /\ Len(v) = m /\ \A i \in 1 .. m : v[i] = t[p[i]].ts
  <2>1. v \in Seq(Nat)
    BY DEF v
  <2>2. DOMAIN v = 1 .. m
    BY <1>3, <1>4 DEF v
  <2> QED
    BY <1>3, <1>4, <2>1, <2>2 DEF v
<1>7. CASE ~first
  <2>1. q = p
    BY <1>2, <1>7
  <2>2. w = v
    BY <1>3, <1>4, <1>5, <2>1 DEF v, w
  <2> QED
    BY <1>7, <2>2 DEF v, w, u, first
<1>8. CASE first
  <2>1. q = Append(p, n + 1) /\ n + 1 \in Nat
    BY <1>1, <1>2, <1>8
  <2>2. p \in Seq(Nat)
    <3>1. 1 .. n \subseteq Nat
      BY <1>1
    <3> QED
      BY <1>2, <3>1, SeqMonotonic
  <2>3. DOMAIN q = 1 .. m + 1 /\ q[m + 1] = n + 1 /\ \A i \in 1 .. m : q[i] = p[i]
    BY <2>1, <2>2 DEF m
  <2>4. DOMAIN w = 1 .. m + 1 /\ w[m + 1] = x.ts
    BY <1>1, <1>3, <1>4, <2>3 DEF w
  <2>5. \A i \in 1 .. m : w[i] = v[i]
    <3> SUFFICES ASSUME NEW i \in 1 .. m
                 PROVE  w[i] = v[i]
      OBVIOUS
    <3>1. i \in DOMAIN q
      BY <1>4, <2>3
    <3>2. w[i] = u[q[i]].ts
      BY <1>3, <3>1 DEF w
    <3> QED
      BY <1>5, <1>6, <2>3, <3>2
  <2>6. w = [i \in 1 .. m + 1 |-> w[i]]
    <3> PICK k : k = 1 .. m + 1
      OBVIOUS
    <3> QED
      BY <1>3, <2>3 DEF w
  <2>7. \A i \in 1 .. m + 1 : w[i] \in Nat
    BY <1>4, <1>6, <2>4, <2>5
  <2>8. w \in Seq(Nat) /\ Len(w) = m + 1
    <3> PICK k : k = m + 1
      OBVIOUS
    <3>1. k \in Nat /\ w = [i \in 1 .. k |-> w[i]] /\ \A i \in 1 .. k : w[i] \in Nat
      BY <1>4, <2>6, <2>7
    <3>2. PICK g : g = w
      OBVIOUS
    <3> DEFINE f == [i \in 1 .. k |-> g[i]]
    <3>3. k \in Nat /\ \A i \in 1 .. k : g[i] \in Nat
      BY <3>1, <3>2
    <3>4. f \in Seq(Nat) /\ Len(f) = k
      BY <3>3
    <3> QED
      BY <3>1, <3>2, <3>4
  <2> DEFINE z == Append(v, x.ts)
  <2>9. z \in Seq(Nat) /\ Len(z) = m + 1 /\ z[m + 1] = x.ts /\ \A i \in 1 .. m : z[i] = v[i]
    BY <1>6
  <2> HIDE DEF z
  <2>10. \A i \in 1 .. m + 1 : w[i] = z[i]
    <3>1. \A i \in 1 .. m + 1 : i = m + 1 \/ i \in 1 .. m
      BY <1>4
    <3> QED
      BY <2>4, <2>5, <2>9, <3>1
  <2>11. w = z
    BY <2>8, <2>9, <2>10, SeqEqual
  <2> QED
    BY <1>8, <2>11 DEF v, w, z, u, first
<1> QED
  BY <1>7, <1>8

-----------------------------------------------------------------------------
(* The excitation.  o are the market orders there were.  The newest are      *)
(* kept; and whatever instant it is seen from, none before that from which   *)
(* the parameters count, the orders kept end those that are counted, and     *)
(* those end the orders there were: a refit then loses none that is kept and *)
(* counts none twice.                                                        *)
Seen(f, o, taker, c) ==
  /\ Suffix(Select(f.events[taker], Since(c)), Select(f.heat[taker], Since(c)))
  /\ Suffix(Select(f.heat[taker], Since(c)), Select(o[taker], Since(c)))

Excited(f, o) ==
  /\ o \in [Takers -> Seq(Nat)]
  /\ \A taker \in Takers : Suffix(f.events[taker], o[taker])
  /\ \A taker \in Takers, c \in Int : c >= f.lastTs - Window[f.params] => Seen(f, o, taker, c)

LEMMA SuffixIs ==
  ASSUME NEW s \in Seq(Nat), NEW t, Suffix(s, t)
  PROVE  IsSuffixOf(s, t)
<1>1. PICK u \in Seq(Nat) : t = u \o s
  BY DEF Suffix
<1> DEFINE n == Len(u)
<1>2. /\ n \in Nat /\ Len(s) \in Nat /\ t \in Seq(Nat) /\ Len(t) = n + Len(s)
      /\ \A i \in 1 .. Len(s) : t[n + i] = s[i]
  BY <1>1
<1> HIDE DEF n
<1> DEFINE w == SubSeq(t, n + 1, Len(t))
<1>3. n \in 0 .. Len(t) /\ n + 1 \in Nat
  BY <1>2
<1>4. w \in Seq(Nat) /\ Len(w) = Len(s)
  BY <1>2, <1>3
<1>5. \A i \in 1 .. Len(s) : w[i] = s[i]
  <2> SUFFICES ASSUME NEW i \in 1 .. Len(s)
               PROVE  w[i] = s[i]
    OBVIOUS
  <2>1. w[i] = t[n + i]
    BY <1>2, <1>3
  <2> QED
    BY <1>2, <2>1
<1> HIDE DEF w
<1>6. w = s
  BY <1>4, <1>5, SeqEqual
<1> QED
  BY <1>3, <1>6 DEF IsSuffixOf, w

LEMMA SinceType ==
  ASSUME NEW q \in Seq(Nat), NEW S
  PROVE  Select(q, S) \in Seq(Nat)
<1>1. Select(q, S) \in Seq(Nat \cap S)
  BY SelectType
<1> QED
  BY <1>1, SeqMonotonic

LEMMA ExcitationGrows ==
  ASSUME NEW q \in Seq(Nat), NEW h \in Seq(Nat), NEW ts \in Nat, NEW S,
         Suffix(Select(q, S), Select(h, S))
  PROVE  Suffix(Select(Pushed(q, ts), S), Select(Append(h, ts), S))
<1> DEFINE k == Select(h, S)
           k2 == Select(Append(h, ts), S)
<1>1. k2 = IF ts \in S THEN Append(k, ts) ELSE k
  BY SelectAppend
<1> HIDE DEF k, k2
<1>2. ASSUME NEW w \in Seq(Nat), Suffix(Select(w, S), k)
      PROVE  Suffix(Select(Append(w, ts), S), k2)
  <2> DEFINE l == Select(w, S)
  <2>1. Select(Append(w, ts), S) = IF ts \in S THEN Append(l, ts) ELSE l
    BY SelectAppend
  <2>2. l \in Seq(Nat)
    BY SinceType
  <2>3. Suffix(l, k)
    BY <1>2
  <2> HIDE DEF l
  <2> QED
    BY <1>1, <2>1, <2>2, <2>3, SuffixAppend
<1>3. CASE Pushed(q, ts) = Append(q, ts)
  BY <1>2, <1>3 DEF k, k2
<1>4. CASE q # <<>> /\ Pushed(q, ts) = Append(Tail(q), ts)
  <2> DEFINE a == <<Head(q)>>
             w == Tail(q)
  <2>1. a \in Seq(Nat) /\ w \in Seq(Nat) /\ q = a \o w
    BY <1>4
  <2> HIDE DEF a, w
  <2>2. Select(q, S) = Select(a, S) \o Select(w, S)
    BY <2>1, SelectConcat
  <2>3. Select(a, S) \in Seq(Nat) /\ Select(w, S) \in Seq(Nat)
    BY <2>1, SinceType
  <2>4. Suffix(Select(w, S), k)
    BY <2>2, <2>3, SuffixDrop DEF k
  <2>5. Suffix(Select(Append(w, ts), S), k2)
    BY <1>2, <2>1, <2>4
  <2> QED
    BY <1>4, <2>5 DEF w, k2
<1> QED
  BY <1>3, <1>4, PushedType

LEMMA FeatureFields ==
  ASSUME NEW f \in FeatureStates, NEW taker \in Takers
  PROVE  /\ f.lastTs \in Nat /\ f.params \in Params \cup {Default} /\ Window[f.params] \in Nat
         /\ f.heat[taker] \in Seq(Nat) /\ f.events[taker] \in Seq(Nat)
<1>1. /\ f.lastTs \in Nat /\ f.params \in Params \cup {Default}
      /\ f.heat[taker] \in Seq(Nat) /\ f.events[taker] \in Seq(Nat)
  BY DEF FeatureStates
<1>2. Window[f.params] \in Nat
  BY <1>1, Constants
<1> QED
  BY <1>1, <1>2

LEMMA SuffixSelect ==
  ASSUME NEW q \in Seq(Nat), NEW t \in Seq(Nat), Suffix(q, t), NEW S
  PROVE  Suffix(Select(q, S), Select(t, S))
<1>1. PICK u \in Seq(Nat) : t = u \o q
  BY DEF Suffix
<1>2. Select(t, S) = Select(u, S) \o Select(q, S)
  BY <1>1, SelectConcat
<1>3. Select(u, S) \in Seq(Nat)
  BY SinceType
<1> QED
  BY <1>2, <1>3 DEF Suffix

LEMMA PushedEnds ==
  ASSUME NEW q \in Seq(Nat), NEW t \in Seq(Nat), Suffix(q, t), NEW ts \in Nat
  PROVE  Suffix(Pushed(q, ts), Append(t, ts))
<1>1. CASE Pushed(q, ts) = Append(q, ts)
  BY <1>1, SuffixAppend
<1>2. CASE q # <<>> /\ Pushed(q, ts) = Append(Tail(q), ts)
  <2> DEFINE a == <<Head(q)>>
             w == Tail(q)
  <2>1. a \in Seq(Nat) /\ w \in Seq(Nat) /\ q = a \o w
    BY <1>2
  <2> HIDE DEF a, w
  <2>2. Suffix(w, t)
    BY <2>1, SuffixDrop
  <2> QED
    BY <1>2, <2>1, <2>2, SuffixAppend DEF w
<1> QED
  BY <1>1, <1>2, PushedType

LEMMA ExcitedBook ==
  ASSUME NEW f \in FeatureStates, NEW o, Excited(f, o), NEW ts \in Nat, f.lastTs <= ts,
         NEW top \in Tops
  PROVE  Excited(FeedBook(f, ts, top), o)
<1> DEFINE g == FeedBook(f, ts, top)
<1>1. g.lastTs = ts /\ g.params = f.params /\ g.heat = f.heat /\ g.events = f.events
  BY FeedBookType
<1> HIDE DEF g
<1>2. ASSUME NEW taker \in Takers, NEW c \in Int, c >= g.lastTs - Window[g.params]
      PROVE  Seen(g, o, taker, c)
  <2>1. f.lastTs \in Nat /\ Window[f.params] \in Nat
    BY FeatureFields
  <2>2. c >= f.lastTs - Window[f.params]
    BY <1>1, <1>2, <2>1
  <2>3. Seen(f, o, taker, c)
    BY <2>2 DEF Excited
  <2> QED
    BY <1>1, <2>3 DEF Seen
<1> QED
  BY <1>1, <1>2 DEF Excited, g

LEMMA ExcitedTrade ==
  ASSUME NEW f \in FeatureStates, NEW o, Excited(f, o), NEW ts \in Nat, NEW taker \in Takers,
         f.lastOrder # <<ts, taker>>
  PROVE  Excited(FeedTrade(f, ts, taker), [o EXCEPT ![taker] = Append(@, ts)])
<1> DEFINE g == FeedTrade(f, ts, taker)
           w == [o EXCEPT ![taker] = Append(@, ts)]
<1>1. /\ g.lastTs = f.lastTs /\ g.params = f.params
      /\ g.heat = [f.heat EXCEPT ![taker] = Append(@, ts)]
      /\ g.events = [f.events EXCEPT ![taker] = Pushed(@, ts)]
  <2>1. PICK x : x = FeedTrade(f, ts, taker)
    OBVIOUS
  <2>2. x.lastTs = f.lastTs /\ x.params = f.params
    BY <2>1, FeedTradeType
  <2>3. /\ x.heat = [f.heat EXCEPT ![taker] = Append(@, ts)]
        /\ x.events = [f.events EXCEPT ![taker] = Pushed(@, ts)]
    BY <2>1, FeedTradeType, SMTT(30)
  <2> QED
    BY <2>1, <2>2, <2>3, Zenon
<1>2. /\ f.heat \in [Takers -> Seq(Nat)] /\ f.events \in [Takers -> Seq(Nat)]
      /\ o \in [Takers -> Seq(Nat)]
  BY DEF FeatureStates, Excited
<1>3. w \in [Takers -> Seq(Nat)]
  <2>1. Append(o[taker], ts) \in Seq(Nat)
    BY <1>2, AppendProperties
  <2> QED
    BY <1>2, <2>1
<1>4. /\ w[taker] = Append(o[taker], ts) /\ g.events[taker] = Pushed(f.events[taker], ts)
      /\ g.heat[taker] = Append(f.heat[taker], ts)
      /\ \A other \in Takers : other # taker =>
           /\ w[other] = o[other] /\ g.events[other] = f.events[other]
           /\ g.heat[other] = f.heat[other]
  <2> HIDE DEF g
  <2> QED
    BY <1>1, <1>2
<1> HIDE DEF g, w
<1>5. ASSUME NEW other \in Takers
      PROVE  Suffix(g.events[other], w[other])
  <2>1. Suffix(f.events[other], o[other]) /\ f.events[other] \in Seq(Nat)
        /\ o[other] \in Seq(Nat)
    BY <1>2 DEF Excited
  <2> QED
    BY <1>4, <2>1, PushedEnds
<1>6. ASSUME NEW other \in Takers, NEW c \in Int, c >= g.lastTs - Window[g.params]
      PROVE  Seen(g, w, other, c)
  <2>1. Seen(f, o, other, c)
    BY <1>1, <1>6 DEF Excited
  <2>2. CASE other = taker
    <3> DEFINE S == Since(c)
               h == f.heat[taker]
               q == f.events[taker]
               t == o[taker]
    <3>1. h \in Seq(Nat) /\ q \in Seq(Nat) /\ t \in Seq(Nat)
      BY <1>2
    <3>2. Suffix(Select(q, S), Select(h, S)) /\ Suffix(Select(h, S), Select(t, S))
      BY <2>1, <2>2 DEF Seen
    <3>3. g.events[other] = Pushed(q, ts) /\ g.heat[other] = Append(h, ts)
          /\ w[other] = Append(t, ts)
      BY <1>4, <2>2
    <3> HIDE DEF S, h, q, t
    <3>4. Suffix(Select(Pushed(q, ts), S), Select(Append(h, ts), S))
      BY <3>1, <3>2, ExcitationGrows
    <3>5. Suffix(Select(Append(h, ts), S), Select(Append(t, ts), S))
      <4>1. ASSUME NEW v \in Seq(Nat), NEW V
            PROVE  Select(Append(v, ts), V) =
                     IF ts \in V THEN Append(Select(v, V), ts) ELSE Select(v, V)
        BY SelectAppend
      <4>2. /\ Select(Append(h, ts), S) = IF ts \in S THEN Append(Select(h, S), ts) ELSE Select(h, S)
            /\ Select(Append(t, ts), S) = IF ts \in S THEN Append(Select(t, S), ts) ELSE Select(t, S)
        BY <3>1, <4>1
      <4>3. Select(h, S) \in Seq(Nat)
        BY <3>1, SinceType
      <4> QED
        BY <3>2, <4>2, <4>3, SuffixAppend
    <3> QED
      BY <3>3, <3>4, <3>5 DEF Seen, S
  <2>3. CASE other # taker
    BY <1>4, <2>1, <2>3 DEF Seen
  <2> QED
    BY <2>2, <2>3
<1> QED
  BY <1>3, <1>5, <1>6 DEF Excited, g, w

LEMMA ExcitedFit ==
  ASSUME NEW f \in FeatureStates, NEW o, Excited(f, o), NEW p \in Params
  PROVE  Excited(SetHawkes(f, p), o)
<1> DEFINE g == SetHawkes(f, p)
<1>1. /\ g.params = p /\ g.lastTs = f.lastTs /\ g.events = f.events
      /\ g.heat = [taker \in Takers |-> Recent(f, p, taker)]
  BY SetHawkesType DEF Shares
<1> HIDE DEF g
<1>2. ASSUME NEW taker \in Takers, NEW c \in Int, c >= g.lastTs - Window[g.params]
      PROVE  Seen(g, o, taker, c)
  <2> DEFINE b == f.lastTs - Window[p]
             q == f.events[taker]
  <2>1. q \in Seq(Nat) /\ f.lastTs \in Nat /\ Window[p] \in Nat
    <3>1. Window[p] \in Nat
      BY Constants
    <3> QED
      BY <3>1, FeatureFields
  <2>2. b \in Int /\ c >= b
    BY <1>1, <1>2, <2>1
  <2>3. g.heat[taker] = Select(q, Since(b))
    BY <1>1 DEF Recent
  <2>4. o[taker] \in Seq(Nat) /\ Suffix(q, o[taker])
    BY DEF Excited
  <2> HIDE DEF b, q
  <2>5. Since(c) \subseteq Since(b)
    BY <2>2 DEF Since
  <2>6. Select(g.heat[taker], Since(c)) = Select(q, Since(c))
    BY <2>1, <2>3, <2>5, SelectTwice
  <2>7. Select(q, Since(c)) \in Seq(Nat)
    BY <2>1, SinceType
  <2>8. Suffix(Select(q, Since(c)), Select(q, Since(c)))
    BY <2>7, SuffixSame
  <2>9. Suffix(Select(q, Since(c)), Select(o[taker], Since(c)))
    BY <2>1, <2>4, SuffixSelect
  <2> QED
    BY <1>1, <2>6, <2>8, <2>9 DEF Seen, q
<1> QED
  BY <1>1, <1>2 DEF Excited, g

(* At the instant from which the parameters count, that is the property.     *)
LEMMA ExcitationKept ==
  ASSUME NEW f \in FeatureStates, NEW o, Excited(f, o)
  PROVE  KeepsExcitation(f, o)
<1> SUFFICES ASSUME NEW taker \in Takers
             PROVE  LET still == Since(f.lastTs - Window[f.params])
                        counted == Select(f.heat[taker], still)
                    IN /\ IsSuffixOf(counted, Select(o[taker], still))
                       /\ IsSuffixOf(Recent(f, f.params, taker), counted)
  BY DEF KeepsExcitation
<1> DEFINE c == f.lastTs - Window[f.params]
           counted == Select(f.heat[taker], Since(c))
           kept == Select(f.events[taker], Since(c))
<1>1. /\ f.lastTs \in Nat /\ Window[f.params] \in Nat
      /\ f.events[taker] \in Seq(Nat) /\ f.heat[taker] \in Seq(Nat)
  BY FeatureFields
<1>2. c \in Int /\ c >= f.lastTs - Window[f.params]
  BY <1>1
<1>3. Recent(f, f.params, taker) = kept
  BY DEF Recent
<1>4. Suffix(kept, counted) /\ Suffix(counted, Select(o[taker], Since(c)))
  <2>1. Seen(f, o, taker, c)
    BY <1>2 DEF Excited
  <2> QED
    BY <2>1 DEF Seen
<1>5. kept \in Seq(Nat) /\ counted \in Seq(Nat)
  BY <1>1, SinceType
<1> HIDE DEF c, counted, kept
<1>6. IsSuffixOf(kept, counted) /\ IsSuffixOf(counted, Select(o[taker], Since(c)))
  BY <1>4, <1>5, SuffixIs
<1> QED
  BY <1>3, <1>6 DEF c, counted

(* The log knows the last trade, so its market orders are those that the     *)
(* engine counts.                                                            *)
LastTraded(f, trades) ==
  IF trades = <<>> THEN f.lastOrder = None
  ELSE \E ts \in Nat, taker \in Takers :
         trades[Len(trades)] = TradeLine(ts, taker) /\ f.lastOrder = <<ts, taker>>

Counted(f, s) == Excited(f, MarketOrders(s)) /\ LastTraded(f, OfKind(s, "trade"))

LEMMA CountedSame ==
  ASSUME NEW f, NEW s, s \in Seq(Range(s)), Counted(f, s), NEW x, x.k # "trade"
  PROVE  Counted(f, Append(s, x))
<1> DEFINE L == Range(s) \cup {x}
<1>1. s \in Seq(L) /\ x \in L
  <2>1. Range(s) \subseteq L
    OBVIOUS
  <2> QED
    BY <2>1, SeqMonotonic
<1> HIDE DEF L
<1>2. OfKind(Append(s, x), "trade") = OfKind(s, "trade")
  BY <1>1, OfKindAppend
<1>3. MarketOrders(Append(s, x)) = MarketOrders(s)
  BY <1>2, MarketOrdersAre
<1> QED
  BY <1>2, <1>3 DEF Counted

LEMMA FeedTradeLast ==
  ASSUME NEW f \in FeatureStates, NEW ts \in Nat, NEW taker \in Takers
  PROVE  FeedTrade(f, ts, taker).lastOrder = <<ts, taker>>
<1>1. CASE f.lastOrder = <<ts, taker>>
  BY <1>1 DEF FeedTrade
<1>2. CASE f.lastOrder # <<ts, taker>>
  <2> DEFINE h == [f.heat EXCEPT ![taker] = Append(@, ts)]
             v == [f.events EXCEPT ![taker] = Pushed(@, ts)]
             last == <<ts, taker>>
  <2>1. FeedTrade(f, ts, taker) = [f EXCEPT !.lastOrder = last, !.heat = h, !.events = v]
    BY <1>2 DEF FeedTrade, FeatureStates
  <2> HIDE DEF h, v, last
  <2>2. FeedTrade(f, ts, taker).lastOrder = last
    BY <2>1 DEF FeatureStates
  <2> QED
    BY <2>2 DEF last
<1> QED
  BY <1>1, <1>2

LEMMA CountedTrade ==
  ASSUME NEW f \in FeatureStates, NEW s, s \in Seq(Range(s)), Counted(f, s),
         NEW ts \in Nat, NEW taker \in Takers
  PROVE  Counted(FeedTrade(f, ts, taker), Append(s, TradeLine(ts, taker)))
<1> DEFINE x == TradeLine(ts, taker)
           L == Range(s) \cup {x}
           t == OfKind(s, "trade")
           u == Append(s, x)
           o == MarketOrders(s)
           g == FeedTrade(f, ts, taker)
           again == t # <<>> /\ t[Len(t)] = x
<1>1. s \in Seq(L) /\ x \in L
  <2>1. Range(s) \subseteq L
    OBVIOUS
  <2> QED
    BY <2>1, SeqMonotonic, Zenon
<1>2. x.k = "trade" /\ x.ts = ts /\ x.taker = taker
  BY DEF TradeLine
<1> HIDE DEF x, L, t, u, g
<1>3. t \in Seq(L) /\ OfKind(u, "trade") = Append(t, x)
  BY <1>1, <1>2, OfKindAppend DEF t, u
<1>4. Excited(f, o) /\ LastTraded(f, t)
  BY DEF Counted, t
<1>5. o \in [Takers -> Seq(Nat)] /\ \A other \in Takers : o[other] = Times(t, other)
  <2>1. o = [other \in Takers |-> Times(t, other)]
    BY MarketOrdersAre DEF t
  <2> QED
    BY <1>4, <2>1 DEF Excited
<1> HIDE DEF o
<1>6. again <=> f.lastOrder = <<ts, taker>>
  <2>1. CASE t = <<>>
    <3>1. f.lastOrder = None
      BY <1>4, <2>1 DEF LastTraded
    <3>2. <<ts, taker>> # None
      BY FeaturesAssumption DEF FeaturesAssumption
    <3> QED
      BY <2>1, <3>1, <3>2
  <2>2. CASE t # <<>>
    <3>1. PICK ts0 \in Nat, taker0 \in Takers :
            t[Len(t)] = TradeLine(ts0, taker0) /\ f.lastOrder = <<ts0, taker0>>
      BY <1>4, <2>2 DEF LastTraded
    <3>2. TradeLine(ts0, taker0) = x <=> ts0 = ts /\ taker0 = taker
      BY DEF TradeLine, x
    <3> QED
      BY <2>2, <3>1, <3>2
  <2> QED
    BY <2>1, <2>2
<1>7. ASSUME NEW other \in Takers
      PROVE  Times(Append(t, x), other) =
               IF other = taker /\ ~again THEN Append(o[other], ts) ELSE o[other]
  <2>1. Times(t, other) \in Seq(Nat)
    BY <1>5
  <2>2. Times(Append(t, x), other) =
          IF x.taker = other /\ (t = <<>> \/ t[Len(t)] # x)
          THEN Append(Times(t, other), x.ts) ELSE Times(t, other)
    <3>1. PICK K : K = L
      OBVIOUS
    <3>2. PICK trades \in Seq(K) : trades = t
      BY <1>3, <3>1
    <3>3. PICK line \in K : line = x
      BY <1>1, <3>1
    <3>4. Times(trades, other) \in Seq(Nat) /\ line.ts \in Nat
      BY <1>2, <2>1, <3>2, <3>3
    <3> QED
      BY <3>2, <3>3, <3>4, TimesAppend
  <2> QED
    BY <1>2, <1>5, <2>2
<1>8. MarketOrders(u) = [other \in Takers |-> Times(Append(t, x), other)]
  BY <1>3, MarketOrdersAre
<1>9. LastTraded(g, OfKind(u, "trade"))
  <2> DEFINE v == Append(t, x)
  <2>1. v # <<>> /\ v[Len(v)] = x
    <3>1. ASSUME NEW E, NEW w \in Seq(E), NEW e \in E
          PROVE  Append(w, e) # <<>> /\ Append(w, e)[Len(Append(w, e))] = e
      OBVIOUS
    <3> QED
      BY <1>1, <1>3, <3>1
  <2>2. g.lastOrder = <<ts, taker>>
    BY FeedTradeLast DEF g
  <2> HIDE DEF v
  <2>3. LastTraded(g, v)
    BY <2>1, <2>2 DEF LastTraded, x
  <2> QED
    BY <1>3, <2>3 DEF v
<1>10. Excited(g, MarketOrders(u))
  <2>1. CASE again
    <3>1. MarketOrders(u) = o
      BY <1>5, <1>7, <1>8, <2>1
    <3>2. g = f
      BY <1>6, <2>1 DEF g, FeedTrade
    <3> QED
      BY <1>4, <3>1, <3>2
  <2>2. CASE ~again
    <3>1. MarketOrders(u) = [o EXCEPT ![taker] = Append(@, ts)]
      BY <1>5, <1>7, <1>8, <2>2
    <3>2. Excited(g, [o EXCEPT ![taker] = Append(@, ts)])
      BY <1>4, <1>6, <2>2, ExcitedTrade DEF g
    <3> QED
      BY <3>1, <3>2
  <2> QED
    BY <2>1, <2>2
<1> QED
  BY <1>9, <1>10 DEF Counted, x, u, g

LEMMA CountedBook ==
  ASSUME NEW f \in FeatureStates, NEW s, Counted(f, s), NEW ts \in Nat, f.lastTs <= ts,
         NEW top \in Tops
  PROVE  Counted(FeedBook(f, ts, top), s)
<1>1. FeedBook(f, ts, top).lastOrder = f.lastOrder
  <2> DEFINE v == IF top \in CrossedTops THEN f.vol ELSE Append(f.vol, <<ts, top>>)
  <2>1. FeedBook(f, ts, top) = [f EXCEPT !.top = top, !.lastTs = ts, !.vol = v]
    BY DEF FeedBook, FeatureStates
  <2> HIDE DEF v
  <2> QED
    BY <2>1 DEF FeatureStates
<1>2. Excited(FeedBook(f, ts, top), MarketOrders(s))
  BY ExcitedBook DEF Counted
<1> QED
  BY <1>1, <1>2 DEF Counted, LastTraded

LEMMA CountedFit ==
  ASSUME NEW f \in FeatureStates, NEW s, Counted(f, s), NEW p \in Params
  PROVE  Counted(SetHawkes(f, p), s) /\ SetHawkes(f, p).lastTs = f.lastTs
<1>1. SetHawkes(f, p).lastOrder = f.lastOrder /\ SetHawkes(f, p).lastTs = f.lastTs
  BY SetHawkesType DEF Shares
<1>2. Excited(SetHawkes(f, p), MarketOrders(s))
  BY ExcitedFit DEF Counted
<1> QED
  BY <1>1, <1>2 DEF Counted, LastTraded

LEMMA Lines ==
  ASSUME NEW s, s \in Seq(Range(s)), NEW x
  PROVE  Append(s, x) \in Seq(Range(Append(s, x)))
<1> DEFINE L == Range(s) \cup {x}
<1>1. s \in Seq(L) /\ x \in L
  <2>1. Range(s) \subseteq L
    OBVIOUS
  <2> QED
    BY <2>1, SeqMonotonic
<1> HIDE DEF L
<1>2. Append(s, x) \in Seq(L)
  BY <1>1, AppendProperties
<1> QED
  BY <1>2, InRange

(* The log of an event, with its fill.                                       *)
LEMMA CountedExtends ==
  ASSUME NEW f, NEW u, u \in Seq(Range(u)), Counted(f, u), NEW l, Extends(l, u)
  PROVE  Counted(f, l)
<1>1. \A x : FillLine(x).k # "trade"
  BY DEF FillLine
<1> QED
  BY <1>1, CountedSame DEF Extends

LEMMA CountedNew == NewFeatures \in FeatureStates /\ Counted(NewFeatures, <<>>)
<1> DEFINE h == [taker \in Takers |-> <<>>]
<1>1. h \in [Takers -> Seq(Nat)] /\ <<>> \in Seq(Nat \X Tops) /\ <<>> \in Seq(Nat)
  BY EmptySeq
<1>2. NewFeatures = [top |-> None, lastTs |-> 0, vol |-> <<>>, params |-> Default,
                     lastOrder |-> None, heat |-> h, events |-> h]
  BY DEF NewFeatures
<1>3. \A taker \in Takers : h[taker] = <<>>
  OBVIOUS
<1> HIDE DEF h
<1>4. NewFeatures \in FeatureStates
  BY <1>1, <1>2 DEF FeatureStates
<1>5. OfKind(<<>>, "trade") = <<>>
  BY SelectEmpty DEF OfKind
<1>6. MarketOrders(<<>>) = h
  <2>1. ASSUME NEW taker \in Takers
        PROVE  Times(<<>>, taker) = <<>>
    <3>1. Indices(<<>>) = <<>>
      <4>1. DOMAIN <<>> = {} /\ Indices(<<>>) = [i \in DOMAIN <<>> |-> i]
        BY DEF Indices
      <4> QED
        BY <4>1
    <3>2. Select(Indices(<<>>), Firsts(<<>>, taker)) = <<>>
      BY <3>1, SelectEmpty
    <3>3. Times(<<>>, taker) = [n \in DOMAIN <<>> |-> <<>>[<<>>[n]].ts]
      BY <3>2 DEF Times
    <3> QED
      BY <3>3
  <2> QED
    BY <1>5, <2>1, MarketOrdersAre DEF h
<1>7. Suffix(<<>>, <<>>)
  BY <1>1, SuffixSame
<1>8. \A S : Select(<<>>, S) = <<>>
  BY SelectEmpty
<1>9. Excited(NewFeatures, h)
  <2>1. \A taker \in Takers : NewFeatures.events[taker] = <<>> /\ NewFeatures.heat[taker] = <<>>
    BY <1>2, <1>3
  <2>2. \A taker \in Takers, c \in Int : Seen(NewFeatures, h, taker, c)
    BY <1>3, <1>7, <1>8, <2>1 DEF Seen
  <2> QED
    BY <1>1, <1>3, <1>7, <2>1, <2>2 DEF Excited
<1>10. LastTraded(NewFeatures, <<>>)
  BY <1>2 DEF LastTraded
<1> QED
  BY <1>4, <1>5, <1>6, <1>9, <1>10 DEF Counted

-----------------------------------------------------------------------------
(* The inductive invariant: the engines trade exactly once a calibration is  *)
(* in the log, the log gives the engines, the file is one of its prefixes.   *)
LiveTypes ==
  /\ clocks \in [book : Nat, trade : Nat]
  /\ lastL1 \in Tops \cup {None} /\ warmTop \in Tops \cup {None}
  /\ status \in {"warming up", "calibrating", "trading", "closed", "killed"}

Phases ==
  /\ status \in {"warming up", "calibrating"} => feed.sim = None
  /\ status = "trading" => feed.sim # None

Reports(line, sim) ==
  line.summary = IF sim # None /\ sim.sampled THEN MakerFills(sim.fills) ELSE None

FileSafe ==
  /\ Running => file = <<>>
  /\ Faithful(file, feed)
  /\ status = "closed" =>
       Recorded(file) = Fills(Replay(file)) /\ Reports(Last(file), Replay(file).sim)

Excitation == Counted(feed.features, log) /\ feed.features.lastTs <= clocks.book

IInv == LiveTypes /\ Phases /\ Logged(log, feed, Fills(feed)) /\ FileSafe /\ Excitation

LEMMA FeedFields ==
  ASSUME IInv
  PROVE  /\ feed \in Feeds /\ feed.features \in FeatureStates /\ feed.features.lastTs \in Nat
         /\ Replay(log) \in Feeds /\ Agree(Replay(log), feed)
         /\ Fills(feed) \in Seq(FillRecords)
<1>1. feed \in Feeds /\ Replay(log) \in Feeds /\ Agree(Replay(log), feed)
  BY DEF IInv, Logged
<1>2. feed.features \in FeatureStates
  BY <1>1, FeedIs
<1> QED
  BY <1>1, <1>2, FillsType, FeatureFields DEF Takers

LEMMA FaithfulEmpty ==
  ASSUME NEW e \in Feeds
  PROVE  Faithful(<<>>, e)
<1>1. Recorded(<<>>) = <<>> /\ Fills(Replay(<<>>)) = <<>>
  BY RecordedEmpty, ReplayEmpty, NoFills
<1>2. Pre(<<>>, <<>>) /\ Pre(<<>>, Fills(e))
  BY EmptySeq, PreEmpty, FillsType
<1> QED
  BY <1>1, <1>2 DEF Faithful

(* While the session runs there is no file to read.                          *)
LEMMA NoFileYet ==
  ASSUME file' = <<>>, feed' \in Feeds, status' # "closed"
  PROVE  FileSafe'
<1>1. Faithful(file', feed')
  BY FaithfulEmpty
<1> QED
  BY <1>1 DEF FileSafe

LEMMA KeptLog ==
  ASSUME LiveTypes', Phases', Logged(log', feed', Fills(feed')), FileSafe', Excitation'
  PROVE  IInv'
BY DEF IInv

LEMMA InitIInv == Init => IInv
<1> SUFFICES ASSUME Init
             PROVE  IInv
  OBVIOUS
<1>1. LiveTypes /\ Phases
  BY DEF Init, LiveTypes, Phases, NewFeed
<1>2. feed \in Feeds /\ feed.sim = None /\ Fills(feed) = <<>>
  BY CountedNew, NoFills DEF Init, NewFeed, Feeds
<1>3. FileSafe
  BY <1>2, FaithfulEmpty DEF Init, FileSafe
<1>4. Excitation
  <2>1. feed.features = NewFeatures /\ clocks.book = 0 /\ log = <<>>
    BY DEF Init, NewFeed
  <2>2. NewFeatures.lastTs = 0
    BY DEF NewFeatures
  <2> QED
    BY <2>1, <2>2, CountedNew DEF Excitation
<1>5. Logged(log, feed, Fills(feed))
  <2>1. log = <<>> /\ Replay(log) = feed /\ Recorded(log) = <<>>
    BY ReplayEmpty, RecordedEmpty DEF Init
  <2>2. log \in Seq(Range(log)) /\ Len(log) = 0
    BY <2>1, EmptySeq
  <2>3. Agree(feed, feed)
    BY DEF Agree, Shares
  <2>4. Pre(Fills(feed), Fills(feed))
    BY <1>2, FillsType, PreSame
  <2>5. ASSUME NEW n \in 0 .. Len(log)
        PROVE  Faithful(SubSeq(log, 1, n), feed)
    <3>1. n = 0
      BY <2>2
    <3>2. SubSeq(log, 1, n) = log
      BY <2>1, <3>1
    <3> QED
      BY <1>2, <2>1, <3>2, FaithfulEmpty
  <2> QED
    BY <1>2, <2>1, <2>2, <2>3, <2>4, <2>5 DEF Logged
<1> QED
  BY <1>1, <1>3, <1>4, <1>5 DEF IInv

LEMMA BookKeeps ==
  ASSUME IInv, BookEvent
  PROVE  IInv'
<1>1. PICK ts \in clocks.book .. MaxTs, top \in Tops : HandleBook(ts, top)
  BY DEF BookEvent
<1>2. /\ Running /\ UNCHANGED <<status, warmTop, file>>
      /\ clocks' = [clocks EXCEPT !.book = ts]
  BY <1>1 DEF BookEvent, HandleBook
<1>3. ts \in Nat /\ clocks.book <= ts /\ clocks.book \in Nat
  <2>1. clocks.book \in Nat /\ MaxTs \in Nat
    BY Constants DEF IInv, LiveTypes
  <2> QED
    BY <2>1
<1>4. clocks' \in [book : Nat, trade : Nat] /\ clocks'.book = ts
  BY <1>2, <1>3 DEF IInv, LiveTypes
<1>5. /\ file' = <<>> /\ status' # "closed" /\ status' \in {"warming up", "calibrating", "trading"}
  BY <1>2 DEF IInv, FileSafe, Running
<1>6. CASE top = lastL1
  <2>1. UNCHANGED <<feed, lastL1, log>>
    BY <1>1, <1>6 DEF HandleBook
  <2>2. Excitation'
    <3>1. feed.features.lastTs <= ts
      BY <1>3, FeedFields DEF IInv, Excitation
    <3> QED
      BY <1>4, <2>1, <3>1 DEF IInv, Excitation
  <2>3. FileSafe'
    BY <1>5, <2>1, FeedFields, NoFileYet
  <2>4. LiveTypes' /\ Phases'
    BY <1>2, <1>4, <2>1 DEF IInv, LiveTypes, Phases
  <2>5. Logged(log', feed', Fills(feed'))
    BY <2>1 DEF IInv
  <2> QED
    BY <2>2, <2>3, <2>4, <2>5, KeptLog
<1>7. CASE top # lastL1
  <2>1. /\ lastL1' = top /\ feed' = OnBook(feed, ts, top)
        /\ log' = Append(log, BookLine(ts, top)) \o NewFills(feed')
    BY <1>1, <1>7 DEF HandleBook, Record
  <2>2. /\ Logged(log', feed', Fills(feed')) /\ Extends(log', Append(log, BookLine(ts, top)))
        /\ log \in Seq(Range(log))
    <3>1. Logged(log, feed, Fills(feed))
      BY DEF IInv
    <3> QED
      BY <1>3, <2>1, <3>1, BookLogged
  <2>3. /\ feed' \in Feeds /\ (feed'.sim = None <=> feed.sim = None)
        /\ (feed'.features = feed.features \/ feed'.features = FeedBook(feed.features, ts, top))
    BY <1>3, <2>1, FeedFields, OnBookFacts
  <2>4. Excitation'
    <3> DEFINE u == Append(log, BookLine(ts, top))
               f == FeedBook(feed.features, ts, top)
    <3>1. /\ feed.features.lastTs <= ts /\ feed.features \in FeatureStates
          /\ Counted(feed.features, log)
      BY <1>3, FeedFields DEF IInv, Excitation
    <3>2. Counted(f, log) /\ f.lastTs = ts
      BY <1>3, <3>1, CountedBook, FeedBookType
    <3>3. BookLine(ts, top).k # "trade"
      BY DEF BookLine
    <3> HIDE DEF f
    <3>4. Counted(feed'.features, log) /\ feed'.features.lastTs <= ts
      BY <1>3, <2>3, <3>1, <3>2 DEF f
    <3>5. Counted(feed'.features, u) /\ u \in Seq(Range(u))
      BY <2>2, <3>3, <3>4, CountedSame, Lines
    <3> HIDE DEF u
    <3>6. Counted(feed'.features, log')
      BY <2>2, <3>5, CountedExtends DEF u
    <3> QED
      BY <1>4, <3>4, <3>6 DEF Excitation
  <2>5. FileSafe'
    BY <1>5, <2>3, NoFileYet
  <2>6. LiveTypes' /\ Phases'
    BY <1>2, <1>4, <2>1, <2>3 DEF IInv, LiveTypes, Phases
  <2> QED
    BY <2>2, <2>4, <2>5, <2>6, KeptLog
<1> QED
  BY <1>6, <1>7

LEMMA FeedTradeTime ==
  ASSUME NEW f \in FeatureStates, NEW ts \in Nat, NEW taker \in Takers
  PROVE  FeedTrade(f, ts, taker).lastTs = f.lastTs
BY FeedTradeType, ZenonT(30)

LEMMA TradeKeeps ==
  ASSUME IInv, TradeEvent
  PROVE  IInv'
<1>1. PICK ts \in clocks.trade .. MaxTs, taker \in Takers :
        /\ clocks' = [clocks EXCEPT !.trade = ts]
        /\ feed' = OnTrade(feed, ts, taker)
        /\ log' = Append(log, TradeLine(ts, taker)) \o NewFills(feed')
  BY DEF TradeEvent, Record
<1>2. Running /\ UNCHANGED <<status, lastL1, warmTop, file>>
  BY DEF TradeEvent
<1>3. ts \in Nat
  <2>1. clocks.trade \in Nat /\ MaxTs \in Nat
    BY Constants DEF IInv, LiveTypes
  <2> QED
    BY <2>1
<1>4. clocks' \in [book : Nat, trade : Nat] /\ clocks'.book = clocks.book
  BY <1>1, <1>3 DEF IInv, LiveTypes
<1>5. file' = <<>> /\ status' # "closed"
  BY <1>2 DEF IInv, FileSafe, Running
<1>6. /\ Logged(log', feed', Fills(feed')) /\ Extends(log', Append(log, TradeLine(ts, taker)))
      /\ log \in Seq(Range(log))
  <2>1. Logged(log, feed, Fills(feed))
    BY DEF IInv
  <2> QED
    BY <1>1, <1>3, <2>1, TradeLogged
<1>7. /\ feed' \in Feeds /\ (feed'.sim = None <=> feed.sim = None)
      /\ feed'.features = FeedTrade(feed.features, ts, taker)
  BY <1>1, <1>3, FeedFields, OnTradeFacts
<1>8. Excitation'
  <2> DEFINE u == Append(log, TradeLine(ts, taker))
  <2>1. feed.features \in FeatureStates /\ Counted(feed.features, log)
    BY FeedFields DEF IInv, Excitation
  <2>2. Counted(feed'.features, u) /\ u \in Seq(Range(u))
    BY <1>3, <1>6, <1>7, <2>1, CountedTrade, Lines
  <2> HIDE DEF u
  <2>3. Counted(feed'.features, log')
    BY <1>6, <2>2, CountedExtends DEF u
  <2>4. feed'.features.lastTs = feed.features.lastTs
    BY <1>3, <1>7, <2>1, FeedTradeTime
  <2> QED
    BY <1>4, <2>3, <2>4 DEF IInv, Excitation
<1>9. FileSafe'
  BY <1>5, <1>7, NoFileYet
<1>10. LiveTypes' /\ Phases'
  BY <1>2, <1>4, <1>7 DEF IInv, LiveTypes, Phases
<1> QED
  BY <1>6, <1>8, <1>9, <1>10, KeptLog

LEMMA StartCalibrationKeeps ==
  ASSUME IInv, StartCalibration
  PROVE  IInv'
<1>1. /\ status = "warming up" /\ status' = "calibrating" /\ warmTop' = lastL1
      /\ UNCHANGED <<feed, lastL1, log, file, clocks>>
  BY DEF StartCalibration
<1>2. FileSafe'
  <2>1. file' = <<>>
    BY <1>1 DEF IInv, FileSafe, Running
  <2> QED
    BY <1>1, <2>1, FeedFields, NoFileYet
<1>3. LiveTypes' /\ Phases' /\ Excitation'
  BY <1>1 DEF IInv, LiveTypes, Phases, Excitation
<1>4. Logged(log', feed', Fills(feed'))
  BY <1>1 DEF IInv
<1> QED
  BY <1>2, <1>3, <1>4, KeptLog

LEMMA StartTradingKeeps ==
  ASSUME IInv, StartTrading
  PROVE  IInv'
<1>1. PICK p \in Params :
        /\ feed' = [features |-> SetHawkes(feed.features, p), sim |-> NewSim(warmTop)]
        /\ log' = Append(log, CalibrationLine(feed.features.lastTs, p, warmTop))
  BY DEF StartTrading
<1>2. /\ status = "calibrating" /\ status' = "trading"
      /\ UNCHANGED <<lastL1, warmTop, file, clocks>>
  BY DEF StartTrading
<1> DEFINE r == Replay(log)
           line == CalibrationLine(feed.features.lastTs, p, warmTop)
<1>3. feed \in Feeds /\ r \in Feeds /\ Agree(r, feed) /\ feed.sim = None /\ Fills(feed) = <<>>
  BY <1>2, FeedFields DEF IInv, Phases, Fills
<1>4. r.sim = None /\ Shares(r.features, feed.features)
  BY <1>3 DEF Agree
<1>5. NewSim(warmTop) \in Sims /\ NewSim(warmTop) # None /\ NewSim(warmTop).fills = <<>>
  BY NewSimType DEF IInv, LiveTypes
<1>6. ReplayLine(r, line) = feed'
  <2>1. ReplayLine(r, line) = [features |-> SetHawkes(r.features, p), sim |-> NewSim(warmTop)]
    BY <1>4, ReplayLines
  <2>2. SetHawkes(r.features, p) = SetHawkes(feed.features, p)
    <3>1. r.features \in FeatureStates /\ feed.features \in FeatureStates
      BY <1>3, FeedIs
    <3> QED
      BY <1>4, <3>1, SetHawkesSame
  <2> QED
    BY <1>1, <2>1, <2>2
<1>7. line.k # "fill"
  BY DEF CalibrationLine
<1> HIDE DEF line, r
<1>8. feed.features \in FeatureStates /\ SetHawkes(feed.features, p) \in FeatureStates
      /\ SetHawkes(feed.features, p).lastTs = feed.features.lastTs
  BY <1>3, FeedIs, SetHawkesType DEF Shares
<1>9. feed' \in Feeds /\ feed'.sim # None /\ Fills(feed') = <<>>
      /\ feed'.features = SetHawkes(feed.features, p)
  BY <1>1, <1>5, <1>8 DEF Feeds, Fills
<1>10. Logged(log', feed', Fills(feed'))
  <2>1. Agree(feed', feed')
    BY DEF Agree, Shares
  <2>2. Pre(Fills(feed), Fills(feed'))
    BY <1>3, <1>9, EmptySeq, PreSame
  <2>3. Logged(log, feed, Fills(feed))
    BY DEF IInv
  <2>4. Logged(Append(log, line), feed', Fills(feed))
    BY <1>6, <1>7, <1>9, <2>1, <2>2, <2>3, LoggedLine DEF r
  <2> QED
    BY <1>1, <1>3, <1>9, <2>4 DEF line
<1>11. FileSafe'
  <2>1. file' = <<>>
    BY <1>2 DEF IInv, FileSafe, Running
  <2> QED
    BY <1>2, <1>9, <2>1, NoFileYet
<1>12. Excitation'
  <2>1. Counted(feed'.features, log) /\ feed'.features.lastTs = feed.features.lastTs
    BY <1>8, <1>9, CountedFit DEF IInv, Excitation
  <2>2. log \in Seq(Range(log))
    BY DEF IInv, Logged
  <2>3. CalibrationLine(feed.features.lastTs, p, warmTop).k # "trade"
    BY DEF CalibrationLine
  <2>4. Counted(feed'.features, log')
    BY <1>1, <2>1, <2>2, <2>3, CountedSame
  <2> QED
    BY <1>2, <2>1, <2>4 DEF IInv, Excitation
<1>13. LiveTypes' /\ Phases'
  BY <1>2, <1>9 DEF IInv, LiveTypes, Phases
<1> QED
  BY <1>10, <1>11, <1>12, <1>13, KeptLog

LEMMA CalibrationFailsKeeps ==
  ASSUME IInv, CalibrationFails
  PROVE  IInv'
<1>1. /\ status = "calibrating" /\ status' = "warming up"
      /\ UNCHANGED <<lastL1, warmTop, log, file, clocks>>
  BY DEF CalibrationFails
<1>2. feed.sim = None /\ feed \in Feeds /\ feed.features \in FeatureStates
  BY <1>1, FeedFields DEF IInv, Phases
<1>3. Logged(log, feed, Fills(feed)) /\ Replay(log) \in Feeds /\ Agree(Replay(log), feed)
  BY FeedFields DEF IInv
<1>4. /\ feed' \in Feeds /\ feed'.sim = None /\ Logged(log, feed', Fills(feed'))
      /\ Counted(feed'.features, log) /\ feed'.features.lastTs = feed.features.lastTs
  <2>1. CASE feed' = feed
    BY <1>2, <1>3, <2>1 DEF IInv, Excitation
  <2>2. CASE \E p \in Params : feed' = [feed EXCEPT !.features = SetHawkes(@, p)]
    <3> PICK p \in Params : feed' = [feed EXCEPT !.features = SetHawkes(@, p)]
      BY <2>2
    <3>1. /\ feed' \in Feeds /\ feed'.sim = None /\ Fills(feed') = Fills(feed)
          /\ feed'.features = SetHawkes(feed.features, p) /\ Agree(Replay(log), feed')
      BY <1>2, <1>3, FitType
    <3>2. Logged(log, feed', Fills(feed'))
      BY <1>3, <3>1, LoggedSame
    <3>3. Counted(feed'.features, log) /\ feed'.features.lastTs = feed.features.lastTs
      BY <1>2, <3>1, CountedFit DEF IInv, Excitation
    <3> QED
      BY <3>1, <3>2, <3>3
  <2>3. feed' = feed \/ \E p \in Params : feed' = [feed EXCEPT !.features = SetHawkes(@, p)]
    BY DEF CalibrationFails
  <2> QED
    BY <2>1, <2>2, <2>3
<1>5. FileSafe'
  <2>1. file' = <<>>
    BY <1>1 DEF IInv, FileSafe, Running
  <2> QED
    BY <1>1, <1>4, <2>1, NoFileYet
<1>6. LiveTypes' /\ Phases' /\ Excitation'
  BY <1>1, <1>4 DEF IInv, LiveTypes, Phases, Excitation
<1> QED
  BY <1>1, <1>4, <1>5, <1>6, KeptLog

LEMMA StartRefitKeeps ==
  ASSUME IInv, StartRefit
  PROVE  IInv'
<1>1. status = "trading" /\ UNCHANGED <<feed, status, lastL1, warmTop, log, file, clocks>>
  BY DEF StartRefit
<1>2. FileSafe'
  <2>1. file' = <<>>
    BY <1>1 DEF IInv, FileSafe, Running
  <2> QED
    BY <1>1, <2>1, FeedFields, NoFileYet
<1>3. LiveTypes' /\ Phases' /\ Excitation'
  BY <1>1 DEF IInv, LiveTypes, Phases, Excitation
<1>4. Logged(log', feed', Fills(feed'))
  BY <1>1 DEF IInv
<1> QED
  BY <1>2, <1>3, <1>4, KeptLog

LEMMA EndRefitKeeps ==
  ASSUME IInv, EndRefit
  PROVE  IInv'
<1>1. PICK p \in Params :
        /\ feed' = [feed EXCEPT !.features = SetHawkes(@, p)]
        /\ log' = Append(log, HawkesLine(feed.features.lastTs, p))
  BY DEF EndRefit
<1>2. status = "trading" /\ UNCHANGED <<status, lastL1, warmTop, file, clocks>>
  BY DEF EndRefit
<1> DEFINE line == HawkesLine(feed.features.lastTs, p)
<1>3. feed \in Feeds /\ feed.features \in FeatureStates /\ feed.sim # None /\ Replay(log) = feed
  BY <1>2, FeedFields DEF IInv, Phases, Agree
<1>4. /\ feed' \in Feeds /\ feed'.sim = feed.sim /\ Fills(feed') = Fills(feed)
      /\ feed'.features = SetHawkes(feed.features, p)
  BY <1>1, <1>3, FitType
<1>5. ReplayLine(Replay(log), line) = feed'
  BY <1>1, <1>3, ReplayLines
<1>6. line.k # "fill"
  BY DEF HawkesLine
<1> HIDE DEF line
<1>7. Logged(log', feed', Fills(feed'))
  <2>1. Agree(feed', feed')
    BY DEF Agree, Shares
  <2>2. Pre(Fills(feed), Fills(feed'))
    BY <1>3, <1>4, FillsType, PreSame
  <2>3. Logged(log, feed, Fills(feed))
    BY DEF IInv
  <2>4. Logged(Append(log, line), feed', Fills(feed))
    BY <1>4, <1>5, <1>6, <2>1, <2>2, <2>3, LoggedLine
  <2> QED
    BY <1>1, <1>4, <2>4 DEF line
<1>8. FileSafe'
  <2>1. file' = <<>>
    BY <1>2 DEF IInv, FileSafe, Running
  <2> QED
    BY <1>2, <1>4, <2>1, NoFileYet
<1>9. Excitation'
  <2>1. Counted(feed'.features, log) /\ feed'.features.lastTs = feed.features.lastTs
    BY <1>3, <1>4, CountedFit DEF IInv, Excitation
  <2>2. log \in Seq(Range(log))
    BY DEF IInv, Logged
  <2>3. HawkesLine(feed.features.lastTs, p).k # "trade"
    BY DEF HawkesLine
  <2>4. Counted(feed'.features, log')
    BY <1>1, <2>1, <2>2, <2>3, CountedSame
  <2> QED
    BY <1>2, <2>1, <2>4 DEF IInv, Excitation
<1>10. LiveTypes' /\ Phases'
  BY <1>2, <1>3, <1>4 DEF IInv, LiveTypes, Phases
<1> QED
  BY <1>7, <1>8, <1>9, <1>10, KeptLog

(* A session that ends has recorded what it says it did.                     *)
LEMMA CloseKeeps ==
  ASSUME IInv, Close
  PROVE  IInv'
<1> DEFINE line == EndLine(Summary(feed.sim))
<1>1. /\ status' = "closed" /\ log' = Append(log, line) /\ file' = log'
      /\ UNCHANGED <<feed, lastL1, warmTop, clocks>>
  BY DEF Close
<1>2. Logged(log, feed, Fills(feed)) /\ feed \in Feeds
      /\ Replay(log) \in Feeds /\ Agree(Replay(log), feed)
  BY FeedFields DEF IInv
<1>3. ReplayLine(Replay(log), line) = Replay(log)
  BY ReplayLines
<1>4. line.k # "fill" /\ line.k # "trade" /\ Reports(line, feed.sim)
  BY DEF EndLine, Summary, Reports
<1> HIDE DEF line
<1>5. Logged(log', feed', Fills(feed'))
  <2>1. Pre(Fills(feed), Fills(feed))
    BY <1>2, FillsType, PreSame
  <2>2. Logged(Append(log, line), feed, Fills(feed))
    BY <1>2, <1>3, <1>4, <2>1, LoggedLine
  <2> QED
    BY <1>1, <2>2
<1>6. FileSafe'
  <2>1. log' \in Seq(Range(log')) /\ Recorded(log') = Fills(feed') /\ Agree(Replay(log'), feed')
    BY <1>5 DEF Logged
  <2>2. Fills(Replay(log')) = Fills(feed')
    BY <2>1, AgreeFills
  <2>3. Pre(Fills(feed'), Fills(feed'))
    BY <1>1, <1>2, FillsType, PreSame
  <2>4. Faithful(file', feed')
    BY <1>1, <2>1, <2>2, <2>3 DEF Faithful
  <2>5. Last(log') = line
    <3>1. log \in Seq(Range(log))
      BY <1>2 DEF Logged
    <3>2. Len(Append(log, line)) = Len(log) + 1 /\ Append(log, line)[Len(log) + 1] = line
      BY <3>1
    <3> QED
      BY <1>1, <3>2 DEF Last
  <2>6. Recorded(file') = Fills(Replay(file')) /\ Reports(Last(file'), Replay(file').sim)
    <3>1. Replay(log').sim = feed.sim
      BY <1>1, <2>1 DEF Agree
    <3> QED
      BY <1>1, <1>4, <2>1, <2>2, <2>5, <3>1
  <2> QED
    BY <1>1, <2>4, <2>6 DEF FileSafe, Running
<1>7. Excitation'
  <2>1. Counted(feed.features, log) /\ log \in Seq(Range(log))
    BY DEF IInv, Excitation, Logged
  <2>2. Counted(feed.features, log')
    BY <1>1, <1>4, <2>1, CountedSame
  <2> QED
    BY <1>1, <2>2 DEF IInv, Excitation
<1>8. LiveTypes' /\ Phases'
  BY <1>1 DEF IInv, LiveTypes, Phases
<1> QED
  BY <1>5, <1>6, <1>7, <1>8, KeptLog

LEMMA KillKeeps ==
  ASSUME IInv, Kill
  PROVE  IInv'
<1>1. PICK n \in 0 .. Len(log) : file' = SubSeq(log, 1, n)
  BY DEF Kill
<1>2. status' = "killed" /\ UNCHANGED <<feed, lastL1, warmTop, log, clocks>>
  BY DEF Kill
<1>3. Faithful(file', feed')
  BY <1>1, <1>2 DEF IInv, Logged
<1>4. FileSafe'
  BY <1>2, <1>3 DEF FileSafe, Running
<1>5. LiveTypes' /\ Phases' /\ Excitation'
  BY <1>2 DEF IInv, LiveTypes, Phases, Excitation
<1>6. Logged(log', feed', Fills(feed'))
  BY <1>2 DEF IInv
<1> QED
  BY <1>4, <1>5, <1>6, KeptLog

LEMMA NextKeeps == IInv /\ [Next]_liveVars => IInv'
<1> SUFFICES ASSUME IInv, [Next]_liveVars
             PROVE  IInv'
  OBVIOUS
<1>1. CASE UNCHANGED liveVars
  <2>1. /\ LiveTypes' /\ Phases' /\ FileSafe' /\ Excitation'
    BY <1>1 DEF IInv, LiveTypes, Phases, FileSafe, Excitation, Running, liveVars
  <2>2. Logged(log', feed', Fills(feed'))
    BY <1>1 DEF IInv, liveVars
  <2> QED
    BY <2>1, <2>2, KeptLog
<1>2. CASE Next
  BY <1>2, BookKeeps, TradeKeeps, StartCalibrationKeeps, StartTradingKeeps,
     CalibrationFailsKeeps, StartRefitKeeps, EndRefitKeeps, CloseKeeps, KillKeeps DEF Next
<1> QED
  BY <1>1, <1>2

LEMMA LogGivesEngines == IInv => ReplayExact
BY FeedFields DEF Agree, ReplayExact

(* What compare_fills says of a list and one that begins with it.            *)
LEMMA PrefixMismatch ==
  ASSUME NEW a, NEW b, Pre(a, b)
  PROVE  FirstMismatch(a, b) = IF a = b THEN None ELSE Len(a) + 1
<1> DEFINE shorter == IF Len(b) < Len(a) THEN Len(b) ELSE Len(a)
           differ == {i \in 1 .. shorter : a[i] # b[i]}
<1>1. Len(a) \in Nat /\ Len(b) \in Nat /\ Len(a) <= Len(b)
  BY DEF Pre
<1>2. shorter = Len(a)
  BY <1>1
<1>3. differ = {}
  BY <1>2 DEF Pre
<1>4. FirstMismatch(a, b) = IF Len(a) # Len(b) THEN Len(a) + 1 ELSE None
  BY <1>2, <1>3 DEF FirstMismatch
<1>5. a = b <=> Len(a) = Len(b)
  BY DEF Pre
<1> QED
  BY <1>4, <1>5

LEMMA FileReplays == IInv => KilledSessionReplays
<1> SUFFICES ASSUME IInv
             PROVE  KilledSessionReplays
  OBVIOUS
<1> DEFINE lines == OfKind(file, "fill")
           recorded == [i \in DOMAIN lines |-> lines[i].fill]
           replayed == Fills(Replay(file))
<1>1. recorded = Recorded(file)
  BY DEF Recorded
<1>2. Pre(Recorded(file), replayed) /\ Pre(replayed, Fills(feed))
  BY DEF IInv, FileSafe, Faithful
<1>3. IsPrefix(recorded, replayed) /\ IsPrefix(replayed, Fills(feed))
  <2> HIDE DEF recorded, replayed
  <2> QED
    BY <1>1, <1>2, PreIsPrefix
<1>4. status = "closed" =>
        /\ recorded = replayed
        /\ LET sim == Replay(file).sim IN
           Last(file).summary =
             IF sim # None /\ sim.sampled THEN MakerFills(recorded) ELSE None
  <2> SUFFICES ASSUME status = "closed"
               PROVE  /\ recorded = replayed
                      /\ LET sim == Replay(file).sim IN
                         Last(file).summary =
                           IF sim # None /\ sim.sampled THEN MakerFills(recorded) ELSE None
    OBVIOUS
  <2> DEFINE sim == Replay(file).sim
  <2>1. Recorded(file) = replayed /\ Reports(Last(file), sim)
    BY DEF IInv, FileSafe
  <2>2. sim # None => replayed = sim.fills
    BY DEF Fills
  <2> HIDE DEF recorded, replayed, sim
  <2>3. recorded = replayed
    BY <1>1, <2>1
  <2>4. Last(file).summary = IF sim # None /\ sim.sampled THEN MakerFills(recorded) ELSE None
    BY <2>1, <2>2, <2>3 DEF Reports
  <2> QED
    BY <2>3, <2>4 DEF sim
<1>5. FirstMismatch(recorded, replayed) =
        IF recorded = replayed THEN None ELSE Len(recorded) + 1
  <2> HIDE DEF recorded, replayed
  <2> QED
    BY <1>1, <1>2, PrefixMismatch
<1> QED
  BY <1>3, <1>4, <1>5 DEF KilledSessionReplays

LEMMA FitKeepsExcitation == IInv => RefitKeepsExcitation
BY FeedFields, ExcitationKept DEF IInv, Excitation, Counted, RefitKeepsExcitation


-----------------------------------------------------------------------------
(* Two streams in one, by time and a trade first: the order that a backtest  *)
(* feeds the events in.                                                      *)
Event(x) == x.ts \in Int /\ x.k \in {"book", "trade"}

Before(x, y) == x.ts < y.ts \/ (x.ts = y.ts /\ (x.k = "trade" \/ y.k = "book"))

InOrder(s) == \A i, j \in DOMAIN s : i < j => Before(s[i], s[j])

IsStream(p) == p \in Seq(Range(p)) /\ InOrder(p) /\ \A x \in Range(p) : Event(x)

Streams(p, q) == IsStream(p) /\ IsStream(q) /\ Range(p) \cap Range(q) = {}

(* What is out are the first i - 1 elements of p and the first j - 1 of q,   *)
(* and what is to come belongs behind it.                                    *)
Woven(out, p, q, i, j) ==
  /\ out \in Seq(Range(p) \cup Range(q)) /\ InOrder(out)
  /\ i \in 1 .. Len(p) + 1 /\ j \in 1 .. Len(q) + 1 /\ Len(out) = i + j - 2
  /\ Select(out, Range(p)) = SubSeq(p, 1, i - 1)
  /\ Select(out, Range(q)) = SubSeq(q, 1, j - 1)
  /\ i <= Len(p) => \A a \in DOMAIN out : Before(out[a], p[i])
  /\ j <= Len(q) => \A a \in DOMAIN out : Before(out[a], q[j])

LEMMA BeforeTransitive ==
  ASSUME NEW x, NEW y, NEW z, Event(x), Event(y), Event(z), Before(x, y), Before(y, z)
  PROVE  Before(x, z)
BY DEF Event, Before

LEMMA BeforeOnce ==
  ASSUME NEW x, NEW y, Event(x), Event(y), x.k # y.k, Before(x, y)
  PROVE  ~Before(y, x)
BY DEF Event, Before

LEMMA InOrderAppend ==
  ASSUME NEW L, NEW s \in Seq(L), NEW x \in L, InOrder(s),
         \A a \in DOMAIN s : Before(s[a], x)
  PROVE  InOrder(Append(s, x))
<1> DEFINE u == Append(s, x)
           n == Len(s)
<1>1. n \in Nat /\ DOMAIN s = 1 .. n /\ DOMAIN u = 1 .. n + 1 /\ u[n + 1] = x
      /\ \A i \in 1 .. n : u[i] = s[i]
  OBVIOUS
<1> HIDE DEF u, n
<1>2. ASSUME NEW i \in 1 .. n + 1, NEW j \in 1 .. n + 1, i < j
      PROVE  Before(u[i], u[j])
  <2>1. i \in 1 .. n /\ (j = n + 1 \/ j \in 1 .. n)
    BY <1>1, <1>2
  <2>2. CASE j = n + 1
    BY <1>1, <2>1, <2>2
  <2>3. CASE j \in 1 .. n
    BY <1>1, <1>2, <2>1, <2>3 DEF InOrder
  <2> QED
    BY <2>1, <2>2, <2>3
<1> QED
  BY <1>1, <1>2 DEF InOrder, u

LEMMA HeadsGrow ==
  ASSUME NEW L, NEW s \in Seq(L), NEW k \in 1 .. Len(s)
  PROVE  SubSeq(s, 1, k) = Append(SubSeq(s, 1, k - 1), s[k])
<1>1. Len(s) \in Nat /\ k \in Nat /\ k - 1 \in Nat /\ k - 1 <= Len(s) /\ s[k] \in L
  OBVIOUS
<1> DEFINE a == SubSeq(s, 1, k)
           b == SubSeq(s, 1, k - 1)
           c == Append(b, s[k])
<1>2. a \in Seq(L) /\ Len(a) = k /\ \A i \in 1 .. k : a[i] = s[i]
  BY <1>1
<1>3. b \in Seq(L) /\ Len(b) = k - 1 /\ \A i \in 1 .. k - 1 : b[i] = s[i]
  BY <1>1
<1> HIDE DEF a, b
<1>4. c \in Seq(L) /\ Len(c) = k /\ c[k] = s[k] /\ \A i \in 1 .. k - 1 : c[i] = b[i]
  BY <1>1, <1>3
<1> HIDE DEF c
<1>5. ASSUME NEW i \in 1 .. k
      PROVE  a[i] = c[i]
  <2>1. i = k \/ i \in 1 .. k - 1
    BY <1>1
  <2> QED
    BY <1>2, <1>3, <1>4, <2>1
<1>6. a = c
  BY <1>2, <1>4, <1>5, SeqEqual
<1> QED
  BY <1>6 DEF a, b, c

LEMMA WovenSwap ==
  ASSUME NEW out, NEW p, NEW q, NEW i, NEW j
  PROVE  /\ Streams(p, q) => Streams(q, p)
         /\ Woven(out, p, q, i, j) => Woven(out, q, p, j, i)
<1>1. Range(p) \cup Range(q) = Range(q) \cup Range(p) /\ Range(p) \cap Range(q) = Range(q) \cap Range(p)
  OBVIOUS
<1>2. Streams(p, q) => Streams(q, p)
  BY <1>1, Zenon DEF Streams
<1>3. ASSUME Woven(out, p, q, i, j)
      PROVE  Woven(out, q, p, j, i)
  <2>1. Len(out) = j + i - 2
    <3>1. i \in Int /\ j \in Int /\ Len(out) = i + j - 2
      BY <1>3 DEF Woven
    <3> QED
      BY <3>1
  <2> QED
    BY <1>1, <1>3, <2>1, Zenon DEF Woven
<1> QED
  BY <1>2, <1>3

LEMMA InRangeOf ==
  ASSUME NEW p, IsStream(p), NEW i \in 1 .. Len(p)
  PROVE  p[i] \in Range(p) /\ Event(p[i])
<1>1. p[i] \in Range(p)
  BY DEF IsStream
<1> QED
  BY <1>1 DEF IsStream

(* The next element of p is put out, if that of q is not before it.          *)
LEMMA WeaveStep ==
  ASSUME NEW p, NEW q, Streams(p, q), NEW out, NEW i, NEW j, Woven(out, p, q, i, j),
         i <= Len(p), j <= Len(q) => Before(p[i], q[j])
  PROVE  Woven(Append(out, p[i]), p, q, i + 1, j)
<1> DEFINE L == Range(p) \cup Range(q)
           x == p[i]
           u == Append(out, x)
<1>1. /\ out \in Seq(L) /\ InOrder(out) /\ i \in Nat /\ j \in Nat
      /\ i \in 1 .. Len(p) /\ j \in 1 .. Len(q) + 1 /\ Len(p) \in Nat /\ Len(q) \in Nat
      /\ Len(out) = i + j - 2
  <2>1. p \in Seq(Range(p)) /\ q \in Seq(Range(q))
    BY DEF Streams, IsStream
  <2>2. Len(p) \in Nat /\ Len(q) \in Nat
    BY <2>1
  <2>3. i \in 1 .. Len(p) + 1 /\ j \in 1 .. Len(q) + 1
    BY DEF Woven
  <2>4. i \in Nat /\ j \in Nat /\ i \in 1 .. Len(p)
    BY <2>2, <2>3
  <2> QED
    BY <2>2, <2>3, <2>4 DEF Woven
<1>2. x \in Range(p) /\ Event(x) /\ x \in L /\ x \notin Range(q)
  <2>1. x \in Range(p) /\ Event(x)
    BY <1>1, InRangeOf DEF Streams
  <2> QED
    BY <2>1 DEF Streams
<1>3. \A a \in DOMAIN out : Before(out[a], x)
  BY DEF Woven
<1> HIDE DEF x
<1>4. /\ u \in Seq(L) /\ Len(u) = Len(out) + 1 /\ Len(out) \in Nat /\ u[Len(out) + 1] = x
      /\ \A a \in 1 .. Len(out) : u[a] = out[a] /\ out[a] \in L
  BY <1>1, <1>2
<1>5. InOrder(u)
  <2> HIDE DEF L
  <2> QED
    BY <1>1, <1>2, <1>3, InOrderAppend
<1>6. i + 1 \in 1 .. Len(p) + 1 /\ Len(u) = (i + 1) + j - 2 /\ (i + 1) - 1 = i
  BY <1>1, <1>4
<1>7. Select(u, Range(p)) = SubSeq(p, 1, i)
  <2> HIDE DEF L, u
  <2>1. Select(u, Range(p)) = Append(Select(out, Range(p)), x)
    BY <1>1, <1>2, SelectAppend DEF u
  <2>2. Select(out, Range(p)) = SubSeq(p, 1, i - 1)
    BY DEF Woven
  <2>3. SubSeq(p, 1, i) = Append(SubSeq(p, 1, i - 1), x)
    BY <1>1, HeadsGrow DEF Streams, IsStream, x
  <2> QED
    BY <2>1, <2>2, <2>3
<1>8. Select(u, Range(q)) = SubSeq(q, 1, j - 1)
  <2> HIDE DEF L, u
  <2>1. Select(u, Range(q)) = Select(out, Range(q))
    BY <1>1, <1>2, SelectAppend DEF u
  <2> QED
    BY <2>1 DEF Woven
<1>9. ASSUME NEW a \in DOMAIN u
      PROVE  /\ i + 1 <= Len(p) => Before(u[a], p[i + 1])
             /\ j <= Len(q) => Before(u[a], q[j])
  <2>1. a = Len(out) + 1 \/ a \in 1 .. Len(out)
    BY <1>4
  <2>2. ASSUME i + 1 <= Len(p)
        PROVE  Event(p[i + 1]) /\ Before(x, p[i + 1])
    <3>1. i + 1 \in 1 .. Len(p) /\ i < i + 1
      BY <1>1, <2>2
    <3>2. Event(p[i + 1])
      BY <3>1, InRangeOf DEF Streams
    <3>3. DOMAIN p = 1 .. Len(p)
      BY DEF Streams, IsStream
    <3>4. Before(p[i], p[i + 1])
      BY <1>1, <3>1, <3>3 DEF Streams, IsStream, InOrder
    <3> QED
      BY <3>2, <3>4 DEF x
  <2>3. CASE a = Len(out) + 1
    BY <1>4, <2>2, <2>3 DEF x
  <2>4. CASE a \in 1 .. Len(out)
    <3>1. u[a] = out[a] /\ Event(out[a]) /\ a \in DOMAIN out
      <4>1. \A y \in L : Event(y)
        BY DEF Streams, IsStream
      <4> QED
        BY <1>4, <2>4, <4>1
    <3>2. Before(out[a], x)
      BY <1>3, <3>1
    <3>3. j <= Len(q) => Before(out[a], q[j])
      BY <3>1 DEF Woven
    <3>4. i + 1 <= Len(p) => Before(out[a], p[i + 1])
      BY <1>2, <2>2, <3>1, <3>2, BeforeTransitive
    <3> HIDE DEF u
    <3> QED
      BY <3>1, <3>3, <3>4
  <2> QED
    BY <2>1, <2>3, <2>4
<1>10. i + 1 \in 1 .. Len(p) + 1 /\ j \in 1 .. Len(q) + 1
  BY <1>1, <1>6
<1> HIDE DEF u
<1>11. Woven(u, p, q, i + 1, j)
  BY <1>4, <1>5, <1>6, <1>7, <1>8, <1>9, <1>10 DEF Woven
<1> QED
  BY <1>11 DEF u, x

LEMMA WeaveNothing ==
  ASSUME NEW p, NEW q, Streams(p, q)
  PROVE  Woven(<<>>, p, q, 1, 1)
<1>1. p \in Seq(Range(p)) /\ q \in Seq(Range(q)) /\ Len(p) \in Nat /\ Len(q) \in Nat
  BY DEF Streams, IsStream
<1>2. SubSeq(p, 1, 0) = <<>> /\ SubSeq(q, 1, 0) = <<>>
  BY <1>1
<1>3. Select(<<>>, Range(p)) = <<>> /\ Select(<<>>, Range(q)) = <<>>
  BY SelectEmpty
<1>4. <<>> \in Seq(Range(p) \cup Range(q)) /\ Len(<<>>) = 0 /\ DOMAIN <<>> = {}
  BY EmptySeq
<1>5. InOrder(<<>>)
  BY <1>4 DEF InOrder
<1>6. 1 \in 1 .. Len(p) + 1 /\ 1 \in 1 .. Len(q) + 1 /\ 1 - 1 = 0 /\ 1 + 1 - 2 = 0
  BY <1>1
<1> QED
  BY <1>2, <1>3, <1>4, <1>5, <1>6 DEF Woven

(* The loop of run_backtest.                                                 *)
MergeStep(d, m) ==
  IF TradeIsNext(d, m.i, m.j)
  THEN [m EXCEPT !.j = @ + 1, !.out = Append(@, d.trades[m.j])]
  ELSE [m EXCEPT !.i = @ + 1, !.out = Append(@, d.book[m.i])]

IsMerge(f, d, n) ==
  f = [m \in 0 .. n |-> IF m = 0 THEN [i |-> 1, j |-> 1, out |-> <<>>] ELSE MergeStep(d, f[m - 1])]

LEMMA MergeExists ==
  ASSUME NEW d, NEW n \in Nat
  PROVE  \E f : IsMerge(f, d, n)
<1> DEFINE start == [i |-> 1, j |-> 1, out |-> <<>>]
           T == {m \in Nat : \E f : IsMerge(f, d, m)}
<1>1. 0 \in T
  <2>1. IsMerge([m \in 0 .. 0 |-> start], d, 0)
    BY DEF IsMerge
  <2> QED
    BY <2>1
<1>2. ASSUME NEW m \in Nat, m \in T
      PROVE  m + 1 \in T
  <2>1. PICK f : IsMerge(f, d, m)
    BY <1>2
  <2> HIDE DEF start
  <2> DEFINE k == m + 1
             last == MergeStep(d, f[m])
             g == [j \in 0 .. k |-> IF j = k THEN last ELSE f[j]]
  <2>2. ASSUME NEW j \in 0 .. m
        PROVE  /\ g[j] = f[j]
               /\ f[j] = IF j = 0 THEN start ELSE MergeStep(d, f[j - 1])
               /\ j # 0 => j - 1 \in 0 .. m
    <3>1. j \in 0 .. k /\ j # k /\ (j # 0 => j - 1 \in 0 .. m)
      OBVIOUS
    <3>2. g[j] = f[j]
      BY <3>1
    <3>3. f[j] = IF j = 0 THEN start ELSE MergeStep(d, f[j - 1])
      <4> HIDE DEF g, k
      <4> QED
        BY <2>1 DEF IsMerge, start
    <3> HIDE DEF g
    <3> QED
      BY <3>1, <3>2, <3>3
  <2>3. g[k] = last /\ k - 1 = m /\ k # 0 /\ k - 1 \in 0 .. m
    OBVIOUS
  <2>4. \A j \in 0 .. k : j = k \/ j \in 0 .. m
    OBVIOUS
  <2>5. \A j \in 0 .. k : g[j] = IF j = 0 THEN start ELSE MergeStep(d, g[j - 1])
    <3> SUFFICES ASSUME NEW j \in 0 .. k
                 PROVE  g[j] = IF j = 0 THEN start ELSE MergeStep(d, g[j - 1])
      OBVIOUS
    <3>1. CASE j = k
      <4>1. g[k - 1] = f[m]
        BY <2>2, <2>3
      <4> HIDE DEF g
      <4> QED
        BY <2>3, <3>1, <4>1
    <3>2. CASE j \in 0 .. m
      <4>1. j # 0 => g[j - 1] = f[j - 1]
        BY <2>2, <3>2
      <4> HIDE DEF g
      <4> QED
        BY <2>2, <3>2, <4>1
    <3> QED
      BY <2>4, <3>1, <3>2
  <2>6. g = [j \in 0 .. k |-> g[j]]
    OBVIOUS
  <2> HIDE DEF g
  <2>7. IsMerge(g, d, k)
    BY <2>5, <2>6 DEF IsMerge, start
  <2> QED
    BY <2>7
<1>3. Nat \subseteq T
  <2> HIDE DEF T
  <2> QED
    BY <1>1, <1>2, NatSetInduction
<1> QED
  BY <1>3

LEMMA MergeRuns ==
  ASSUME NEW d, NEW n \in Nat, n = Len(d.book) + Len(d.trades)
  PROVE  \E f : IsMerge(f, d, n) /\ Merge(d) = f[n].out
<1> DEFINE f == CHOOSE g : IsMerge(g, d, Len(d.book) + Len(d.trades))
<1>1. Merge(d) = f[Len(d.book) + Len(d.trades)].out
  BY DEF Merge, IsMerge, MergeStep
<1>2. IsMerge(f, d, Len(d.book) + Len(d.trades))
  BY MergeExists
<1> QED
  BY <1>1, <1>2

(* Market data: the book stream and the trades.                              *)
IsData(d) ==
  /\ d = [book |-> d.book, trades |-> d.trades] /\ Streams(d.book, d.trades)
  /\ \A x \in Range(d.book) : x.k = "book"
  /\ \A x \in Range(d.trades) : x.k = "trade"

MergeState(d, m) ==
  m = [i |-> m.i, j |-> m.j, out |-> m.out] /\ Woven(m.out, d.book, d.trades, m.i, m.j)

LEMMA DataLengths ==
  ASSUME NEW d, IsData(d)
  PROVE  /\ Len(d.book) \in Nat /\ DOMAIN d.book = 1 .. Len(d.book)
         /\ Len(d.trades) \in Nat /\ DOMAIN d.trades = 1 .. Len(d.trades)
<1>1. d.book \in Seq(Range(d.book)) /\ d.trades \in Seq(Range(d.trades))
  BY DEF IsData, Streams, IsStream
<1> QED
  BY <1>1

LEMMA MergeStepWeaves ==
  ASSUME NEW d, IsData(d), NEW m, MergeState(d, m), Len(m.out) < Len(d.book) + Len(d.trades)
  PROVE  MergeState(d, MergeStep(d, m)) /\ Len(MergeStep(d, m).out) = Len(m.out) + 1
<1> DEFINE p == d.book
           q == d.trades
           i == m.i
           j == m.j
           out == m.out
           next == MergeStep(d, m)
<1>1. Woven(out, p, q, i, j) /\ Streams(p, q)
  BY DEF MergeState, IsData
<1>2. /\ i \in 1 .. Len(p) + 1 /\ j \in 1 .. Len(q) + 1 /\ Len(p) \in Nat /\ Len(q) \in Nat
      /\ Len(out) = i + j - 2 /\ out \in Seq(Range(p) \cup Range(q))
  BY <1>1, DataLengths DEF Woven
<1>3. i + j - 2 < Len(p) + Len(q)
  BY <1>2
<1>4. CASE TradeIsNext(d, i, j)
  <2>1. j \in 1 .. Len(q)
    BY <1>2, <1>4 DEF TradeIsNext
  <2>2. i <= Len(p) => Before(q[j], p[i])
    <3> SUFFICES ASSUME i <= Len(p)
                 PROVE  Before(q[j], p[i])
      OBVIOUS
    <3>1. i \in 1 .. Len(p)
      BY <1>2
    <3>2. Event(q[j]) /\ q[j].k = "trade" /\ Event(p[i])
      BY <1>1, <2>1, <3>1, InRangeOf DEF Streams, IsData
    <3>3. q[j].ts <= p[i].ts
      BY <1>2, <1>4, <3>1 DEF TradeIsNext
    <3> QED
      BY <3>2, <3>3 DEF Event, Before
  <2> DEFINE u == Append(out, q[j])
  <2>3. Streams(q, p) /\ Woven(out, q, p, j, i)
    BY <1>1, WovenSwap
  <2>4. j <= Len(q)
    BY <2>1
  <2>5. Woven(u, q, p, j + 1, i)
    BY <2>2, <2>3, <2>4, WeaveStep
  <2>6. Woven(u, p, q, i, j + 1)
    BY <2>5, WovenSwap
  <2>7. next = [i |-> i, j |-> j + 1, out |-> u]
    <3>1. m = [i |-> i, j |-> j, out |-> out]
      BY DEF MergeState
    <3>2. next = [m EXCEPT !.j = @ + 1, !.out = Append(@, q[j])]
      BY <1>4 DEF MergeStep
    <3> QED
      BY <3>1, <3>2
  <2>8. Len(u) = Len(out) + 1
    BY <1>2, <2>1, InRangeOf, <1>1 DEF Streams
  <2> HIDE DEF u, next
  <2>9. next.i = i /\ next.j = j + 1 /\ next.out = u
    BY <2>7
  <2>10. MergeState(d, next)
    BY <2>6, <2>7, <2>9 DEF MergeState
  <2> QED
    BY <2>8, <2>9, <2>10 DEF next
<1>5. CASE ~TradeIsNext(d, i, j)
  <2>1. i \in 1 .. Len(p) /\ i <= Len(p)
    <3>1. ~(j <= Len(q) /\ i > Len(p))
      BY <1>5 DEF TradeIsNext
    <3> HIDE DEF p, q, i, j
    <3> QED
      BY <1>2, <1>3, <3>1
  <2>2. j <= Len(q) => Before(p[i], q[j])
    <3> SUFFICES ASSUME j <= Len(q)
                 PROVE  Before(p[i], q[j])
      OBVIOUS
    <3>1. j \in 1 .. Len(q)
      BY <1>2
    <3>2. Event(q[j]) /\ Event(p[i])
      BY <1>1, <2>1, <3>1, InRangeOf DEF Streams
    <3>3. ~(q[j].ts <= p[i].ts)
      BY <1>5 DEF TradeIsNext
    <3> QED
      BY <3>2, <3>3 DEF Event, Before
  <2> DEFINE u == Append(out, p[i])
  <2>3. Woven(u, p, q, i + 1, j)
    BY <1>1, <2>1, <2>2, WeaveStep
  <2>4. next = [i |-> i + 1, j |-> j, out |-> u]
    <3>1. m = [i |-> i, j |-> j, out |-> out]
      BY DEF MergeState
    <3>2. next = [m EXCEPT !.i = @ + 1, !.out = Append(@, p[i])]
      BY <1>5 DEF MergeStep
    <3> QED
      BY <3>1, <3>2
  <2>5. Len(u) = Len(out) + 1
    BY <1>2, <2>1, InRangeOf, <1>1 DEF Streams
  <2> HIDE DEF u, next
  <2>6. next.i = i + 1 /\ next.j = j /\ next.out = u
    BY <2>4
  <2>7. MergeState(d, next)
    BY <2>3, <2>4, <2>6 DEF MergeState
  <2> QED
    BY <2>5, <2>6, <2>7 DEF next
<1> QED
  BY <1>4, <1>5

(* All of both streams is out, in order.                                     *)
LEMMA MergeWeaves ==
  ASSUME NEW d, IsData(d)
  PROVE  Woven(Merge(d), d.book, d.trades, Len(d.book) + 1, Len(d.trades) + 1)
<1>1. PICK n \in Nat : n = Len(d.book) + Len(d.trades)
  <2>1. PICK nb \in Nat, nt \in Nat : nb = Len(d.book) /\ nt = Len(d.trades)
    BY DataLengths
  <2>2. nb + nt \in Nat
    OBVIOUS
  <2> QED
    BY <2>1, <2>2
<1>2. PICK f : IsMerge(f, d, n) /\ Merge(d) = f[n].out
  BY <1>1, MergeRuns
<1> DEFINE T == {k \in Nat : k <= n => MergeState(d, f[k]) /\ Len(f[k].out) = k}
<1>3. 0 \in T
  <2>1. f[0] = [i |-> 1, j |-> 1, out |-> <<>>]
    BY <1>2 DEF IsMerge
  <2>2. Woven(<<>>, d.book, d.trades, 1, 1)
    BY WeaveNothing DEF IsData
  <2>3. f[0].i = 1 /\ f[0].j = 1 /\ f[0].out = <<>> /\ Len(<<>>) = 0
    BY <2>1
  <2> QED
    BY <2>1, <2>2, <2>3 DEF MergeState
<1>4. ASSUME NEW k \in Nat, k \in T
      PROVE  k + 1 \in T
  <2> SUFFICES ASSUME k + 1 <= n
               PROVE  MergeState(d, f[k + 1]) /\ Len(f[k + 1].out) = k + 1
    OBVIOUS
  <2>1. k <= n /\ k < n /\ k + 1 \in 0 .. n /\ k + 1 # 0 /\ (k + 1) - 1 = k
    OBVIOUS
  <2>2. f[k + 1] = MergeStep(d, f[k])
    BY <1>2, <2>1 DEF IsMerge
  <2>3. MergeState(d, f[k]) /\ Len(f[k].out) = k
    BY <1>4, <2>1
  <2> QED
    BY <1>1, <2>1, <2>2, <2>3, MergeStepWeaves
<1>5. Nat \subseteq T
  <2> HIDE DEF T
  <2> QED
    BY <1>3, <1>4, NatSetInduction
<1>6. MergeState(d, f[n]) /\ Len(f[n].out) = n
  BY <1>5
<1> DEFINE i == f[n].i
           j == f[n].j
<1>7. Woven(Merge(d), d.book, d.trades, i, j) /\ Len(Merge(d)) = n
  BY <1>2, <1>6 DEF MergeState
<1> HIDE DEF i, j
<1>8. i = Len(d.book) + 1 /\ j = Len(d.trades) + 1
  <2>1. i \in 1 .. Len(d.book) + 1 /\ j \in 1 .. Len(d.trades) + 1 /\ n = i + j - 2
    BY <1>7 DEF Woven
  <2>2. PICK nb \in Nat, nt \in Nat : nb = Len(d.book) /\ nt = Len(d.trades)
    BY DataLengths
  <2>3. i \in 1 .. nb + 1 /\ j \in 1 .. nt + 1 /\ nb + nt = i + j - 2
    BY <1>1, <2>1, <2>2
  <2>4. i = nb + 1 /\ j = nt + 1
    BY <2>3
  <2> QED
    BY <2>2, <2>4
<1> QED
  BY <1>7, <1>8

(* Only one sequence has both streams in order.                              *)
LEMMA LastOne ==
  ASSUME NEW L, NEW y \in Seq(L), y # <<>>
  PROVE  \E t \in Seq(L), b \in L : y = Append(t, b)
<1> DEFINE n == Len(y)
<1>1. n \in Nat /\ n # 0 /\ n \in 1 .. n /\ y[n] \in L
  BY EmptySeq
<1>2. SubSeq(y, 1, n) = y
  <2>1. PICK x : x \in L
    BY <1>1
  <2> QED
    BY <2>1, Heads
<1>3. SubSeq(y, 1, n) = Append(SubSeq(y, 1, n - 1), y[n])
  BY <1>1, HeadsGrow
<1>4. SubSeq(y, 1, n - 1) \in Seq(L)
  BY <1>1
<1> QED
  BY <1>1, <1>2, <1>3, <1>4

LEMMA SelectIn ==
  ASSUME NEW L, NEW s \in Seq(L), NEW S
  PROVE  Select(s, S) \in Seq(Range(s)) /\ Range(Select(s, S)) \subseteq Range(s) \cap S
<1> DEFINE v == Select(s, S)
<1>1. s \in Seq(Range(s))
  BY InRange
<1>2. v \in Seq(Range(s) \cap S)
  BY <1>1, SelectType
<1> HIDE DEF v
<1>3. v \in Seq(Range(s))
  BY <1>2, SeqMonotonic, Zenon
<1>4. Range(v) \subseteq Range(s) \cap S
  <2> DEFINE W == Range(s) \cap S
  <2>1. v \in Seq(W)
    BY <1>2
  <2> HIDE DEF W
  <2>2. Range(v) \subseteq W
    BY <2>1 DEF Range
  <2> QED
    BY <2>2 DEF W
<1> QED
  BY <1>3, <1>4 DEF v

LEMMA FrontInOrder ==
  ASSUME NEW L, NEW s \in Seq(L), NEW x \in L, InOrder(Append(s, x))
  PROVE  InOrder(s) /\ \A a \in Range(s) : Before(a, x)
<1> DEFINE u == Append(s, x)
           n == Len(s)
<1>1. n \in Nat /\ DOMAIN s = 1 .. n /\ DOMAIN u = 1 .. n + 1 /\ u[n + 1] = x
      /\ \A i \in 1 .. n : u[i] = s[i]
  OBVIOUS
<1> HIDE DEF u, n
<1>2. \A i \in 1 .. n : i \in 1 .. n + 1 /\ i < n + 1 /\ n + 1 \in 1 .. n + 1
  BY <1>1
<1>3. InOrder(u)
  BY DEF u
<1>4. InOrder(s)
  BY <1>1, <1>2, <1>3 DEF InOrder
<1>5. ASSUME NEW a \in Range(s)
      PROVE  Before(a, x)
  <2>1. PICK i \in 1 .. n : a = s[i]
    BY <1>1 DEF Range
  <2> QED
    BY <1>1, <1>2, <1>3, <2>1 DEF InOrder
<1> QED
  BY <1>4, <1>5

(* Distinct kinds, and so disjoint.                                          *)
Apart(P, Q) ==
  \A a \in P, b \in Q : Event(a) /\ Event(b) /\ a.k # b.k

SameSelect(x, y, P, Q) == Select(x, P) = Select(y, P) /\ Select(x, Q) = Select(y, Q)

(* The last elements are of one kind: of two kinds each would be before the  *)
(* other.                                                                    *)
LEMMA LastsAlike ==
  ASSUME NEW P, NEW Q, Apart(P, Q),
         NEW s \in Seq(P \cup Q), NEW t \in Seq(P \cup Q), NEW a \in P, NEW b \in Q,
         InOrder(Append(s, a)), InOrder(Append(t, b)),
         SameSelect(Append(s, a), Append(t, b), P, Q)
  PROVE  FALSE
<1> DEFINE L == P \cup Q
<1>1. a \in L /\ b \in L /\ a \notin Q /\ b \notin P
  BY DEF Apart
<1> HIDE DEF L
<1>2. s \in Seq(L) /\ t \in Seq(L)
  BY DEF L
<1>3. /\ Select(Append(s, a), P) = Append(Select(s, P), a)
      /\ Select(Append(t, b), P) = Select(t, P)
      /\ Select(Append(s, a), Q) = Select(s, Q)
      /\ Select(Append(t, b), Q) = Append(Select(t, Q), b)
  BY <1>1, <1>2, SelectAppend
<1>4. ASSUME NEW u \in Seq(L), NEW v \in Seq(L), NEW S, NEW e \in L,
             Append(Select(u, S), e) = Select(v, S)
      PROVE  e \in Range(v)
  <2>1. Select(u, S) \in Seq(Range(u)) /\ Select(v, S) \in Seq(Range(v))
    BY SelectIn
  <2> DEFINE w == Select(u, S)
             z == Select(v, S)
  <2>2. w \in Seq(Range(u)) /\ z \in Seq(Range(v)) /\ z = Append(w, e)
    BY <1>4, <2>1
  <2> HIDE DEF w, z
  <2>3. Len(z) = Len(w) + 1 /\ z[Len(w) + 1] = e /\ Len(w) \in Nat
    BY <2>2
  <2> QED
    BY <2>2, <2>3
<1>5. a \in Range(t) /\ b \in Range(s)
  BY <1>1, <1>2, <1>3, <1>4 DEF SameSelect
<1>6. Before(a, b) /\ Before(b, a)
  BY <1>1, <1>2, <1>5, FrontInOrder
<1> QED
  BY <1>6, BeforeOnce DEF Apart

SameAppend(s, a, t, b) ==
  s \in Seq(Range(s)) /\ t \in Seq(Range(t)) /\ Append(s, a) = Append(t, b)

LEMMA AppendOnce ==
  ASSUME NEW s, NEW t, NEW a, NEW b, SameAppend(s, a, t, b)
  PROVE  s = t /\ a = b
<1>1. PICK A, B : s \in Seq(A) /\ t \in Seq(B) /\ Append(s, a) = Append(t, b)
  BY DEF SameAppend
<1> QED
  BY <1>1

LEMMA AppendFilled ==
  ASSUME NEW L, NEW s \in Seq(L), NEW e
  PROVE  Append(s, e) # <<>>
<1>1. Len(Append(s, e)) = Len(s) + 1 /\ Len(s) \in Nat
  OBVIOUS
<1>2. Len(<<>>) = 0
  OBVIOUS
<1> QED
  BY <1>1, <1>2

LEMMA WeaveUnique ==
  ASSUME NEW P, NEW Q, Apart(P, Q), NEW x \in Seq(P \cup Q), NEW y \in Seq(P \cup Q),
         InOrder(x), InOrder(y), SameSelect(x, y, P, Q)
  PROVE  x = y
<1> DEFINE L == P \cup Q
<1>1. ASSUME NEW s \in Seq(L), NEW S, NEW e \in L
      PROVE  /\ e \in S => Select(Append(s, e), S) = Append(Select(s, S), e)
             /\ e \notin S => Select(Append(s, e), S) = Select(s, S)
             /\ e \in S => Select(Append(s, e), S) # <<>>
  <2> HIDE DEF L
  <2>1. Select(Append(s, e), S) = IF e \in S THEN Append(Select(s, S), e) ELSE Select(s, S)
    BY SelectAppend
  <2>2. Select(s, S) \in Seq(Range(s))
    BY SelectIn
  <2>3. Append(Select(s, S), e) # <<>>
    BY <2>2, AppendFilled
  <2> QED
    BY <2>1, <2>3
<1>2. ASSUME NEW u \in Seq(L), SameSelect(<<>>, u, P, Q)
      PROVE  u = <<>>
  <2> SUFFICES ASSUME u # <<>>
               PROVE  FALSE
    OBVIOUS
  <2>1. PICK t \in Seq(L), b \in L : u = Append(t, b)
    BY LastOne
  <2>2. Select(u, P) = <<>> /\ Select(u, Q) = <<>>
    BY <1>2, SelectEmpty DEF SameSelect
  <2>3. b \in P \/ b \in Q
    OBVIOUS
  <2> HIDE DEF L
  <2> QED
    BY <1>1, <2>1, <2>2, <2>3
<1> DEFINE T == {u \in Seq(L) : \A v \in Seq(L) :
                   InOrder(u) /\ InOrder(v) /\ SameSelect(u, v, P, Q) => u = v}
<1>3. <<>> \in T
  <2>1. <<>> \in Seq(L)
    BY EmptySeq
  <2>2. ASSUME NEW v \in Seq(L), SameSelect(<<>>, v, P, Q)
        PROVE  <<>> = v
    BY <1>2, <2>2
  <2> QED
    BY <2>1, <2>2
<1>4. ASSUME NEW s \in Seq(L), NEW a \in L, s \in T
      PROVE  Append(s, a) \in T
  <2> SUFFICES ASSUME NEW v \in Seq(L), InOrder(Append(s, a)), InOrder(v),
                      SameSelect(Append(s, a), v, P, Q)
               PROVE  Append(s, a) = v
    BY AppendProperties
  <2>1. a \in P \/ a \in Q
    OBVIOUS
  <2>2. v # <<>>
    <3> SUFFICES ASSUME v = <<>>
                 PROVE  FALSE
      OBVIOUS
    <3>1. Select(Append(s, a), P) = <<>> /\ Select(Append(s, a), Q) = <<>>
      BY SelectEmpty DEF SameSelect
    <3> HIDE DEF L
    <3> QED
      BY <1>1, <2>1, <3>1
  <2>3. PICK t \in Seq(L), b \in L : v = Append(t, b)
    BY <2>2, LastOne
  <2>4. b \in P \/ b \in Q
    OBVIOUS
  <2>5. InOrder(Append(t, b)) /\ SameSelect(Append(s, a), Append(t, b), P, Q)
    BY <2>3
  <2>6. ~(a \in P /\ b \in Q)
    BY <2>5, LastsAlike
  <2>7. ~(a \in Q /\ b \in P)
    <3>1. SameSelect(Append(t, b), Append(s, a), P, Q)
      BY <2>5 DEF SameSelect
    <3> QED
      BY <2>5, <3>1, LastsAlike
  <2>8. InOrder(s) /\ InOrder(t)
    <3> HIDE DEF L
    <3> QED
      BY <2>5, FrontInOrder
  <2>9. Select(s, P) \in Seq(Range(s)) /\ Select(t, P) \in Seq(Range(t))
        /\ Select(s, Q) \in Seq(Range(s)) /\ Select(t, Q) \in Seq(Range(t))
    <3> HIDE DEF L
    <3> QED
      BY SelectIn
  <2>10. SameSelect(s, t, P, Q) /\ a = b
    <3>1. CASE a \in P /\ b \in P
      <4>1. a \notin Q /\ b \notin Q
        BY <3>1 DEF Apart
      <4>2. Append(Select(s, P), a) = Append(Select(t, P), b) /\ Select(s, Q) = Select(t, Q)
        <5> HIDE DEF L
        <5>1. /\ Select(Append(s, a), P) = Append(Select(s, P), a)
              /\ Select(Append(t, b), P) = Append(Select(t, P), b)
          BY <1>1, <3>1
        <5>2. /\ Select(Append(s, a), Q) = Select(s, Q)
              /\ Select(Append(t, b), Q) = Select(t, Q)
          BY <1>1, <4>1
        <5> QED
          BY <2>5, <5>1, <5>2 DEF SameSelect
      <4>3. SameAppend(Select(s, P), a, Select(t, P), b)
        BY <2>9, <4>2, InRange, Zenon DEF SameAppend
      <4>4. Select(s, P) = Select(t, P) /\ a = b
        BY <4>3, AppendOnce
      <4> QED
        BY <4>2, <4>4 DEF SameSelect
    <3>2. CASE a \in Q /\ b \in Q
      <4>1. a \notin P /\ b \notin P
        BY <3>2 DEF Apart
      <4>2. Append(Select(s, Q), a) = Append(Select(t, Q), b) /\ Select(s, P) = Select(t, P)
        <5> HIDE DEF L
        <5>1. /\ Select(Append(s, a), Q) = Append(Select(s, Q), a)
              /\ Select(Append(t, b), Q) = Append(Select(t, Q), b)
          BY <1>1, <3>2
        <5>2. /\ Select(Append(s, a), P) = Select(s, P)
              /\ Select(Append(t, b), P) = Select(t, P)
          BY <1>1, <4>1
        <5> QED
          BY <2>5, <5>1, <5>2 DEF SameSelect
      <4>3. SameAppend(Select(s, Q), a, Select(t, Q), b)
        BY <2>9, <4>2, InRange, Zenon DEF SameAppend
      <4>4. Select(s, Q) = Select(t, Q) /\ a = b
        BY <4>3, AppendOnce
      <4> QED
        BY <4>2, <4>4 DEF SameSelect
    <3> QED
      BY <2>1, <2>4, <2>6, <2>7, <3>1, <3>2
  <2>11. s = t
    BY <1>4, <2>8, <2>10
  <2> QED
    BY <2>3, <2>10, <2>11
<1>5. Seq(L) \subseteq T
  <2> HIDE DEF L, T
  <2> QED
    BY <1>3, <1>4, SeqSetInduction
<1> QED
  BY <1>5

(* A split at an instant: searchsorted finds how many elements are earlier.  *)
LEMMA Downward ==
  ASSUME NEW n \in Nat, NEW D \in SUBSET (1 .. n),
         \A i \in D, j \in 1 .. n : j < i => j \in D
  PROVE  Cardinality(D) \in 0 .. n /\ D = 1 .. Cardinality(D)
<1>1. CASE D = {}
  <2>1. Cardinality(D) = 0
    BY <1>1, FS_EmptySet
  <2> QED
    BY <1>1, <2>1
<1>2. CASE D # {}
  <2>1. IsFiniteSet(D) /\ D \in SUBSET Int
    <3>1. IsFiniteSet(1 .. n)
      BY FS_Interval
    <3>2. IsFiniteSet(D)
      BY <3>1, FS_Subset
    <3>3. 1 .. n \in SUBSET Int
      OBVIOUS
    <3> QED
      BY <3>2, <3>3
  <2>2. PICK k \in D : \A i \in D : k >= i
    BY <1>2, <2>1, LargestExists
  <2>3. k \in 1 .. n /\ k \in Nat
    OBVIOUS
  <2>4. ASSUME NEW i \in 1 .. k
        PROVE  i \in D
    <3>1. i \in 1 .. n /\ (i = k \/ i < k)
      BY <2>3
    <3> QED
      BY <3>1
  <2>5. ASSUME NEW i \in D
        PROVE  i \in 1 .. k
    BY <2>2, <2>3
  <2>6. D = 1 .. k
    BY <2>4, <2>5
  <2>7. Cardinality(1 .. k) = k
    BY <2>3, FS_Interval
  <2> QED
    BY <2>3, <2>6, <2>7
<1> QED
  BY <1>1, <1>2

LEMMA StreamOrder ==
  ASSUME NEW q, IsStream(q)
  PROVE  /\ Len(q) \in Nat /\ DOMAIN q = 1 .. Len(q)
         /\ \A i \in 1 .. Len(q) : q[i] \in Range(q) /\ q[i].ts \in Int
         /\ \A i, j \in 1 .. Len(q) : i <= j => q[i].ts <= q[j].ts
<1>1. Len(q) \in Nat /\ DOMAIN q = 1 .. Len(q)
  BY DEF IsStream
<1>2. \A i \in 1 .. Len(q) : q[i] \in Range(q) /\ q[i].ts \in Int
  BY InRangeOf DEF Event
<1>3. ASSUME NEW i \in 1 .. Len(q), NEW j \in 1 .. Len(q), i <= j
      PROVE  q[i].ts <= q[j].ts
  <2>1. CASE i = j
    BY <1>2, <2>1
  <2>2. CASE i < j
    <3>1. Before(q[i], q[j])
      BY <1>1, <2>2 DEF IsStream, InOrder
    <3> QED
      BY <1>2, <3>1 DEF Before
  <2> QED
    BY <1>1, <1>3, <2>1, <2>2
<1> QED
  BY <1>1, <1>2, <1>3

LEMMA PositionIs ==
  ASSUME NEW q, IsStream(q), NEW ts \in Int
  PROVE  /\ Position(q, ts) \in 0 .. Len(q)
         /\ \A i \in 1 .. Len(q) : i <= Position(q, ts) <=> q[i].ts < ts
<1> DEFINE D == {i \in 1 .. Len(q) : q[i].ts < ts}
           k == Position(q, ts)
<1>1. k = Cardinality(D) /\ Len(q) \in Nat
  BY StreamOrder DEF Position
<1>2. ASSUME NEW i \in D, NEW j \in 1 .. Len(q), j < i
      PROVE  j \in D
  <2>1. q[j].ts <= q[i].ts /\ q[i].ts < ts /\ q[j].ts \in Int /\ q[i].ts \in Int
    <3>1. i \in 1 .. Len(q) /\ j <= i
      BY <1>2
    <3> QED
      BY <3>1, StreamOrder
  <2> QED
    BY <2>1
<1>3. D \in SUBSET (1 .. Len(q))
  OBVIOUS
<1>4. k \in 0 .. Len(q) /\ D = 1 .. k
  <2> HIDE DEF D
  <2> QED
    BY <1>1, <1>2, <1>3, Downward
<1> HIDE DEF k
<1>5. \A i \in 1 .. Len(q) : i <= k <=> i \in D
  <2>1. k \in Int
    BY <1>1, <1>4
  <2>2. \A i \in 1 .. Len(q) : i <= k <=> i \in 1 .. k
    BY <1>1, <2>1
  <2> HIDE DEF D
  <2> QED
    BY <1>4, <2>2
<1> QED
  BY <1>4, <1>5 DEF k

CutOf(c, q, k, l) ==
  IsStream(q) /\ k \in 0 .. Len(q) /\ l \in k .. Len(q) /\ c = SubSeq(q, k + 1, l)

LEMMA CutIs ==
  ASSUME NEW c, NEW q, NEW k, NEW l, CutOf(c, q, k, l)
  PROVE  /\ IsStream(c) /\ Range(c) \subseteq Range(q)
         /\ \A x \in Range(c) : \E i \in 1 .. Len(q) : k < i /\ i <= l /\ x = q[i]
<1> SUFFICES ASSUME IsStream(q), k \in 0 .. Len(q), l \in k .. Len(q), c = SubSeq(q, k + 1, l)
             PROVE  /\ IsStream(c) /\ Range(c) \subseteq Range(q)
                    /\ \A x \in Range(c) : \E i \in 1 .. Len(q) : k < i /\ i <= l /\ x = q[i]
  BY Zenon DEF CutOf
<1>1. /\ Len(q) \in Nat /\ DOMAIN q = 1 .. Len(q)
      /\ \A i \in 1 .. Len(q) : q[i] \in Range(q)
  BY StreamOrder
<1>2. k \in Nat /\ l \in Nat /\ l - k \in Nat /\ k + 1 \in 1 .. Len(q) + 1 /\ l <= Len(q)
  BY <1>1
<1>3. q \in Seq(Range(q))
  BY DEF IsStream
<1>4. c \in Seq(Range(q)) /\ Len(c) = l - k /\ \A i \in 1 .. l - k : c[i] = q[k + i]
  BY <1>2, <1>3
<1>5. DOMAIN c = 1 .. l - k
  BY <1>2, <1>4
<1>6. \A i \in 1 .. l - k : k + i \in 1 .. Len(q) /\ k < k + i /\ k + i <= l
  BY <1>2
<1>7. ASSUME NEW x \in Range(c)
      PROVE  \E i \in 1 .. Len(q) : k < i /\ i <= l /\ x = q[i]
  <2>1. PICK i \in 1 .. l - k : x = c[i]
    BY <1>5 DEF Range
  <2> QED
    BY <1>4, <1>6, <2>1
<1>8. Range(c) \subseteq Range(q)
  BY <1>1, <1>7
<1>9. c \in Seq(Range(c))
  BY <1>4, InRange
<1>10. InOrder(c)
  <2>1. \A i, j \in 1 .. l - k : i < j => k + i < k + j
    BY <1>2
  <2> QED
    BY <1>1, <1>4, <1>5, <1>6, <2>1 DEF IsStream, InOrder
<1> QED
  BY <1>7, <1>8, <1>9, <1>10 DEF IsStream

LEMMA CutTwice ==
  ASSUME NEW q, IsStream(q), NEW k \in 0 .. Len(q)
  PROVE  SubSeq(q, 0 + 1, k) \o SubSeq(q, k + 1, Len(q)) = q
<1> DEFINE a == SubSeq(q, 1, k)
           b == SubSeq(q, k + 1, Len(q))
           n == Len(q)
           L == Range(q)
<1>1. q \in Seq(L) /\ n \in Nat /\ k \in Nat /\ k <= n
  BY StreamOrder DEF IsStream
<1>2. a \in Seq(L) /\ Len(a) = k /\ \A i \in 1 .. k : a[i] = q[i]
  BY <1>1
<1>3. k + 1 \in 1 .. n + 1
  BY <1>1
<1>4. b \in Seq(L) /\ Len(b) = n - k /\ \A i \in 1 .. n - k : b[i] = q[k + i]
  BY <1>1, <1>3
<1> HIDE DEF a, b, L
<1> DEFINE u == a \o b
<1>5. u \in Seq(L) /\ Len(u) = n
      /\ (\A i \in 1 .. k : u[i] = a[i]) /\ (\A i \in 1 .. n - k : u[k + i] = b[i])
  BY <1>1, <1>2, <1>4
<1> HIDE DEF u
<1>6. ASSUME NEW i \in 1 .. n
      PROVE  u[i] = q[i]
  <2>1. CASE i \in 1 .. k
    BY <1>2, <1>5, <2>1
  <2>2. CASE i \notin 1 .. k
    <3>1. i - k \in 1 .. n - k /\ k + (i - k) = i
      BY <1>1, <2>2
    <3> QED
      BY <1>4, <1>5, <3>1
  <2> QED
    BY <2>1, <2>2
<1>7. u = q
  <2> HIDE DEF n
  <2> QED
    BY <1>1, <1>5, <1>6, SeqEqual DEF n
<1>8. 0 + 1 = 1
  OBVIOUS
<1> QED
  BY <1>7, <1>8 DEF u, a, b

LEMMA InOrderConcat ==
  ASSUME NEW L, NEW u \in Seq(L), NEW v \in Seq(L), InOrder(u), InOrder(v),
         \A x \in Range(u), y \in Range(v) : Before(x, y)
  PROVE  InOrder(u \o v)
<1> DEFINE w == u \o v
           k == Len(u)
           n == Len(v)
<1>1. /\ k \in Nat /\ n \in Nat /\ DOMAIN u = 1 .. k /\ DOMAIN v = 1 .. n /\ DOMAIN w = 1 .. k + n
      /\ (\A i \in 1 .. k : w[i] = u[i]) /\ (\A i \in 1 .. n : w[k + i] = v[i])
  OBVIOUS
<1>2. (\A i \in 1 .. k : u[i] \in Range(u)) /\ (\A i \in 1 .. n : v[i] \in Range(v))
  BY <1>1 DEF Range
<1> HIDE DEF w, k, n
<1>3. \A i \in 1 .. k + n : i \in 1 .. k \/ (i - k \in 1 .. n /\ k + (i - k) = i)
  BY <1>1
<1>4. \A i \in 1 .. k + n : i \in 1 .. k \/ (i - k \in 1 .. n /\ w[i] = v[i - k])
  BY <1>1, <1>3
<1> SUFFICES ASSUME NEW i \in 1 .. k + n, NEW j \in 1 .. k + n, i < j
             PROVE  Before(w[i], w[j])
  BY <1>1 DEF InOrder, w
<1>5. CASE i \in 1 .. k /\ j \in 1 .. k
  BY <1>1, <1>5 DEF InOrder
<1>6. CASE i \in 1 .. k /\ j - k \in 1 .. n /\ w[j] = v[j - k]
  BY <1>1, <1>2, <1>6
<1>7. CASE i - k \in 1 .. n /\ w[i] = v[i - k] /\ j - k \in 1 .. n /\ w[j] = v[j - k]
  <2>1. i - k < j - k
    BY <1>1
  <2> QED
    BY <1>1, <1>7, <2>1 DEF InOrder
<1>8. ~(i \notin 1 .. k /\ j \in 1 .. k)
  BY <1>1
<1> QED
  BY <1>4, <1>5, <1>6, <1>7, <1>8

LEMMA MergeIs ==
  ASSUME NEW d, IsData(d)
  PROVE  /\ Merge(d) \in Seq(Range(d.book) \cup Range(d.trades)) /\ InOrder(Merge(d))
         /\ Select(Merge(d), Range(d.book)) = d.book
         /\ Select(Merge(d), Range(d.trades)) = d.trades
<1>1. Woven(Merge(d), d.book, d.trades, Len(d.book) + 1, Len(d.trades) + 1)
  BY MergeWeaves
<1>2. ASSUME NEW q, IsStream(q)
      PROVE  SubSeq(q, 1, (Len(q) + 1) - 1) = q
  <2>1. Len(q) \in Nat /\ q \in Seq(Range(q))
    BY <1>2, StreamOrder DEF IsStream
  <2>2. (Len(q) + 1) - 1 = Len(q)
    BY <2>1
  <2>3. SubSeq(q, 1, Len(q)) = [i \in 1 .. Len(q) |-> q[i]]
    BY <2>1
  <2>4. q = [i \in 1 .. Len(q) |-> q[i]]
    BY <2>1
  <2> QED
    BY <2>2, <2>3, <2>4
<1>3. IsStream(d.book) /\ IsStream(d.trades)
  BY DEF IsData, Streams
<1> QED
  BY <1>1, <1>2, <1>3 DEF Woven

(* A part of the data, cut out of both streams.                              *)
Part(d, kb, lb, kt, lt) ==
  [book |-> SubSeq(d.book, kb + 1, lb), trades |-> SubSeq(d.trades, kt + 1, lt)]

Places(d, kb, lb, kt, lt) ==
  /\ kb \in 0 .. Len(d.book) /\ lb \in kb .. Len(d.book)
  /\ kt \in 0 .. Len(d.trades) /\ lt \in kt .. Len(d.trades)

LEMMA PartIsData ==
  ASSUME NEW d, IsData(d), NEW kb, NEW lb, NEW kt, NEW lt, Places(d, kb, lb, kt, lt),
         NEW h, h = Part(d, kb, lb, kt, lt)
  PROVE  /\ IsData(h) /\ Range(h.book) \subseteq Range(d.book)
         /\ Range(h.trades) \subseteq Range(d.trades)
         /\ Select(Merge(h), Range(d.book)) = h.book
         /\ Select(Merge(h), Range(d.trades)) = h.trades
<1>1. /\ h.book = SubSeq(d.book, kb + 1, lb) /\ h.trades = SubSeq(d.trades, kt + 1, lt)
      /\ h = [book |-> h.book, trades |-> h.trades]
  BY DEF Part
<1>2. /\ IsStream(h.book) /\ Range(h.book) \subseteq Range(d.book)
      /\ IsStream(h.trades) /\ Range(h.trades) \subseteq Range(d.trades)
  <2>1. IsStream(d.book) /\ IsStream(d.trades)
    BY DEF IsData, Streams
  <2>2. CutOf(h.book, d.book, kb, lb)
    BY <1>1, <2>1 DEF CutOf, Places
  <2>3. CutOf(h.trades, d.trades, kt, lt)
    BY <1>1, <2>1 DEF CutOf, Places
  <2> QED
    BY <2>2, <2>3, CutIs
<1>3. IsData(h)
  BY <1>1, <1>2 DEF IsData, Streams
<1>4. Merge(h) \in Seq(Range(h.book) \cup Range(h.trades))
      /\ Select(Merge(h), Range(h.book)) = h.book /\ Select(Merge(h), Range(h.trades)) = h.trades
  BY <1>3, MergeIs
<1>5. PICK L : L = Range(h.book) \cup Range(h.trades)
  OBVIOUS
<1>6. Range(d.book) \cap Range(d.trades) = {}
  BY DEF IsData, Streams
<1>7. /\ \A e \in L : e \in Range(d.book) <=> e \in Range(h.book)
      /\ \A e \in L : e \in Range(d.trades) <=> e \in Range(h.trades)
  BY <1>2, <1>5, <1>6
<1>8. /\ Select(Merge(h), Range(d.book)) = Select(Merge(h), Range(h.book))
      /\ Select(Merge(h), Range(d.trades)) = Select(Merge(h), Range(h.trades))
  BY <1>4, <1>5, <1>7, SelectSame
<1> QED
  BY <1>2, <1>3, <1>4, <1>8

Halved(d, mid, g, h) ==
  LET kb == Position(d.book, mid)
      kt == Position(d.trades, mid)
  IN g = Part(d, 0, kb, 0, kt) /\ h = Part(d, kb, Len(d.book), kt, Len(d.trades))

(* Merged one behind the other, the two parts are the whole, merged.         *)
LEMMA HalvesAreWhole ==
  ASSUME NEW d, IsData(d), NEW mid \in Int, NEW g, NEW h, Halved(d, mid, g, h)
  PROVE  Merge(g) \o Merge(h) = Merge(d)
<1>0. PICK kb, kt : /\ kb = Position(d.book, mid) /\ kt = Position(d.trades, mid)
                    /\ g = Part(d, 0, kb, 0, kt)
                    /\ h = Part(d, kb, Len(d.book), kt, Len(d.trades))
  BY DEF Halved
<1> DEFINE P == Range(d.book)
           Q == Range(d.trades)
           L == P \cup Q
           u == Merge(g)
           v == Merge(h)
<1>1. IsStream(d.book) /\ IsStream(d.trades) /\ P \cap Q = {}
  BY DEF IsData, Streams
<1>2. /\ Len(d.book) \in Nat /\ kb \in 0 .. Len(d.book)
      /\ Len(d.trades) \in Nat /\ kt \in 0 .. Len(d.trades)
  BY <1>0, <1>1, PositionIs, DataLengths
<1>3. Places(d, 0, kb, 0, kt) /\ Places(d, kb, Len(d.book), kt, Len(d.trades))
  BY <1>2 DEF Places
<1>4. /\ IsData(g) /\ Range(g.book) \subseteq P /\ Range(g.trades) \subseteq Q
      /\ Select(u, P) = g.book /\ Select(u, Q) = g.trades
  BY <1>0, <1>3, PartIsData
<1>5. /\ IsData(h) /\ Range(h.book) \subseteq P /\ Range(h.trades) \subseteq Q
      /\ Select(v, P) = h.book /\ Select(v, Q) = h.trades
  BY <1>0, <1>3, PartIsData
<1>6. /\ u \in Seq(Range(g.book) \cup Range(g.trades)) /\ InOrder(u)
      /\ v \in Seq(Range(h.book) \cup Range(h.trades)) /\ InOrder(v)
  BY <1>4, <1>5, MergeIs
<1>7. u \in Seq(L) /\ v \in Seq(L)
  <2>1. PICK A, B : A = Range(g.book) \cup Range(g.trades) /\ B = Range(h.book) \cup Range(h.trades)
    OBVIOUS
  <2>2. A \subseteq L /\ B \subseteq L
    BY <1>4, <1>5, <2>1
  <2>3. u \in Seq(A) /\ v \in Seq(B)
    BY <1>6, <2>1
  <2> HIDE DEF u, v, L
  <2> QED
    BY <2>2, <2>3, SeqMonotonic, Zenon
<1>8. /\ \A x \in Range(g.book) \cup Range(g.trades) : x.ts \in Int /\ x.ts < mid
      /\ \A x \in Range(h.book) \cup Range(h.trades) : x.ts \in Int /\ x.ts >= mid
  <2>1. ASSUME NEW q, IsStream(q), NEW k, k = Position(q, mid), NEW c, CutOf(c, q, 0, k),
               NEW x \in Range(c)
        PROVE  x.ts \in Int /\ x.ts < mid
    <3>1. PICK i \in 1 .. Len(q) : 0 < i /\ i <= k /\ x = q[i]
      BY <2>1, CutIs
    <3> QED
      BY <2>1, <3>1, PositionIs, StreamOrder
  <2>2. ASSUME NEW q, IsStream(q), NEW k, k = Position(q, mid), NEW c, CutOf(c, q, k, Len(q)),
               NEW x \in Range(c)
        PROVE  x.ts \in Int /\ x.ts >= mid
    <3>1. PICK i \in 1 .. Len(q) : k < i /\ i <= Len(q) /\ x = q[i]
      BY <2>2, CutIs
    <3>2. k \in Int /\ i \in Int /\ ~(i <= k)
      <4>1. k \in 0 .. Len(q)
        BY <2>2, PositionIs
      <4> QED
        BY <3>1, <4>1
    <3>3. ~(x.ts < mid) /\ x.ts \in Int
      BY <2>2, <3>1, <3>2, PositionIs, StreamOrder
    <3> QED
      BY <3>3
  <2>3. /\ CutOf(g.book, d.book, 0, kb) /\ CutOf(g.trades, d.trades, 0, kt)
        /\ CutOf(h.book, d.book, kb, Len(d.book)) /\ CutOf(h.trades, d.trades, kt, Len(d.trades))
    BY <1>0, <1>1, <1>3 DEF Places, CutOf, Part
  <2> QED
    BY <1>0, <1>1, <2>1, <2>2, <2>3
<1>9. ASSUME NEW x \in Range(u), NEW y \in Range(v)
      PROVE  Before(x, y)
  <2>1. x \in Range(g.book) \cup Range(g.trades) /\ y \in Range(h.book) \cup Range(h.trades)
    <3> HIDE DEF u, v
    <3> QED
      BY <1>6 DEF Range
  <2>2. x.ts < y.ts
    BY <1>8, <2>1
  <2> QED
    BY <2>2 DEF Before
<1> HIDE DEF u, v, L, P, Q
<1> DEFINE w == u \o v
<1>10. w \in Seq(L) /\ InOrder(w)
  BY <1>6, <1>7, <1>9, InOrderConcat
<1>11. Select(w, P) = d.book /\ Select(w, Q) = d.trades
  <2>1. Select(w, P) = g.book \o h.book /\ Select(w, Q) = g.trades \o h.trades
    <3>1. /\ Select(u \o v, P) = Select(u, P) \o Select(v, P)
          /\ Select(u \o v, Q) = Select(u, Q) \o Select(v, Q)
      BY <1>7, SelectConcat
    <3> QED
      BY <1>4, <1>5, <3>1
  <2>2. g.book \o h.book = d.book /\ g.trades \o h.trades = d.trades
    BY <1>0, <1>1, <1>2, CutTwice DEF Part
  <2> QED
    BY <2>1, <2>2
<1> HIDE DEF w
<1> DEFINE m == Merge(d)
<1>12. m \in Seq(L) /\ InOrder(m) /\ Select(m, P) = d.book /\ Select(m, Q) = d.trades
  BY MergeIs DEF L, P, Q
<1>13. Apart(P, Q)
  BY <1>1 DEF IsData, IsStream, Apart, P, Q
<1> HIDE DEF m
<1>14. w = m
  BY <1>10, <1>11, <1>12, <1>13, WeaveUnique DEF SameSelect, L
<1> QED
  BY <1>14 DEF w, m, u, v

(* The instants that the data starts and ends at.                            *)
LEMMA StreamEnds ==
  ASSUME NEW q, IsStream(q), q # <<>>
  PROVE  /\ q[1].ts \in Int /\ Last(q).ts \in Int
         /\ \A x \in Range(q) : x.ts \in Int /\ q[1].ts <= x.ts /\ x.ts <= Last(q).ts
<1>1. Len(q) \in Nat /\ Len(q) # 0
  BY EmptySeq DEF IsStream
<1>2. 1 \in 1 .. Len(q) /\ Len(q) \in 1 .. Len(q) /\ DOMAIN q = 1 .. Len(q)
  BY <1>1, StreamOrder
<1>3. ASSUME NEW x \in Range(q)
      PROVE  x.ts \in Int /\ q[1].ts <= x.ts /\ x.ts <= q[Len(q)].ts
  <2>1. PICK i \in 1 .. Len(q) : x = q[i]
    BY <1>2 DEF Range
  <2>2. 1 <= i /\ i <= Len(q)
    OBVIOUS
  <2> QED
    BY <1>2, <2>1, <2>2, StreamOrder
<1> QED
  BY <1>2, <1>3, StreamOrder DEF Last

LEMMA DataEnds ==
  ASSUME NEW d, IsData(d), d.book # <<>>
  PROVE  /\ Start(d) \in Int /\ End(d) \in Int
         /\ \A x \in Range(d.book) \cup Range(d.trades) :
              x.ts \in Int /\ Start(d) <= x.ts /\ x.ts <= End(d)
<1>1. IsStream(d.book) /\ IsStream(d.trades)
  BY DEF IsData, Streams
<1>2. /\ d.book[1].ts \in Int /\ Last(d.book).ts \in Int
      /\ \A x \in Range(d.book) :
           x.ts \in Int /\ d.book[1].ts <= x.ts /\ x.ts <= Last(d.book).ts
  BY <1>1, StreamEnds
<1>3. CASE d.trades = <<>>
  <2>1. Range(d.trades) = {}
    BY <1>3 DEF Range
  <2>2. Start(d) = d.book[1].ts /\ End(d) = Last(d.book).ts
    BY <1>3 DEF Start, End
  <2> QED
    BY <1>2, <2>1, <2>2
<1>4. CASE d.trades # <<>>
  <2>1. /\ d.trades[1].ts \in Int /\ Last(d.trades).ts \in Int
        /\ \A x \in Range(d.trades) :
             x.ts \in Int /\ d.trades[1].ts <= x.ts /\ x.ts <= Last(d.trades).ts
    BY <1>1, <1>4, StreamEnds
  <2>2. /\ Start(d) \in Int /\ Start(d) <= d.book[1].ts /\ Start(d) <= d.trades[1].ts
    BY <1>2, <1>4, <2>1 DEF Start
  <2>3. /\ End(d) \in Int /\ Last(d.book).ts <= End(d) /\ Last(d.trades).ts <= End(d)
    BY <1>2, <1>4, <2>1 DEF End
  <2> QED
    BY <1>2, <2>1, <2>2, <2>3
<1> QED
  BY <1>3, <1>4

LEMMA PositionEnds ==
  ASSUME NEW q, IsStream(q), NEW ts \in Int
  PROVE  /\ (\A x \in Range(q) : ts <= x.ts) => Position(q, ts) = 0
         /\ (\A x \in Range(q) : x.ts < ts) => Position(q, ts) = Len(q)
<1> DEFINE k == Position(q, ts)
           n == Len(q)
<1>1. n \in Nat /\ k \in 0 .. n /\ \A i \in 1 .. n : i <= k <=> q[i].ts < ts
  BY PositionIs, StreamOrder
<1>2. \A i \in 1 .. n : q[i] \in Range(q) /\ q[i].ts \in Int
  BY StreamOrder
<1> HIDE DEF k, n
<1>3. ASSUME \A x \in Range(q) : ts <= x.ts
      PROVE  k = 0
  <2> SUFFICES ASSUME k # 0
               PROVE  FALSE
    OBVIOUS
  <2>1. 1 \in 1 .. n /\ 1 <= k
    BY <1>1
  <2>2. q[1].ts < ts /\ ts <= q[1].ts /\ q[1].ts \in Int
    BY <1>1, <1>2, <1>3, <2>1
  <2> QED
    BY <2>2
<1>4. ASSUME \A x \in Range(q) : x.ts < ts
      PROVE  k = n
  <2> SUFFICES ASSUME k # n
               PROVE  FALSE
    OBVIOUS
  <2>1. n \in 1 .. n /\ ~(n <= k)
    BY <1>1
  <2>2. ~(q[n].ts < ts) /\ q[n].ts < ts
    BY <1>1, <1>2, <1>4, <2>1
  <2> QED
    BY <2>2
<1> QED
  BY <1>3, <1>4 DEF k, n

LEMMA SplitIsWhole ==
  ASSUME NEW d, IsData(d), d.book # <<>>
  PROVE  Merge(Split(d)[1]) \o Merge(Split(d)[2]) = Merge(d)
<1> DEFINE from == Start(d)
           to == End(d) + 1
           mid == Middle(d)
           kb == Position(d.book, mid)
           kt == Position(d.trades, mid)
<1>1. from \in Int /\ to \in Int /\ mid \in Int
  <2>1. Start(d) \in Int /\ End(d) \in Int
    BY DataEnds
  <2>2. PICK a \in Int, b \in Int : a = Start(d) /\ b = End(d)
    BY <2>1
  <2>3. a + (b - a) \div 2 \in Int
    OBVIOUS
  <2> QED
    BY <2>1, <2>2, <2>3 DEF Middle
<1>2. IsStream(d.book) /\ IsStream(d.trades)
  BY DEF IsData, Streams
<1>3. \A x \in Range(d.book) \cup Range(d.trades) : from <= x.ts /\ x.ts < to
  <2>1. PICK b \in Int : b = End(d)
    BY DataEnds
  <2>2. \A y \in Int : y <= b => y < b + 1
    OBVIOUS
  <2> QED
    BY <2>1, <2>2, DataEnds
<1>4. /\ Position(d.book, from) = 0 /\ Position(d.book, to) = Len(d.book)
      /\ Position(d.trades, from) = 0 /\ Position(d.trades, to) = Len(d.trades)
  <2> HIDE DEF from, to
  <2> QED
    BY <1>1, <1>2, <1>3, PositionEnds
<1> DEFINE g == Slice(d, from, mid)
           h == Slice(d, mid, to)
<1>5. Split(d)[1] = g /\ Split(d)[2] = h
  BY DEF Split
<1>6. g = Part(d, 0, kb, 0, kt) /\ h = Part(d, kb, Len(d.book), kt, Len(d.trades))
  <2> HIDE DEF from, to, mid
  <2> QED
    BY <1>4 DEF Slice, Part
<1> HIDE DEF from, to, mid, g, h, kb, kt
<1>7. Merge(g) \o Merge(h) = Merge(d)
  <2>1. Halved(d, mid, g, h)
    BY <1>6 DEF Halved, kb, kt
  <2> QED
    BY <1>1, <2>1, HalvesAreWhole
<1> QED
  BY <1>5, <1>7

-----------------------------------------------------------------------------
(* The lines of each stream are in the order of their times: the market's    *)
(* clocks never run back, and a log is only appended to.                     *)
Kinds == {"book", "trade"}

Follows(x, y) == x.k = y.k /\ x.k \in Kinds => Before(x, y)

InTime(s) == \A i, j \in DOMAIN s : i < j => Follows(s[i], s[j])

Timed(s, c) ==
  /\ s \in Seq(Range(s)) /\ InTime(s)
  /\ \A x \in Range(s) : x.k = "book" => x.ts \in Nat /\ x.ts <= c.book
  /\ \A x \in Range(s) : x.k = "trade" => x.ts \in Nat /\ x.ts <= c.trade

Clocked == Timed(log, clocks) /\ Timed(file, clocks)

Clocks(c) == c \in [book : Nat, trade : Nat]

LEMMA InTimeAppend ==
  ASSUME NEW L, NEW s \in Seq(L), NEW x \in L
  PROVE  InTime(Append(s, x)) <=> InTime(s) /\ \A a \in Range(s) : Follows(a, x)
<1> DEFINE u == Append(s, x)
           n == Len(s)
<1>1. n \in Nat /\ DOMAIN s = 1 .. n /\ DOMAIN u = 1 .. n + 1 /\ u[n + 1] = x
      /\ \A i \in 1 .. n : u[i] = s[i]
  OBVIOUS
<1>2. Range(s) = {s[i] : i \in 1 .. n}
  BY <1>1 DEF Range
<1> HIDE DEF u, n
<1>3. \A i \in 1 .. n : i \in 1 .. n + 1 /\ i < n + 1 /\ n + 1 \in 1 .. n + 1
  BY <1>1
<1>4. ASSUME InTime(u)
      PROVE  InTime(s) /\ \A a \in Range(s) : Follows(a, x)
  BY <1>1, <1>2, <1>3, <1>4 DEF InTime
<1>5. ASSUME InTime(s), \A a \in Range(s) : Follows(a, x)
      PROVE  InTime(u)
  <2> SUFFICES ASSUME NEW i \in 1 .. n + 1, NEW j \in 1 .. n + 1, i < j
               PROVE  Follows(u[i], u[j])
    BY <1>1 DEF InTime
  <2>1. i \in 1 .. n /\ (j = n + 1 \/ j \in 1 .. n)
    BY <1>1
  <2>2. CASE j = n + 1
    BY <1>1, <1>2, <1>5, <2>1, <2>2
  <2>3. CASE j \in 1 .. n
    BY <1>1, <1>5, <2>1, <2>3 DEF InTime
  <2> QED
    BY <2>1, <2>2, <2>3
<1> QED
  BY <1>4, <1>5 DEF u

LEMMA RangeAppend ==
  ASSUME NEW L, NEW s \in Seq(L), NEW x \in L
  PROVE  Range(Append(s, x)) = Range(s) \cup {x}
<1> DEFINE u == Append(s, x)
           n == Len(s)
<1>1. n \in Nat /\ DOMAIN s = 1 .. n /\ DOMAIN u = 1 .. n + 1 /\ u[n + 1] = x
      /\ \A i \in 1 .. n : u[i] = s[i]
  OBVIOUS
<1>2. Range(s) = {s[i] : i \in 1 .. n} /\ Range(u) = {u[i] : i \in 1 .. n + 1}
  BY <1>1 DEF Range
<1> HIDE DEF u, n
<1>3. \A i \in 1 .. n + 1 : i = n + 1 \/ i \in 1 .. n
  BY <1>1
<1>4. n + 1 \in 1 .. n + 1 /\ \A i \in 1 .. n : i \in 1 .. n + 1
  BY <1>1
<1> QED
  BY <1>1, <1>2, <1>3, <1>4 DEF u

LEMMA SelectInTime ==
  ASSUME NEW L, NEW S, NEW v \in Seq(L), InTime(v)
  PROVE  InTime(Select(v, S))
<1> DEFINE T == {s \in Seq(L) : InTime(s) => InTime(Select(s, S))}
<1>1. <<>> \in T
  <2>1. Select(<<>>, S) = <<>> /\ <<>> \in Seq(L)
    BY SelectEmpty, EmptySeq
  <2> QED
    BY <2>1
<1>2. ASSUME NEW s \in Seq(L), NEW e \in L, s \in T
      PROVE  Append(s, e) \in T
  <2> DEFINE k == Select(s, S)
  <2>1. Append(s, e) \in Seq(L)
    BY AppendProperties
  <2> SUFFICES ASSUME InTime(Append(s, e))
               PROVE  InTime(Select(Append(s, e), S))
    BY <2>1
  <2>2. InTime(s) /\ \A a \in Range(s) : Follows(a, e)
    BY InTimeAppend
  <2>3. InTime(k)
    BY <1>2, <2>2
  <2>4. Select(Append(s, e), S) = IF e \in S THEN Append(k, e) ELSE k
    BY SelectAppend
  <2>5. k \in Seq(Range(s)) /\ Range(k) \subseteq Range(s)
    BY SelectIn
  <2> HIDE DEF k
  <2>6. k \in Seq(L)
    <3>1. Range(s) \subseteq L
      BY DEF Range
    <3> QED
      BY <2>5, <3>1, SeqMonotonic, Zenon
  <2>7. InTime(Append(k, e))
    BY <2>2, <2>3, <2>5, <2>6, InTimeAppend
  <2> QED
    BY <2>3, <2>4, <2>7
<1>3. Seq(L) \subseteq T
  <2> HIDE DEF T
  <2> QED
    BY <1>1, <1>2, SeqSetInduction
<1> QED
  BY <1>3

LEMMA TimedNothing ==
  ASSUME NEW c
  PROVE  Timed(<<>>, c)
<1>1. <<>> \in Seq({}) /\ DOMAIN <<>> = {}
  BY EmptySeq
<1>2. Range(<<>>) = {}
  BY <1>1 DEF Range
<1> QED
  BY <1>1, <1>2 DEF Timed, InTime

LEMMA TimedHead ==
  ASSUME NEW s, NEW c, Timed(s, c), NEW n \in 0 .. Len(s), NEW t, t = SubSeq(s, 1, n)
  PROVE  Timed(t, c)
<1>1. s \in Seq(Range(s)) /\ Len(s) \in Nat /\ DOMAIN s = 1 .. Len(s)
  BY DEF Timed
<1>2. t \in Seq(Range(s)) /\ Len(t) = n /\ DOMAIN t = 1 .. n /\ \A i \in 1 .. n : t[i] = s[i]
  BY <1>1
<1>3. \A i \in 1 .. n : i \in 1 .. Len(s)
  BY <1>1
<1>4. Range(t) \subseteq Range(s)
  BY <1>2 DEF Range
<1>5. t \in Seq(Range(t))
  BY <1>2, InRange
<1>6. InTime(t)
  BY <1>1, <1>2, <1>3 DEF Timed, InTime
<1> QED
  BY <1>4, <1>5, <1>6 DEF Timed

(* A later clock, and a line of no stream or not before the clock it had.    *)
LEMMA TimedLater ==
  ASSUME NEW s, NEW c, NEW c2, Clocks(c), Clocks(c2), c.book <= c2.book, c.trade <= c2.trade,
         Timed(s, c)
  PROVE  Timed(s, c2)
<1>1. c.book \in Nat /\ c.trade \in Nat /\ c2.book \in Nat /\ c2.trade \in Nat
  BY DEF Clocks
<1>2. \A x \in Range(s) : x.k = "book" => x.ts \in Nat /\ x.ts <= c2.book
  BY <1>1 DEF Timed
<1>3. \A x \in Range(s) : x.k = "trade" => x.ts \in Nat /\ x.ts <= c2.trade
  BY <1>1 DEF Timed
<1> QED
  BY <1>2, <1>3 DEF Timed

LEMMA TimedAppend ==
  ASSUME NEW s, NEW c, NEW c2, Clocks(c), Clocks(c2), c.book <= c2.book, c.trade <= c2.trade,
         Timed(s, c), NEW x,
         x.k = "book" => x.ts \in Nat /\ c.book <= x.ts /\ x.ts <= c2.book,
         x.k = "trade" => x.ts \in Nat /\ c.trade <= x.ts /\ x.ts <= c2.trade
  PROVE  Timed(Append(s, x), c2)
<1> DEFINE u == Append(s, x)
           L == Range(s) \cup {x}
<1>1. s \in Seq(Range(s)) /\ Range(s) \subseteq L /\ x \in L
  BY DEF Timed
<1>2. s \in Seq(L)
  <2> HIDE DEF L
  <2> QED
    BY <1>1, SeqMonotonic, Zenon
<1> HIDE DEF L
<1>3. u \in Seq(L) /\ Range(u) = Range(s) \cup {x}
  BY <1>1, <1>2, AppendProperties, RangeAppend
<1>4. u \in Seq(Range(u))
  BY <1>3 DEF L
<1>5. Timed(s, c2)
  BY TimedLater
<1>6. ASSUME NEW a \in Range(s)
      PROVE  Follows(a, x)
  <2> SUFFICES ASSUME a.k = x.k, a.k \in Kinds
               PROVE  Before(a, x)
    BY DEF Follows
  <2>1. c.book \in Nat /\ c.trade \in Nat
    BY DEF Clocks
  <2>2. a.ts \in Nat /\ x.ts \in Nat /\ a.ts <= x.ts
    <3>1. CASE a.k = "book"
      <4>1. a.ts \in Nat /\ a.ts <= c.book /\ x.ts \in Nat /\ c.book <= x.ts
        BY <3>1 DEF Timed
      <4> QED
        BY <2>1, <4>1
    <3>2. CASE a.k = "trade"
      <4>1. a.ts \in Nat /\ a.ts <= c.trade /\ x.ts \in Nat /\ c.trade <= x.ts
        BY <3>2 DEF Timed
      <4> QED
        BY <2>1, <4>1
    <3> QED
      BY <3>1, <3>2 DEF Kinds
  <2>3. a.ts < x.ts \/ a.ts = x.ts
    BY <2>2
  <2> QED
    BY <2>3 DEF Kinds, Before
<1>7. InTime(u)
  BY <1>1, <1>2, <1>6, InTimeAppend DEF Timed
<1> HIDE DEF u
<1>8. Timed(u, c2)
  BY <1>3, <1>4, <1>5, <1>7 DEF Timed
<1> QED
  BY <1>8 DEF u

(* A line of no stream.                                                      *)
LEMMA TimedOther ==
  ASSUME NEW s, NEW c, Clocks(c), Timed(s, c), NEW x, x.k \notin Kinds
  PROVE  Timed(Append(s, x), c)
<1>1. c.book \in Nat /\ c.trade \in Nat
  BY DEF Clocks
<1>2. c.book <= c.book /\ c.trade <= c.trade
  BY <1>1
<1> QED
  BY <1>2, TimedAppend DEF Kinds

(* The streams that a backtest takes out of a log.                           *)
LEMMA StreamOf ==
  ASSUME NEW s, NEW c, Timed(s, c), NEW k \in Kinds, NEW S, NEW q, q = Select(OfKind(s, k), S)
  PROVE  IsStream(q) /\ \A x \in Range(q) : x.k = k
<1> DEFINE of == OfKind(s, k)
           K == {x \in Range(s) : x.k = k}
<1>1. s \in Seq(Range(s)) /\ InTime(s)
  BY DEF Timed
<1>2. of = Select(s, K)
  BY DEF OfKind
<1> HIDE DEF of, K
<1>3. of \in Seq(Range(s)) /\ Range(of) \subseteq Range(s) \cap K /\ InTime(of)
  BY <1>1, <1>2, SelectIn, SelectInTime
<1>4. q = Select(of, S)
  BY DEF of
<1>5. q \in Seq(Range(of)) /\ Range(q) \subseteq Range(of) /\ InTime(q)
  BY <1>3, <1>4, SelectIn, SelectInTime
<1>6. q \in Seq(Range(q))
  BY <1>5, InRange
<1>7. ASSUME NEW x \in Range(q)
      PROVE  x.k = k /\ Event(x)
  <2>1. x \in Range(s) /\ x.k = k
    BY <1>3, <1>5 DEF K
  <2>2. x.ts \in Nat
    BY <2>1 DEF Timed, Kinds
  <2> QED
    BY <2>1, <2>2 DEF Event, Kinds
<1>8. InOrder(q)
  <2>1. \A i \in DOMAIN q : q[i] \in Range(q)
    BY <1>6
  <2> QED
    BY <1>5, <1>7, <2>1 DEF InTime, InOrder, Follows
<1> QED
  BY <1>6, <1>7, <1>8 DEF IsStream

LEMMA MarketDataIs ==
  ASSUME NEW s, NEW c, Timed(s, c), NEW t
  PROVE  IsData(MarketData(LoadSession(s), t))
<1> DEFINE d == MarketData(LoadSession(s), t)
<1>1. /\ d = [book |-> d.book, trades |-> d.trades]
      /\ \E S : d.book = Select(OfKind(s, "book"), S)
      /\ \E S : d.trades = Select(OfKind(s, "trade"), S)
  BY DEF MarketData, LoadSession
<1> HIDE DEF d
<1>2. IsStream(d.book) /\ \A x \in Range(d.book) : x.k = "book"
  BY <1>1, StreamOf DEF Kinds
<1>3. IsStream(d.trades) /\ \A x \in Range(d.trades) : x.k = "trade"
  BY <1>1, StreamOf DEF Kinds
<1>4. Range(d.book) \cap Range(d.trades) = {}
  <2>1. "book" # "trade"
    OBVIOUS
  <2> QED
    BY <1>2, <1>3, <2>1
<1> QED
  BY <1>1, <1>2, <1>3, <1>4 DEF IsData, Streams, d

LEMMA InitClocked == Init => Clocked
BY TimedNothing DEF Init, Clocked

LEMMA ClocksType ==
  ASSUME IInv
  PROVE  Clocks(clocks) /\ clocks.book \in Nat /\ clocks.trade \in Nat
BY DEF IInv, LiveTypes, Clocks

(* A line of an event, and those of its fills.                               *)
LEMMA EventTimed ==
  ASSUME IInv, NEW g \in Feeds,
         Fills(g) = Fills(feed) \/ \E x \in FillRecords : Fills(g) = Append(Fills(feed), x),
         NEW c, Clocks(c), NEW u, Timed(u, c)
  PROVE  Timed(u \o NewFills(g), c)
<1>1. feed \in Feeds /\ u \in Seq(Range(u))
  BY FeedFields DEF Timed
<1>2. CASE Fills(g) = Fills(feed)
  <2>1. u \o NewFills(g) = u
    BY <1>1, <1>2, LogGrows
  <2> QED
    BY <2>1
<1>3. CASE \E x \in FillRecords : Fills(g) = Append(Fills(feed), x)
  <2>1. PICK x \in FillRecords : Fills(g) = Append(Fills(feed), x)
    BY <1>3
  <2>2. u \o NewFills(g) = Append(u, FillLine(x))
    BY <1>1, <2>1, LogGrows
  <2>3. FillLine(x).k \notin Kinds
    BY DEF FillLine, Kinds
  <2>4. Timed(Append(u, FillLine(x)), c)
    BY <2>3, TimedOther
  <2> QED
    BY <2>2, <2>4
<1> QED
  BY <1>2, <1>3

LEMMA NextClocked ==
  ASSUME IInv, Clocked, Next
  PROVE  Clocked'
<1>1. Clocks(clocks) /\ clocks.book \in Nat /\ clocks.trade \in Nat /\ Timed(log, clocks)
  BY ClocksType DEF Clocked
<1>2. CASE BookEvent
  <2>1. PICK ts \in clocks.book .. MaxTs, top \in Tops : HandleBook(ts, top)
    BY <1>2 DEF BookEvent
  <2>2. clocks' = [clocks EXCEPT !.book = ts] /\ file' = <<>>
    BY <1>2, <2>1 DEF BookEvent, HandleBook, IInv, FileSafe
  <2>3. ts \in Nat /\ clocks.book <= ts
    <3>1. MaxTs \in Nat
      BY Constants
    <3> QED
      BY <1>1, <3>1
  <2>4. Clocks(clocks') /\ clocks'.book = ts /\ clocks'.trade = clocks.trade
    BY <1>1, <2>2, <2>3 DEF Clocks
  <2>5. clocks.book <= clocks'.book /\ clocks.trade <= clocks'.trade
    BY <1>1, <2>3, <2>4
  <2>6. Timed(log', clocks')
    <3>1. CASE top = lastL1
      <4>1. log' = log
        BY <2>1, <3>1 DEF HandleBook
      <4> QED
        BY <1>1, <2>4, <2>5, <4>1, TimedLater
    <3>2. CASE top # lastL1
      <4> DEFINE line == BookLine(ts, top)
      <4>1. log' = Append(log, line) \o NewFills(feed') /\ feed' = OnBook(feed, ts, top)
        BY <2>1, <3>2 DEF HandleBook, Record
      <4>2. line.k = "book" /\ line.ts = ts /\ ts <= ts
        BY <2>3 DEF BookLine
      <4> HIDE DEF line
      <4>3. /\ line.k = "book" => line.ts \in Nat /\ clocks.book <= line.ts /\ line.ts <= clocks'.book
            /\ line.k # "trade"
        BY <2>3, <2>4, <4>2
      <4>4. Timed(Append(log, line), clocks')
        BY <1>1, <2>4, <2>5, <4>3, TimedAppend
      <4>5. feed' \in Feeds /\ (Fills(feed') = Fills(feed)
                                 \/ \E x \in FillRecords : Fills(feed') = Append(Fills(feed), x))
        BY <2>3, <4>1, FeedFields, OnBookFacts DEF Filled
      <4> QED
        BY <2>4, <4>1, <4>4, <4>5, EventTimed
    <3> QED
      BY <3>1, <3>2
  <2> QED
    BY <2>2, <2>6, TimedNothing DEF Clocked
<1>3. CASE TradeEvent
  <2>1. PICK ts \in clocks.trade .. MaxTs, taker \in Takers :
          /\ clocks' = [clocks EXCEPT !.trade = ts]
          /\ feed' = OnTrade(feed, ts, taker)
          /\ log' = Append(log, TradeLine(ts, taker)) \o NewFills(feed')
    BY <1>3 DEF TradeEvent, Record
  <2>2. file' = <<>>
    BY <1>3 DEF TradeEvent, IInv, FileSafe
  <2>3. ts \in Nat /\ clocks.trade <= ts
    <3>1. MaxTs \in Nat
      BY Constants
    <3> QED
      BY <1>1, <3>1
  <2>4. Clocks(clocks') /\ clocks'.trade = ts /\ clocks'.book = clocks.book
    BY <1>1, <2>1, <2>3 DEF Clocks
  <2>5. clocks.book <= clocks'.book /\ clocks.trade <= clocks'.trade
    BY <1>1, <2>3, <2>4
  <2> DEFINE line == TradeLine(ts, taker)
  <2>6. line.k = "trade" /\ line.ts = ts /\ ts <= ts
    BY <2>3 DEF TradeLine
  <2> HIDE DEF line
  <2>7. /\ line.k = "trade" => line.ts \in Nat /\ clocks.trade <= line.ts /\ line.ts <= clocks'.trade
        /\ line.k # "book"
    BY <2>3, <2>4, <2>6
  <2>8. Timed(Append(log, line), clocks')
    BY <1>1, <2>4, <2>5, <2>7, TimedAppend
  <2>9. feed' \in Feeds /\ (Fills(feed') = Fills(feed)
                             \/ \E x \in FillRecords : Fills(feed') = Append(Fills(feed), x))
    BY <2>1, <2>3, FeedFields, OnTradeFacts DEF Filled
  <2>10. Timed(Append(log, line) \o NewFills(feed'), clocks')
    BY <2>4, <2>8, <2>9, EventTimed
  <2>11. Timed(log', clocks')
    BY <2>1, <2>10 DEF line
  <2> QED
    BY <2>2, <2>11, TimedNothing DEF Clocked
<1>4. CASE StartCalibration \/ CalibrationFails \/ StartRefit
  <2>1. UNCHANGED <<log, file, clocks>>
    BY <1>4 DEF StartCalibration, CalibrationFails, StartRefit
  <2> QED
    BY <2>1 DEF Clocked
<1>5. CASE StartTrading \/ EndRefit
  <2>1. /\ UNCHANGED <<file, clocks>>
        /\ \E x : x.k \notin Kinds /\ log' = Append(log, x)
    <3>1. CASE StartTrading
      <4>1. PICK p \in Params :
              log' = Append(log, CalibrationLine(feed.features.lastTs, p, warmTop))
        BY <3>1 DEF StartTrading
      <4>2. CalibrationLine(feed.features.lastTs, p, warmTop).k \notin Kinds
        BY DEF CalibrationLine, Kinds
      <4> QED
        BY <3>1, <4>1, <4>2 DEF StartTrading
    <3>2. CASE EndRefit
      <4>1. PICK p \in Params : log' = Append(log, HawkesLine(feed.features.lastTs, p))
        BY <3>2 DEF EndRefit
      <4>2. HawkesLine(feed.features.lastTs, p).k \notin Kinds
        BY DEF HawkesLine, Kinds
      <4> QED
        BY <3>2, <4>1, <4>2 DEF EndRefit
    <3> QED
      BY <1>5, <3>1, <3>2
  <2>2. Timed(log', clocks')
    BY <1>1, <2>1, TimedOther
  <2> QED
    BY <2>1, <2>2 DEF Clocked
<1>6. CASE Close
  <2>1. clocks' = clocks /\ file' = log' /\ log' = Append(log, EndLine(Summary(feed.sim)))
    BY <1>6 DEF Close
  <2>2. EndLine(Summary(feed.sim)).k \notin Kinds
    BY DEF EndLine, Kinds
  <2>3. Timed(log', clocks')
    BY <1>1, <2>1, <2>2, TimedOther
  <2> QED
    BY <2>1, <2>3 DEF Clocked
<1>7. CASE Kill
  <2>1. PICK n \in 0 .. Len(log) : file' = SubSeq(log, 1, n)
    BY <1>7 DEF Kill
  <2>2. UNCHANGED <<log, clocks>>
    BY <1>7 DEF Kill
  <2>3. Timed(file', clocks')
    BY <1>1, <2>1, <2>2, TimedHead
  <2> QED
    BY <1>1, <2>2, <2>3 DEF Clocked
<1> QED
  BY <1>2, <1>3, <1>4, <1>5, <1>6, <1>7 DEF Next

LEMMA ClockedKept == IInv /\ Clocked /\ [Next]_liveVars => Clocked'
<1>1. ASSUME Clocked, UNCHANGED liveVars
      PROVE  Clocked'
  BY <1>1 DEF Clocked, liveVars
<1> QED
  BY <1>1, NextClocked

(* The two streams of a file, merged.                                        *)
LEMMA MergeInOrder ==
  ASSUME NEW d, IsData(d), NEW all, all = Merge(d)
  PROVE  /\ OfKind(all, "book") = d.book /\ OfKind(all, "trade") = d.trades
         /\ \A i \in 1 .. Len(all) - 1 :
              /\ all[i].ts <= all[i + 1].ts
              /\ all[i].ts = all[i + 1].ts => all[i].k = "trade" \/ all[i + 1].k = "book"
<1> DEFINE P == Range(d.book)
           Q == Range(d.trades)
           L == P \cup Q
<1>1. all \in Seq(L) /\ InOrder(all) /\ Select(all, P) = d.book /\ Select(all, Q) = d.trades
  BY MergeIs
<1>2. /\ \A x \in P : x.k = "book" /\ Event(x)
      /\ \A x \in Q : x.k = "trade" /\ Event(x)
  BY DEF IsData, Streams, IsStream
<1>3. OfKind(all, "book") = d.book
  <2>1. OfKind(all, "book") = Select(all, {x \in L : x.k = "book"})
    BY <1>1, OfKindIs
  <2> DEFINE S == {x \in L : x.k = "book"}
  <2>2. \A x \in L : x \in S <=> x \in P
    BY <1>2
  <2> HIDE DEF L, S, P, Q
  <2>3. Select(all, S) = Select(all, P)
    BY <1>1, <2>2, SelectSame
  <2> QED
    BY <1>1, <2>1, <2>3 DEF S
<1>4. OfKind(all, "trade") = d.trades
  <2>1. OfKind(all, "trade") = Select(all, {x \in L : x.k = "trade"})
    BY <1>1, OfKindIs
  <2> DEFINE S == {x \in L : x.k = "trade"}
  <2>2. \A x \in L : x \in S <=> x \in Q
    BY <1>2
  <2> HIDE DEF L, S, P, Q
  <2>3. Select(all, S) = Select(all, Q)
    BY <1>1, <2>2, SelectSame
  <2> QED
    BY <1>1, <2>1, <2>3 DEF S
<1>5. ASSUME NEW i \in 1 .. Len(all) - 1
      PROVE  /\ all[i].ts <= all[i + 1].ts
             /\ all[i].ts = all[i + 1].ts => all[i].k = "trade" \/ all[i + 1].k = "book"
  <2>1. \A x \in L : Event(x)
    BY <1>2
  <2> HIDE DEF L
  <2>2. i \in 1 .. Len(all) /\ i + 1 \in 1 .. Len(all) /\ i < i + 1 /\ DOMAIN all = 1 .. Len(all)
    BY <1>1
  <2>3. Event(all[i]) /\ Event(all[i + 1])
    BY <1>1, <2>1, <2>2
  <2>4. Before(all[i], all[i + 1])
    BY <1>1, <2>2 DEF InOrder
  <2> QED
    BY <2>3, <2>4 DEF Event, Before
<1> QED
  BY <1>3, <1>4, <1>5

LEMMA FileInOrder == Clocked => BacktestOrder
<1> SUFFICES ASSUME Clocked
             PROVE  BacktestOrder
  OBVIOUS
<1> SUFFICES ASSUME NEW t \in BOOLEAN, MarketData(LoadSession(file), t).book # <<>>
             PROVE  LET d == MarketData(LoadSession(file), t)
                        all == Merge(d)
                    IN /\ OfKind(all, "book") = d.book /\ OfKind(all, "trade") = d.trades
                       /\ \A i \in 1 .. Len(all) - 1 :
                            /\ all[i].ts <= all[i + 1].ts
                            /\ all[i].ts = all[i + 1].ts =>
                                 all[i].k = "trade" \/ all[i + 1].k = "book"
                       /\ Merge(Split(d)[1]) \o Merge(Split(d)[2]) = all
  BY DEF BacktestOrder
<1>1. PICK d : d = MarketData(LoadSession(file), t)
  OBVIOUS
<1>2. IsData(d) /\ d.book # <<>>
  BY <1>1, MarketDataIs DEF Clocked
<1>3. Merge(Split(d)[1]) \o Merge(Split(d)[2]) = Merge(d)
  BY <1>2, SplitIsWhole
<1> QED
  BY <1>1, <1>2, <1>3, MergeInOrder

-----------------------------------------------------------------------------
(* What the engines hold and what the log says of them, at every moment.     *)
THEOREM Invariance == Spec => []IInv
BY InitIInv, NextKeeps, PTL DEF Spec

(* The module docstring of session.py (3-8): whatever the events, the fits,  *)
(* the calibrations that failed and the refits that overlapped, replaying    *)
(* the log gives the features, the quotes and the fills of the live session. *)
THEOREM LogReplaysExactly == Spec => []ReplayExact
BY Invariance, LogGivesEngines, PTL

(* recorder.py:60-61: wherever the file of a session that was killed is cut, *)
(* its fills begin those that its replay makes, which begin the live ones,   *)
(* and the comparison names the first that the log has lost; the end line of *)
(* a session that was closed after a sample counts those of a maker.         *)
THEOREM CutSessionReplays == Spec => []KilledSessionReplays
BY Invariance, FileReplays, PTL

(* features.py:69-75: however late the result of a refit comes, the market   *)
(* orders that count at its parameters are the last ones of the log, each    *)
(* once and in order, and all of those that are kept are among them.         *)
THEOREM ExcitationSurvivesRefit == Spec => []RefitKeepsExcitation
BY Invariance, FitKeepsExcitation, PTL

LEMMA OrderInvariance == Spec => []Clocked
BY Invariance, InitClocked, ClockedKept, PTL DEF Spec

(* run_backtest (39-45) and split (73-76): whatever a session has recorded   *)
(* and wherever its file is cut, its two streams come out as one in the      *)
(* order of their times, trades first, with nothing lost or doubled, and the *)
(* halves of a split, one after the other, as the whole.                     *)
THEOREM BacktestInOrder == Spec => []BacktestOrder
BY OrderInvariance, FileInOrder, PTL
=============================================================================
