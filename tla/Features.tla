-------------------------------- MODULE Features -------------------------------
(***************************************************************************)
(* FeatureEngine (strategy/features.py): the state every strategy quotes    *)
(* from, fed by books and trades in the order they come.  The numbers it    *)
(* computes are functions of what it was fed, and that is what is kept: the *)
(* Hawkes intensity of a side is the sequence of its updates since the      *)
(* parameters were set, the volatility the sequence of its mids.            *)
(***************************************************************************)
EXTENDS Integers, Sequences, Selection

CONSTANTS
  Tops,        \* top-of-book values, prices and sizes
  CrossedTops, \* those with ask <= bid
  Params,      \* Hawkes parameters a fit may return
  None,        \* Python's None
  Default,     \* DEFAULT_HAWKES
  Window,      \* 10 / beta, for every one of them
  History,     \* event_history: market orders kept per side (20000 in the code)
  MinEvents    \* fit_hawkes: market orders a fit needs per side (300 in the code)

Takers == {"buy", "sell"}

ASSUME FeaturesAssumption ==
  /\ CrossedTops \subseteq Tops /\ None \notin Tops \cup Nat \cup (Nat \X Takers)
  /\ Window \in [Params \cup {Default} -> Nat]
  /\ History \in Nat \ {0} /\ MinEvents \in Nat

NewFeatures ==
  [top |-> None, lastTs |-> 0, vol |-> <<>>, params |-> Default, lastOrder |-> None,
   heat |-> [taker \in Takers |-> <<>>], events |-> [taker \in Takers |-> <<>>]]

FeatureStates ==
  [top : Tops \cup {None}, lastTs : Nat, vol : Seq(Nat \X Tops), params : Params \cup {Default},
   lastOrder : (Nat \X Takers) \cup {None}, heat : [Takers -> Seq(Nat)],
   events : [Takers -> Seq(Nat)]]

Ready(f) == f.top \in Tops \ CrossedTops

FeedBook(f, ts, top) ==
  [f EXCEPT !.top = top, !.lastTs = ts,
            !.vol = IF top \in CrossedTops THEN @ ELSE Append(@, <<ts, top>>)]

(* A deque with maxlen.                                                      *)
Pushed(q, x) == IF Len(q) < History THEN Append(q, x) ELSE Append(Tail(q), x)

(* The prints of one market order count once.                                *)
FeedTrade(f, ts, taker) ==
  IF f.lastOrder = <<ts, taker>> THEN f
  ELSE [f EXCEPT !.lastOrder = <<ts, taker>>,
                 !.heat[taker] = Append(@, ts),
                 !.events[taker] = Pushed(@, ts)]

(* The market orders that still count at the parameters p.                   *)
Since(ts) == {t \in Nat : t >= ts}

Recent(f, p, taker) == Select(f.events[taker], Since(f.lastTs - Window[p]))

(* Mistake: the orders kept are added to those already counted.              *)
SetHawkesTwice(f, p) ==
  [f EXCEPT !.params = p, !.heat = [taker \in Takers |-> @[taker] \o Recent(f, p, taker)]]

SetHawkes(f, p) ==
  [f EXCEPT !.params = p, !.heat = [taker \in Takers |-> Recent(f, p, taker)]]

(* fit_hawkes has a result.                                                  *)
CanFit(f) == \A taker \in Takers : Len(f.events[taker]) >= MinEvents

IsSuffixOf(s, t) == \E n \in 0 .. Len(t) : s = SubSeq(t, n + 1, Len(t))

(* features.py:69-75: parameters may change at any time; what is counted     *)
(* ends all the market orders there were that still count, each of them once *)
(* and in order, and goes back as far as the orders that are kept.           *)
KeepsExcitation(f, orders) ==
  \A taker \in Takers :
    LET still == Since(f.lastTs - Window[f.params])
        counted == Select(f.heat[taker], still)
    IN /\ IsSuffixOf(counted, Select(orders[taker], still))
       /\ IsSuffixOf(Recent(f, f.params, taker), counted)
=============================================================================
