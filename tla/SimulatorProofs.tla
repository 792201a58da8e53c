---------------------------- MODULE SimulatorProofs ----------------------------
(***************************************************************************)
(* Proofs about the paper exchange.  The handlers are compositions of      *)
(* functions on the account, so the inductive invariant is a predicate of  *)
(* an account, a time and a market, and there is one lemma per function.   *)
(***************************************************************************)
EXTENDS Simulator, FoldLemmas

Fields == {"orders", "live", "pending", "working", "last_send", "next_oid",
           "position", "traded", "halted", "fills"}

IsAccount(a) == a = [x \in Fields |-> a[x]]

(* The oids in use are old ones, and every open order has something left.   *)
Typed(a) ==
  /\ IsAccount(a)
  /\ a.next_oid \in Nat \ {0}
  /\ \A oid \in DOMAIN a.orders : oid \in Nat \ {0} /\ oid < a.next_oid
  /\ a.orders = [oid \in DOMAIN a.orders |-> a.orders[oid]]
  /\ \A oid \in DOMAIN a.orders : a.orders[oid] \in Orders
  /\ Open(a) \subseteq DOMAIN a.orders
  /\ \A oid \in Open(a) : a.orders[oid].remaining > 0
  /\ a.live \cap a.pending = {}
  /\ a.working \in [Sides -> DOMAIN a.orders \cup {None}]
  /\ a.halted \in BOOLEAN

(* WorkingQuotes, of any account.                                           *)
Knows(a) ==
  /\ \A oid \in Open(a) :
       a.orders[oid].cancel_at = None => a.working[a.orders[oid].side] = oid
  /\ \A side \in Sides :
       LET oid == a.working[side] IN
       oid # None =>
         /\ a.orders[oid].side = side
         /\ a.orders[oid].cancel_at = None
         /\ oid \in Open(a) \/ a.orders[oid].remaining = 0

Withdrawn(a) == a.halted => \A oid \in Open(a) : a.orders[oid].cancel_at # None

Arrived(a, ts) == \A oid \in a.live : a.orders[oid].arrive_at <= ts

AllInForce(a, ts) == \A oid \in a.live : InForce(a.orders[oid], ts)

Alive(f, ts) == f.arrive_at <= ts /\ (f.cancel_at = None \/ ts < f.cancel_at)

FillsOK(a, ts) == \A f \in a.fills : Alive(f, ts)

Passive(a, t) == \A oid \in a.live : ~Crosses(a.orders[oid], t)

(* OneOrderPerSide, of any account.                                         *)
Alone(a) == \A x, y \in a.live : a.orders[x].side = a.orders[y].side => x = y

(* Why: of two open orders of a side, the earlier one is gone when the later *)
(* one arrives, because every cancel is on its way for one round trip at     *)
(* most and an order for a whole one.                                        *)
Relieved(a) ==
  \A x, y \in Open(a) :
    x < y /\ a.orders[x].side = a.orders[y].side =>
      a.orders[x].cancel_at # None /\ a.orders[x].cancel_at <= a.orders[y].arrive_at

Queue(a, ts) ==
  /\ Relieved(a)
  /\ \A oid \in Open(a) :
       a.orders[oid].cancel_at # None => a.orders[oid].cancel_at <= ts + RoundTrip

(* Nothing was sent, and a cancel sent earlier stands as it was.             *)
Later(a, b, ts) ==
  /\ Open(b) \subseteq Open(a)
  /\ \A oid \in Open(b) :
       /\ b.orders[oid].side = a.orders[oid].side
       /\ b.orders[oid].arrive_at = a.orders[oid].arrive_at
       /\ \/ b.orders[oid].cancel_at = a.orders[oid].cancel_at
          \/ a.orders[oid].cancel_at = None /\ b.orders[oid].cancel_at = ts + RoundTrip

Sound(a) == Typed(a) /\ Knows(a) /\ Withdrawn(a)

(* No position was taken, and what is left of every order stands.           *)
Idle(a, b) ==
  /\ b.position = a.position /\ b.traded = a.traded /\ b.last_send = a.last_send
  /\ \A oid \in Open(b) : b.orders[oid].remaining = a.orders[oid].remaining

Ledger(a) ==
  /\ a.position \in Int /\ a.traded \in BOOLEAN
  /\ a.last_send \in [Sides -> Nat \cup {None}]

(* Orders of a side arrive a requote interval apart.                        *)
Paced(a, ts) ==
  /\ \A side \in Sides : a.last_send[side] # None => a.last_send[side] <= ts
  /\ \A oid \in Open(a) :
       LET last == a.last_send[a.orders[oid].side] IN
       last # None /\ a.orders[oid].arrive_at <= last + RoundTrip
  /\ \A x, y \in Open(a) :
       x < y /\ a.orders[x].side = a.orders[y].side =>
         a.orders[x].arrive_at + MinRequote <= a.orders[y].arrive_at

(* The position a side would have if every order that still can were filled *)
(* on that side and none on the other.                                      *)
Remaining(a) == [oid \in DOMAIN a.orders |-> a.orders[oid].remaining]

Threats(a, side, ts) ==
  {oid \in Open(a) : a.orders[oid].side = side /\ InForce(a.orders[oid], ts)}

Exposure(a, side, ts) ==
  Signed(side, a.position) + SetWeight(Remaining(a), Threats(a, side, ts))

(* How many orders of a side a round trip can hold.                         *)
RoundedUp(n, m) == (n + m - 1) \div m

Late == RoundedUp(RoundTrip, MinRequote)

Allowed(qty) == Larger(MaxPosition, qty) + qty * Late

Limited(a, ts, qty) ==
  /\ \A oid \in Open(a) : a.orders[oid].remaining <= qty
  /\ \A side \in Sides : Exposure(a, side, ts) <= Allowed(qty)

Safe(a, ts) ==
  /\ Ledger(a)
  /\ MinRequote > 0 => Paced(a, ts) /\ \E qty \in OrderQtys : Limited(a, ts, qty)

IInv ==
  /\ now \in Nat
  /\ top \in Tops \cup {None}
  /\ Sound(account)
  /\ Arrived(account, now)
  /\ FillsOK(account, now)
  /\ Queue(account, now)
  /\ Alone(account)
  /\ top = None => account.live = {}
  /\ top # None => Passive(account, top)
  /\ Safe(account, now)
  /\ next_decision \in Nat /\ next_sample \in Nat \cup {None} /\ finished \in BOOLEAN

-----------------------------------------------------------------------------
(* The constants that the arithmetic of the handlers needs.                 *)
LEMMA Constants ==
  /\ RoundTrip \in Nat
  /\ None \notin Nat
  /\ \A t \in Tops : t # None
  /\ \A q \in Quotes : q # None /\ q.price \in Nat /\ q.qty \in Nat \ {0}
BY SimulatorAssumption DEF SimulatorAssumption, Quotes

(* An order whose queue position or remainder changes keeps the rest.       *)
LEMMA OrderKept ==
  ASSUME NEW o \in Orders, NEW front \in Nat \cup {None}
  PROVE  LET p == [o EXCEPT !.front = front] IN
         /\ p \in Orders
         /\ p.side = o.side /\ p.price = o.price /\ p.remaining = o.remaining
         /\ p.arrive_at = o.arrive_at /\ p.cancel_at = o.cancel_at
BY DEF Orders

LEMMA OrderFilled ==
  ASSUME NEW o \in Orders, NEW n \in Nat, n <= o.remaining
  PROVE  LET p == [o EXCEPT !.remaining = @ - n] IN
         /\ p \in Orders
         /\ p.side = o.side /\ p.price = o.price /\ p.remaining = o.remaining - n
         /\ p.arrive_at = o.arrive_at /\ p.cancel_at = o.cancel_at
BY DEF Orders

(* Cancelling an order gives it a deadline and changes nothing else.        *)
LEMMA OrderCancelled ==
  ASSUME NEW o \in Orders, NEW ts \in Nat
  PROVE  LET p == Cancelled(o, ts) IN
         /\ p \in Orders
         /\ p.side = o.side /\ p.price = o.price /\ p.remaining = o.remaining
         /\ p.arrive_at = o.arrive_at /\ p.cancel_at # None
         /\ \/ p.cancel_at = o.cancel_at
            \/ o.cancel_at = None /\ p.cancel_at = ts + RoundTrip
BY Constants DEF Orders, Cancelled

LEMMA LaterQueue ==
  ASSUME NEW a, NEW b, NEW ts \in Nat, Queue(a, ts), Later(a, b, ts)
  PROVE  Queue(b, ts)
<1>1. ts + RoundTrip <= ts + RoundTrip
  BY Constants
<1> QED
  BY <1>1 DEF Queue, Relieved, Later

-----------------------------------------------------------------------------
(* Exposure.  First some arithmetic of intervals.                           *)
LEMMA DivBounds ==
  ASSUME NEW M \in Nat \ {0}, NEW x \in Nat
  PROVE  /\ x \div M \in Nat
         /\ \A k \in Nat : k * M <= x <=> k <= x \div M
<1> DEFINE q == x \div M
           r == x % M
<1>1. x = M * q + r /\ r \in 0 .. M - 1 /\ q \in Int
  BY DivMod
<1>2. q \in Nat
  OBVIOUS
<1> HIDE DEF q, r
<1>3. ASSUME NEW k \in Nat, k <= q PROVE k * M <= x
  <2>1. k * M <= q * M
    BY <1>2, <1>3
  <2> QED
    BY <1>1, <1>2, <2>1
<1>4. ASSUME NEW k \in Nat, k > q PROVE k * M > x
  <2>1. k >= q + 1
    BY <1>2, <1>4
  <2>2. k * M >= (q + 1) * M
    BY <1>2, <2>1
  <2>3. (q + 1) * M = q * M + M
    BY <1>2
  <2> QED
    BY <1>1, <1>2, <2>2, <2>3
<1>5. \A k \in Nat : k <= q \/ k > q
  BY <1>2
<1>6. ASSUME NEW k \in Nat PROVE k * M <= x <=> k <= q
  <2>1. k * M \in Nat
    OBVIOUS
  <2> QED
    BY <1>2, <1>3, <1>4, <2>1
<1> QED
  BY <1>2, <1>6 DEF q

LEMMA RoundingUp ==
  ASSUME NEW M \in Nat \ {0}, NEW x \in Nat, NEW y \in Nat
  PROVE  /\ RoundedUp(x, M) \in Nat
         /\ x > 0 => RoundedUp(x, M) > 0
         /\ x <= y => RoundedUp(x, M) <= RoundedUp(y, M)
         /\ RoundedUp(x + M, M) = RoundedUp(x, M) + 1
<1> DEFINE a == x + M - 1
           b == y + M - 1
<1>1. a \in Nat /\ b \in Nat /\ a + M \in Nat
  OBVIOUS
<1>2. x + M + M - 1 = a + M
  OBVIOUS
<1> HIDE DEF a, b
<1>3. a \div M \in Nat /\ b \div M \in Nat /\ (a + M) \div M \in Nat
  BY <1>1, DivBounds
<1>4. x > 0 => a \div M > 0
  <2>1. ASSUME x > 0 PROVE 1 <= a \div M
    <3>1. 1 * M <= a
      BY <2>1 DEF a
    <3> QED
      BY <1>1, <3>1, DivBounds
  <2> QED
    BY <1>3, <2>1
<1>5. x <= y => a \div M <= b \div M
  <2> SUFFICES ASSUME x <= y PROVE a \div M <= b \div M
    OBVIOUS
  <2>1. (a \div M) * M <= a
    BY <1>1, <1>3, DivBounds
  <2>2. a <= b
    BY DEF a, b
  <2>3. (a \div M) * M <= b
    <3> DEFINE z == (a \div M) * M
    <3>1. z \in Int /\ z <= a
      BY <1>3, <2>1
    <3> HIDE DEF z
    <3>2. z <= b
      BY <1>1, <2>2, <3>1
    <3> QED
      BY <3>2 DEF z
  <2> QED
    BY <1>1, <1>3, <2>3, DivBounds
<1>6. (a + M) \div M = a \div M + 1
  <2> DEFINE q == a \div M
             r == a % M
  <2>1. a = M * q + r /\ r \in 0 .. M - 1 /\ q \in Nat
    BY <1>1, <1>3, DivMod
  <2> HIDE DEF q, r
  <2>2. a + M = M * (q + 1) + r
    BY <2>1
  <2>3. (M * (q + 1) + r) \div M = q + 1
    BY <2>1
  <2> QED
    BY <2>2, <2>3 DEF q
<1> QED
  BY <1>2, <1>3, <1>4, <1>5, <1>6 DEF RoundedUp, a, b

(* A flat position threatens neither side.                                  *)
LEMMA FlatSigned ==
  ASSUME NEW side, NEW n, n = 0
  PROVE  Signed(side, n) = 0
<1>1. ASSUME NEW m \in Int, m <= 0, 0 <= m
      PROVE  -m = 0
  BY <1>1
<1>2. n \in Int /\ n <= 0 /\ 0 <= n
  OBVIOUS
<1>3. -n = 0
  BY <1>1, <1>2, Zenon
<1> QED
  BY <1>3, Zenon DEF Signed

(* Points spaced by M of which at most one is not after ts and none is after *)
(* ts + D.                                                                   *)
Spaced(at, T, M, ts, D) ==
  /\ IsFiniteSet(T) /\ T \subseteq Nat
  /\ \A x \in T : at[x] \in Nat /\ at[x] <= ts + D
  /\ \A x, y \in T : x < y => at[x] + M <= at[y] /\ at[y] > ts

LEMMA Crowd ==
  ASSUME NEW at, NEW T, NEW M \in Nat \ {0}, NEW ts \in Nat, NEW D \in Nat, Spaced(at, T, M, ts, D)
  PROVE  Cardinality(T) <= RoundedUp(D, M) + 1
<1> DEFINE slot(x) == IF at[x] <= ts THEN 0 ELSE RoundedUp(at[x] - ts, M)
           f == [x \in T |-> slot(x)]
           K == RoundedUp(D, M)
<1>1. K \in Nat
  BY RoundingUp
<1>2. ASSUME NEW x \in T PROVE slot(x) \in 0 .. K
  <2>1. at[x] \in Nat /\ at[x] <= ts + D
    BY DEF Spaced
  <2>2. CASE at[x] <= ts
    BY <1>1, <2>2
  <2>3. CASE ~(at[x] <= ts)
    <3>1. at[x] - ts \in Nat /\ at[x] - ts <= D
      BY <2>1, <2>3
    <3>2. RoundedUp(at[x] - ts, M) \in Nat /\ RoundedUp(at[x] - ts, M) <= K
      BY <3>1, RoundingUp
    <3> HIDE DEF K
    <3> QED
      BY <1>1, <2>3, <3>2
  <2> QED
    BY <2>2, <2>3
<1>3. ASSUME NEW x \in T, NEW y \in T, x < y PROVE slot(x) < slot(y)
  <2>1. at[x] \in Nat /\ at[y] \in Nat /\ at[x] + M <= at[y] /\ at[y] > ts
    BY <1>3 DEF Spaced
  <2>2. PICK d : d = at[y] - ts
    OBVIOUS
  <2>3. d \in Nat /\ d > 0 /\ slot(y) = RoundedUp(d, M)
    BY <2>1, <2>2
  <2>4. CASE at[x] <= ts
    BY <2>3, <2>4, RoundingUp
  <2>5. CASE ~(at[x] <= ts)
    <3>1. PICK e : e = at[x] - ts
      OBVIOUS
    <3>2. e \in Nat /\ e + M <= d /\ e + M \in Nat /\ slot(x) = RoundedUp(e, M)
      BY <2>1, <2>2, <2>5, <3>1
    <3>3. RoundedUp(e, M) + 1 <= RoundedUp(d, M)
      BY <2>3, <3>2, RoundingUp
    <3>4. RoundedUp(e, M) \in Nat /\ RoundedUp(d, M) \in Nat
      BY <2>3, <3>2, RoundingUp
    <3> HIDE DEF slot
    <3> QED
      BY <2>3, <3>2, <3>3, <3>4
  <2> QED
    BY <2>4, <2>5
<1> HIDE DEF slot, K
<1>4. f \in Injection(T, 0 .. K)
  <2>1. f \in [T -> 0 .. K]
    BY <1>2
  <2>2. ASSUME NEW x \in T, NEW y \in T, f[x] = f[y] PROVE x = y
    <3>1. x \in Nat /\ y \in Nat
      BY DEF Spaced
    <3>2. ~(x < y) /\ ~(y < x)
      BY <1>2, <1>3, <2>2
    <3> QED
      BY <3>1, <3>2
  <2> QED
    BY <2>1, <2>2 DEF Injection, IsInjective
<1>5. IsFiniteSet(0 .. K) /\ Cardinality(0 .. K) = K + 1
  BY <1>1, FS_Interval
<1>6. Cardinality(T) <= Cardinality(0 .. K)
  BY <1>4, <1>5, FS_Injection
<1> QED
  BY <1>5, <1>6 DEF K

LEMMA ThreatFacts ==
  ASSUME NEW a, Sound(a), NEW side, NEW ts
  PROVE  /\ Weighs(Remaining(a), Threats(a, side, ts))
         /\ SetWeight(Remaining(a), Threats(a, side, ts)) \in Int
         /\ Threats(a, side, ts) \subseteq Open(a)
         /\ IsFiniteSet(Threats(a, side, ts))
         /\ Open(a) \subseteq Nat
         /\ \A oid \in DOMAIN a.orders :
              /\ Remaining(a)[oid] = a.orders[oid].remaining
              /\ a.orders[oid].remaining \in Nat
<1>1. \A oid \in DOMAIN a.orders :
        /\ Remaining(a)[oid] = a.orders[oid].remaining
        /\ a.orders[oid].remaining \in Nat
  BY DEF Sound, Typed, Orders, Remaining
<1>2. Threats(a, side, ts) \subseteq Open(a) /\ Open(a) \subseteq DOMAIN a.orders
  BY DEF Threats, Sound, Typed
<1>3. IsFiniteSet(Threats(a, side, ts)) /\ Open(a) \subseteq Nat
  <2>1. /\ Threats(a, side, ts) \subseteq Nat /\ a.next_oid \in Nat
        /\ \A oid \in Threats(a, side, ts) : oid <= a.next_oid
        /\ Open(a) \subseteq Nat
    BY <1>2 DEF Sound, Typed
  <2> QED
    BY <2>1, FS_BoundedSetOfNaturals
<1>4. Weighs(Remaining(a), Threats(a, side, ts))
  BY <1>1, <1>2, <1>3 DEF Weighs
<1> QED
  BY <1>1, <1>2, <1>3, <1>4, SetWeightType

LEMMA LimitFacts ==
  /\ MaxPosition \in Nat /\ MinRequote \in Nat /\ OrderQtys \subseteq Nat \ {0}
  /\ MinRequote > 0 => Late \in Nat
<1>1. /\ MaxPosition \in Nat /\ MinRequote \in Nat /\ OrderQtys \subseteq Nat \ {0}
      /\ RoundTrip \in Nat
  BY SimulatorAssumption DEF SimulatorAssumption
<1>2. MinRequote > 0 => Late \in Nat
  BY <1>1, RoundingUp DEF Late
<1> QED
  BY <1>1, <1>2

(* Nothing was sent, so nothing arrives closer together.                    *)
LEMMA PacedKept ==
  ASSUME NEW a, NEW b, NEW then \in Nat, NEW ts \in Nat, then <= ts,
         Ledger(a), Paced(a, then), Later(a, b, ts), b.last_send = a.last_send
  PROVE  Paced(b, ts)
<1>1. Open(b) \subseteq Open(a)
  BY DEF Later
<1>2. ASSUME NEW side \in Sides, b.last_send[side] # None
      PROVE  b.last_send[side] <= ts
  <2>1. b.last_send[side] \in Nat /\ b.last_send[side] <= then
    BY <1>2 DEF Ledger, Paced
  <2> QED
    BY <2>1
<1>3. ASSUME NEW oid \in Open(b)
      PROVE  /\ b.last_send[b.orders[oid].side] # None
             /\ b.orders[oid].arrive_at <= b.last_send[b.orders[oid].side] + RoundTrip
  BY <1>1 DEF Paced, Later
<1>4. ASSUME NEW x \in Open(b), NEW y \in Open(b), x < y, b.orders[x].side = b.orders[y].side
      PROVE  b.orders[x].arrive_at + MinRequote <= b.orders[y].arrive_at
  BY <1>1, <1>4 DEF Paced, Later
<1> QED
  BY <1>2, <1>3, <1>4 DEF Paced

(* Events that change no position and no remainder keep the exposure low.   *)
LEMMA IdleSafe ==
  ASSUME NEW a, Sound(a), NEW b, Sound(b), NEW then \in Nat, NEW ts \in Nat, then <= ts,
         Safe(a, then), Later(a, b, ts), Idle(a, b)
  PROVE  Safe(b, ts)
<1>1. Ledger(b)
  BY DEF Safe, Ledger, Idle
<1>2. SUFFICES ASSUME MinRequote > 0
               PROVE  Paced(b, ts) /\ \E qty \in OrderQtys : Limited(b, ts, qty)
  BY <1>1 DEF Safe
<1>3. PICK qty \in OrderQtys : Limited(a, then, qty)
  BY <1>2 DEF Safe
<1>4. Open(b) \subseteq Open(a)
  BY DEF Later
<1>5. \A oid \in Open(b) : a.orders[oid] \in Orders /\ b.orders[oid] \in Orders
                           /\ oid \in DOMAIN a.orders /\ oid \in DOMAIN b.orders
  BY <1>4 DEF Sound, Typed
<1>6. Paced(b, ts)
  BY <1>2, PacedKept DEF Safe, Idle
<1>7. ASSUME NEW side \in Sides
      PROVE  Exposure(b, side, ts) <= Allowed(qty)
  <2> DEFINE S == Threats(b, side, ts)
             U == Threats(a, side, then)
  <2>1. S \subseteq U
    <3>1. ASSUME NEW oid \in S PROVE oid \in U
      <4>1. oid \in Open(b) /\ b.orders[oid].side = side /\ InForce(b.orders[oid], ts)
        BY DEF Threats
      <4>2. oid \in Open(a) /\ a.orders[oid].side = side
            /\ \/ b.orders[oid].cancel_at = a.orders[oid].cancel_at
               \/ a.orders[oid].cancel_at = None
        BY <4>1, <1>4 DEF Later
      <4>3. InForce(a.orders[oid], then)
        <5>1. b.orders[oid].cancel_at \in Nat \cup {None}
          BY <1>5, <4>1 DEF Orders
        <5> QED
          BY <4>1, <4>2, <5>1 DEF InForce
      <4> QED
        BY <4>2, <4>3 DEF Threats
    <3> QED
      BY <3>1
  <2>2. /\ Weighs(Remaining(b), S) /\ Weighs(Remaining(a), U) /\ S \subseteq Open(b)
        /\ SetWeight(Remaining(b), S) \in Int /\ SetWeight(Remaining(a), U) \in Int
    BY ThreatFacts
  <2>3. \A oid \in S : Remaining(b)[oid] = Remaining(a)[oid] /\ Remaining(b)[oid] \in Int
    <3>1. \A oid \in S : /\ Remaining(b)[oid] = b.orders[oid].remaining
                         /\ Remaining(a)[oid] = a.orders[oid].remaining
                         /\ b.orders[oid].remaining \in Nat
      BY <1>5, <2>2, ThreatFacts
    <3> QED
      BY <2>2, <3>1 DEF Idle
  <2>4. \A oid \in U : Remaining(a)[oid] >= 0
    <3>1. \A oid \in U : oid \in DOMAIN a.orders
      BY ThreatFacts DEF Sound, Typed
    <3>2. \A oid \in DOMAIN a.orders : Remaining(a)[oid] \in Nat
      BY ThreatFacts
    <3> HIDE DEF U
    <3> QED
      BY <3>1, <3>2
  <2>5. SetWeight(Remaining(b), S) <= SetWeight(Remaining(a), U)
    <3> HIDE DEF S, U
    <3>1. \A oid \in S : Remaining(b)[oid] \in Int /\ Remaining(b)[oid] <= Remaining(a)[oid]
      BY <2>3
    <3>2. \A oid \in U \ S : Remaining(a)[oid] >= 0
      BY <2>4
    <3> QED
      BY <2>1, <2>2, <3>1, <3>2, SetWeightBelow
  <2>6. Signed(side, b.position) = Signed(side, a.position) /\ Signed(side, a.position) \in Int
    BY DEF Idle, Safe, Ledger, Signed
  <2>7. Signed(side, a.position) + SetWeight(Remaining(a), U) <= Allowed(qty)
    BY <1>3 DEF Limited, Exposure
  <2>8. Allowed(qty) \in Int
    BY <1>2, LimitFacts DEF Allowed, Larger
  <2> HIDE DEF S, U
  <2>9. Signed(side, b.position) + SetWeight(Remaining(b), S) <= Allowed(qty)
    BY <2>2, <2>5, <2>6, <2>7, <2>8
  <2> QED
    BY <2>9 DEF Exposure, S
<1>8. \A oid \in Open(b) : b.orders[oid].remaining <= qty
  BY <1>3, <1>4 DEF Limited, Idle
<1> QED
  BY <1>6, <1>7, <1>8 DEF Limited

(* The orders of a side that can still fill: one may be at the exchange, the *)
(* others arrive one requote interval apart.                                *)
LEMMA ThreatsSpaced ==
  ASSUME MinRequote > 0, NEW a, Sound(a), NEW side \in Sides, NEW ts \in Nat,
         Ledger(a), Paced(a, ts), Relieved(a), NEW D \in Nat,
         a.last_send[side] # None => a.last_send[side] + RoundTrip <= ts + D
  PROVE  Cardinality(Threats(a, side, ts)) <= RoundedUp(D, MinRequote) + 1
<1> DEFINE T == Threats(a, side, ts)
           at == [oid \in DOMAIN a.orders |-> a.orders[oid].arrive_at]
<1>1. /\ IsFiniteSet(T) /\ T \subseteq Nat /\ T \subseteq Open(a) /\ T \subseteq DOMAIN a.orders
  BY ThreatFacts DEF Sound, Typed
<1>2. \A oid \in T : /\ a.orders[oid] \in Orders /\ a.orders[oid].side = side
                     /\ InForce(a.orders[oid], ts) /\ at[oid] = a.orders[oid].arrive_at
                     /\ at[oid] \in Nat
  BY <1>1 DEF Threats, Sound, Typed, Orders
<1>3. ASSUME NEW oid \in T PROVE at[oid] <= ts + D
  <2>1. /\ a.last_send[side] # None
        /\ a.orders[oid].arrive_at <= a.last_send[side] + RoundTrip
    BY <1>1, <1>2 DEF Paced
  <2>2. a.last_send[side] \in Nat /\ RoundTrip \in Nat
    BY <2>1, Constants DEF Ledger
  <2> HIDE DEF T, at
  <2> QED
    BY <1>2, <2>1, <2>2
<1>4. ASSUME NEW x \in T, NEW y \in T, x < y
      PROVE  at[x] + MinRequote <= at[y] /\ at[y] > ts
  <2>1. at[x] + MinRequote <= at[y]
    BY <1>1, <1>2, <1>4 DEF Paced
  <2>2. a.orders[x].cancel_at # None /\ a.orders[x].cancel_at <= at[y]
    BY <1>1, <1>2, <1>4 DEF Relieved
  <2>3. a.orders[x].cancel_at \in Nat /\ a.orders[x].cancel_at > ts
    BY <1>2, <2>2 DEF Orders, InForce
  <2>4. at[y] \in Nat
    BY <1>2
  <2> HIDE DEF at
  <2> QED
    BY <2>1, <2>2, <2>3, <2>4
<1> HIDE DEF T, at
<1>5. Spaced(at, T, MinRequote, ts, D)
  BY <1>1, <1>2, <1>3, <1>4 DEF Spaced
<1>6. MinRequote \in Nat \ {0}
  BY LimitFacts
<1> QED
  BY <1>5, <1>6, Crowd DEF T

(* What n orders of at most qty can fill.                                   *)
LEMMA FewThreats ==
  ASSUME NEW a, Sound(a), NEW side, NEW ts, NEW qty \in OrderQtys, NEW n \in Nat,
         \A oid \in Open(a) : a.orders[oid].remaining <= qty,
         Cardinality(Threats(a, side, ts)) <= n
  PROVE  SetWeight(Remaining(a), Threats(a, side, ts)) <= qty * n
<1> DEFINE T == Threats(a, side, ts)
           w == Remaining(a)
           c == Cardinality(T)
<1>1. /\ Weighs(w, T) /\ SetWeight(w, T) \in Int /\ qty \in Nat
      /\ IsFiniteSet(T) /\ T \subseteq Open(a)
  BY ThreatFacts, LimitFacts
<1>2. \A oid \in T : w[oid] <= qty
  BY <1>1, ThreatFacts DEF Sound, Typed
<1>3. c \in Nat
  BY <1>1, FS_CardinalityType
<1> HIDE DEF T, w
<1>4. SetWeight(w, T) <= qty * c
  BY <1>1, <1>2, SetWeightMost
<1>5. c <= n
  BY DEF T
<1> HIDE DEF c
<1>6. qty * c <= qty * n
  BY <1>1, <1>3, <1>5
<1>7. qty * c \in Int /\ qty * n \in Int
  BY <1>1, <1>3
<1>8. SetWeight(w, T) <= qty * n
  <2> DEFINE u == qty * c
             v == qty * n
  <2>1. u \in Int /\ v \in Int /\ u <= v /\ SetWeight(w, T) <= u
    BY <1>4, <1>6, <1>7
  <2> HIDE DEF u, v
  <2>2. SetWeight(w, T) <= v
    BY <1>1, <2>1
  <2> QED
    BY <2>2 DEF v
<1> QED
  BY <1>8 DEF w, T

(* Larger orders allow more.                                                *)
LEMMA AllowedGrows ==
  ASSUME MinRequote > 0, NEW q \in OrderQtys, NEW r \in OrderQtys, q <= r
  PROVE  /\ Allowed(q) \in Int /\ Allowed(r) \in Int /\ Allowed(q) <= Allowed(r)
         /\ q * Late \in Int /\ MaxPosition + q * Late <= Allowed(r)
         /\ q * (Late + 1) \in Int /\ q * (Late + 1) <= Allowed(q)
<1>1. q \in Nat /\ r \in Nat /\ Late \in Nat /\ MaxPosition \in Nat
  BY LimitFacts
<1> HIDE DEF Late
<1> DEFINE u == q * Late
           v == r * Late
<1>2. u \in Int /\ v \in Int /\ u <= v /\ q * (Late + 1) = u + q
  BY <1>1
<1>3. Allowed(q) = Larger(MaxPosition, q) + u /\ Allowed(r) = Larger(MaxPosition, r) + v
  BY DEF Allowed
<1> HIDE DEF u, v
<1>4. /\ Larger(MaxPosition, q) \in Int /\ Larger(MaxPosition, r) \in Int
      /\ Larger(MaxPosition, q) <= Larger(MaxPosition, r)
      /\ MaxPosition <= Larger(MaxPosition, r) /\ q <= Larger(MaxPosition, q)
  BY <1>1 DEF Larger
<1>5. /\ Allowed(q) \in Int /\ Allowed(r) \in Int /\ Allowed(q) <= Allowed(r)
      /\ MaxPosition + u <= Allowed(r)
      /\ u + q \in Int /\ u + q <= Allowed(q)
  BY <1>1, <1>2, <1>3, <1>4
<1> QED
  BY <1>2, <1>5 DEF u

-----------------------------------------------------------------------------
(* CancelSet takes any open orders out of the quotes.                       *)
LEMMA CancelSetSound ==
  ASSUME NEW a, Sound(a), NEW oids, NEW ts \in Nat
  PROVE  LET b == CancelSet(a, oids, ts) IN
         /\ Sound(b)
         /\ b.live = a.live /\ b.pending = a.pending /\ b.fills = a.fills
         /\ b.halted = a.halted /\ b.next_oid = a.next_oid
         /\ DOMAIN b.orders = DOMAIN a.orders
         /\ \A oid \in DOMAIN a.orders :
              /\ b.orders[oid].side = a.orders[oid].side
              /\ b.orders[oid].price = a.orders[oid].price
              /\ b.orders[oid].arrive_at = a.orders[oid].arrive_at
              /\ oid \in oids => b.orders[oid].cancel_at # None
              /\ oid \notin oids => b.orders[oid] = a.orders[oid]
         /\ Later(a, b, ts) /\ Idle(a, b)
<1> DEFINE b == CancelSet(a, oids, ts)
<1>1. /\ IsAccount(b)
      /\ b.orders = [oid \in DOMAIN a.orders |->
                       IF oid \in oids THEN Cancelled(a.orders[oid], ts) ELSE a.orders[oid]]
      /\ b.working = [side \in Sides |-> IF a.working[side] \in oids THEN None ELSE a.working[side]]
      /\ b.live = a.live /\ b.pending = a.pending /\ b.fills = a.fills
      /\ b.halted = a.halted /\ b.next_oid = a.next_oid
      /\ b.position = a.position /\ b.traded = a.traded /\ b.last_send = a.last_send
  <2>1. IsAccount(a)
    BY DEF Sound, Typed
  <2> QED
    BY <2>1 DEF CancelSet, IsAccount, Fields
<1> HIDE DEF b
<1>2. \A oid \in DOMAIN a.orders :
        /\ b.orders[oid] \in Orders
        /\ b.orders[oid].side = a.orders[oid].side
        /\ b.orders[oid].price = a.orders[oid].price
        /\ b.orders[oid].remaining = a.orders[oid].remaining
        /\ b.orders[oid].arrive_at = a.orders[oid].arrive_at
        /\ oid \in oids => b.orders[oid].cancel_at # None
        /\ oid \notin oids => b.orders[oid] = a.orders[oid]
        /\ \/ b.orders[oid].cancel_at = a.orders[oid].cancel_at
           \/ a.orders[oid].cancel_at = None /\ b.orders[oid].cancel_at = ts + RoundTrip
  <2> TAKE oid \in DOMAIN a.orders
  <2>1. a.orders[oid] \in Orders
    BY DEF Sound, Typed
  <2>2. b.orders[oid] = IF oid \in oids THEN Cancelled(a.orders[oid], ts) ELSE a.orders[oid]
    BY <1>1
  <2> QED
    BY <2>1, <2>2, OrderCancelled
<1>3. Open(b) = Open(a)
  BY <1>1 DEF Open
<1>4. Typed(b)
  <2>1. DOMAIN b.orders = DOMAIN a.orders
        /\ b.orders = [oid \in DOMAIN b.orders |-> b.orders[oid]]
    BY <1>1
  <2>2. b.working \in [Sides -> DOMAIN b.orders \cup {None}]
    BY <1>1, <2>1 DEF Sound, Typed
  <2>3. \A oid \in Open(b) : b.orders[oid].remaining > 0
    BY <1>2, <1>3 DEF Sound, Typed
  <2>4. \A oid \in DOMAIN b.orders : b.orders[oid] \in Orders
    BY <1>2, <2>1
  <2> QED
    BY <1>1, <1>3, <2>1, <2>2, <2>3, <2>4 DEF Sound, Typed
<1>5. Knows(b)
  <2>1. ASSUME NEW oid \in Open(b), b.orders[oid].cancel_at = None
        PROVE  b.working[b.orders[oid].side] = oid
    <3>1. oid \in DOMAIN a.orders /\ oid \notin oids /\ b.orders[oid] = a.orders[oid]
      BY <1>2, <1>3, <2>1 DEF Sound, Typed
    <3>2. a.working[a.orders[oid].side] = oid /\ a.orders[oid].side \in Sides
      BY <1>3, <2>1, <3>1 DEF Sound, Typed, Knows, Orders
    <3> QED
      BY <1>1, <3>1, <3>2
  <2>2. ASSUME NEW side \in Sides, b.working[side] # None
        PROVE  LET oid == b.working[side] IN
               /\ b.orders[oid].side = side
               /\ b.orders[oid].cancel_at = None
               /\ oid \in Open(b) \/ b.orders[oid].remaining = 0
    <3>1. b.working[side] = a.working[side] /\ a.working[side] \notin oids
      BY <1>1, <2>2
    <3>2. a.working[side] \in DOMAIN a.orders
      BY <2>2, <3>1 DEF Sound, Typed
    <3> QED
      BY <1>2, <1>3, <2>2, <3>1, <3>2 DEF Sound, Knows
  <2> QED
    BY <2>1, <2>2 DEF Knows
<1>6. Withdrawn(b)
  BY <1>1, <1>2, <1>3 DEF Sound, Typed, Withdrawn
<1>7. Later(a, b, ts) /\ Idle(a, b)
  BY <1>1, <1>2, <1>3 DEF Sound, Typed, Later, Idle
<1> QED
  BY <1>1, <1>2, <1>4, <1>5, <1>6, <1>7 DEF b, Sound

-----------------------------------------------------------------------------
(* What the account's own decisions leave alone: who is at the exchange,    *)
(* where, and what was filled.                                              *)
Same(a, b) ==
  /\ b.live = a.live /\ b.fills = a.fills
  /\ \A oid \in a.live :
       /\ b.orders[oid].side = a.orders[oid].side
       /\ b.orders[oid].price = a.orders[oid].price
       /\ b.orders[oid].arrive_at = a.orders[oid].arrive_at

LEMMA SameIsTransitive ==
  ASSUME NEW a, NEW b, NEW c, Same(a, b), Same(b, c)
  PROVE  Same(a, c)
BY DEF Same

LEMMA SameKeeps ==
  ASSUME NEW a, NEW b, Same(a, b), NEW ts, NEW t
  PROVE  /\ Arrived(a, ts) => Arrived(b, ts)
         /\ FillsOK(a, ts) => FillsOK(b, ts)
         /\ Passive(a, t) => Passive(b, t)
         /\ Alone(a) => Alone(b)
BY DEF Same, Arrived, FillsOK, Passive, Crosses, Alone

LEMMA CancelSetSame ==
  ASSUME NEW a, Sound(a), NEW oids, NEW ts \in Nat
  PROVE  Same(a, CancelSet(a, oids, ts))
<1>1. a.live \subseteq DOMAIN a.orders
  BY DEF Sound, Typed, Open
<1> QED
  BY <1>1, CancelSetSound DEF Same

(* A new order becomes the quote of a side that has none left.              *)
LEMMA SendSound ==
  ASSUME NEW a, Sound(a), a.halted = FALSE, NEW side \in Sides, NEW quote \in Quotes,
         NEW ts \in Nat,
         \A oid \in Open(a) : a.orders[oid].side = side => a.orders[oid].cancel_at # None
  PROVE  /\ Sound(SendOrder(a, side, quote, ts))
         /\ Queue(a, ts) => Queue(SendOrder(a, side, quote, ts), ts)
         /\ Same(a, SendOrder(a, side, quote, ts))
         /\ SendOrder(a, side, quote, ts).halted = FALSE
<1> DEFINE b == SendOrder(a, side, quote, ts)
           new == a.next_oid
           o == [side |-> side, price |-> quote.price, qty |-> quote.qty,
                 remaining |-> quote.qty, arrive_at |-> ts + RoundTrip,
                 cancel_at |-> None, front |-> None]
<1>1. /\ IsAccount(b)
      /\ b.orders = [x \in DOMAIN a.orders \cup {new} |-> IF x = new THEN o ELSE a.orders[x]]
      /\ b.pending = a.pending \cup {new}
      /\ b.working = [a.working EXCEPT ![side] = new]
      /\ b.next_oid = new + 1
      /\ b.live = a.live /\ b.fills = a.fills /\ b.halted = a.halted
  <2>1. IsAccount(a)
    BY DEF Sound, Typed
  <2> QED
    BY <2>1 DEF SendOrder, IsAccount, Fields
<1>2. o \in Orders
  BY Constants, SimulatorAssumption DEF Orders, Quotes, SimulatorAssumption
<1>3. o.side = side /\ o.cancel_at = None /\ o.remaining = quote.qty
      /\ o.arrive_at = ts + RoundTrip
  OBVIOUS
<1> HIDE DEF b, o
<1>4. new \in Nat \ {0} /\ new \notin DOMAIN a.orders
  BY DEF Sound, Typed
<1>5. /\ Open(b) = Open(a) \cup {new}
      /\ Open(a) \subseteq DOMAIN a.orders
      /\ b.orders[new] = o
      /\ \A oid \in DOMAIN a.orders : b.orders[oid] = a.orders[oid]
      /\ DOMAIN b.orders = DOMAIN a.orders \cup {new}
  BY <1>1, <1>4 DEF Open, Sound, Typed
<1>6. Typed(b)
  <2>1. b.working \in [Sides -> DOMAIN b.orders \cup {None}]
    BY <1>1, <1>5 DEF Sound, Typed
  <2>2. \A oid \in DOMAIN b.orders : oid \in Nat \ {0} /\ oid < b.next_oid
    BY <1>1, <1>4, <1>5 DEF Sound, Typed
  <2>3. \A oid \in DOMAIN b.orders : b.orders[oid] \in Orders
    BY <1>2, <1>5 DEF Sound, Typed
  <2>4. \A oid \in Open(b) : b.orders[oid].remaining > 0
    BY <1>3, <1>5, Constants DEF Sound, Typed
  <2>5. b.orders = [oid \in DOMAIN b.orders |-> b.orders[oid]]
    BY <1>1
  <2>6. b.live \cap b.pending = {}
    BY <1>1, <1>4, <1>5 DEF Sound, Typed, Open
  <2>7. b.next_oid \in Nat \ {0}
    BY <1>1, <1>4
  <2> QED
    BY <1>1, <1>5, <2>1, <2>2, <2>3, <2>4, <2>5, <2>6, <2>7 DEF Typed
<1>7. Knows(b)
  <2>1. ASSUME NEW oid \in Open(b), b.orders[oid].cancel_at = None
        PROVE  b.working[b.orders[oid].side] = oid
    <3>1. CASE oid = new
      BY <1>1, <1>3, <1>5, <3>1 DEF Sound, Typed
    <3>2. CASE oid # new
      <4>1. oid \in Open(a) /\ b.orders[oid] = a.orders[oid]
        BY <1>5, <2>1, <3>2
      <4>2. /\ a.orders[oid].side # side
            /\ a.orders[oid].side \in Sides
            /\ a.working[a.orders[oid].side] = oid
        BY <2>1, <4>1 DEF Sound, Typed, Knows, Orders
      <4> QED
        BY <1>1, <4>1, <4>2 DEF Sound, Typed
    <3> QED
      BY <3>1, <3>2
  <2>2. ASSUME NEW s \in Sides, b.working[s] # None
        PROVE  /\ b.orders[b.working[s]].side = s
               /\ b.orders[b.working[s]].cancel_at = None
               /\ b.working[s] \in Open(b) \/ b.orders[b.working[s]].remaining = 0
    <3>1. CASE s = side
      <4>1. b.working[s] = new
        BY <1>1, <3>1 DEF Sound, Typed
      <4> QED
        BY <1>3, <1>5, <3>1, <4>1
    <3>2. CASE s # side
      <4>1. b.working[s] = a.working[s]
        BY <1>1, <3>2 DEF Sound, Typed
      <4>2. a.working[s] \in DOMAIN a.orders
        BY <2>2, <4>1 DEF Sound, Typed
      <4> QED
        BY <1>5, <2>2, <4>1, <4>2 DEF Sound, Knows
    <3> QED
      BY <3>1, <3>2
  <2> QED
    BY <2>1, <2>2 DEF Knows
<1>8. Withdrawn(b)
  BY <1>1 DEF Withdrawn
<1>9. Same(a, b)
  BY <1>1, <1>5 DEF Same, Open
<1>10. ASSUME Queue(a, ts)
       PROVE  Queue(b, ts)
  <2>1. ASSUME NEW x \in Open(b), NEW y \in Open(b), x < y,
               b.orders[x].side = b.orders[y].side
        PROVE  b.orders[x].cancel_at # None /\ b.orders[x].cancel_at <= b.orders[y].arrive_at
    <3>1. x \in Open(a) /\ b.orders[x] = a.orders[x]
      <4>1. y \in DOMAIN a.orders \cup {new}
        BY <1>5
      <4>2. x # new
        BY <1>4, <2>1, <4>1 DEF Sound, Typed
      <4> QED
        BY <1>5, <4>2
    <3>2. CASE y = new
      BY <1>3, <1>5, <1>10, <2>1, <3>1, <3>2 DEF Queue
    <3>3. CASE y # new
      BY <1>5, <1>10, <2>1, <3>1, <3>3 DEF Queue, Relieved
    <3> QED
      BY <3>2, <3>3
  <2>2. ASSUME NEW oid \in Open(b), b.orders[oid].cancel_at # None
        PROVE  b.orders[oid].cancel_at <= ts + RoundTrip
    <3>1. oid # new
      BY <1>3, <1>5, <2>2
    <3> QED
      BY <1>5, <1>10, <2>2, <3>1 DEF Queue
  <2> QED
    BY <2>1, <2>2 DEF Queue, Relieved
<1> QED
  BY <1>1, <1>6, <1>7, <1>8, <1>9, <1>10 DEF b, Sound

(* An order is sent within the position limit, beside the orders of its side *)
(* that cancels on their way leave time to fill.                            *)
Within(a, side, quote) == Signed(side, a.position) + quote.qty <= MaxPosition

LEMMA LastThreats ==
  ASSUME MinRequote > 0, NEW a, Sound(a), NEW side \in Sides, NEW ts \in Nat,
         Ledger(a), Paced(a, ts), Queue(a, ts), ~TooSoon(a, side, ts),
         \A oid \in Open(a) : a.orders[oid].side = side => a.orders[oid].cancel_at # None
  PROVE  Cardinality(Threats(a, side, ts)) <= Late
<1> DEFINE T == Threats(a, side, ts)
           last == a.last_send[side]
<1>1. MinRequote \in Nat \ {0} /\ RoundTrip \in Nat /\ last \in Nat \cup {None}
  BY LimitFacts, Constants DEF Ledger
<1>2. last # None => ts - last >= MinRequote
  BY <1>1 DEF TooSoon
<1>3. Late \in Nat
  BY LimitFacts
<1>4. CASE RoundTrip = 0
  <2>1. ASSUME NEW oid \in T PROVE FALSE
    <3>1. oid \in Open(a) /\ a.orders[oid].cancel_at # None /\ InForce(a.orders[oid], ts)
      BY DEF Threats
    <3>2. a.orders[oid].cancel_at \in Nat /\ a.orders[oid].cancel_at <= ts + RoundTrip
      BY <3>1 DEF Queue, Sound, Typed, Orders
    <3> QED
      BY <1>4, <3>1, <3>2 DEF InForce
  <2>2. T = {}
    BY <2>1
  <2>3. Cardinality({}) = 0
    BY FS_EmptySet
  <2> HIDE DEF T
  <2>4. Cardinality(T) <= Late
    BY <1>3, <2>2, <2>3
  <2> QED
    BY <2>4 DEF T
<1>5. CASE RoundTrip > 0 /\ RoundTrip < MinRequote
  <2>1. last # None => last + RoundTrip <= ts + 0
    BY <1>1, <1>2, <1>5
  <2>2. Cardinality(T) <= RoundedUp(0, MinRequote) + 1
    BY <2>1, ThreatsSpaced DEF Queue
  <2>3. RoundedUp(0, MinRequote) = 0
    BY <1>1 DEF RoundedUp
  <2>4. Late > 0
    BY <1>1, <1>5, RoundingUp DEF Late
  <2>5. Cardinality(T) \in Nat
    BY ThreatFacts, FS_CardinalityType
  <2> HIDE DEF T
  <2>6. Cardinality(T) <= Late
    BY <1>3, <2>2, <2>3, <2>4, <2>5
  <2> QED
    BY <2>6 DEF T
<1>6. CASE RoundTrip >= MinRequote
  <2>1. PICK D : D = RoundTrip - MinRequote
    OBVIOUS
  <2>2. D \in Nat /\ D + MinRequote = RoundTrip
    BY <1>1, <1>6, <2>1
  <2>3. last # None => last + RoundTrip <= ts + D
    BY <1>1, <1>2, <2>2
  <2>4. Cardinality(T) <= RoundedUp(D, MinRequote) + 1
    BY <2>2, <2>3, ThreatsSpaced DEF Queue
  <2>5. RoundedUp(D + MinRequote, MinRequote) = RoundedUp(D, MinRequote) + 1
    BY <1>1, <2>2, RoundingUp
  <2> QED
    BY <2>2, <2>4, <2>5 DEF Late
<1> QED
  BY <1>1, <1>4, <1>5, <1>6

LEMMA SendSafe ==
  ASSUME NEW a, Sound(a), NEW side \in Sides, NEW quote \in Quotes, NEW ts \in Nat,
         a.halted = FALSE, Queue(a, ts), Safe(a, ts), ~TooSoon(a, side, ts),
         Within(a, side, quote),
         \A oid \in Open(a) : a.orders[oid].side = side => a.orders[oid].cancel_at # None
  PROVE  /\ Safe(SendOrder(a, side, quote, ts), ts)
         /\ SendOrder(a, side, quote, ts).position = a.position
<1> DEFINE b == SendOrder(a, side, quote, ts)
           new == a.next_oid
           o == [side |-> side, price |-> quote.price, qty |-> quote.qty,
                 remaining |-> quote.qty, arrive_at |-> ts + RoundTrip,
                 cancel_at |-> None, front |-> None]
<1>1. /\ b.orders = [x \in DOMAIN a.orders \cup {new} |-> IF x = new THEN o ELSE a.orders[x]]
      /\ b.pending = a.pending \cup {new}
      /\ b.live = a.live /\ b.position = a.position /\ b.traded = a.traded
      /\ b.last_send = [a.last_send EXCEPT ![side] = ts]
  <2>1. IsAccount(a)
    BY DEF Sound, Typed
  <2> QED
    BY <2>1 DEF SendOrder, IsAccount, Fields
<1>2. o.side = side /\ o.cancel_at = None /\ o.remaining = quote.qty
      /\ o.arrive_at = ts + RoundTrip
  OBVIOUS
<1>3. Sound(b)
  BY SendSound
<1> HIDE DEF b, o
<1>4. new \in Nat \ {0} /\ new \notin DOMAIN a.orders
  BY DEF Sound, Typed
<1>5. /\ Open(b) = Open(a) \cup {new} /\ new \notin Open(a)
      /\ Open(a) \subseteq DOMAIN a.orders
      /\ b.orders[new] = o
      /\ \A oid \in DOMAIN a.orders : b.orders[oid] = a.orders[oid] /\ oid \in Nat /\ oid < new
      /\ DOMAIN b.orders = DOMAIN a.orders \cup {new}
  BY <1>1, <1>4 DEF Open, Sound, Typed
<1>6. Ledger(a) /\ Ledger(b)
  BY <1>1 DEF Safe, Ledger
<1>7. SUFFICES ASSUME MinRequote > 0
               PROVE  Paced(b, ts) /\ \E qty \in OrderQtys : Limited(b, ts, qty)
  BY <1>1, <1>6 DEF Safe, b
<1>8. Paced(a, ts)
  BY <1>7 DEF Safe
<1>9. RoundTrip \in Nat /\ MinRequote \in Nat /\ quote.qty \in OrderQtys /\ quote.qty \in Nat \ {0}
  BY Constants, LimitFacts DEF Quotes
<1>10. \A s \in Sides : b.last_send[s] = IF s = side THEN ts ELSE a.last_send[s]
  BY <1>1, <1>6 DEF Ledger
<1>11. a.last_send[side] \in Nat \cup {None}
       /\ (a.last_send[side] # None => ts - a.last_send[side] >= MinRequote)
  BY <1>6, <1>9 DEF TooSoon, Ledger
<1>12. \A oid \in Open(a) : a.orders[oid] \in Orders
  BY <1>5 DEF Sound, Typed
<1>13. Paced(b, ts)
  <2>1. ASSUME NEW s \in Sides, b.last_send[s] # None
        PROVE  b.last_send[s] <= ts
    BY <1>8, <1>10, <2>1 DEF Paced
  <2>2. ASSUME NEW oid \in Open(b)
        PROVE  /\ b.last_send[b.orders[oid].side] # None
               /\ b.orders[oid].arrive_at <= b.last_send[b.orders[oid].side] + RoundTrip
    <3>1. CASE oid = new
      <4>1. b.last_send[side] = ts /\ ts # None
        BY <1>10, Constants
      <4>2. b.orders[oid].side = side /\ b.orders[oid].arrive_at = ts + RoundTrip
        BY <1>2, <1>5, <3>1
      <4> QED
        BY <1>9, <4>1, <4>2
    <3>2. CASE oid # new
      <4>1. oid \in Open(a) /\ b.orders[oid] = a.orders[oid]
        BY <1>5, <3>2
      <4>2. a.orders[oid].side \in Sides /\ a.orders[oid].arrive_at \in Nat
        BY <1>12, <4>1 DEF Orders
      <4>3. /\ a.last_send[a.orders[oid].side] # None
            /\ a.orders[oid].arrive_at <= a.last_send[a.orders[oid].side] + RoundTrip
        BY <1>8, <4>1 DEF Paced
      <4>4. CASE a.orders[oid].side = side
        <5>1. b.last_send[side] = ts /\ ts # None
          BY <1>10, Constants
        <5>2. a.last_send[side] \in Nat /\ a.last_send[side] <= ts
          BY <1>9, <1>11, <4>3, <4>4
        <5>3. a.orders[oid].arrive_at <= ts + RoundTrip
          BY <1>9, <4>2, <4>3, <4>4, <5>2
        <5> QED
          BY <4>1, <4>4, <5>1, <5>3
      <4>5. CASE a.orders[oid].side # side
        BY <1>10, <4>1, <4>2, <4>3, <4>5
      <4> QED
        BY <4>4, <4>5
    <3> QED
      BY <3>1, <3>2
  <2>3. ASSUME NEW x \in Open(b), NEW y \in Open(b), x < y, b.orders[x].side = b.orders[y].side
        PROVE  b.orders[x].arrive_at + MinRequote <= b.orders[y].arrive_at
    <3>1. x \in Open(a) /\ b.orders[x] = a.orders[x]
      <4>1. x # new
        BY <1>4, <1>5, <2>3
      <4> QED
        BY <1>5, <4>1
    <3>2. CASE y = new
      <4>1. a.orders[x].side = side /\ b.orders[y].arrive_at = ts + RoundTrip
        BY <1>2, <1>5, <2>3, <3>1, <3>2
      <4>2. a.last_send[side] # None /\ a.orders[x].arrive_at <= a.last_send[side] + RoundTrip
        BY <1>8, <3>1, <4>1 DEF Paced
      <4>3. a.orders[x].arrive_at \in Nat
        BY <1>12, <3>1 DEF Orders
      <4> QED
        BY <1>9, <1>11, <3>1, <4>1, <4>2, <4>3
    <3>3. CASE y # new
      BY <1>5, <1>8, <2>3, <3>1, <3>3 DEF Paced
    <3> QED
      BY <3>2, <3>3
  <2> QED
    BY <2>1, <2>2, <2>3 DEF Paced
<1>14. PICK q \in OrderQtys : Limited(a, ts, q)
  BY <1>7 DEF Safe
<1>15. PICK r : r = Larger(q, quote.qty)
  OBVIOUS
<1>16. r \in OrderQtys /\ q <= r /\ quote.qty <= r /\ q \in Nat /\ r \in Nat
  BY <1>9, <1>14, <1>15, LimitFacts DEF Larger
<1>17. /\ Allowed(q) \in Int /\ Allowed(r) \in Int /\ Allowed(q) <= Allowed(r)
       /\ q * Late \in Int /\ MaxPosition + q * Late <= Allowed(r)
  BY <1>7, <1>14, <1>16, AllowedGrows
<1>18. \A oid \in Open(b) : b.orders[oid].remaining <= r
  <2>1. ASSUME NEW oid \in Open(a) PROVE a.orders[oid].remaining <= r
    <3>1. a.orders[oid].remaining \in Nat /\ a.orders[oid].remaining <= q
      BY <1>12, <1>14 DEF Orders, Limited
    <3> QED
      BY <1>16, <3>1
  <2> QED
    BY <1>2, <1>5, <1>16, <2>1
<1>19. ASSUME NEW s \in Sides
       PROVE  Exposure(b, s, ts) <= Allowed(r)
  <2> DEFINE S == Threats(a, s, ts)
             U == Threats(b, s, ts)
             w == Remaining(a)
             v == Remaining(b)
  <2>1. /\ Weighs(w, S) /\ Weighs(v, U) /\ SetWeight(w, S) \in Int
        /\ S \subseteq Open(a) /\ S \subseteq DOMAIN a.orders
    BY <1>3, <1>5, ThreatFacts
  <2>2. \A oid \in DOMAIN a.orders : v[oid] = w[oid]
    BY <1>5 DEF Remaining
  <2>3. U = IF s = side THEN S \cup {new} ELSE S
    <3>1. InForce(o, ts)
      BY <1>2 DEF InForce
    <3>2. \A oid \in Open(a) : b.orders[oid] = a.orders[oid]
      BY <1>5
    <3> QED
      BY <1>2, <1>5, <3>1, <3>2 DEF Threats
  <2>4. Signed(s, b.position) = Signed(s, a.position) /\ Signed(s, a.position) \in Int
    BY <1>1, <1>6 DEF Ledger, Signed
  <2>5. new \notin S /\ v[new] = quote.qty
    BY <1>2, <1>4, <1>5, <2>1 DEF Remaining
  <2>6. Signed(s, a.position) + SetWeight(w, S) <= Allowed(q)
    BY <1>14 DEF Limited, Exposure
  <2>7. s = side => SetWeight(w, S) <= q * Late
    <3> SUFFICES ASSUME s = side PROVE SetWeight(w, S) <= q * Late
      OBVIOUS
    <3>1. Cardinality(S) <= Late /\ Late \in Nat
      BY <1>6, <1>7, <1>8, LastThreats, LimitFacts
    <3> QED
      BY <1>14, <3>1, FewThreats DEF Limited
  <2> HIDE DEF S, U, w, v
  <2>8. SetWeight(v, S) = SetWeight(w, S)
    BY <2>1, <2>2, SetWeightSame
  <2>9. CASE s = side
    <3>1. new \in U /\ U \ {new} = S
      BY <2>3, <2>5, <2>9
    <3>2. SetWeight(v, U) = SetWeight(v, S) + quote.qty
      BY <2>1, <2>5, <3>1, SetWeightRemove
    <3>3. Signed(s, a.position) + quote.qty <= MaxPosition
      BY <2>9 DEF Within
    <3>4. MaxPosition \in Nat
      BY LimitFacts
    <3> DEFINE p == q * Late
    <3>5. SetWeight(w, S) <= p /\ p \in Int /\ MaxPosition + p <= Allowed(r)
      BY <1>17, <2>7, <2>9
    <3> HIDE DEF p
    <3>6. Signed(s, b.position) + SetWeight(v, U) <= Allowed(r)
      BY <1>9, <1>17, <2>1, <2>4, <2>8, <3>2, <3>3, <3>4, <3>5
    <3> QED
      BY <3>6 DEF Exposure, U, v
  <2>10. CASE s # side
    <3>1. Signed(s, b.position) + SetWeight(v, U) <= Allowed(r)
      BY <1>17, <2>1, <2>3, <2>4, <2>6, <2>8, <2>10
    <3> QED
      BY <3>1 DEF Exposure, U, v
  <2> QED
    BY <2>9, <2>10
<1> QED
  BY <1>13, <1>16, <1>18, <1>19 DEF Limited

(* Forgetting a quote that was filled.                                      *)
LEMMA ForgetSound ==
  ASSUME NEW a, Sound(a), NEW side \in Sides, a.working[side] # None,
         a.orders[a.working[side]].remaining = 0
  PROVE  /\ Sound([a EXCEPT !.working[side] = None])
         /\ \A ts : Later(a, [a EXCEPT !.working[side] = None], ts)
         /\ Idle(a, [a EXCEPT !.working[side] = None])
         /\ Same(a, [a EXCEPT !.working[side] = None])
         /\ [a EXCEPT !.working[side] = None].halted = a.halted
<1> DEFINE b == [a EXCEPT !.working[side] = None]
<1>1. /\ IsAccount(b)
      /\ b.working = [a.working EXCEPT ![side] = None]
      /\ b.orders = a.orders /\ b.live = a.live /\ b.pending = a.pending
      /\ b.next_oid = a.next_oid /\ b.fills = a.fills /\ b.halted = a.halted
      /\ b.position = a.position /\ b.traded = a.traded /\ b.last_send = a.last_send
  <2>1. IsAccount(a)
    BY DEF Sound, Typed
  <2> QED
    BY <2>1 DEF IsAccount, Fields
<1> HIDE DEF b
<1>2. Open(b) = Open(a)
  BY <1>1 DEF Open
<1>3. Typed(b)
  BY <1>1, <1>2 DEF Sound, Typed
<1>4. Knows(b)
  <2>1. ASSUME NEW oid \in Open(b), b.orders[oid].cancel_at = None
        PROVE  b.working[b.orders[oid].side] = oid
    <3>1. a.working[a.orders[oid].side] = oid /\ a.orders[oid].side \in Sides
      BY <1>1, <1>2, <2>1 DEF Sound, Typed, Knows, Orders
    <3>2. oid # a.working[side]
      BY <1>2 DEF Sound, Typed
    <3> QED
      BY <1>1, <3>1, <3>2 DEF Sound, Typed
  <2>2. ASSUME NEW s \in Sides, b.working[s] # None
        PROVE  b.working[s] = a.working[s]
    BY <1>1, <2>2 DEF Sound, Typed
  <2> QED
    BY <1>1, <1>2, <2>1, <2>2 DEF Sound, Knows
<1>5. Withdrawn(b)
  BY <1>1, <1>2 DEF Sound, Withdrawn
<1>6. Same(a, b) /\ Idle(a, b) /\ \A ts : Later(a, b, ts)
  BY <1>1, <1>2 DEF Same, Later, Idle
<1> QED
  BY <1>1, <1>3, <1>4, <1>5, <1>6 DEF b, Sound

(* With its quote cancelled a side has no order left that is not.           *)
LEMMA NoneLeft ==
  ASSUME NEW a, Sound(a), NEW side \in Sides, NEW ts \in Nat
  PROVE  LET b == CancelSet(a, {a.working[side]}, ts) IN
         \A oid \in Open(b) : b.orders[oid].side = side => b.orders[oid].cancel_at # None
<1> DEFINE cur == a.working[side]
           b == CancelSet(a, {cur}, ts)
<1>1. ASSUME NEW oid \in Open(b), b.orders[oid].side = side
      PROVE  b.orders[oid].cancel_at # None
  <2>1. oid \in Open(a) /\ oid \in DOMAIN a.orders /\ oid \in Nat
    BY CancelSetSound DEF Open, Sound, Typed
  <2> DEFINE oids == {cur}
  <2>c. /\ oid \in oids => b.orders[oid].cancel_at # None
        /\ oid \notin oids => b.orders[oid] = a.orders[oid]
    <3> HIDE DEF oids, b
    <3>1. b = CancelSet(a, oids, ts)
      BY DEF oids, b
    <3> QED
      BY <2>1, <3>1, CancelSetSound
  <2>2. CASE oid = cur
    BY <2>2, <2>c
  <2>3. CASE oid # cur
    <3>1. b.orders[oid] = a.orders[oid]
      BY <2>3, <2>c
    <3> QED
      BY <1>1, <2>1, <2>3, <3>1 DEF Sound, Knows
  <2> QED
    BY <2>2, <2>3
<1> QED
  BY <1>1

(* Replacing the quote of a side.                                           *)
LEMMA ReplacesSound ==
  ASSUME NEW a, Sound(a), a.halted = FALSE, NEW side \in Sides, NEW quote \in Quotes,
         NEW ts \in Nat
  PROVE  /\ Sound(Replaces(a, a.working[side], side, quote, ts))
         /\ Queue(a, ts) => Queue(Replaces(a, a.working[side], side, quote, ts), ts)
         /\ Same(a, Replaces(a, a.working[side], side, quote, ts))
         /\ Replaces(a, a.working[side], side, quote, ts).halted = FALSE
<1> DEFINE cur == a.working[side]
           b == CancelSet(a, {cur}, ts)
<1>1. Sound(b) /\ Same(a, b) /\ b.halted = FALSE /\ (Queue(a, ts) => Queue(b, ts))
  BY CancelSetSound, CancelSetSame, LaterQueue
<1>2. \A oid \in Open(b) : b.orders[oid].side = side => b.orders[oid].cancel_at # None
  BY NoneLeft
<1> HIDE DEF b
<1>3. /\ Sound(SendOrder(b, side, quote, ts))
      /\ Queue(b, ts) => Queue(SendOrder(b, side, quote, ts), ts)
      /\ Same(b, SendOrder(b, side, quote, ts))
      /\ SendOrder(b, side, quote, ts).halted = FALSE
  BY <1>1, <1>2, SendSound
<1> QED
  BY <1>1, <1>3, SameIsTransitive DEF b, Replaces

LEMMA SameIsReflexive ==
  ASSUME NEW a
  PROVE  Same(a, a)
BY DEF Same

LEMMA ManageSound ==
  ASSUME NEW a0, Sound(a0), a0.halted = FALSE, NEW side \in Sides,
         NEW quote \in Quotes \cup {None}, NEW ts \in Nat
  PROVE  /\ Sound(Manage(a0, side, quote, ts))
         /\ Queue(a0, ts) => Queue(Manage(a0, side, quote, ts), ts)
         /\ Same(a0, Manage(a0, side, quote, ts))
         /\ Manage(a0, side, quote, ts).halted = FALSE
<1> DEFINE filled == a0.working[side] # None /\ a0.orders[a0.working[side]].remaining = 0
           a == IF filled THEN [a0 EXCEPT !.working[side] = None] ELSE a0
           cur == a.working[side]
           near == cur # None /\ Near(a.orders[cur].price, quote.price)
                     /\ a.orders[cur].qty = quote.qty
           Good(b) == /\ Sound(b) /\ Same(a0, b) /\ b.halted = FALSE
                      /\ Queue(a0, ts) => Queue(b, ts)
<1>1. Good(a)
  <2>1. CASE filled
    BY <2>1, ForgetSound, LaterQueue
  <2>2. CASE ~filled
    BY <2>2, SameIsReflexive
  <2> QED
    BY <2>1, <2>2
<1> HIDE DEF a
<1>2. Good(CancelSet(a, {cur}, ts))
  BY <1>1, CancelSetSound, CancelSetSame, SameIsTransitive, LaterQueue
<1>3. quote # None => Good(Replaces(a, cur, side, quote, ts))
  BY <1>1, ReplacesSound, SameIsTransitive
<1>4. Manage(a0, side, quote, ts) =
        CASE quote = None -> CancelSet(a, {cur}, ts)
          [] quote # None /\ near -> a
          [] OTHER -> IF TooSoon(a, side, ts) THEN a ELSE Replaces(a, cur, side, quote, ts)
  BY DEF Manage, a
<1> HIDE DEF Good, near, cur
<1>5. Good(Manage(a0, side, quote, ts))
  BY <1>1, <1>2, <1>3, <1>4
<1> QED
  BY <1>5 DEF Good

LEMMA DecideSound ==
  ASSUME NEW a, Sound(a), NEW t, NEW quotes \in QuotePairs(t), NEW ts \in Nat
  PROVE  /\ Sound(Decide(a, quotes, ts)) /\ Same(a, Decide(a, quotes, ts))
         /\ Queue(a, ts) => Queue(Decide(a, quotes, ts), ts)
<1> DEFINE bid == IF quotes.bid # None /\ a.position + quotes.bid.qty > MaxPosition
                  THEN None ELSE quotes.bid
           ask == IF quotes.ask # None /\ a.position - quotes.ask.qty < -MaxPosition
                  THEN None ELSE quotes.ask
           b == Manage(a, "bid", bid, ts)
<1>1. bid \in Quotes \cup {None} /\ ask \in Quotes \cup {None}
  BY DEF QuotePairs
<1>2. CASE a.halted
  BY <1>2, SameIsReflexive DEF Decide
<1>3. CASE ~a.halted
  <2>1. a.halted = FALSE
    BY <1>3 DEF Sound, Typed
  <2>2. "bid" \in Sides /\ "ask" \in Sides
    BY DEF Sides
  <2>3. Decide(a, quotes, ts) = Manage(b, "ask", ask, ts)
    BY <1>3 DEF Decide
  <2> HIDE DEF bid, ask
  <2>4. Sound(b) /\ Same(a, b) /\ b.halted = FALSE /\ (Queue(a, ts) => Queue(b, ts))
    BY <1>1, <2>1, <2>2, ManageSound
  <2> HIDE DEF b
  <2>5. /\ Sound(Manage(b, "ask", ask, ts)) /\ Same(b, Manage(b, "ask", ask, ts))
        /\ Queue(b, ts) => Queue(Manage(b, "ask", ask, ts), ts)
    BY <1>1, <2>2, <2>4, ManageSound
  <2> QED
    BY <2>3, <2>4, <2>5, SameIsTransitive
<1> QED
  BY <1>2, <1>3

(* The limit is checked when an order is sent, and nothing else in deciding *)
(* can raise the exposure.                                                  *)
LEMMA ReplacesSafe ==
  ASSUME NEW a, Sound(a), a.halted = FALSE, NEW side \in Sides, NEW quote \in Quotes,
         NEW ts \in Nat, Queue(a, ts), Safe(a, ts), ~TooSoon(a, side, ts), Within(a, side, quote)
  PROVE  /\ Safe(Replaces(a, a.working[side], side, quote, ts), ts)
         /\ Replaces(a, a.working[side], side, quote, ts).position = a.position
<1>1. PICK b : b = CancelSet(a, {a.working[side]}, ts)
  OBVIOUS
<1>2. Sound(b) /\ b.halted = FALSE /\ Queue(b, ts) /\ Later(a, b, ts) /\ Idle(a, b)
  BY <1>1, CancelSetSound, LaterQueue
<1>3. \A oid \in Open(b) : b.orders[oid].side = side => b.orders[oid].cancel_at # None
  BY <1>1, NoneLeft
<1>4. Safe(b, ts)
  BY <1>2, IdleSafe
<1>5. ~TooSoon(b, side, ts) /\ Within(b, side, quote) /\ b.position = a.position
  BY <1>2 DEF TooSoon, Within, Idle
<1>6. Safe(SendOrder(b, side, quote, ts), ts) /\ SendOrder(b, side, quote, ts).position = b.position
  BY <1>2, <1>3, <1>4, <1>5, SendSafe
<1> QED
  BY <1>1, <1>5, <1>6 DEF Replaces

LEMMA ManageSafe ==
  ASSUME NEW a0, Sound(a0), a0.halted = FALSE, NEW side \in Sides,
         NEW quote \in Quotes \cup {None}, NEW ts \in Nat, Queue(a0, ts), Safe(a0, ts),
         quote # None => Within(a0, side, quote)
  PROVE  /\ Safe(Manage(a0, side, quote, ts), ts)
         /\ Manage(a0, side, quote, ts).position = a0.position
<1> DEFINE filled == a0.working[side] # None /\ a0.orders[a0.working[side]].remaining = 0
           a == IF filled THEN [a0 EXCEPT !.working[side] = None] ELSE a0
           cur == a.working[side]
           near == cur # None /\ Near(a.orders[cur].price, quote.price)
                     /\ a.orders[cur].qty = quote.qty
           Good(b) == Safe(b, ts) /\ b.position = a0.position
<1>1. Sound(a) /\ a.halted = FALSE /\ Queue(a, ts) /\ Good(a)
  <2>1. CASE filled
    <3>1. PICK b : b = [a0 EXCEPT !.working[side] = None]
      OBVIOUS
    <3>2. /\ Sound(b) /\ b.halted = FALSE /\ Later(a0, b, ts) /\ Idle(a0, b)
      BY <2>1, <3>1, ForgetSound
    <3>3. Queue(b, ts) /\ Safe(b, ts)
      BY <3>2, LaterQueue, IdleSafe
    <3> QED
      BY <2>1, <3>1, <3>2, <3>3 DEF Idle
  <2>2. CASE ~filled
    BY <2>2
  <2> QED
    BY <2>1, <2>2
<1>4. Manage(a0, side, quote, ts) =
        CASE quote = None -> CancelSet(a, {cur}, ts)
          [] quote # None /\ near -> a
          [] OTHER -> IF TooSoon(a, side, ts) THEN a ELSE Replaces(a, cur, side, quote, ts)
  BY DEF Manage, a
<1> HIDE DEF a
<1>2. Good(CancelSet(a, {cur}, ts))
  <2>1. PICK b : b = CancelSet(a, {cur}, ts)
    OBVIOUS
  <2>2. Sound(b) /\ Later(a, b, ts) /\ Idle(a, b)
    BY <1>1, <2>1, CancelSetSound
  <2>3. Safe(b, ts)
    BY <1>1, <2>2, IdleSafe
  <2> QED
    BY <1>1, <2>1, <2>2, <2>3 DEF Idle
<1>3. quote # None /\ ~TooSoon(a, side, ts) => Good(Replaces(a, cur, side, quote, ts))
  <2>1. quote # None => Within(a, side, quote)
    BY <1>1 DEF Within
  <2> QED
    BY <1>1, <2>1, ReplacesSafe
<1> HIDE DEF Good, near, cur
<1>5. Good(Manage(a0, side, quote, ts))
  BY <1>1, <1>2, <1>3, <1>4
<1> QED
  BY <1>5 DEF Good

LEMMA DecideSafe ==
  ASSUME NEW a, Sound(a), NEW t, NEW quotes \in QuotePairs(t), NEW ts \in Nat,
         Queue(a, ts), Safe(a, ts)
  PROVE  Safe(Decide(a, quotes, ts), ts)
<1> DEFINE bid == IF quotes.bid # None /\ a.position + quotes.bid.qty > MaxPosition
                  THEN None ELSE quotes.bid
           ask == IF quotes.ask # None /\ a.position - quotes.ask.qty < -MaxPosition
                  THEN None ELSE quotes.ask
           b == Manage(a, "bid", bid, ts)
<1>1. /\ quotes.bid \in Quotes \cup {None} /\ quotes.ask \in Quotes \cup {None}
      /\ bid \in Quotes \cup {None} /\ ask \in Quotes \cup {None}
  BY DEF QuotePairs
<1>2. CASE a.halted
  BY <1>2 DEF Decide
<1>3. CASE ~a.halted
  <2>1. a.halted = FALSE
    BY <1>3 DEF Sound, Typed
  <2>2. "bid" \in Sides /\ "ask" \in Sides
    BY DEF Sides
  <2>3. Decide(a, quotes, ts) = Manage(b, "ask", ask, ts)
    BY <1>3 DEF Decide
  <2>4. a.position \in Int /\ MaxPosition \in Nat
    BY LimitFacts DEF Safe, Ledger
  <2>5. bid # None => Within(a, "bid", bid)
    <3>1. bid # None => bid \in Quotes /\ ~(a.position + bid.qty > MaxPosition)
      BY <1>1
    <3> HIDE DEF bid
    <3>2. bid # None => bid.qty \in Nat
      BY <3>1, Constants
    <3> QED
      BY <2>4, <3>1, <3>2 DEF Within, Signed
  <2>6. ask # None => Within(a, "ask", ask)
    <3>1. ask # None => ask \in Quotes /\ ~(a.position - ask.qty < -MaxPosition)
      BY <1>1
    <3> HIDE DEF ask
    <3>2. ask # None => ask.qty \in Nat
      BY <3>1, Constants
    <3> QED
      BY <2>4, <3>1, <3>2 DEF Within, Signed
  <2> HIDE DEF bid, ask
  <2>7. Sound(b) /\ b.halted = FALSE /\ Queue(b, ts)
    BY <1>1, <2>1, <2>2, ManageSound
  <2>8. Safe(b, ts) /\ b.position = a.position
    BY <1>1, <2>1, <2>2, <2>5, ManageSafe
  <2>9. ask # None => Within(b, "ask", ask)
    BY <2>6, <2>8 DEF Within
  <2> HIDE DEF b
  <2>10. Safe(Manage(b, "ask", ask, ts), ts)
    BY <1>1, <2>2, <2>7, <2>8, <2>9, ManageSafe
  <2> QED
    BY <2>3, <2>10
<1> QED
  BY <1>2, <1>3

-----------------------------------------------------------------------------
(* Fills of live orders, none larger than what is left of its order.        *)
LEMMA ApplyFillsSound ==
  ASSUME NEW a, Sound(a), NEW filled, DOMAIN filled \subseteq a.live,
         \A oid \in DOMAIN filled :
           filled[oid] \in Nat /\ filled[oid] <= a.orders[oid].remaining,
         NEW ts \in Nat, Arrived(a, ts), AllInForce(a, ts), FillsOK(a, ts)
  PROVE  /\ Sound(ApplyFills(a, filled))
         /\ Arrived(ApplyFills(a, filled), ts)
         /\ FillsOK(ApplyFills(a, filled), ts)
         /\ ApplyFills(a, filled).live \subseteq a.live
         /\ \A oid \in ApplyFills(a, filled).live :
              /\ ApplyFills(a, filled).orders[oid].side = a.orders[oid].side
              /\ ApplyFills(a, filled).orders[oid].price = a.orders[oid].price
              /\ oid \in DOMAIN filled => filled[oid] # a.orders[oid].remaining
         /\ Later(a, ApplyFills(a, filled), ts)
<1> DEFINE b == ApplyFills(a, filled)
           S == DOMAIN filled
           oids == {oid \in S : filled[oid] > 0}
           fill(oid) == [arrive_at |-> a.orders[oid].arrive_at,
                         cancel_at |-> a.orders[oid].cancel_at]
           left == [oid \in DOMAIN a.orders |->
                      IF oid \in oids
                      THEN [a.orders[oid] EXCEPT !.remaining = @ - filled[oid]]
                      ELSE a.orders[oid]]
<1>1. /\ IsAccount(b)
      /\ b.orders = left
      /\ b.live = {oid \in a.live : left[oid].remaining > 0}
      /\ b.pending = a.pending /\ b.working = a.working
      /\ b.next_oid = a.next_oid /\ b.halted = a.halted
      /\ b.fills = a.fills \cup {fill(oid) : oid \in oids}
  <2>1. IsAccount(a)
    BY DEF Sound, Typed
  <2> QED
    BY <2>1 DEF ApplyFills, IsAccount, Fields
<1>2. /\ S \subseteq DOMAIN a.orders /\ a.live \subseteq DOMAIN a.orders
      /\ a.pending \subseteq DOMAIN a.orders
      /\ S \cap a.pending = {}
  BY DEF Sound, Typed, Open
<1>3. ASSUME NEW oid \in DOMAIN a.orders
      PROVE  /\ left[oid] \in Orders
             /\ left[oid].side = a.orders[oid].side
             /\ left[oid].price = a.orders[oid].price
             /\ left[oid].arrive_at = a.orders[oid].arrive_at
             /\ left[oid].cancel_at = a.orders[oid].cancel_at
             /\ left[oid].remaining = IF oid \in S THEN a.orders[oid].remaining - filled[oid]
                                      ELSE a.orders[oid].remaining
             /\ left[oid].remaining \in Nat
  <2>1. a.orders[oid] \in Orders
    BY DEF Sound, Typed
  <2>2. CASE oid \in oids
    <3>1. filled[oid] \in Nat /\ filled[oid] <= a.orders[oid].remaining
      BY <2>2
    <3>2. left[oid] = [a.orders[oid] EXCEPT !.remaining = @ - filled[oid]]
      BY <2>2
    <3> HIDE DEF left, oids
    <3>3. left[oid] \in Orders /\ left[oid].remaining = a.orders[oid].remaining - filled[oid]
          /\ left[oid].side = a.orders[oid].side
          /\ left[oid].price = a.orders[oid].price
          /\ left[oid].arrive_at = a.orders[oid].arrive_at
          /\ left[oid].cancel_at = a.orders[oid].cancel_at
      BY <2>1, <3>1, <3>2, OrderFilled
    <3> QED
      BY <2>2, <3>3 DEF Orders, oids
  <2>3. CASE oid \notin oids
    <3>1. left[oid] = a.orders[oid] /\ a.orders[oid].remaining \in Nat
      BY <2>1, <2>3 DEF Orders
    <3>2. oid \in S => filled[oid] = 0
      BY <2>3
    <3> HIDE DEF left, oids
    <3> QED
      BY <2>1, <3>1, <3>2
  <2> QED
    BY <2>2, <2>3
<1>4. \A oid \in DOMAIN a.orders : oid \notin S => left[oid] = a.orders[oid]
  OBVIOUS
<1>5. left = [oid \in DOMAIN left |-> left[oid]] /\ DOMAIN left = DOMAIN a.orders
  OBVIOUS
<1>6. \A oid \in oids : oid \in S
  OBVIOUS
<1> HIDE DEF b, left, oids, fill
<1>7. Open(b) \subseteq Open(a)
  BY <1>1 DEF Open
<1>8. Typed(b)
  <2>1. \A oid \in Open(b) : b.orders[oid].remaining > 0
    <3>1. \A oid \in a.pending : b.orders[oid] = a.orders[oid]
      BY <1>1, <1>2, <1>4
    <3> QED
      BY <1>1, <3>1 DEF Sound, Typed, Open
  <2>2. \A oid \in DOMAIN b.orders : b.orders[oid] \in Orders
    BY <1>1, <1>3, <1>5
  <2>3. b.live \cap b.pending = {}
    BY <1>1 DEF Sound, Typed
  <2>4. b.working \in [Sides -> DOMAIN b.orders \cup {None}]
    BY <1>1, <1>5 DEF Sound, Typed
  <2> QED
    BY <1>1, <1>5, <1>7, <2>1, <2>2, <2>3, <2>4 DEF Sound, Typed
<1>9. Knows(b)
  <2>1. ASSUME NEW oid \in Open(b), b.orders[oid].cancel_at = None
        PROVE  b.working[b.orders[oid].side] = oid
    <3>1. oid \in Open(a) /\ oid \in DOMAIN a.orders
      BY <1>7 DEF Sound, Typed
    <3> QED
      BY <1>1, <1>3, <2>1, <3>1 DEF Sound, Knows
  <2>2. ASSUME NEW side \in Sides, b.working[side] # None
        PROVE  LET oid == b.working[side] IN
               /\ b.orders[oid].side = side
               /\ b.orders[oid].cancel_at = None
               /\ oid \in Open(b) \/ b.orders[oid].remaining = 0
    <3> DEFINE oid == b.working[side]
    <3>1. oid \in DOMAIN a.orders /\ oid = a.working[side]
      BY <1>1, <2>2 DEF Sound, Typed
    <3>2. /\ a.orders[oid].side = side
          /\ a.orders[oid].cancel_at = None
          /\ oid \in Open(a) \/ a.orders[oid].remaining = 0
      BY <2>2, <3>1 DEF Sound, Knows
    <3>3. CASE oid \in a.live
      BY <1>1, <1>3, <3>1, <3>2, <3>3 DEF Open
    <3>4. CASE oid \notin a.live
      <4>1. oid \notin S
        BY <3>4
      <4> QED
        BY <1>1, <1>4, <3>1, <3>2, <3>4, <4>1 DEF Open
    <3> QED
      BY <3>3, <3>4
  <2> QED
    BY <2>1, <2>2 DEF Knows
<1>10. Withdrawn(b)
  BY <1>1, <1>3, <1>7 DEF Sound, Typed, Withdrawn
<1>11. Arrived(b, ts)
  BY <1>1, <1>2, <1>3 DEF Arrived
<1>12. FillsOK(b, ts)
  <2>1. ASSUME NEW oid \in oids
        PROVE  Alive(fill(oid), ts)
    <3>1. oid \in a.live /\ oid \in DOMAIN a.orders
      BY <1>2, <1>6
    <3>2. a.orders[oid].cancel_at \in Nat \cup {None}
      BY <3>1 DEF Sound, Typed, Orders
    <3>3. a.orders[oid].arrive_at <= ts /\ InForce(a.orders[oid], ts)
      BY <3>1 DEF Arrived, AllInForce
    <3> QED
      BY <3>2, <3>3 DEF fill, Alive, InForce
  <2> QED
    BY <1>1, <2>1 DEF FillsOK
<1>13. \A oid \in b.live : oid \in S => filled[oid] # a.orders[oid].remaining
  <2> SUFFICES ASSUME NEW oid \in b.live, oid \in S, filled[oid] = a.orders[oid].remaining
               PROVE  FALSE
    OBVIOUS
  <2>1. left[oid].remaining > 0 /\ oid \in DOMAIN a.orders
    BY <1>1, <1>2
  <2>2. left[oid].remaining = a.orders[oid].remaining - filled[oid]
    BY <1>3, <2>1
  <2>3. filled[oid] \in Nat
    OBVIOUS
  <2> QED
    BY <2>1, <2>2, <2>3
<1>14. \A oid \in b.live : /\ b.orders[oid].side = a.orders[oid].side
                           /\ b.orders[oid].price = a.orders[oid].price
  BY <1>1, <1>2, <1>3
<1>15. Later(a, b, ts)
  BY <1>1, <1>3, <1>7 DEF Sound, Typed, Later
<1> QED
  BY <1>1, <1>8, <1>9, <1>10, <1>11, <1>12, <1>13, <1>14, <1>15 DEF b, Sound

(* The position changes by the sum of the fills, in whatever order.         *)
PositionAfter(a, filled, oids) ==
  FoldLeft(LAMBDA sum, oid : sum + Signed(a.orders[oid].side, filled[oid]), a.position,
           SetToSeq(oids))

LEMMA FillsAddUp ==
  ASSUME NEW a, NEW filled, NEW S, IsFiniteSet(S), NEW g \in [S -> Int], a.position \in Int,
         \A oid \in S : g[oid] = Signed(a.orders[oid].side, filled[oid])
  PROVE  PositionAfter(a, filled, S) = a.position + SetWeight(g, S)
<1> DEFINE p == a.position
<1>1. PICK s : s = SetToSeq(S)
  OBVIOUS
<1>2. s \in Seq(S) /\ Weight(g, s) = SetWeight(g, S)
  BY <1>1, SetInSequence, SetToSeqWeight
<1> DEFINE F(h) == [t \in SUBSET DOMAIN s |->
                      IF t = {} THEN p
                      ELSE h[t \ {Max(t)}]
                             + Signed(a.orders[s[Max(t)]].side, filled[s[Max(t)]])]
           f == CHOOSE h : h = F(h)
<1>3. PositionAfter(a, filled, S) = f[DOMAIN s]
  BY <1>1 DEF PositionAfter, FoldLeft, MapThenFoldSet
<1>4. \A t \in SUBSET DOMAIN s : t # {} =>
        g[s[Max(t)]] = Signed(a.orders[s[Max(t)]].side, filled[s[Max(t)]])
  BY <1>2, LastPlace
<1>5. \A h : h = F(h) <=> AddsUp(h, g, p, s)
  BY <1>4 DEF AddsUp
<1>6. Summed(g, s, S)
  BY <1>2 DEF Summed
<1>7. f = F(f)
  <2>1. PICK h : AddsUp(h, g, p, s)
    BY <1>6, SumExists
  <2>2. h = F(h)
    BY <1>5, <2>1
  <2> QED
    BY <2>2
<1>8. AddsUp(f, g, p, s)
  BY <1>5, <1>7
<1>9. f[DOMAIN s] = p + Weight(g, s)
  <2> HIDE DEF f
  <2> QED
    BY <1>6, <1>8, SumFrom
<1> QED
  BY <1>1, <1>2, <1>3, <1>9

(* A fill moves lots from what an order threatens into the position.        *)
LEMMA ApplyFillsSafe ==
  ASSUME NEW a, Sound(a), NEW filled, DOMAIN filled \subseteq a.live,
         \A oid \in DOMAIN filled :
           filled[oid] \in Nat /\ filled[oid] <= a.orders[oid].remaining,
         NEW ts \in Nat, Arrived(a, ts), AllInForce(a, ts), FillsOK(a, ts), Safe(a, ts)
  PROVE  Safe(ApplyFills(a, filled), ts)
<1> DEFINE b == ApplyFills(a, filled)
           oids == {oid \in DOMAIN filled : filled[oid] > 0}
           left == [oid \in DOMAIN a.orders |->
                      IF oid \in oids
                      THEN [a.orders[oid] EXCEPT !.remaining = @ - filled[oid]]
                      ELSE a.orders[oid]]
           g == [oid \in oids |-> Signed(a.orders[oid].side, filled[oid])]
<1>1. /\ b.orders = left
      /\ b.live \subseteq a.live
      /\ b.pending = a.pending
      /\ b.position = PositionAfter(a, filled, oids)
      /\ b.traded = (a.traded \/ oids # {})
      /\ b.last_send = a.last_send
  <2>1. IsAccount(a)
    BY DEF Sound, Typed
  <2> QED
    BY <2>1 DEF ApplyFills, PositionAfter, IsAccount, Fields
<1>2. Sound(b) /\ Later(a, b, ts)
  BY ApplyFillsSound
<1>3. /\ oids \subseteq a.live /\ oids \subseteq Open(a) /\ Open(a) \subseteq DOMAIN a.orders
      /\ \A oid \in DOMAIN a.orders : a.orders[oid] \in Orders
      /\ IsFiniteSet(oids)
  <2>1. /\ oids \subseteq a.live /\ oids \subseteq Open(a) /\ Open(a) \subseteq DOMAIN a.orders
        /\ \A oid \in DOMAIN a.orders : a.orders[oid] \in Orders
    BY DEF Sound, Typed, Open
  <2>2. oids \subseteq Nat /\ a.next_oid \in Nat /\ \A oid \in oids : oid <= a.next_oid
    BY <2>1 DEF Sound, Typed
  <2> HIDE DEF oids
  <2> QED
    BY <2>1, <2>2, FS_BoundedSetOfNaturals
<1>4. ASSUME NEW oid \in DOMAIN a.orders
      PROVE  /\ left[oid].side = a.orders[oid].side
             /\ left[oid].cancel_at = a.orders[oid].cancel_at
             /\ left[oid].remaining = IF oid \in oids THEN a.orders[oid].remaining - filled[oid]
                                      ELSE a.orders[oid].remaining
             /\ a.orders[oid].remaining \in Nat
             /\ oid \in oids => filled[oid] \in Nat /\ filled[oid] <= a.orders[oid].remaining
  <2>1. a.orders[oid] \in Orders
    BY <1>3
  <2>2. oid \in oids => filled[oid] \in Nat /\ filled[oid] <= a.orders[oid].remaining
    OBVIOUS
  <2>3. left[oid] = IF oid \in oids THEN [a.orders[oid] EXCEPT !.remaining = @ - filled[oid]]
                    ELSE a.orders[oid]
    OBVIOUS
  <2> HIDE DEF left, oids
  <2>4. CASE oid \in oids
    BY <2>1, <2>2, <2>3, <2>4, OrderFilled DEF Orders
  <2>5. CASE oid \notin oids
    BY <2>1, <2>3, <2>5 DEF Orders
  <2> QED
    BY <2>4, <2>5
<1>5. g \in [oids -> Int] /\ \A oid \in oids : g[oid] = Signed(a.orders[oid].side, filled[oid])
  <2>1. \A oid \in oids : Signed(a.orders[oid].side, filled[oid]) \in Int
    BY DEF Signed
  <2> QED
    BY <2>1
<1>6. a.position \in Int
  BY DEF Safe, Ledger
<1> DEFINE G == SetWeight(g, oids)
<1>7. b.position = a.position + G
  <2> HIDE DEF b, oids, g
  <2>1. PositionAfter(a, filled, oids) = a.position + SetWeight(g, oids)
    BY <1>3, <1>5, <1>6, FillsAddUp
  <2> QED
    BY <1>1, <2>1
<1>8. Weighs(g, oids) /\ G \in Int
  <2>1. Weighs(g, oids)
    BY <1>3, <1>5 DEF Weighs
  <2> HIDE DEF g, oids
  <2> QED
    BY <2>1, SetWeightType
<1> HIDE DEF b, left, g
<1>9. \A oid \in oids : oid \in DOMAIN filled
  OBVIOUS
<1> HIDE DEF oids
<1>10. Ledger(b)
  <2>1. b.traded \in BOOLEAN
    <3>1. a.traded \in BOOLEAN
      BY DEF Safe, Ledger
    <3> QED
      BY <1>1, <3>1, Zenon
  <2>2. b.position \in Int
    BY <1>6, <1>7, <1>8
  <2> QED
    BY <1>1, <2>1, <2>2 DEF Safe, Ledger
<1>11. SUFFICES ASSUME MinRequote > 0
                PROVE  Paced(b, ts) /\ \E qty \in OrderQtys : Limited(b, ts, qty)
  BY <1>10 DEF Safe, b
<1>12. Paced(b, ts)
  <2>1. Paced(a, ts) /\ Ledger(a)
    BY <1>11 DEF Safe
  <2>2. b.last_send = a.last_send /\ ts <= ts
    BY <1>1
  <2> QED
    BY <1>2, <2>1, <2>2, PacedKept
<1>13. PICK qty \in OrderQtys : Limited(a, ts, qty)
  BY <1>11 DEF Safe
<1>14. qty \in Nat /\ Allowed(qty) \in Int
  BY <1>11, <1>13, AllowedGrows, LimitFacts
<1>15. \A oid \in DOMAIN a.orders :
         /\ b.orders[oid].remaining \in Nat
         /\ b.orders[oid].remaining <= a.orders[oid].remaining
  <2> TAKE oid \in DOMAIN a.orders
  <2>1. /\ b.orders[oid].remaining = IF oid \in oids THEN a.orders[oid].remaining - filled[oid]
                                     ELSE a.orders[oid].remaining
        /\ a.orders[oid].remaining \in Nat
        /\ oid \in oids => filled[oid] \in Nat /\ filled[oid] <= a.orders[oid].remaining
    BY <1>1, <1>4
  <2>2. CASE oid \in oids
    BY <2>1, <2>2
  <2>3. CASE oid \notin oids
    BY <2>1, <2>3
  <2> QED
    BY <2>2, <2>3
<1>16. Open(b) \subseteq Open(a)
  BY <1>2 DEF Later
<1>17. \A oid \in Open(b) : b.orders[oid].remaining <= qty
  <2>1. ASSUME NEW oid \in Open(b) PROVE b.orders[oid].remaining <= qty
    <3>1. oid \in DOMAIN a.orders /\ a.orders[oid].remaining <= qty /\ a.orders[oid].remaining \in Nat
      BY <1>3, <1>4, <1>13, <1>16 DEF Limited
    <3>2. b.orders[oid].remaining \in Nat /\ b.orders[oid].remaining <= a.orders[oid].remaining
      BY <1>15, <3>1
    <3> QED
      BY <1>14, <3>1, <3>2
  <2> QED
    BY <2>1
<1>18. ASSUME NEW s \in Sides
       PROVE  Exposure(b, s, ts) <= Allowed(qty)
  <2>1. PICK gs : gs = [oid \in oids |-> Signed(s, g[oid])]
    OBVIOUS
  <2>2. \A oid \in oids : g[oid] \in Int /\ gs[oid] = Signed(s, g[oid]) /\ gs[oid] \in Int
    BY <1>5, <2>1 DEF Signed
  <2>3. SetWeight(gs, oids) = Signed(s, G)
    <3>1. CASE s = "bid"
      <4>1. \A oid \in oids : gs[oid] = g[oid]
        BY <2>2, <3>1 DEF Signed
      <4>2. SetWeight(gs, oids) = SetWeight(g, oids)
        BY <1>8, <4>1, SetWeightSame
      <4> QED
        BY <3>1, <4>2 DEF Signed, G
    <3>2. CASE s # "bid"
      <4>1. \A oid \in oids : gs[oid] = -g[oid]
        BY <2>2, <3>2 DEF Signed
      <4>2. SetWeight(gs, oids) = -SetWeight(g, oids)
        BY <1>8, <4>1, SetWeightNegated
      <4> QED
        BY <3>2, <4>2 DEF Signed, G
    <3> QED
      BY <3>1, <3>2
  <2> DEFINE S == Threats(a, s, ts)
             U == Threats(b, s, ts)
             w == Remaining(a)
             v == Remaining(b)
  <2>4. /\ Weighs(w, S) /\ Weighs(v, U) /\ SetWeight(w, S) \in Int /\ SetWeight(v, U) \in Int
        /\ S \subseteq Open(a) /\ U \subseteq Open(b)
    BY <1>2, ThreatFacts
  <2>5. \A oid \in DOMAIN a.orders : w[oid] = a.orders[oid].remaining /\ v[oid] = b.orders[oid].remaining
    <3>1. DOMAIN b.orders = DOMAIN a.orders
      BY <1>1 DEF left
    <3> QED
      BY <3>1 DEF Remaining
  <2>6. Covered(gs, oids, v, U, w, S)
    <3>1. ASSUME NEW x \in oids \cup U \cup S
          PROVE  At(gs, oids, x) + At(v, U, x) <= At(w, S, x)
      <4>1. x \in Open(a) /\ x \in DOMAIN a.orders
        BY <1>3, <1>16, <2>4
      <4>2. /\ b.orders[x].side = a.orders[x].side
            /\ InForce(b.orders[x], ts) <=> InForce(a.orders[x], ts)
            /\ a.orders[x].side \in Sides
        BY <1>1, <1>3, <1>4, <4>1 DEF InForce, Orders
      <4>3. x \in S <=> a.orders[x].side = s /\ InForce(a.orders[x], ts)
        BY <4>1 DEF Threats
      <4>4. x \in U => x \in S
        BY <1>16, <4>2, <4>3 DEF Threats
      <4>5. w[x] \in Nat /\ v[x] \in Nat /\ v[x] <= w[x]
        BY <1>4, <1>15, <2>5, <4>1
      <4>6. CASE x \in oids
        <5>1. /\ v[x] = w[x] - filled[x] /\ filled[x] \in Nat /\ filled[x] <= w[x]
              /\ gs[x] = Signed(s, Signed(a.orders[x].side, filled[x]))
          BY <1>1, <1>4, <1>5, <2>2, <2>5, <4>1, <4>6
        <5>2. InForce(a.orders[x], ts)
          BY <1>3, <4>6 DEF AllInForce
        <5> HIDE DEF S, U, w, v
        <5>3. CASE a.orders[x].side = s
          <6>1. x \in S /\ gs[x] = filled[x]
            BY <4>2, <4>3, <5>1, <5>2, <5>3 DEF Signed
          <6> QED
            BY <4>5, <4>6, <5>1, <6>1 DEF At
        <5>4. CASE a.orders[x].side # s
          <6>1. x \notin S /\ x \notin U /\ gs[x] = -filled[x]
            BY <4>2, <4>3, <4>4, <5>1, <5>4 DEF Signed, Sides
          <6> QED
            BY <4>6, <5>1, <6>1 DEF At
        <5> QED
          BY <5>3, <5>4
      <4>7. CASE x \notin oids
        <5> HIDE DEF S, U, w, v
        <5> QED
          BY <4>4, <4>5, <4>7 DEF At
      <4> QED
        BY <4>6, <4>7
    <3>2. Weighs(gs, oids)
      BY <1>3, <2>2 DEF Weighs
    <3> HIDE DEF S, U, w, v
    <3> QED
      BY <2>4, <3>1, <3>2 DEF Covered
  <2> HIDE DEF S, U, w, v
  <2>7. SetWeight(gs, oids) + SetWeight(v, U) <= SetWeight(w, S)
    BY <2>6, SetWeightCovers
  <2>8. Signed(s, a.position) + SetWeight(w, S) <= Allowed(qty)
    BY <1>13 DEF Limited, Exposure, S, w
  <2>9. /\ Signed(s, b.position) = Signed(s, a.position) + Signed(s, G)
        /\ Signed(s, a.position) \in Int /\ Signed(s, G) \in Int /\ Signed(s, b.position) \in Int
    BY <1>6, <1>7, <1>8 DEF Signed
  <2> HIDE DEF G
  <2>10. Signed(s, b.position) + SetWeight(v, U) <= Allowed(qty)
    BY <1>14, <2>3, <2>4, <2>7, <2>8, <2>9
  <2> QED
    BY <2>10 DEF Exposure, U, v
<1> QED
  BY <1>12, <1>13, <1>17, <1>18 DEF Limited

-----------------------------------------------------------------------------
(* Orders that only move in their queues.                                   *)
Kept(o, p) ==
  /\ p \in Orders
  /\ p.side = o.side /\ p.price = o.price /\ p.remaining = o.remaining
  /\ p.arrive_at = o.arrive_at /\ p.cancel_at = o.cancel_at

LEMMA OrdersKept ==
  ASSUME NEW a, Sound(a), NEW orders,
         orders = [oid \in DOMAIN a.orders |-> orders[oid]],
         \A oid \in DOMAIN a.orders : Kept(a.orders[oid], orders[oid])
  PROVE  LET b == [a EXCEPT !.orders = orders] IN
         /\ Sound(b)
         /\ Same(a, b)
         /\ b.orders = orders
         /\ \A ts : AllInForce(a, ts) => AllInForce(b, ts)
         /\ \A ts : Later(a, b, ts)
         /\ Idle(a, b)
<1> DEFINE b == [a EXCEPT !.orders = orders]
<1>1. /\ IsAccount(b)
      /\ b.orders = orders /\ b.live = a.live /\ b.pending = a.pending
      /\ b.working = a.working /\ b.next_oid = a.next_oid /\ b.halted = a.halted
      /\ b.fills = a.fills
      /\ b.position = a.position /\ b.traded = a.traded /\ b.last_send = a.last_send
  <2>1. IsAccount(a)
    BY DEF Sound, Typed
  <2> QED
    BY <2>1 DEF IsAccount, Fields
<1> HIDE DEF b
<1>2. Open(b) = Open(a) /\ DOMAIN b.orders = DOMAIN a.orders
  BY <1>1 DEF Open
<1>3. Typed(b)
  <2>1. \A oid \in Open(b) : b.orders[oid].remaining > 0
    BY <1>1, <1>2 DEF Sound, Typed, Kept
  <2>2. \A oid \in DOMAIN b.orders : b.orders[oid] \in Orders
    BY <1>1, <1>2 DEF Kept
  <2> QED
    BY <1>1, <1>2, <2>1, <2>2 DEF Sound, Typed
<1>4. Knows(b)
  <2>1. \A side \in Sides : b.working[side] # None => b.working[side] \in DOMAIN a.orders
    BY <1>1 DEF Sound, Typed
  <2>2. \A oid \in Open(b) : oid \in DOMAIN a.orders
    BY <1>2 DEF Sound, Typed
  <2>3. ASSUME NEW oid \in Open(b), b.orders[oid].cancel_at = None
        PROVE  b.working[b.orders[oid].side] = oid
    BY <1>1, <1>2, <2>2, <2>3 DEF Sound, Knows, Kept
  <2>4. ASSUME NEW side \in Sides, b.working[side] # None
        PROVE  LET oid == b.working[side] IN
               /\ b.orders[oid].side = side
               /\ b.orders[oid].cancel_at = None
               /\ oid \in Open(b) \/ b.orders[oid].remaining = 0
    <3>1. Kept(a.orders[a.working[side]], b.orders[a.working[side]])
      BY <1>1, <2>1, <2>4
    <3> QED
      BY <1>1, <1>2, <2>4, <3>1 DEF Sound, Knows, Kept
  <2> QED
    BY <2>3, <2>4 DEF Knows
<1>5. Withdrawn(b)
  BY <1>1, <1>2 DEF Sound, Typed, Withdrawn, Kept
<1>6. a.live \subseteq DOMAIN a.orders
  BY DEF Sound, Typed, Open
<1>7. Same(a, b)
  BY <1>1, <1>6 DEF Same, Kept
<1>8. \A ts : AllInForce(a, ts) => AllInForce(b, ts)
  BY <1>1, <1>6 DEF AllInForce, InForce, Kept
<1>9. Idle(a, b) /\ \A ts : Later(a, b, ts)
  BY <1>1, <1>2 DEF Sound, Typed, Later, Kept, Idle
<1> QED
  BY <1>1, <1>3, <1>4, <1>5, <1>7, <1>8, <1>9 DEF b, Sound

LEMMA KeptItself ==
  ASSUME NEW o \in Orders
  PROVE  Kept(o, o)
BY DEF Kept

LEMMA FrontKept ==
  ASSUME NEW o \in Orders, NEW front \in Nat \cup {None}
  PROVE  Kept(o, [o EXCEPT !.front = front])
BY OrderKept DEF Kept

(* After a book event no live order is crossed by the market it showed.     *)
LEMMA BookFillsSound ==
  ASSUME NEW a, Sound(a), NEW t, NEW fronts \in Moves(a, t), NEW ts \in Nat,
         Arrived(a, ts), AllInForce(a, ts), FillsOK(a, ts)
  PROVE  /\ Sound(BookFills(a, t, fronts))
         /\ Arrived(BookFills(a, t, fronts), ts)
         /\ FillsOK(BookFills(a, t, fronts), ts)
         /\ Passive(BookFills(a, t, fronts), t)
         /\ Queue(a, ts) => Queue(BookFills(a, t, fronts), ts)
         /\ Alone(a) => Alone(BookFills(a, t, fronts))
         /\ Safe(a, ts) => Safe(BookFills(a, t, fronts), ts)
<1> DEFINE orders == [oid \in DOMAIN a.orders |->
                        IF oid \in DOMAIN fronts
                        THEN [a.orders[oid] EXCEPT !.front = fronts[oid]]
                        ELSE a.orders[oid]]
           m == [a EXCEPT !.orders = orders]
           S == Crossed(a, t)
           filled == [oid \in S |-> a.orders[oid].remaining]
           b == ApplyFills(m, filled)
<1>1. \A oid \in DOMAIN fronts : fronts[oid] \in Nat \cup {None}
  BY SimulatorAssumption DEF Moves, SimulatorAssumption
<1>2. ASSUME NEW oid \in DOMAIN a.orders
      PROVE  Kept(a.orders[oid], orders[oid])
  <2>1. a.orders[oid] \in Orders
    BY DEF Sound, Typed
  <2>2. CASE oid \in DOMAIN fronts
    <3>1. Kept(a.orders[oid], [a.orders[oid] EXCEPT !.front = fronts[oid]])
      BY <1>1, <2>1, <2>2, FrontKept
    <3> QED
      BY <2>2, <3>1
  <2>3. CASE oid \notin DOMAIN fronts
    BY <2>1, <2>3, KeptItself
  <2> QED
    BY <2>2, <2>3
<1>3. orders = [oid \in DOMAIN a.orders |-> orders[oid]]
  OBVIOUS
<1>4. S \subseteq a.live /\ a.live \subseteq DOMAIN a.orders
  BY DEF Crossed, Sound, Typed, Open
<1>5. BookFills(a, t, fronts) = b
  <2>1. IsAccount(a)
    BY DEF Sound, Typed
  <2> QED
    BY <2>1 DEF BookFills
<1> HIDE DEF orders
<1>6. /\ Sound(m) /\ Same(a, m) /\ m.orders = orders /\ AllInForce(m, ts)
      /\ Later(a, m, ts) /\ Idle(a, m)
  BY <1>2, <1>3, OrdersKept
<1> HIDE DEF m
<1>7. /\ S \subseteq m.live /\ DOMAIN filled = S
      /\ \A oid \in S : /\ filled[oid] = m.orders[oid].remaining
                        /\ filled[oid] \in Nat
                        /\ filled[oid] <= m.orders[oid].remaining
  <2>1. \A oid \in S : a.orders[oid].remaining \in Nat
    BY <1>4 DEF Sound, Typed, Orders
  <2>2. \A oid \in S : m.orders[oid].remaining = a.orders[oid].remaining
    BY <1>2, <1>4, <1>6 DEF Kept
  <2> QED
    BY <1>4, <1>6, <2>1, <2>2 DEF Same
<1>8. Arrived(m, ts) /\ FillsOK(m, ts) /\ (Alone(a) => Alone(m))
  BY <1>6, SameKeeps
<1> HIDE DEF filled, S
<1>9. /\ Sound(b) /\ Arrived(b, ts) /\ FillsOK(b, ts) /\ Later(m, b, ts)
      /\ b.live \subseteq m.live
      /\ \A oid \in b.live : /\ b.orders[oid].side = m.orders[oid].side
                             /\ b.orders[oid].price = m.orders[oid].price
                             /\ oid \in S => filled[oid] # m.orders[oid].remaining
  BY <1>6, <1>7, <1>8, ApplyFillsSound
<1>13. Safe(a, ts) => Safe(b, ts)
  <2>1. Safe(a, ts) => Safe(m, ts)
    BY <1>6, IdleSafe
  <2> QED
    BY <1>6, <1>7, <1>8, <2>1, ApplyFillsSafe
<1> HIDE DEF b
<1>10. ASSUME NEW oid \in b.live
       PROVE  ~Crosses(b.orders[oid], t)
  <2>1. oid \in a.live /\ oid \notin S
    BY <1>6, <1>7, <1>9 DEF Same
  <2>2. ~Crosses(a.orders[oid], t)
    BY <2>1 DEF S, Crossed
  <2>3. /\ b.orders[oid].side = a.orders[oid].side
        /\ b.orders[oid].price = a.orders[oid].price
    BY <1>6, <1>9, <2>1 DEF Same
  <2> QED
    BY <2>2, <2>3 DEF Crosses
<1>11. Alone(a) => Alone(b)
  BY <1>8, <1>9 DEF Alone
<1>12. Queue(a, ts) => Queue(b, ts)
  BY <1>6, <1>9, LaterQueue
<1> QED
  BY <1>5, <1>9, <1>10, <1>11, <1>12, <1>13 DEF Passive

(* No order gets more of a trade than is left of it.                        *)
LEMMA ShareBounded ==
  ASSUME NEW o \in Orders, NEW price, NEW avail \in Nat
  PROVE  Share(o, price, avail) \in Nat /\ Share(o, price, avail) <= o.remaining
<1>1. o.remaining \in Nat /\ o.front \in Nat \cup {None}
  BY DEF Orders
<1> QED
  BY <1>1 DEF Share, Smaller, Monus

LEMMA TradeFillsSound ==
  ASSUME NEW a, Sound(a), NEW side, NEW price, NEW qty \in Nat, NEW t,
         NEW offer \in [Takers(a, side) -> 0 .. qty], NEW ts \in Nat,
         Arrived(a, ts), AllInForce(a, ts), FillsOK(a, ts), Passive(a, t)
  PROVE  /\ Sound(TradeFills(a, price, offer))
         /\ Arrived(TradeFills(a, price, offer), ts)
         /\ FillsOK(TradeFills(a, price, offer), ts)
         /\ Passive(TradeFills(a, price, offer), t)
         /\ Queue(a, ts) => Queue(TradeFills(a, price, offer), ts)
         /\ Alone(a) => Alone(TradeFills(a, price, offer))
         /\ Safe(a, ts) => Safe(TradeFills(a, price, offer), ts)
<1> DEFINE Queued(oid) == /\ oid \in DOMAIN offer /\ ~Optimistic
                          /\ a.orders[oid].price = price /\ a.orders[oid].front # None
           orders == [oid \in DOMAIN a.orders |->
                        IF Queued(oid)
                        THEN [a.orders[oid] EXCEPT !.front = Monus(@, offer[oid])]
                        ELSE a.orders[oid]]
           m == [a EXCEPT !.orders = orders]
           S == Takers(a, side)
           filled == [oid \in S |-> Share(a.orders[oid], price, offer[oid])]
           b == ApplyFills(m, filled)
<1>1. S \subseteq a.live /\ a.live \subseteq DOMAIN a.orders /\ DOMAIN offer = S
      /\ \A oid \in S : offer[oid] \in Nat
  BY DEF Takers, Sound, Typed, Open
<1>2. ASSUME NEW oid \in DOMAIN a.orders
      PROVE  Kept(a.orders[oid], orders[oid])
  <2>1. a.orders[oid] \in Orders
    BY DEF Sound, Typed
  <2>2. CASE Queued(oid)
    <3>1. offer[oid] \in Nat /\ a.orders[oid].front \in Nat
      BY <1>1, <2>1, <2>2 DEF Orders
    <3>2. Monus(a.orders[oid].front, offer[oid]) \in Nat
      BY <3>1 DEF Monus
    <3>3. orders[oid] = [a.orders[oid] EXCEPT !.front = Monus(a.orders[oid].front, offer[oid])]
      BY <2>2
    <3> HIDE DEF orders
    <3> QED
      BY <2>1, <3>2, <3>3, FrontKept
  <2>3. CASE ~Queued(oid)
    <3>1. orders[oid] = a.orders[oid]
      BY <2>3
    <3> QED
      BY <2>1, <3>1, KeptItself
  <2> QED
    BY <2>2, <2>3
<1>3. orders = [oid \in DOMAIN a.orders |-> orders[oid]]
  OBVIOUS
<1>4. TradeFills(a, price, offer) = b
  BY <1>1 DEF TradeFills
<1> HIDE DEF orders, Queued
<1>5. /\ Sound(m) /\ Same(a, m) /\ m.orders = orders /\ AllInForce(m, ts)
      /\ Later(a, m, ts) /\ Idle(a, m)
  BY <1>2, <1>3, OrdersKept
<1> HIDE DEF m
<1>6. /\ S \subseteq m.live /\ DOMAIN filled = S
      /\ \A oid \in S : filled[oid] \in Nat /\ filled[oid] <= m.orders[oid].remaining
  <2>1. ASSUME NEW oid \in S
        PROVE  filled[oid] \in Nat /\ filled[oid] <= m.orders[oid].remaining
    <3>1. a.orders[oid] \in Orders /\ offer[oid] \in Nat
      BY <1>1 DEF Sound, Typed
    <3>2. m.orders[oid].remaining = a.orders[oid].remaining
      BY <1>1, <1>2, <1>5 DEF Kept
    <3> QED
      BY <3>1, <3>2, ShareBounded
  <2> QED
    BY <1>1, <1>5, <2>1 DEF Same
<1>7. Arrived(m, ts) /\ FillsOK(m, ts) /\ Passive(m, t) /\ (Alone(a) => Alone(m))
  BY <1>5, SameKeeps
<1> HIDE DEF filled, S
<1>8. /\ Sound(b) /\ Arrived(b, ts) /\ FillsOK(b, ts) /\ Later(m, b, ts)
      /\ b.live \subseteq m.live
      /\ \A oid \in b.live : /\ b.orders[oid].side = m.orders[oid].side
                             /\ b.orders[oid].price = m.orders[oid].price
  BY <1>5, <1>6, <1>7, ApplyFillsSound
<1>12. Safe(a, ts) => Safe(b, ts)
  <2>1. Safe(a, ts) => Safe(m, ts)
    BY <1>5, IdleSafe
  <2> QED
    BY <1>5, <1>6, <1>7, <2>1, ApplyFillsSafe
<1> HIDE DEF b
<1>9. Passive(b, t)
  BY <1>7, <1>8 DEF Passive, Crosses
<1>10. Alone(a) => Alone(b)
  BY <1>7, <1>8 DEF Alone
<1>11. Queue(a, ts) => Queue(b, ts)
  BY <1>5, <1>8, LaterQueue
<1> QED
  BY <1>4, <1>8, <1>9, <1>10, <1>11, <1>12

-----------------------------------------------------------------------------
(* advance: an order leaves `pending' for the exchange, or for good.  The   *)
(* quote of a side is only forgotten when it is rejected.                   *)
LEMMA AdvanceSound ==
  ASSUME NEW a, Sound(a), NEW ts \in Nat, NEW then \in Nat, then <= ts,
         Arrived(a, then), NEW t \in Tops
  PROVE  /\ Sound(Advance(a, ts, t))
         /\ Arrived(Advance(a, ts, t), ts)
         /\ AllInForce(Advance(a, ts, t), ts)
         /\ Advance(a, ts, t).fills = a.fills
         /\ Passive(a, t) => Passive(Advance(a, ts, t), t)
         /\ Queue(a, ts) => Queue(Advance(a, ts, t), ts) /\ Alone(Advance(a, ts, t))
         /\ Later(a, Advance(a, ts, t), ts) /\ Idle(a, Advance(a, ts, t))
<1> DEFINE b == Advance(a, ts, t)
           arrived  == {oid \in a.pending : a.orders[oid].arrive_at <= ts}
           alive    == {oid \in arrived : a.orders[oid].cancel_at = None
                                            \/ a.orders[oid].cancel_at > a.orders[oid].arrive_at}
           rejected == {oid \in alive : Crosses(a.orders[oid], t)}
           joined   == alive \ rejected
           orders   == [oid \in DOMAIN a.orders |->
                          IF oid \in joined
                          THEN [a.orders[oid] EXCEPT !.front = FrontOnArrival(a.orders[oid], t)]
                          ELSE a.orders[oid]]
<1>1. /\ IsAccount(b)
      /\ b.orders = orders
      /\ b.pending = a.pending \ arrived
      /\ b.working = [side \in Sides |-> IF a.working[side] \in rejected THEN None
                                         ELSE a.working[side]]
      /\ b.live = {oid \in a.live \cup joined :
                     a.orders[oid].remaining > 0 /\ InForce(a.orders[oid], ts)}
      /\ b.next_oid = a.next_oid /\ b.halted = a.halted /\ b.fills = a.fills
      /\ b.position = a.position /\ b.traded = a.traded /\ b.last_send = a.last_send
  <2>1. IsAccount(a)
    BY DEF Sound, Typed
  <2> QED
    BY <2>1 DEF Advance, IsAccount, Fields
<1>2. /\ a.live \subseteq DOMAIN a.orders /\ a.pending \subseteq DOMAIN a.orders
      /\ a.live \cap a.pending = {}
      /\ joined \subseteq a.pending /\ rejected \subseteq a.pending
      /\ joined \subseteq arrived /\ rejected \subseteq arrived
      /\ joined \cap rejected = {}
  BY DEF Sound, Typed, Open
<1>3. ASSUME NEW oid \in DOMAIN a.orders
      PROVE  Kept(a.orders[oid], orders[oid])
  <2>1. a.orders[oid] \in Orders
    BY DEF Sound, Typed
  <2>2. CASE oid \in joined
    <3>2. FrontOnArrival(a.orders[oid], t) \in Nat \cup {None}
      BY SimulatorAssumption
         DEF FrontOnArrival, BestQty, Tops, SimulatorAssumption
    <3>3. orders[oid] = [a.orders[oid] EXCEPT !.front = FrontOnArrival(a.orders[oid], t)]
      BY <2>2
    <3> HIDE DEF orders, joined
    <3> QED
      BY <2>1, <3>2, <3>3, FrontKept
  <2>3. CASE oid \notin joined
    <3>1. orders[oid] = a.orders[oid]
      BY <2>3
    <3> QED
      BY <2>1, <3>1, KeptItself
  <2> QED
    BY <2>2, <2>3
<1>4. orders = [oid \in DOMAIN orders |-> orders[oid]] /\ DOMAIN orders = DOMAIN a.orders
  OBVIOUS
<1>5. \A oid \in joined : a.orders[oid].arrive_at <= ts /\ ~Crosses(a.orders[oid], t)
  OBVIOUS
<1>6. \A oid \in arrived : a.orders[oid].cancel_at = None =>
                             oid \in joined \/ oid \in rejected
  OBVIOUS
<1> HIDE DEF b, orders, joined, rejected, alive, arrived
<1>7. Open(b) \subseteq Open(a) /\ \A oid \in Open(b) : oid \notin rejected
  BY <1>1, <1>2 DEF Open
<1>8. Typed(b)
  <2>1. \A oid \in Open(b) : b.orders[oid].remaining > 0
    BY <1>1, <1>3, <1>7 DEF Sound, Typed, Kept
  <2>2. \A oid \in DOMAIN b.orders : b.orders[oid] \in Orders
    BY <1>1, <1>3, <1>4 DEF Kept
  <2>3. b.working \in [Sides -> DOMAIN b.orders \cup {None}]
    BY <1>1, <1>4 DEF Sound, Typed
  <2>4. b.live \cap b.pending = {}
    BY <1>1, <1>2
  <2> QED
    BY <1>1, <1>4, <1>7, <2>1, <2>2, <2>3, <2>4 DEF Sound, Typed
<1>9. Knows(b)
  <2>1. ASSUME NEW oid \in Open(b), b.orders[oid].cancel_at = None
        PROVE  b.working[b.orders[oid].side] = oid
    <3>1. oid \in Open(a) /\ oid \notin rejected /\ oid \in DOMAIN a.orders
      BY <1>7 DEF Sound, Typed
    <3>2. Kept(a.orders[oid], b.orders[oid])
      BY <1>1, <1>3, <3>1
    <3>3. a.working[b.orders[oid].side] = oid /\ b.orders[oid].side \in Sides
      BY <2>1, <3>1, <3>2 DEF Sound, Knows, Kept, Orders
    <3> QED
      BY <1>1, <3>1, <3>3
  <2>2. ASSUME NEW side \in Sides, b.working[side] # None
        PROVE  LET oid == b.working[side] IN
               /\ b.orders[oid].side = side
               /\ b.orders[oid].cancel_at = None
               /\ oid \in Open(b) \/ b.orders[oid].remaining = 0
    <3> DEFINE oid == b.working[side]
    <3>1. oid = a.working[side] /\ oid \notin rejected /\ oid \in DOMAIN a.orders
      BY <1>1, <2>2 DEF Sound, Typed
    <3>2. /\ a.orders[oid].side = side
          /\ a.orders[oid].cancel_at = None
          /\ oid \in Open(a) \/ a.orders[oid].remaining = 0
      BY <2>2, <3>1 DEF Sound, Knows
    <3>3. Kept(a.orders[oid], b.orders[oid])
      BY <1>1, <1>3, <3>1
    <3>4. ASSUME oid \in Open(a)
          PROVE  oid \in Open(b)
      <4>1. a.orders[oid].remaining > 0 /\ InForce(a.orders[oid], ts)
        BY <3>2, <3>4 DEF Sound, Typed, InForce
      <4>2. oid \in arrived => oid \in joined
        BY <1>6, <3>1, <3>2
      <4> HIDE DEF oid
      <4> QED
        BY <1>1, <3>4, <4>1, <4>2 DEF Open
    <3> QED
      BY <3>2, <3>3, <3>4 DEF Kept
  <2> QED
    BY <2>1, <2>2 DEF Knows
<1>10. Withdrawn(b)
  BY <1>1, <1>3, <1>7 DEF Sound, Typed, Withdrawn, Kept
<1>11. ASSUME NEW oid \in b.live
       PROVE  /\ b.orders[oid].arrive_at <= ts
              /\ InForce(b.orders[oid], ts)
              /\ Passive(a, t) => ~Crosses(b.orders[oid], t)
  <2>1. /\ oid \in a.live \/ oid \in joined
        /\ InForce(a.orders[oid], ts)
        /\ oid \in DOMAIN a.orders
    BY <1>1, <1>2
  <2>2. Kept(a.orders[oid], b.orders[oid])
    BY <1>1, <1>3, <2>1
  <2>3. a.orders[oid].arrive_at <= ts
    <3>1. a.orders[oid].arrive_at \in Nat
      BY <2>1 DEF Sound, Typed, Orders
    <3>2. oid \in a.live => a.orders[oid].arrive_at <= then
      BY DEF Arrived
    <3> QED
      BY <1>5, <2>1, <3>1, <3>2
  <2>4. Passive(a, t) => ~Crosses(a.orders[oid], t)
    BY <1>5, <2>1 DEF Passive
  <2> QED
    BY <2>1, <2>2, <2>3, <2>4 DEF Kept, InForce, Crosses
<1>12. Arrived(b, ts) /\ AllInForce(b, ts) /\ (Passive(a, t) => Passive(b, t))
  BY <1>11 DEF Arrived, AllInForce, Passive
<1>13. Later(a, b, ts) /\ Idle(a, b)
  BY <1>1, <1>3, <1>7 DEF Sound, Typed, Later, Kept, Idle
<1>14. ASSUME Queue(b, ts), NEW x \in b.live, NEW y \in b.live, x < y,
              b.orders[x].side = b.orders[y].side
       PROVE  FALSE
  <2>1. /\ b.orders[x].cancel_at # None
        /\ b.orders[x].cancel_at <= b.orders[y].arrive_at
    BY <1>14 DEF Queue, Relieved, Open
  <2>2. /\ b.orders[x].cancel_at \in Nat \cup {None} /\ b.orders[y].arrive_at \in Nat
    BY <1>8 DEF Typed, Open, Orders
  <2>3. b.orders[y].arrive_at <= ts /\ b.orders[x].cancel_at > ts
    BY <1>11, <2>1 DEF InForce
  <2> QED
    BY <2>1, <2>2, <2>3
<1>15. Queue(b, ts) => Alone(b)
  <2>1. \A x \in b.live : x \in Nat
    BY <1>8 DEF Typed, Open
  <2>2. \A x, y \in b.live : x = y \/ x < y \/ y < x
    BY <2>1
  <2> QED
    BY <1>14, <2>2 DEF Alone
<1> QED
  BY <1>1, <1>8, <1>9, <1>10, <1>12, <1>13, <1>15, LaterQueue DEF b, Sound

(* The kill switch cancels every order before it flattens.                  *)
LEMMA KillSound ==
  ASSUME NEW a, Sound(a), NEW ts \in Nat
  PROVE  Sound(Kill(a, ts)) /\ Same(a, Kill(a, ts)) /\ Later(a, Kill(a, ts), ts)
<1> DEFINE b == Kill(a, ts)
           c == CancelSet(a, Open(a), ts)
<1>1. IsAccount(a)
  BY DEF Sound, Typed
<1>2. /\ Sound(c)
      /\ c.live = a.live /\ c.pending = a.pending /\ c.fills = a.fills
      /\ DOMAIN c.orders = DOMAIN a.orders
      /\ \A oid \in DOMAIN a.orders : oid \in Open(a) => c.orders[oid].cancel_at # None
  BY CancelSetSound
<1>3. Same(a, c) /\ Later(a, c, ts)
  BY CancelSetSame, CancelSetSound
<1>4. /\ IsAccount(b)
      /\ b.orders = c.orders /\ b.live = c.live /\ b.pending = c.pending
      /\ b.working = c.working /\ b.next_oid = c.next_oid /\ b.fills = c.fills
      /\ b.halted = TRUE
  BY <1>1 DEF Kill, Liquidate, CancelAll, CancelSet, Open, IsAccount, Fields
<1> HIDE DEF b, c
<1>5. Open(b) = Open(c) /\ Open(c) = Open(a) /\ Open(a) \subseteq DOMAIN a.orders
  BY <1>2, <1>4 DEF Open, Sound, Typed
<1>6. Typed(b)
  BY <1>2, <1>4, <1>5 DEF Sound, Typed
<1>7. Knows(b)
  BY <1>2, <1>4, <1>5 DEF Sound, Knows
<1>8. Withdrawn(b)
  BY <1>2, <1>4, <1>5 DEF Withdrawn
<1>9. Same(a, b) /\ Later(a, b, ts)
  BY <1>3, <1>4, <1>5 DEF Same, Later
<1> QED
  BY <1>6, <1>7, <1>8, <1>9 DEF b, Sound

(* With the position gone, only the orders still out count: one at the      *)
(* exchange and those that a round trip holds.                              *)
LEMMA FlatSafe ==
  ASSUME NEW c, Sound(c), NEW b, Sound(b), NEW ts \in Nat, Queue(c, ts), Safe(c, ts),
         b.orders = c.orders, b.live = c.live, b.pending = c.pending,
         b.last_send = c.last_send, b.traded = c.traded, b.position = 0
  PROVE  Safe(b, ts)
<1>1. Ledger(b)
  BY DEF Safe, Ledger
<1>2. SUFFICES ASSUME MinRequote > 0
               PROVE  Paced(b, ts) /\ \E qty \in OrderQtys : Limited(b, ts, qty)
  BY <1>1 DEF Safe
<1>3. Open(b) = Open(c)
  BY DEF Open
<1>4. Paced(b, ts) /\ Relieved(b)
  BY <1>2, <1>3 DEF Safe, Paced, Queue, Relieved
<1>5. PICK qty \in OrderQtys : Limited(c, ts, qty)
  BY <1>2 DEF Safe
<1>6. \A oid \in Open(b) : b.orders[oid].remaining <= qty
  BY <1>3, <1>5 DEF Limited
<1>7. RoundTrip \in Nat /\ Late \in Nat
  BY <1>2, Constants, LimitFacts
<1>8. ASSUME NEW s \in Sides
      PROVE  Exposure(b, s, ts) <= Allowed(qty)
  <2>1. b.last_send[s] # None => b.last_send[s] + RoundTrip <= ts + RoundTrip
    <3>1. b.last_send[s] \in Nat \cup {None} /\ (b.last_send[s] # None => b.last_send[s] <= ts)
      BY <1>1, <1>4 DEF Ledger, Paced
    <3> QED
      BY <1>7, <3>1
  <2>2. Cardinality(Threats(b, s, ts)) <= Late + 1
    BY <1>1, <1>2, <1>4, <1>7, <2>1, ThreatsSpaced DEF Late
  <2>3. Late + 1 \in Nat
    BY <1>7
  <2>4. SetWeight(Remaining(b), Threats(b, s, ts)) <= qty * (Late + 1)
    BY <1>6, <2>2, <2>3, FewThreats
  <2>5. /\ Allowed(qty) \in Int /\ qty * (Late + 1) \in Int
        /\ qty * (Late + 1) <= Allowed(qty)
    BY <1>2, AllowedGrows, LimitFacts
  <2>6. SetWeight(Remaining(b), Threats(b, s, ts)) \in Int
    BY ThreatFacts
  <2>7. Signed(s, b.position) = 0
    BY <1>1, FlatSigned
  <2> DEFINE x == SetWeight(Remaining(b), Threats(b, s, ts))
             y == qty * (Late + 1)
  <2>8. x \in Int /\ y \in Int /\ x <= y /\ y <= Allowed(qty)
    BY <2>4, <2>5, <2>6
  <2> HIDE DEF x, y
  <2>9. Signed(s, b.position) + x <= Allowed(qty)
    BY <2>5, <2>7, <2>8
  <2> QED
    BY <2>9 DEF Exposure, x
<1> QED
  BY <1>4, <1>6, <1>8 DEF Limited

LEMMA KillSafe ==
  ASSUME NEW a, Sound(a), NEW ts \in Nat, Queue(a, ts), Safe(a, ts)
  PROVE  Safe(Kill(a, ts), ts)
<1>1. PICK c : c = CancelSet(a, Open(a), ts)
  OBVIOUS
<1>2. Sound(c) /\ Later(a, c, ts) /\ Idle(a, c)
  BY <1>1, CancelSetSound
<1>3. Queue(c, ts) /\ Safe(c, ts)
  BY <1>2, LaterQueue, IdleSafe
<1>4. PICK b : b = Kill(a, ts)
  OBVIOUS
<1>5. Sound(b)
  BY <1>4, KillSound
<1>6. /\ b.orders = c.orders /\ b.live = c.live /\ b.pending = c.pending
      /\ b.last_send = c.last_send /\ b.traded = c.traded /\ b.position = 0
  <2>1. IsAccount(a)
    BY DEF Sound, Typed
  <2> QED
    BY <1>1, <1>4, <2>1 DEF Kill, Liquidate, CancelAll, CancelSet, Open, IsAccount, Fields
<1>7. Safe(b, ts)
  BY <1>2, <1>3, <1>5, <1>6, FlatSafe
<1> QED
  BY <1>4, <1>7

(* Dropping the objects nothing refers to any more.                         *)
LEMMA InUseSound ==
  ASSUME NEW a, Sound(a)
  PROVE  /\ Sound(InUse(a)) /\ Same(a, InUse(a)) /\ \A ts : Later(a, InUse(a), ts)
         /\ Idle(a, InUse(a))
<1> DEFINE b == InUse(a)
           used == Open(a) \cup {a.working[side] : side \in Sides}
           kept == DOMAIN a.orders \cap used
<1>1. /\ IsAccount(b)
      /\ b.orders = [oid \in kept |-> a.orders[oid]]
      /\ b.live = a.live /\ b.pending = a.pending /\ b.working = a.working
      /\ b.next_oid = a.next_oid /\ b.halted = a.halted /\ b.fills = a.fills
      /\ b.position = a.position /\ b.traded = a.traded /\ b.last_send = a.last_send
  <2>1. IsAccount(a)
    BY DEF Sound, Typed
  <2> QED
    BY <2>1 DEF InUse, IsAccount, Fields
<1>2. /\ Open(a) \subseteq kept /\ kept \subseteq DOMAIN a.orders
      /\ \A side \in Sides : a.working[side] # None => a.working[side] \in kept
  BY DEF Sound, Typed
<1> HIDE DEF b, kept, used
<1>3. Open(b) = Open(a) /\ DOMAIN b.orders = kept
  BY <1>1 DEF Open
<1>4. Typed(b)
  <2>1. b.working \in [Sides -> kept \cup {None}]
    BY <1>1, <1>2 DEF Sound, Typed
  <2>2. \A oid \in kept : b.orders[oid] = a.orders[oid]
    BY <1>1
  <2>3. b.orders = [oid \in DOMAIN b.orders |-> b.orders[oid]]
    BY <1>1
  <2> QED
    BY <1>1, <1>2, <1>3, <2>1, <2>2, <2>3 DEF Sound, Typed
<1>5. Knows(b)
  BY <1>1, <1>2, <1>3 DEF Sound, Knows
<1>6. Withdrawn(b)
  BY <1>1, <1>2, <1>3 DEF Sound, Withdrawn
<1>7. Same(a, b) /\ Idle(a, b) /\ \A ts : Later(a, b, ts)
  BY <1>1, <1>2, <1>3 DEF Same, Later, Open, Idle
<1> QED
  BY <1>4, <1>5, <1>6, <1>7 DEF b, Sound

(* Every event starts with no fills.                                        *)
LEMMA FreshSound ==
  ASSUME NEW a, Sound(a)
  PROVE  LET b == [a EXCEPT !.fills = {}] IN
         /\ Sound(b)
         /\ b.live = a.live /\ b.orders = a.orders /\ b.fills = {}
         /\ Open(b) = Open(a) /\ Idle(a, b) /\ \A ts : Later(a, b, ts)
<1> DEFINE b == [a EXCEPT !.fills = {}]
<1>1. /\ IsAccount(b)
      /\ b.orders = a.orders /\ b.live = a.live /\ b.pending = a.pending
      /\ b.working = a.working /\ b.next_oid = a.next_oid /\ b.halted = a.halted
      /\ b.fills = {}
      /\ b.position = a.position /\ b.traded = a.traded /\ b.last_send = a.last_send
  <2>1. IsAccount(a)
    BY DEF Sound, Typed
  <2> QED
    BY <2>1 DEF IsAccount, Fields
<1> HIDE DEF b
<1>2. Open(b) = Open(a)
  BY <1>1 DEF Open
<1>3. Sound(b)
  BY <1>1, <1>2 DEF Sound, Typed, Knows, Withdrawn
<1>4. Idle(a, b) /\ \A ts : Later(a, b, ts)
  BY <1>1, <1>2 DEF Idle, Later
<1> QED
  BY <1>1, <1>2, <1>3, <1>4 DEF b

(* finish drops the orders that CancelAll has taken out of the quotes.      *)
LEMMA DropSound ==
  ASSUME NEW a, Sound(a), NEW ts \in Nat
  PROVE  LET b == [CancelAll(a, ts) EXCEPT !.live = {}, !.pending = {}] IN
         /\ Sound(b) /\ Open(b) = {} /\ b.fills = a.fills
         /\ Sound(Liquidate(b)) /\ Open(Liquidate(b)) = {} /\ Liquidate(b).fills = a.fills
         /\ Safe(a, ts) => Safe(b, ts) /\ Safe(Liquidate(b), ts)
<1> DEFINE c == CancelSet(a, Open(a), ts)
           d == [c EXCEPT !.live = {}, !.pending = {}]
           Dropped(b) == /\ IsAccount(b)
                         /\ b.orders = c.orders /\ b.live = {} /\ b.pending = {}
                         /\ b.working = c.working /\ b.next_oid = c.next_oid
                         /\ b.halted = c.halted /\ b.fills = c.fills
<1>1. /\ Sound(c) /\ c.fills = a.fills /\ Open(c) = Open(a)
      /\ \A oid \in Open(a) : oid \in DOMAIN a.orders
      /\ \A oid \in Open(a) : c.orders[oid].cancel_at # None
  <2>1. \A oid \in Open(a) : oid \in DOMAIN a.orders
    BY DEF Sound, Typed
  <2> QED
    BY <2>1, CancelSetSound DEF Open
<1> HIDE DEF c
<1>2. Dropped(d) /\ Dropped(Liquidate(d))
  <2>1. IsAccount(c)
    BY <1>1 DEF Sound, Typed
  <2> QED
    BY <2>1 DEF Liquidate, IsAccount, Fields
<1>3. ASSUME NEW b, Dropped(b)
      PROVE  Sound(b)
  <2>1. Open(b) = {}
    BY <1>3 DEF Open
  <2>2. Typed(b)
    BY <1>1, <1>3, <2>1 DEF Sound, Typed
  <2>3. \A side \in Sides : c.working[side] # None => c.working[side] \notin Open(c)
    BY <1>1 DEF Sound, Knows
  <2>4. Knows(b)
    BY <1>1, <1>3, <2>1, <2>3 DEF Sound, Knows
  <2> QED
    BY <2>1, <2>2, <2>4 DEF Sound, Withdrawn
<1>5. /\ d.position = a.position /\ d.traded = a.traded /\ d.last_send = a.last_send
      /\ Liquidate(d).position = 0 /\ Liquidate(d).traded = d.traded
      /\ Liquidate(d).last_send = d.last_send
  <2>1. IsAccount(c) /\ Idle(a, c)
    BY CancelSetSound DEF c, Sound, Typed
  <2> QED
    BY <2>1 DEF Liquidate, IsAccount, Fields, Idle
<1> HIDE DEF Dropped, d
<1>4. Sound(d) /\ Sound(Liquidate(d))
  BY <1>2, <1>3
<1>6. /\ Open(d) = {} /\ Open(Liquidate(d)) = {}
      /\ Liquidate(d).orders = d.orders /\ Liquidate(d).live = d.live
      /\ Liquidate(d).pending = d.pending
  BY <1>2 DEF Dropped, Open
<1>7. ASSUME Safe(a, ts)
      PROVE  Safe(d, ts) /\ Safe(Liquidate(d), ts)
  <2>1. Later(a, d, ts) /\ Idle(a, d) /\ Queue(d, ts)
    BY <1>5, <1>6 DEF Later, Idle, Queue, Relieved
  <2>2. Safe(d, ts)
    BY <1>4, <1>7, <2>1, IdleSafe
  <2> QED
    BY <1>4, <1>5, <1>6, <2>1, <2>2, FlatSafe
<1> QED
  BY <1>1, <1>2, <1>4, <1>7 DEF Dropped, Open, d, c, CancelAll

-----------------------------------------------------------------------------
(* The invariant holds initially and every handler keeps it.                *)
LEMMA Initially ==
  Init => IInv
<1> SUFFICES ASSUME Init
             PROVE  IInv
  OBVIOUS
<1> DEFINE a == NewAccount
<1>1. /\ IsAccount(a)
      /\ a.orders = <<>> /\ a.live = {} /\ a.pending = {} /\ a.fills = {}
      /\ a.working = [side \in Sides |-> None] /\ a.next_oid = 1 /\ a.halted = FALSE
  BY DEF NewAccount, IsAccount, Fields
<1>2. account = a /\ top = None /\ now = 0
  BY DEF Init
<1> HIDE DEF a
<1>3. DOMAIN a.orders = {} /\ a.orders = [oid \in DOMAIN a.orders |-> a.orders[oid]]
  BY <1>1
<1>4. Open(a) = {}
  BY <1>1 DEF Open
<1>5. Typed(a)
  <2>1. a.working \in [Sides -> DOMAIN a.orders \cup {None}]
    BY <1>1
  <2>2. a.next_oid \in Nat \ {0} /\ a.live \cap a.pending = {}
    BY <1>1
  <2>5. a.halted \in BOOLEAN
    BY <1>1, Zenon
  <2>3. Open(a) \subseteq DOMAIN a.orders
    BY <1>4
  <2>4. /\ \A oid \in DOMAIN a.orders : oid \in Nat /\ oid < a.next_oid
        /\ \A oid \in DOMAIN a.orders : a.orders[oid] \in Orders
        /\ \A oid \in Open(a) : a.orders[oid].remaining > 0
    BY <1>3, <1>4, Zenon
  <2> QED
    BY <1>1, <1>3, <2>1, <2>2, <2>3, <2>4, <2>5, Zenon DEF Typed
<1>6. /\ Knows(a) /\ Withdrawn(a) /\ Arrived(a, 0) /\ FillsOK(a, 0)
      /\ Queue(a, 0) /\ Alone(a)
  BY <1>1, <1>4 DEF Knows, Withdrawn, Arrived, FillsOK, Queue, Relieved, Alone
<1>7. /\ a.position = 0 /\ a.traded = FALSE
      /\ a.last_send = [side \in Sides |-> None]
  BY DEF a, NewAccount
<1>8. Ledger(a) /\ Paced(a, 0)
  <2>1. Ledger(a)
    <3>1. a.traded \in BOOLEAN
      BY <1>7, Zenon
    <3> QED
      BY <1>7, <3>1 DEF Ledger
  <2>2. \A side \in Sides : a.last_send[side] = None
    BY <1>7
  <2> QED
    BY <1>4, <2>1, <2>2 DEF Paced
<1>9. ASSUME MinRequote > 0
      PROVE  \E qty \in OrderQtys : Limited(a, 0, qty)
  <2>1. PICK qty \in OrderQtys : TRUE
    BY SimulatorAssumption DEF SimulatorAssumption
  <2>2. Allowed(qty) \in Int /\ 0 <= Allowed(qty)
    BY <1>9, AllowedGrows, LimitFacts
  <2>3. ASSUME NEW side \in Sides
        PROVE  Exposure(a, side, 0) = 0
    <3>1. Threats(a, side, 0) = {}
      BY <1>4 DEF Threats
    <3>2. SetWeight(Remaining(a), {}) = 0
      BY SetWeightEmpty
    <3>3. Signed(side, a.position) = 0
      BY <1>7, FlatSigned
    <3> QED
      BY <3>1, <3>2, <3>3 DEF Exposure
  <2> QED
    BY <1>4, <2>2, <2>3 DEF Limited
<1>10. Safe(a, 0)
  BY <1>8, <1>9 DEF Safe
<1>11. next_decision \in Nat /\ next_sample \in Nat \cup {None} /\ finished \in BOOLEAN
  BY DEF Init
<1> QED
  BY <1>1, <1>2, <1>5, <1>6, <1>10, <1>11 DEF IInv, Sound

(* The times of the next decision and of the next sample.                   *)
LEMMA TimesTyped ==
  ASSUME NEW ts \in Nat
  PROVE  ts + DecisionInterval \in Nat /\ SampleAfter(ts) \in Nat
<1>1. DecisionInterval \in Nat /\ SampleInterval \in Nat \ {0}
  BY SimulatorAssumption DEF SimulatorAssumption
<1>2. ts - (ts % SampleInterval) \in Nat
  <2>1. ts % SampleInterval \in Nat /\ ts % SampleInterval <= ts
    BY <1>1, ModBelow
  <2> QED
    BY <2>1
<1>3. SampleAfter(ts) \in Nat
  BY <1>1, <1>2 DEF SampleAfter
<1> QED
  BY <1>1, <1>3

(* The invariant of the account that a step ends with.                      *)
LEMMA KeptInv ==
  ASSUME NEW a, NEW ts \in Nat, NEW t \in Tops \cup {None},
         account' = a, now' = ts, top' = t,
         Sound(a), Arrived(a, ts), FillsOK(a, ts), Queue(a, ts), Alone(a), Safe(a, ts),
         t = None => a.live = {}, t # None => Passive(a, t),
         next_decision' \in Nat, next_sample' \in Nat \cup {None}, finished' \in BOOLEAN
  PROVE  IInv'
<1>1. Sound(account)'
  BY SMTT(30) DEF Sound, Typed, Knows, Withdrawn, Open, IsAccount
<1>2. Arrived(account, now)' /\ FillsOK(account, now)'
  BY DEF Arrived, FillsOK, Alive
<1>3. Queue(account, now)' /\ Alone(account)'
  BY DEF Queue, Relieved, Open, Alone
<1>4. (top = None => account.live = {})' /\ (top # None => Passive(account, top))'
  BY DEF Passive, Crosses
<1>5. Safe(account, now)'
  BY DEF Safe
<1>6. now' \in Nat /\ top' \in Tops \cup {None}
  OBVIOUS
<1> QED
  BY <1>1, <1>2, <1>3, <1>4, <1>5, <1>6 DEF IInv

(* What the fresh account of an event has to offer to Advance.              *)
LEMMA ArrivedSound ==
  ASSUME IInv, NEW ts \in Nat, now <= ts, NEW t \in Tops
  PROVE  LET a == Advance([account EXCEPT !.fills = {}], ts, t) IN
         /\ Sound(a) /\ Arrived(a, ts) /\ AllInForce(a, ts) /\ FillsOK(a, ts)
         /\ Queue(a, ts) /\ Alone(a) /\ Safe(a, ts)
         /\ Passive(account, t) => Passive(a, t)
<1> DEFINE fresh == [account EXCEPT !.fills = {}]
<1>1. Sound(fresh) /\ fresh.live = account.live /\ fresh.orders = account.orders
      /\ fresh.fills = {} /\ Open(fresh) = Open(account)
      /\ Idle(account, fresh) /\ Later(account, fresh, ts)
  BY FreshSound DEF IInv
<1> HIDE DEF fresh
<1>7. Safe(fresh, ts)
  BY <1>1, IdleSafe DEF IInv
<1>6. Queue(fresh, ts)
  <2>1. ASSUME NEW oid \in Open(fresh), fresh.orders[oid].cancel_at # None
        PROVE  fresh.orders[oid].cancel_at <= ts + RoundTrip
    <3>1. fresh.orders[oid].cancel_at <= now + RoundTrip
      BY <1>1, <2>1 DEF IInv, Queue
    <3>2. fresh.orders[oid].cancel_at \in Nat
      BY <1>1, <2>1 DEF Sound, Typed, Orders
    <3> QED
      BY <3>1, <3>2, Constants DEF IInv
  <2> QED
    BY <1>1, <2>1 DEF IInv, Queue, Relieved
<1>2. now \in Nat /\ Arrived(fresh, now)
  BY <1>1 DEF IInv, Arrived
<1>3. Passive(account, t) => Passive(fresh, t)
  BY <1>1 DEF Passive
<1> DEFINE a == Advance(fresh, ts, t)
<1>4. /\ Sound(a) /\ Arrived(a, ts) /\ AllInForce(a, ts) /\ a.fills = fresh.fills
      /\ Passive(fresh, t) => Passive(a, t)
      /\ Queue(a, ts) /\ Alone(a)
      /\ Later(fresh, a, ts) /\ Idle(fresh, a)
  BY <1>1, <1>2, <1>6, AdvanceSound
<1>5. FillsOK(a, ts)
  BY <1>1, <1>4 DEF FillsOK
<1>8. Safe(a, ts)
  <2>1. ts <= ts
    OBVIOUS
  <2> HIDE DEF a
  <2> QED
    BY <1>1, <1>4, <1>7, <2>1, IdleSafe
<1> QED
  BY <1>3, <1>4, <1>5, <1>8 DEF fresh

LEMMA OnBookKeeps ==
  ASSUME IInv, NEW ts \in Nat, now <= ts, NEW t \in Tops, OnBook(ts, t)
  PROVE  IInv'
<1> DEFINE arrived == Advance([account EXCEPT !.fills = {}], ts, t)
           decides == ts >= next_decision
           Good(a) == /\ Sound(a) /\ Arrived(a, ts) /\ FillsOK(a, ts) /\ Passive(a, t)
                      /\ Queue(a, ts) /\ Alone(a) /\ Safe(a, ts)
<1>1. /\ Sound(arrived) /\ Arrived(arrived, ts) /\ AllInForce(arrived, ts)
      /\ FillsOK(arrived, ts) /\ Queue(arrived, ts) /\ Alone(arrived) /\ Safe(arrived, ts)
  BY ArrivedSound
<1>2. PICK fronts \in Moves(arrived, t), breach \in BOOLEAN, quotes \in QuotePairs(t) :
        LET filled == BookFills(arrived, t, fronts)
            marked == IF breach THEN Kill(filled, ts) ELSE filled
        IN account' = InUse(IF decides THEN Decide(marked, quotes, ts) ELSE marked)
  <2>1. NoQuotes \in QuotePairs(t)
    BY DEF NoQuotes, QuotePairs
  <2> HIDE DEF arrived
  <2> QED
    BY <2>1 DEF OnBook, MayBreach, arrived
<1> HIDE DEF arrived
<1> DEFINE filled == BookFills(arrived, t, fronts)
           marked == IF breach THEN Kill(filled, ts) ELSE filled
           decided == IF decides THEN Decide(marked, quotes, ts) ELSE marked
<1>3. ASSUME NEW a, Good(a), NEW b, Sound(b), Same(a, b), Queue(b, ts), Safe(b, ts)
      PROVE  Good(b)
  BY <1>3, SameKeeps
<1>4. Good(filled)
  BY <1>1, BookFillsSound
<1> HIDE DEF filled, Good
<1>5. Good(marked)
  <2>1. /\ Sound(Kill(filled, ts)) /\ Same(filled, Kill(filled, ts))
        /\ Queue(Kill(filled, ts), ts) /\ Safe(Kill(filled, ts), ts)
    BY <1>4, KillSound, KillSafe, LaterQueue DEF Good
  <2> QED
    BY <1>3, <1>4, <2>1
<1> HIDE DEF marked
<1>6. Good(decided)
  <2>1. /\ Sound(Decide(marked, quotes, ts)) /\ Same(marked, Decide(marked, quotes, ts))
        /\ Queue(Decide(marked, quotes, ts), ts) /\ Safe(Decide(marked, quotes, ts), ts)
    BY <1>5, DecideSound, DecideSafe DEF Good
  <2> QED
    BY <1>3, <1>5, <2>1
<1> HIDE DEF decided
<1>7. Good(InUse(decided))
  <2>1. /\ Sound(InUse(decided)) /\ Same(decided, InUse(decided))
        /\ Queue(InUse(decided), ts) /\ Safe(InUse(decided), ts)
    <3>1. ts <= ts
      OBVIOUS
    <3> QED
      BY <1>6, <3>1, InUseSound, LaterQueue, IdleSafe DEF Good
  <2> QED
    BY <1>3, <1>6, <2>1
<1>8. account' = InUse(decided) /\ top' = t /\ now' = ts
  BY <1>2 DEF OnBook, decided, marked, filled
<1>9. /\ next_decision' \in Nat /\ next_sample' \in Nat \cup {None} /\ finished' \in BOOLEAN
  BY TimesTyped DEF IInv, OnBook
<1>10. t # None
  BY Constants
<1> HIDE DEF decided
<1> QED
  BY <1>7, <1>8, <1>9, <1>10, KeptInv DEF Good

LEMMA OnTradeKeeps ==
  ASSUME IInv, NEW ts \in Nat, now <= ts, NEW price, NEW qty \in Nat, NEW side,
         OnTrade(ts, price, qty, side)
  PROVE  IInv'
<1> DEFINE a == Advance([account EXCEPT !.fills = {}], ts, top)
           Good(x) == /\ Sound(x) /\ Arrived(x, ts) /\ FillsOK(x, ts) /\ Passive(x, top)
                      /\ Queue(x, ts) /\ Alone(x) /\ Safe(x, ts)
<1>1. top \in Tops /\ top # None
  BY DEF OnTrade, IInv
<1>2. Good(a) /\ AllInForce(a, ts)
  BY <1>1, ArrivedSound DEF IInv
<1>3. PICK offer \in [Takers(a, side) -> 0 .. qty] :
        account' = InUse(TradeFills(a, price, offer))
  BY DEF OnTrade
<1> HIDE DEF a
<1> DEFINE b == TradeFills(a, price, offer)
<1>4. Good(b)
  BY <1>2, TradeFillsSound
<1> HIDE DEF b
<1>5. Sound(InUse(b)) /\ Same(b, InUse(b)) /\ Queue(InUse(b), ts) /\ Safe(InUse(b), ts)
  <2>1. ts <= ts
    OBVIOUS
  <2> QED
    BY <1>4, <2>1, InUseSound, LaterQueue, IdleSafe
<1>6. Good(InUse(b))
  BY <1>4, <1>5, SameKeeps
<1>7. account' = InUse(b) /\ top' = top /\ now' = ts
  BY <1>3 DEF OnTrade, b
<1>8. /\ next_decision' \in Nat /\ next_sample' \in Nat \cup {None} /\ finished' \in BOOLEAN
  BY DEF IInv, OnTrade
<1> QED
  BY <1>1, <1>6, <1>7, <1>8, KeptInv DEF Good

LEMMA FinishKeeps ==
  ASSUME IInv, NEW flatten \in BOOLEAN, Finish(flatten)
  PROVE  IInv'
<1> DEFINE fresh == [account EXCEPT !.fills = {}]
           dropped == [CancelAll(fresh, now) EXCEPT !.live = {}, !.pending = {}]
           flat == IF flatten THEN Liquidate(dropped) ELSE dropped
           Good(x) == Sound(x) /\ Open(x) = {} /\ x.fills = {} /\ Safe(x, now)
<1>1. now \in Nat /\ Sound(fresh) /\ fresh.fills = {} /\ Safe(fresh, now)
  <2>1. now \in Nat /\ now <= now
    BY DEF IInv
  <2> QED
    BY <2>1, FreshSound, IdleSafe DEF IInv
<1>2. PICK breach \in BOOLEAN : account' = InUse(IF breach THEN Kill(flat, now) ELSE flat)
  BY DEF Finish, MayBreach
<1> HIDE DEF fresh
<1>3. Good(flat)
  BY <1>1, DropSound
<1> HIDE DEF flat
<1> DEFINE marked == IF breach THEN Kill(flat, now) ELSE flat
<1>4. Good(marked)
  <2>1. Queue(flat, now)
    BY <1>3 DEF Queue, Relieved
  <2> QED
    BY <1>1, <1>3, <2>1, KillSound, KillSafe DEF Same, Later
<1> HIDE DEF marked
<1>5. Good(InUse(marked))
  <2>1. now <= now
    BY <1>1
  <2>2. Safe(InUse(marked), now)
    BY <1>1, <1>4, <2>1, InUseSound, IdleSafe
  <2> QED
    BY <1>4, <2>2, InUseSound DEF Same, Later
<1>6. account' = InUse(marked) /\ top' = top /\ now' = now
  BY <1>2 DEF Finish, marked
<1>7. /\ next_decision' \in Nat /\ next_sample' \in Nat \cup {None} /\ finished' \in BOOLEAN
  BY DEF IInv, Finish
<1> DEFINE a == InUse(marked)
<1> HIDE DEF a
<1>8. a.live = {} /\ Good(a) /\ account' = a
  BY <1>5, <1>6 DEF Good, Open, a
<1>9. /\ Arrived(a, now) /\ FillsOK(a, now) /\ Queue(a, now) /\ Alone(a)
      /\ \A t : Passive(a, t)
  BY <1>8 DEF Good, Arrived, FillsOK, Queue, Relieved, Alone, Passive
<1>10. top \in Tops \cup {None}
  BY DEF IInv
<1> QED
  BY <1>1, <1>6, <1>7, <1>8, <1>9, <1>10, KeptInv DEF Good

LEMMA Inductive ==
  IInv /\ [Next]_simVars => IInv'
<1> SUFFICES ASSUME IInv, [Next]_simVars
             PROVE  IInv'
  OBVIOUS
<1>0. now \in Nat /\ MaxTime \in Nat /\ \A qty \in TradeQtys : qty \in Nat
  BY SimulatorAssumption DEF IInv, SimulatorAssumption
<1>1. ASSUME NEW ts \in now .. MaxTime, NEW t \in Tops, OnBook(ts, t)
      PROVE  IInv'
  BY <1>0, <1>1, OnBookKeeps
<1>2. ASSUME NEW ts \in now .. MaxTime, NEW price \in Prices, NEW qty \in TradeQtys,
             NEW side \in Sides, OnTrade(ts, price, qty, side)
      PROVE  IInv'
  BY <1>0, <1>2, OnTradeKeeps
<1>3. ASSUME NEW flatten \in BOOLEAN, Finish(flatten)
      PROVE  IInv'
  BY <1>3, FinishKeeps
<1>4. CASE UNCHANGED simVars
  BY <1>4 DEF simVars, IInv, Sound, Typed, Knows, Withdrawn, Open,
     Arrived, FillsOK, Passive, Queue, Relieved, Alone
<1> QED
  BY <1>1, <1>2, <1>3, <1>4 DEF Next

THEOREM Invariance ==
  Spec => []IInv
BY Initially, Inductive, PTL DEF Spec

-----------------------------------------------------------------------------
(* The account knows its own quotes, after any sequence of events, however  *)
(* the round trip, the rate limit and the queue model are set.              *)
THEOREM QuotesKnown ==
  Spec => []WorkingQuotes
<1>1. IInv => WorkingQuotes
  BY DEF IInv, Sound, Knows, WorkingQuotes
<1> QED
  BY <1>1, Invariance, PTL

(* Once the kill switch has tripped every order that can still trade has a  *)
(* cancel on its way (`CancelAll' in `mark').                               *)
THEOREM KillSwitchWithdraws ==
  Spec => []HaltedWithdraws
<1>1. IInv => HaltedWithdraws
  BY DEF IInv, Sound, Withdrawn, HaltedWithdraws
<1> QED
  BY <1>1, Invariance, PTL

(* No order is filled before it arrives or after its cancel took effect.    *)
THEOREM FilledWithinLife ==
  Spec => []FillsInLife
<1>1. IInv => FillsInLife
  BY DEF IInv, FillsOK, Alive, FillsInLife
<1> QED
  BY <1>1, Invariance, PTL

(* No order rests at or through the opposite best price.                    *)
THEOREM RestingPassive ==
  Spec => []RestsPassively
<1>1. IInv => RestsPassively
  <2> SUFFICES ASSUME IInv, NEW oid \in account.live
               PROVE  LET o == account.orders[oid]
                      IN IF o.side = "bid" THEN o.price < top.ask ELSE o.price > top.bid
    BY DEF RestsPassively
  <2>1. top \in Tops /\ ~Crosses(account.orders[oid], top)
    BY DEF IInv, Passive
  <2>2. account.orders[oid] \in Orders
    BY DEF IInv, Sound, Typed, Open
  <2>3. account.orders[oid].price \in Nat /\ top.ask \in Nat /\ top.bid \in Nat
    BY <2>1, <2>2, SimulatorAssumption DEF Tops, Orders, SimulatorAssumption
  <2> QED
    BY <2>1, <2>3 DEF Crosses
<1> QED
  BY <1>1, Invariance, PTL

(* A replacement never rests beside the order it replaces.                  *)
THEOREM NeverTwoOrders ==
  Spec => []OneOrderPerSide
<1>1. IInv => OneOrderPerSide
  BY DEF IInv, Alone, OneOrderPerSide
<1> QED
  BY <1>1, Invariance, PTL

(* The account, the clock and the timers keep their types, and the orders   *)
(* the account lists are orders it has made (SimAccount, simulator.py).     *)
THEOREM TypeCorrect ==
  Spec => []TypeOK
<1>1. IInv => TypeOK
  <2> SUFFICES ASSUME IInv
               PROVE  TypeOK
    OBVIOUS
  <2>1. Typed(account)
    BY DEF IInv, Sound
  <2>2. ASSUME NEW oid \in DOMAIN account.orders
        PROVE  oid \in 1 .. account.next_oid - 1
    <3>1. oid \in Nat \ {0} /\ oid < account.next_oid /\ account.next_oid \in Nat \ {0}
      BY <2>1 DEF Typed
    <3> QED
      BY <3>1
  <2>3. Ledger(account)
    BY DEF IInv, Safe
  <2>4. {account.traded, account.halted, finished} \subseteq BOOLEAN
    BY <2>1, <2>3, Zenon DEF Typed, Ledger, IInv
  <2> QED
    BY <2>1, <2>2, <2>3, <2>4 DEF Typed, Ledger, IInv, TypeOK
<1> QED
  BY <1>1, Invariance, PTL

(* The position limit holds up to the orders that a round trip can hold: a  *)
(* side's position and all that its orders in force can still add stay      *)
(* within the bound, so no fill takes the position past it, whatever is on  *)
(* its way and however often the kill switch flattens (`want', `manage',    *)
(* `apply_fills', `liquidate').                                             *)
THEOREM PositionLimited ==
  Spec => []PositionBounded
<1>1. IInv => PositionBounded
  <2> SUFFICES ASSUME IInv, MinRequote > 0
               PROVE  \E qty \in OrderQtys : account.position <= Allowed(qty)
                                            /\ account.position >= -Allowed(qty)
    BY DEF PositionBounded, Allowed, Late, RoundedUp
  <2>1. Ledger(account)
    BY DEF IInv, Safe
  <2>2. PICK qty \in OrderQtys : Limited(account, now, qty)
    BY DEF IInv, Safe
  <2>3. Allowed(qty) \in Int
    BY AllowedGrows, LimitFacts
  <2>4. ASSUME NEW side \in Sides
        PROVE  Signed(side, account.position) <= Allowed(qty)
    <3> DEFINE x == SetWeight(Remaining(account), Threats(account, side, now))
    <3>1. x \in Nat
      <4>1. Sound(account)
        BY DEF IInv
      <4>2. /\ Threats(account, side, now) \subseteq Open(account)
            /\ IsFiniteSet(Threats(account, side, now))
        BY <4>1, ThreatFacts
      <4>3. \A oid \in Threats(account, side, now) : Remaining(account)[oid] \in Nat
        BY <4>1, <4>2 DEF Sound, Typed, Remaining, Orders
      <4> QED
        BY <4>2, <4>3, SetWeightPositive
    <3>2. Signed(side, account.position) + x <= Allowed(qty)
      BY <2>2 DEF Limited, Exposure
    <3>3. Signed(side, account.position) \in Int
      BY <2>1 DEF Ledger, Signed
    <3> HIDE DEF x
    <3> QED
      BY <2>3, <3>1, <3>2, <3>3
  <2>5. account.position <= Allowed(qty)
    BY <2>4 DEF Signed, Sides
  <2>6. account.position >= -Allowed(qty)
    <3>1. -account.position <= Allowed(qty)
      BY <2>4 DEF Signed, Sides
    <3>2. account.position \in Int
      BY <2>1 DEF Ledger
    <3> QED
      BY <2>3, <3>1, <3>2
  <2> QED
    BY <2>5, <2>6
<1> QED
  BY <1>1, Invariance, PTL
=============================================================================
