---------------------------- MODULE DepthSyncProofs ----------------------------
(***************************************************************************)
(* A state that waits for a repair always has one, and a book that a clean  *)
(* repair produced follows the exchange's at the cursor, for every number   *)
(* of updates, levels, tasks, lost events and lost connections.  Two facts  *)
(* carry the second: an update sets the levels that it names and no other   *)
(* (Untouched), so an event that continues the cursor takes the exchange's  *)
(* book at the cursor to that at its end; and a replay that met no gap is a *)
(* sequence of such events (ReplayFollows).                                 *)
(***************************************************************************)
EXTENDS DepthSync, FoldLemmas

(* What the network delivers: an event covers at least one update.           *)
Whole == {e \in Events : e.U <= e.u}

Books == [PriceLevels -> Updates \cup {0}]

States == {st \in SyncStates : st.buffer \in Seq(Whole)}

(* Tasks whose snapshot is not of the exchange's future.                     *)
TasksUpTo(n) == {t \in Tasks : t.snap # None => t.snap <= n}

(* BookMatchesCursor, of any book and cursor.                                *)
Tracks(b, last, prev) ==
  IF prev = None \/ prev >= last
  THEN b = BookAt(IF prev = None THEN last ELSE prev)
  ELSE \A l \in PriceLevels : b[l] \in {BookAt(prev)[l], BookAt(last)[l]}

Followed == trusted /\ state.synced =>
              /\ state.last_update_id # None
              /\ Tracks(book, state.last_update_id, state.prev_final_u)

IInv ==
  /\ exchange \in Updates \cup {0} /\ sent \in 0 .. exchange
  /\ link \in {"up", "down"}
  /\ wire \in Seq(Whole)
  /\ drops \in 0 .. MaxDrops /\ disconnects \in 0 .. MaxDisconnects
  /\ state \in States
  /\ book \in Books
  /\ tasks \in Seq(TasksUpTo(exchange))
  /\ generation \in Nat /\ trusted \in BOOLEAN
  /\ NoStuckSync
  /\ Followed

-----------------------------------------------------------------------------
(* The exchange's book.                                                      *)
LEMMA UpdatesAre ==
  /\ Len(Touches) \in Nat /\ Updates = 1 .. Len(Touches)
  /\ None \notin Nat
BY DepthAssumption DEF Updates

LEMMA BookAtType ==
  ASSUME NEW n \in Updates \cup {0}
  PROVE  BookAt(n) \in Books
<1> SUFFICES ASSUME NEW l \in PriceLevels
             PROVE  LET K == {k \in 1 .. n : Touches[k] = l}
                    IN K # {} => Max(K) \in Updates
  BY DEF BookAt, Books
<1> DEFINE K == {k \in 1 .. n : Touches[k] = l}
<1>1. n \in Nat /\ K \in SUBSET (1 .. n) /\ 1 .. n \subseteq Updates
  BY UpdatesAre
<1>2. K # {} => Max(K) \in K
  <2> HIDE DEF K
  <2> QED
    BY <1>1, MaxOf
<1> HIDE DEF K
<1>3. K # {} => Max(K) \in Updates
  BY <1>1, <1>2
<1> QED
  BY <1>3 DEF K

(* A level that no update between touches is the same.                       *)
LEMMA Untouched ==
  ASSUME NEW n \in Nat, NEW u \in Nat, n <= u, NEW l \in PriceLevels,
         \A k \in n + 1 .. u : Touches[k] # l
  PROVE  BookAt(u)[l] = BookAt(n)[l]
<1>1. {k \in 1 .. u : Touches[k] = l} = {k \in 1 .. n : Touches[k] = l}
  <2>1. \A k \in 1 .. u : Touches[k] = l => k \in 1 .. n
    OBVIOUS
  <2>2. \A k \in 1 .. n : k \in 1 .. u
    OBVIOUS
  <2> QED
    BY <2>1, <2>2
<1> QED
  BY <1>1 DEF BookAt

LEMMA ApplyLevelsType ==
  ASSUME NEW b \in Books, NEW e \in Events
  PROVE  ApplyLevels(b, e) \in Books
<1>1. BookAt(e.u) \in Books
  BY BookAtType DEF Events
<1> QED
  BY <1>1 DEF ApplyLevels, Books

(* The first event after a snapshot reaches back to it; every later one      *)
(* continues the one before: the book follows.                               *)
LEMMA EventTracks ==
  ASSUME NEW b \in Books, NEW e \in Whole, NEW last \in Nat, NEW prev \in Nat \cup {None},
         Tracks(b, last, prev),
         prev = None => e.U <= last + 1,
         prev # None => e.U = prev + 1
  PROVE  Tracks(ApplyLevels(b, e), last, e.u)
<1> DEFINE c == ApplyLevels(b, e)
<1>1. e.U \in Nat /\ e.u \in Nat /\ e.U <= e.u /\ e.u # None /\ e.u \in Updates
  BY UpdatesAre DEF Whole, Events
<1>2. c \in Books /\ BookAt(e.u) \in Books
  BY <1>1, ApplyLevelsType, BookAtType DEF Whole
<1>3. ASSUME NEW l \in PriceLevels
      PROVE  /\ (\E n \in e.U .. e.u : Touches[n] = l) => c[l] = BookAt(e.u)[l]
             /\ ~(\E n \in e.U .. e.u : Touches[n] = l) => c[l] = b[l]
  BY DEF ApplyLevels
<1> HIDE DEF c
<1>4. ASSUME NEW n \in Nat, e.U <= n + 1, n <= e.u, NEW l \in PriceLevels,
             b[l] = BookAt(n)[l]
      PROVE  c[l] = BookAt(e.u)[l]
  <2>1. CASE \E k \in e.U .. e.u : Touches[k] = l
    BY <1>3, <2>1
  <2>2. CASE ~(\E k \in e.U .. e.u : Touches[k] = l)
    <3>1. \A k \in n + 1 .. e.u : Touches[k] # l
      BY <1>1, <1>4, <2>2
    <3>2. BookAt(e.u)[l] = BookAt(n)[l]
      BY <1>1, <1>4, <3>1, Untouched
    <3> QED
      BY <1>3, <1>4, <2>2, <3>2
  <2> QED
    BY <2>1, <2>2
<1>5. ASSUME \A l \in PriceLevels : c[l] = BookAt(e.u)[l]
      PROVE  c = BookAt(e.u)
  BY <1>2, <1>5 DEF Books
<1>6. CASE prev = None
  <2>1. b = BookAt(last)
    BY <1>6 DEF Tracks
  <2>2. CASE e.u >= last
    <3>1. \A l \in PriceLevels : c[l] = BookAt(e.u)[l]
      BY <1>1, <1>4, <1>6, <2>1, <2>2
    <3> QED
      BY <1>1, <1>5, <2>2, <3>1 DEF Tracks, c
  <2>3. CASE ~(e.u >= last)
    <3>1. \A l \in PriceLevels : c[l] \in {BookAt(e.u)[l], BookAt(last)[l]}
      BY <1>3, <2>1
    <3> QED
      BY <1>1, <2>3, <3>1 DEF Tracks, c
  <2> QED
    BY <2>2, <2>3
<1>7. CASE prev # None /\ prev >= last
  <2>1. b = BookAt(prev) /\ prev \in Nat /\ e.U = prev + 1
    BY <1>7 DEF Tracks
  <2>2. prev <= e.u /\ e.u >= last
    BY <1>1, <1>7, <2>1
  <2>3. \A l \in PriceLevels : c[l] = BookAt(e.u)[l]
    BY <1>1, <1>4, <2>1, <2>2
  <2> QED
    BY <1>1, <1>5, <2>2, <2>3 DEF Tracks, c
<1>8. CASE prev # None /\ ~(prev >= last)
  <2>1. /\ prev \in Nat /\ e.U = prev + 1 /\ prev < last /\ prev <= e.u
        /\ \A l \in PriceLevels : b[l] \in {BookAt(prev)[l], BookAt(last)[l]}
    BY <1>1, <1>8 DEF Tracks
  <2>2. CASE e.u >= last
    <3>1. \A l \in PriceLevels : c[l] = BookAt(e.u)[l]
      <4> SUFFICES ASSUME NEW l \in PriceLevels
                   PROVE  c[l] = BookAt(e.u)[l]
        OBVIOUS
      <4>1. CASE b[l] = BookAt(prev)[l]
        BY <1>4, <2>1, <4>1
      <4>2. CASE b[l] = BookAt(last)[l]
        BY <1>4, <2>1, <2>2, <4>2
      <4> QED
        BY <2>1, <4>1, <4>2
    <3> QED
      BY <1>1, <1>5, <2>2, <3>1 DEF Tracks, c
  <2>3. CASE ~(e.u >= last)
    <3>1. ASSUME NEW l \in PriceLevels
          PROVE  c[l] \in {BookAt(e.u)[l], BookAt(last)[l]}
      <4>1. CASE b[l] = BookAt(prev)[l]
        BY <1>4, <2>1, <4>1
      <4>2. CASE b[l] = BookAt(last)[l]
        BY <1>3, <4>2
      <4> QED
        BY <2>1, <4>1, <4>2
    <3> QED
      BY <1>1, <2>3, <3>1 DEF Tracks, c
  <2> QED
    BY <2>2, <2>3
<1> QED
  BY <1>6, <1>7, <1>8

-----------------------------------------------------------------------------
(* Replaying the events that were buffered.                                  *)
Machines == [st : States, book : Books, spawned : Nat]

LEMMA FreshTyped ==
  FreshState \in States /\ FreshState.synced = FALSE /\ FreshState.syncing = FALSE
<1>1. FreshState.buffer \in Seq(Whole) /\ <<>> \in Seq(Events)
  BY EmptySeq DEF FreshState
<1>2. FreshState \in SyncStates
  BY <1>1, Zenon DEF FreshState, SyncStates
<1> QED
  BY <1>1, <1>2 DEF States, FreshState

LEMMA CheckedFacts ==
  ASSUME NEW m \in Machines, NEW e \in Whole
  PROVE  /\ ApplyChecked(m, e) \in Machines
         /\ Gap(m.st, e) => ApplyChecked(m, e).spawned = m.spawned + 1
         /\ ~Gap(m.st, e) =>
              /\ ApplyChecked(m, e).spawned = m.spawned
              /\ ApplyChecked(m, e).book = ApplyLevels(m.book, e)
              /\ ApplyChecked(m, e).st.prev_final_u = e.u
              /\ ApplyChecked(m, e).st = [m.st EXCEPT !.prev_final_u = e.u]
<1>1. /\ m.st \in SyncStates /\ m.st.buffer \in Seq(Whole) /\ m.book \in Books
      /\ m.spawned \in Nat /\ e \in Events /\ e.u \in Nat
  BY UpdatesAre DEF Machines, States, Whole, Events
<1> DEFINE fresh == [FreshState EXCEPT !.buffer = <<e>>, !.syncing = TRUE]
<1>2. fresh \in States
  <2>1. <<e>> \in Seq(Whole) /\ <<e>> \in Seq(Events)
    BY <1>1
  <2>2. FreshState \in SyncStates
    BY FreshTyped DEF States
  <2>3. fresh \in SyncStates /\ fresh.buffer = <<e>>
    <3>1. PICK f \in SyncStates : f = FreshState
      BY <2>2
    <3>2. [f EXCEPT !.buffer = <<e>>, !.syncing = TRUE] \in SyncStates
      BY <2>1 DEF SyncStates
    <3>3. [f EXCEPT !.buffer = <<e>>, !.syncing = TRUE].buffer = <<e>>
      BY DEF SyncStates
    <3> QED
      BY <3>1, <3>2, <3>3
  <2> HIDE DEF fresh
  <2> QED
    BY <2>1, <2>2, <2>3 DEF States
<1> DEFINE moved == [m.st EXCEPT !.prev_final_u = e.u]
<1>3. moved \in States
  BY <1>1 DEF SyncStates, States
<1>4. ApplyLevels(m.book, e) \in Books
  BY <1>1, ApplyLevelsType
<1>5. CASE Gap(m.st, e)
  <2>1. ApplyChecked(m, e) = [m EXCEPT !.st = fresh, !.spawned = @ + 1]
    BY <1>5 DEF ApplyChecked
  <2> HIDE DEF fresh
  <2>2. ApplyChecked(m, e) = [st |-> fresh, book |-> m.book, spawned |-> m.spawned + 1]
    BY <2>1 DEF Machines
  <2>3. ApplyChecked(m, e) \in Machines /\ ApplyChecked(m, e).spawned = m.spawned + 1
    BY <1>1, <1>2, <2>2 DEF Machines
  <2> QED
    BY <1>5, <2>3
<1>6. CASE ~Gap(m.st, e)
  <2>1. ApplyChecked(m, e) = [m EXCEPT !.book = ApplyLevels(@, e), !.st.prev_final_u = e.u]
    BY <1>6 DEF ApplyChecked, Apply
  <2>2. /\ ApplyChecked(m, e).st = moved
        /\ ApplyChecked(m, e).book = ApplyLevels(m.book, e)
        /\ ApplyChecked(m, e).spawned = m.spawned
        /\ ApplyChecked(m, e) = [st |-> moved, book |-> ApplyLevels(m.book, e),
                                 spawned |-> m.spawned]
    BY <2>1 DEF Machines
  <2>3. moved.prev_final_u = e.u
    BY <1>1 DEF SyncStates
  <2>4. ApplyChecked(m, e) \in Machines
    <3> HIDE DEF moved
    <3> QED
      BY <1>1, <1>3, <1>4, <2>2 DEF Machines
  <2> QED
    BY <1>6, <2>2, <2>3, <2>4
<1> QED
  BY <1>5, <1>6

(* The loop stays in every set of machines that its step stays in.           *)
LEMMA ReplayStays ==
  ASSUME NEW A, NEW base \in A, NEW s \in Seq(Whole),
         \A m \in A, e \in Whole : ApplyChecked(m, e) \in A
  PROVE  FoldLeft(ApplyChecked, base, s) \in A
<1> DEFINE K == [m \in A |-> [e \in Whole |-> ApplyChecked(m, e)]]
           D == DOMAIN s
           F(h) == [t \in SUBSET D |->
                      IF t = {} THEN base ELSE ApplyChecked(h[t \ {Max(t)}], s[Max(t)])]
           f == CHOOSE h : h = F(h)
<1>1. FoldLeft(ApplyChecked, base, s) = f[D]
  BY DEF FoldLeft, MapThenFoldSet
<1>2. \A m \in A, e \in Whole : K[m][e] = ApplyChecked(m, e)
  OBVIOUS
<1> HIDE DEF K
<1>3. Foldable(s, base, K, A, Whole)
  BY <1>2 DEF Foldable, Closed
<1>4. \A t \in SUBSET D : t # {} => Max(t) \in D /\ s[Max(t)] \in Whole
  <2>1. Len(s) \in Nat /\ D = 1 .. Len(s) /\ \A i \in D : s[i] \in Whole
    OBVIOUS
  <2> SUFFICES ASSUME NEW t \in SUBSET D, t # {}
               PROVE  Max(t) \in D
    BY <2>1
  <2> QED
    BY <2>1, MaxOf
<1> HIDE DEF D
<1>5. f = F(f)
  <2>1. PICK h : FoldsBy(h, s, base, K, A)
    BY <1>3, FoldWitness
  <2>2. h = [t \in SUBSET D |-> IF t = {} THEN base ELSE K[h[t \ {Max(t)}]][s[Max(t)]]]
    BY <2>1 DEF FoldsBy, Recursion, D
  <2>3. \A t \in SUBSET D : t # {} =>
          K[h[t \ {Max(t)}]][s[Max(t)]] = ApplyChecked(h[t \ {Max(t)}], s[Max(t)])
    <3> SUFFICES ASSUME NEW t \in SUBSET D, t # {}
                 PROVE  h[t \ {Max(t)}] \in A
      BY <1>2, <1>4
    <3> QED
      BY <2>1 DEF FoldsBy, D
  <2>4. h = F(h)
    BY <2>2, <2>3
  <2> QED
    BY <2>4
<1>6. Obeys(f, s, base, K, A)
  <2> HIDE DEF f
  <2>1. \A t \in SUBSET D : t # {} /\ f[t \ {Max(t)}] \in A =>
          f[t] = K[f[t \ {Max(t)}]][s[Max(t)]]
    BY <1>2, <1>4, <1>5
  <2>2. f[{}] = base
    BY <1>5
  <2> QED
    BY <2>1, <2>2 DEF Obeys, D
<1> HIDE DEF f
<1>7. f[DOMAIN s] = SeqFold(K, base, s) /\ SeqFold(K, base, s) \in A
  BY <1>3, <1>6, SeqFoldIs, SeqFoldType
<1> QED
  BY <1>1, <1>7 DEF D

Started(last) ==
  [st |-> [state EXCEPT !.last_update_id = last, !.buffer = Residual(last)],
   book |-> BookAt(last), spawned |-> 0]

LEMMA ReplayStart ==
  ASSUME state \in States, NEW last \in Updates \cup {0}
  PROVE  /\ Residual(last) \in Seq(Whole)
         /\ Started(last) \in Machines
         /\ Started(last).st.prev_final_u = state.prev_final_u
         /\ Started(last).st.last_update_id = last
         /\ Residual(last) = <<>> => Replay(last) = Started(last)
         /\ Residual(last) # <<>> =>
              /\ Head(Residual(last)) \in Whole /\ Tail(Residual(last)) \in Seq(Whole)
              /\ Head(Residual(last)) = Residual(last)[1]
              /\ Replay(last) = FoldLeft(ApplyChecked, Apply(Started(last), Head(Residual(last))),
                                         Tail(Residual(last)))
<1>1. Residual(last) \in Seq(Whole)
  <2> DEFINE S == {e \in Events : e.u > last}
  <2>1. Residual(last) \in Seq(Whole \cap S)
    <3> HIDE DEF S
    <3>1. Residual(last) = Select(state.buffer, S)
      BY DEF Residual, S
    <3>2. state.buffer \in Seq(Whole)
      BY DEF States
    <3> QED
      BY <3>1, <3>2, SelectType
  <2>2. Whole \cap S \subseteq Whole
    OBVIOUS
  <2> HIDE DEF S
  <2> QED
    BY <2>1, <2>2, SeqMonotonic
<1>2. last \in Nat /\ BookAt(last) \in Books
  BY BookAtType, UpdatesAre
<1>3. PICK r : r = Residual(last) /\ r \in Seq(Whole)
  BY <1>1
<1>4. r \in Seq(Events)
  BY <1>3, SeqMonotonic DEF Whole
<1>5. [state EXCEPT !.last_update_id = last, !.buffer = r] \in States
  BY <1>2, <1>3, <1>4 DEF States, SyncStates
<1>6. Started(last) \in Machines
  BY <1>2, <1>3, <1>5 DEF Started, Machines
<1>7. /\ Started(last).st.prev_final_u = state.prev_final_u
      /\ Started(last).st.last_update_id = last
  BY <1>3 DEF Started, States, SyncStates
<1>8. r # <<>> => Head(r) \in Whole /\ Tail(r) \in Seq(Whole) /\ Head(r) = r[1]
  BY <1>3
<1> QED
  BY <1>1, <1>3, <1>6, <1>7, <1>8 DEF Replay, Started

LEMMA AppliedIs ==
  ASSUME NEW m \in Machines, NEW e \in Whole
  PROVE  /\ Apply(m, e) \in Machines
         /\ Apply(m, e).spawned = m.spawned
         /\ Apply(m, e).book = ApplyLevels(m.book, e)
         /\ Apply(m, e).st.prev_final_u = e.u
         /\ Apply(m, e).st.last_update_id = m.st.last_update_id
<1>1. /\ m.st \in SyncStates /\ m.st.buffer \in Seq(Whole) /\ m.book \in Books
      /\ m.spawned \in Nat /\ e \in Events /\ e.u \in Nat
  BY UpdatesAre DEF Machines, States, Whole, Events
<1> DEFINE moved == [m.st EXCEPT !.prev_final_u = e.u]
<1>2. /\ moved \in States /\ moved.prev_final_u = e.u
      /\ moved.last_update_id = m.st.last_update_id
  BY <1>1 DEF SyncStates, States
<1>3. ApplyLevels(m.book, e) \in Books
  BY <1>1, ApplyLevelsType
<1>4. Apply(m, e) = [st |-> moved, book |-> ApplyLevels(m.book, e), spawned |-> m.spawned]
  <2>1. Apply(m, e) = [m EXCEPT !.book = ApplyLevels(@, e), !.st.prev_final_u = e.u]
    BY DEF Apply
  <2> QED
    BY <2>1 DEF Machines
<1> HIDE DEF moved
<1> QED
  BY <1>1, <1>2, <1>3, <1>4 DEF Machines

LEMMA ReplayType ==
  ASSUME state \in States, NEW last \in Updates \cup {0}
  PROVE  Replay(last) \in Machines
<1>1. \A m \in Machines, e \in Whole : ApplyChecked(m, e) \in Machines
  BY CheckedFacts
<1>2. CASE Residual(last) = <<>>
  BY <1>2, ReplayStart
<1>3. CASE Residual(last) # <<>>
  <2>1. Apply(Started(last), Head(Residual(last))) \in Machines
    BY <1>3, ReplayStart, AppliedIs
  <2>2. Tail(Residual(last)) \in Seq(Whole)
    BY <1>3, ReplayStart
  <2>3. FoldLeft(ApplyChecked, Apply(Started(last), Head(Residual(last))),
                 Tail(Residual(last))) \in Machines
    BY <1>1, <2>1, <2>2, ReplayStays
  <2> QED
    BY <1>3, <2>3, ReplayStart
<1> QED
  BY <1>2, <1>3

(* A replay that met no gap gives the exchange's book at its end.            *)
LEMMA ReplayFollows ==
  ASSUME state \in States, state.prev_final_u = None, NEW last \in Updates \cup {0},
         Residual(last) # <<>> => SyncPoint(last), Replay(last).spawned = 0
  PROVE  /\ Replay(last).st.last_update_id = last
         /\ Tracks(Replay(last).book, last, Replay(last).st.prev_final_u)
<1>1. last \in Nat /\ last # None
  BY UpdatesAre
<1>2. CASE Residual(last) = <<>>
  <2>1. Replay(last) = Started(last)
    BY <1>2, ReplayStart
  <2>2. /\ Replay(last).st.last_update_id = last
        /\ Replay(last).st.prev_final_u = None
    BY <2>1, ReplayStart
  <2>3. Replay(last).book = BookAt(last)
    BY <2>1 DEF Started
  <2> QED
    BY <2>2, <2>3 DEF Tracks
<1>3. CASE Residual(last) # <<>>
  <2> DEFINE first == Head(Residual(last))
             base == Apply(Started(last), first)
             A == {m \in Machines :
                     m.spawned = 0 =>
                       /\ m.st.last_update_id = last /\ m.st.prev_final_u # None
                       /\ Tracks(m.book, last, m.st.prev_final_u)}
  <2>1. /\ first \in Whole /\ Started(last) \in Machines
        /\ first.U <= last + 1 /\ last + 1 <= first.u
        /\ Started(last).st.last_update_id = last
        /\ Tail(Residual(last)) \in Seq(Whole)
    BY <1>3, ReplayStart DEF SyncPoint
  <2>2. first.u # None
    BY <2>1, UpdatesAre DEF Whole, Events
  <2>3. base \in A
    <3>1. /\ base \in Machines /\ base.st.last_update_id = last
          /\ base.st.prev_final_u = first.u
          /\ base.book = ApplyLevels(BookAt(last), first)
      <4>1. Started(last).book = BookAt(last)
        BY DEF Started
      <4> QED
        BY <2>1, <4>1, AppliedIs
    <3>2. Tracks(BookAt(last), last, None) /\ BookAt(last) \in Books
      BY BookAtType DEF Tracks
    <3>3. Tracks(ApplyLevels(BookAt(last), first), last, first.u)
      <4> HIDE DEF first
      <4> QED
        BY <1>1, <2>1, <3>2, EventTracks
    <3> HIDE DEF base
    <3> QED
      BY <2>2, <3>1, <3>3
  <2>4. ASSUME NEW m \in A, NEW e \in Whole
        PROVE  ApplyChecked(m, e) \in A
    <3>1. m \in Machines
      OBVIOUS
    <3> DEFINE c == ApplyChecked(m, e)
    <3>2. c \in Machines
      BY <3>1, CheckedFacts
    <3>3. CASE Gap(m.st, e)
      <4>1. c.spawned = m.spawned + 1 /\ m.spawned \in Nat
        BY <3>1, <3>3, CheckedFacts DEF Machines
      <4> HIDE DEF c
      <4>2. c.spawned # 0
        BY <4>1
      <4> QED
        BY <3>2, <4>2 DEF c
    <3>4. CASE ~Gap(m.st, e)
      <4> SUFFICES ASSUME c.spawned = 0
                   PROVE  /\ c.st.last_update_id = last /\ c.st.prev_final_u # None
                          /\ Tracks(c.book, last, c.st.prev_final_u)
        BY <3>2
      <4>1. /\ c.spawned = m.spawned /\ c.book = ApplyLevels(m.book, e)
            /\ c.st.prev_final_u = e.u /\ c.st = [m.st EXCEPT !.prev_final_u = e.u]
        BY <3>1, <3>4, CheckedFacts
      <4> HIDE DEF c
      <4>2. /\ m.st.last_update_id = last /\ m.st.prev_final_u # None
            /\ Tracks(m.book, last, m.st.prev_final_u)
        BY <4>1
      <4>3. m.st \in SyncStates /\ m.book \in Books
        BY <3>1 DEF Machines, States
      <4>4. m.st.prev_final_u \in Nat \cup {None}
        BY <4>3 DEF SyncStates
      <4>5. e.U = m.st.prev_final_u + 1
        BY <3>4, <4>2 DEF Gap
      <4>6. Tracks(ApplyLevels(m.book, e), last, e.u)
        BY <1>1, <4>2, <4>3, <4>4, <4>5, EventTracks
      <4>7. c.st.last_update_id = last
        BY <4>1, <4>2, <4>3 DEF SyncStates
      <4>8. e.u # None
        BY UpdatesAre DEF Whole, Events
      <4> QED
        BY <4>1, <4>6, <4>7, <4>8
    <3> QED
      BY <3>3, <3>4
  <2>5. FoldLeft(ApplyChecked, base, Tail(Residual(last))) \in A
    <3> HIDE DEF A, base
    <3> QED
      BY <2>1, <2>3, <2>4, ReplayStays
  <2>6. Replay(last) \in A
    BY <1>3, <2>5, ReplayStart
  <2> HIDE DEF base, first
  <2> QED
    BY <2>6
<1> QED
  BY <1>2, <1>3

-----------------------------------------------------------------------------
(* The list of tasks.                                                        *)
LEMMA NewTaskTyped ==
  ASSUME NEW n
  PROVE  NewTask \in TasksUpTo(n)
BY DepthAssumption DEF NewTask, Tasks, TasksUpTo

(* asyncio.create_task: the new tasks queue behind the others.               *)
LEMMA SpawnFacts ==
  ASSUME NEW T, NewTask \in T, NEW ts \in Seq(T), NEW k \in Nat
  PROVE  /\ Spawn(ts, k) \in Seq(T)
         /\ ts # <<>> \/ k > 0 => Spawn(ts, k) # <<>>
<1> DEFINE new == [i \in 1 .. k |-> NewTask]
<1>1. new \in Seq(T) /\ Len(new) = k
  <2>1. \A i \in 1 .. k : NewTask \in T
    OBVIOUS
  <2> QED BY <2>1, IsASeq, LenProperties
<1> HIDE DEF new
<1>2. ts \o new \in Seq(T) /\ Len(ts \o new) = Len(ts) + k
  BY <1>1, ConcatProperties
<1>3. Len(ts) \in Nat /\ (ts = <<>> <=> Len(ts) = 0)
  BY LenProperties, EmptySeq
<1>4. ts \o new = <<>> <=> Len(ts \o new) = 0
  BY <1>2, EmptySeq
<1> QED BY <1>2, <1>3, <1>4 DEF Spawn, new

LEMMA RemoveTyped ==
  ASSUME NEW T, NEW ts \in Seq(T), NEW i \in DOMAIN ts
  PROVE  RemoveAt(ts, i) \in Seq(T)
<1> DEFINE a == SubSeq(ts, 1, i - 1)
           b == SubSeq(ts, i + 1, Len(ts))
<1>1. i \in 1 .. Len(ts) /\ Len(ts) \in Nat
  BY LenProperties
<1>2. a \in Seq(T) /\ b \in Seq(T)
  BY <1>1
<1> HIDE DEF a, b
<1>3. a \o b \in Seq(T)
  BY <1>2, ConcatProperties
<1> QED BY <1>3 DEF RemoveAt, a, b

(* A task of the list replaced by another.                                   *)
LEMMA ReplaceTyped ==
  ASSUME NEW T, NEW ts \in Seq(T), NEW i \in DOMAIN ts, NEW t \in T
  PROVE  [ts EXCEPT ![i] = t] \in Seq(T) /\ [ts EXCEPT ![i] = t] # <<>>
<1>1. i \in 1 .. Len(ts) /\ Len(ts) \in Nat
  BY LenProperties
<1>2. [ts EXCEPT ![i] = t] \in Seq(T) /\ Len([ts EXCEPT ![i] = t]) = Len(ts)
  BY <1>1, ExceptSeq
<1> QED BY <1>1, <1>2, EmptySeq

-----------------------------------------------------------------------------
LEMMA Initially == Init => IInv
<1> SUFFICES ASSUME Init PROVE IInv
  OBVIOUS
<1>1. EmptyBook \in Books
  BY DEF EmptyBook, Books
<1>2. state \in States /\ state.synced = FALSE /\ state.syncing = FALSE
  BY FreshTyped DEF Init
<1>3. wire \in Seq(Whole) /\ tasks \in Seq(TasksUpTo(exchange))
  BY EmptySeq DEF Init
<1>4. trusted \in BOOLEAN
  BY Zenon DEF Init
<1> QED
  BY <1>1, <1>2, <1>3, <1>4, DepthAssumption DEF Init, IInv, NoStuckSync, Followed

(* A state that is not synced asks nothing of the book.                      *)
LEMMA Unsynced ==
  ASSUME state'.synced = FALSE
  PROVE  Followed'
BY DEF Followed

LEMMA FollowedNext ==
  ASSUME trusted' /\ state'.synced =>
           /\ state'.last_update_id # None
           /\ Tracks(book', state'.last_update_id, state'.prev_final_u)
  PROVE  Followed'
BY DEF Followed, Tracks, BookAt

LEMMA BufferStep ==
  ASSUME IInv, BufferEvent
  PROVE  IInv'
<1>1. /\ wire \in Seq(Whole) /\ wire # <<>>
      /\ state \in SyncStates /\ state.buffer \in Seq(Whole)
      /\ tasks \in Seq(TasksUpTo(exchange)) /\ ~state.synced
  BY DEF IInv, BufferEvent, States
<1>2. Head(wire) \in Whole /\ Tail(wire) \in Seq(Whole)
  BY <1>1
<1> DEFINE q == Append(state.buffer, Head(wire))
<1>3. q \in Seq(Whole) /\ q \in Seq(Events)
  <2>1. q \in Seq(Whole)
    BY <1>1, <1>2
  <2> HIDE DEF q
  <2> QED
    BY <2>1, SeqMonotonic DEF Whole
<1>4. state' = [state EXCEPT !.buffer = q, !.syncing = TRUE]
  BY DEF BufferEvent
<1> HIDE DEF q
<1>5. state' \in States
  <2>1. state' \in SyncStates
    BY <1>1, <1>3, <1>4 DEF SyncStates
  <2>2. state'.buffer = q
    BY <1>1, <1>4 DEF SyncStates
  <2> QED
    BY <1>3, <2>1, <2>2 DEF States
<1>6. state'.synced = state.synced
  BY <1>1, <1>4 DEF SyncStates
<1>7. state.synced = FALSE
  BY <1>1 DEF SyncStates
<1>8. tasks' \in Seq(TasksUpTo(exchange)) /\ (state.syncing \/ tasks' # <<>>)
      /\ (state.syncing => tasks' = tasks)
  BY <1>1, NewTaskTyped, SpawnFacts DEF BufferEvent
<1>9. Followed'
  BY <1>6, <1>7, Unsynced
<1>10. NoStuckSync'
  BY <1>8 DEF NoStuckSync, IInv
<1> QED
  BY <1>2, <1>5, <1>8, <1>9, <1>10 DEF IInv, BufferEvent

LEMMA ApplyStep ==
  ASSUME IInv, ApplyEvent
  PROVE  IInv'
<1> DEFINE e == Head(wire)
           start == [st |-> state, book |-> book, spawned |-> 0]
           m == ApplyChecked(start, e)
<1>1. /\ state' = m.st /\ book' = m.book /\ tasks' = Spawn(tasks, m.spawned)
      /\ trusted' = (trusted /\ (state.prev_final_u # None
                                   \/ e.U <= state.last_update_id + 1))
      /\ wire' = Tail(wire) /\ state.synced
  BY DEF ApplyEvent
<1>2. e \in Whole /\ Tail(wire) \in Seq(Whole)
  BY DEF IInv, ApplyEvent
<1> HIDE DEF e
<1>3. start \in Machines /\ start.st = state /\ start.book = book /\ start.spawned = 0
  BY DEF Machines, IInv
<1>4. m \in Machines
  BY <1>2, <1>3, CheckedFacts
<1>5. tasks' \in Seq(TasksUpTo(exchange)) /\ (tasks # <<>> \/ m.spawned > 0 => tasks' # <<>>)
  <2>1. m.spawned \in Nat
    BY <1>4 DEF Machines
  <2> HIDE DEF m
  <2> QED
    BY <1>1, <2>1, NewTaskTyped, SpawnFacts DEF IInv
<1>6. trusted' \in BOOLEAN
  BY <1>1, Zenon
<1>7. NoStuckSync' /\ Followed'
  <2>1. CASE Gap(state, e)
    <3>1. m.spawned = 1
      <4> HIDE DEF start
      <4>1. m.spawned = start.spawned + 1
        BY <1>2, <1>3, <2>1, CheckedFacts
      <4> HIDE DEF m
      <4> QED
        BY <1>3, <4>1
    <3>2. state'.synced = FALSE
      <4>1. m.st = [FreshState EXCEPT !.buffer = <<e>>, !.syncing = TRUE]
        BY <2>1 DEF ApplyChecked
      <4>2. \A f \in SyncStates : \A b : [f EXCEPT !.buffer = b, !.syncing = TRUE].synced = f.synced
        BY DEF SyncStates
      <4> HIDE DEF m
      <4> QED
        BY <1>1, <4>1, <4>2, FreshTyped DEF States
    <3> HIDE DEF m
    <3>3. tasks' # <<>>
      BY <1>5, <3>1
    <3> QED
      BY <3>2, <3>3, Unsynced DEF NoStuckSync
  <2>2. CASE ~Gap(state, e)
    <3>1. /\ m.spawned = 0 /\ m.book = ApplyLevels(book, e) /\ m.st.prev_final_u = e.u
          /\ m.st = [state EXCEPT !.prev_final_u = e.u]
      BY <1>2, <1>3, <2>2, CheckedFacts
    <3> HIDE DEF m
    <3>2. /\ state'.syncing = state.syncing /\ state'.synced = state.synced
          /\ state'.last_update_id = state.last_update_id
      BY <1>1, <3>1 DEF IInv, States, SyncStates
    <3>3. NoStuckSync'
      BY <1>5, <3>2 DEF NoStuckSync, IInv
    <3>4. Followed'
      <4> SUFFICES ASSUME trusted'
                   PROVE  /\ state.last_update_id # None
                          /\ Tracks(ApplyLevels(book, e), state.last_update_id, e.u)
        BY <1>1, <3>1, <3>2 DEF Followed, Tracks, BookAt
      <4>1. /\ state.last_update_id # None
            /\ Tracks(book, state.last_update_id, state.prev_final_u)
        BY <1>1 DEF IInv, Followed
      <4>2. /\ state.last_update_id \in Nat /\ state.prev_final_u \in Nat \cup {None}
            /\ book \in Books
        BY <4>1 DEF IInv, States, SyncStates
      <4>3. /\ state.prev_final_u = None => e.U <= state.last_update_id + 1
            /\ state.prev_final_u # None => e.U = state.prev_final_u + 1
        BY <1>1, <2>2 DEF Gap
      <4> QED
        BY <1>2, <4>1, <4>2, <4>3, EventTracks
    <3> QED
      BY <3>3, <3>4
  <2> QED
    BY <2>1, <2>2
<1>8. state' \in States /\ book' \in Books
  BY <1>1, <1>4 DEF Machines
<1> HIDE DEF m, start
<1> QED
  BY <1>1, <1>2, <1>5, <1>6, <1>7, <1>8 DEF IInv, ApplyEvent

(* A task that ends or waits on leaves the book and the stream alone.        *)
LEMMA TaskMoves ==
  ASSUME IInv, tasks' \in Seq(TasksUpTo(exchange)),
         state.syncing => tasks' # <<>>,
         UNCHANGED <<envVars, state, book, generation, trusted>>
  PROVE  IInv'
<1>1. NoStuckSync' /\ Followed'
  BY DEF IInv, NoStuckSync, Followed, Tracks, BookAt, envVars
<1> QED
  BY <1>1 DEF IInv, envVars

LEMMA TaskSteps ==
  ASSUME IInv, NEW i \in DOMAIN tasks, TaskStep(i)
  PROVE  IInv'
<1>1. /\ tasks \in Seq(TasksUpTo(exchange)) /\ tasks[i] \in TasksUpTo(exchange)
      /\ tasks[i] \in Tasks /\ exchange \in Nat
  BY UpdatesAre DEF IInv, TasksUpTo
<1>2. CASE Answered(i)
  <2>1. PICK s \in (exchange - MaxLag) .. exchange :
          s >= 0 /\ tasks' = [tasks EXCEPT ![i] =
                                 [@ EXCEPT !.snap = s, !.lost = disconnects]]
    BY <1>2 DEF Answered
  <2> DEFINE t == [tasks[i] EXCEPT !.snap = s, !.lost = disconnects]
  <2>2. t \in TasksUpTo(exchange)
    <3>1. s \in Nat /\ disconnects \in Nat /\ s <= exchange
      BY <1>1, <2>1, DepthAssumption DEF IInv
    <3>2. t \in Tasks /\ t.snap = s
      BY <1>1, <3>1 DEF Tasks
    <3> HIDE DEF t
    <3> QED BY <3>1, <3>2 DEF TasksUpTo
  <2>3. tasks' = [tasks EXCEPT ![i] = t]
    BY <2>1
  <2> HIDE DEF t
  <2>4. tasks' \in Seq(TasksUpTo(exchange)) /\ tasks' # <<>>
    BY <1>1, <2>2, <2>3, ReplaceTyped
  <2> QED BY <1>2, <2>4, TaskMoves DEF Answered
<1>3. CASE FetchFails(i)
  <2> DEFINE t == [NewTask EXCEPT !.attempt = tasks[i].attempt + 1]
  <2>1. t \in TasksUpTo(exchange)
    <3>1. t = [attempt |-> tasks[i].attempt + 1, snap |-> None, lost |-> 0]
      BY DEF NewTask
    <3>2. tasks[i].attempt + 1 \in 1 .. Attempts
      BY <1>1, <1>3, DepthAssumption DEF FetchFails, Tasks
    <3> QED
      BY <3>1, <3>2 DEF Tasks, TasksUpTo
  <2>2. tasks' = [tasks EXCEPT ![i] = t]
    BY <1>3 DEF FetchFails
  <2> HIDE DEF t
  <2>3. tasks' \in Seq(TasksUpTo(exchange)) /\ tasks' # <<>>
    BY <1>1, <2>1, <2>2, ReplaceTyped
  <2> QED BY <1>3, <2>3, TaskMoves DEF FetchFails
<1>4. CASE GiveUp(i)
  <2>1. tasks' \in Seq(TasksUpTo(exchange))
    BY <1>1, <1>4, RemoveTyped DEF GiveUp
  <2>2. /\ state' \in States /\ state'.syncing = FALSE /\ state'.synced = state.synced
        /\ state'.last_update_id = state.last_update_id
        /\ state'.prev_final_u = state.prev_final_u
    BY <1>4 DEF IInv, GiveUp, States, SyncStates
  <2>3. NoStuckSync' /\ Followed'
    <3>1. book' = book /\ trusted' = trusted
      BY <1>4 DEF GiveUp
    <3>2. trusted' /\ state'.synced =>
            /\ state'.last_update_id # None
            /\ Tracks(book', state'.last_update_id, state'.prev_final_u)
      BY <2>2, <3>1 DEF IInv, Followed
    <3> QED
      BY <2>2, <3>2, FollowedNext DEF NoStuckSync
  <2> QED
    BY <1>4, <2>1, <2>2, <2>3 DEF IInv, GiveUp, envVars
<1>5. ASSUME tasks[i].snap # None
      PROVE  tasks[i].snap \in Updates \cup {0}
  <2>1. tasks[i].snap \in Nat /\ tasks[i].snap <= exchange
    BY <1>1, <1>5 DEF TasksUpTo, Tasks
  <2> QED
    BY <2>1, UpdatesAre DEF IInv
<1>6. CASE MissSyncPoint(i)
  <2>1. tasks' \in Seq(TasksUpTo(exchange))
    BY <1>1, <1>6, RemoveTyped DEF MissSyncPoint
  <2>2. book' \in Books
    BY <1>5, <1>6, BookAtType DEF MissSyncPoint
  <2>3. state' \in States /\ state'.syncing = FALSE /\ state'.synced = FALSE
    BY <1>6, FreshTyped DEF MissSyncPoint
  <2>4. NoStuckSync' /\ Followed'
    BY <2>3, Unsynced DEF NoStuckSync
  <2> QED
    BY <1>6, <2>1, <2>2, <2>3, <2>4 DEF IInv, MissSyncPoint, envVars
<1>7. CASE CompleteSync(i)
  <2> DEFINE s == tasks[i].snap
             m == Replay(s)
  <2>1. /\ s # None /\ (Residual(s) # <<>> => SyncPoint(s))
        /\ book' = m.book /\ tasks' = Spawn(RemoveAt(tasks, i), m.spawned)
        /\ generation' = generation + 1
        /\ trusted' = (state.prev_final_u = None /\ m.spawned = 0)
        /\ UNCHANGED envVars
    BY <1>7 DEF CompleteSync
  <2>2. s \in Updates \cup {0}
    BY <1>5, <2>1
  <2>3. state \in States
    BY DEF IInv
  <2>4. m \in Machines
    BY <2>2, <2>3, ReplayType
  <2>5. tasks' \in Seq(TasksUpTo(exchange))
    <3>1. m.spawned \in Nat
      BY <2>4 DEF Machines
    <3> HIDE DEF m, s
    <3> QED
      BY <1>1, <2>1, <3>1, NewTaskTyped, RemoveTyped, SpawnFacts
  <2>6. state' = [synced |-> TRUE, syncing |-> FALSE, buffer |-> <<>>,
                  last_update_id |-> m.st.last_update_id, prev_final_u |-> m.st.prev_final_u]
    BY <1>7 DEF CompleteSync
  <2>7. /\ m.st.last_update_id \in Nat \cup {None} /\ m.st.prev_final_u \in Nat \cup {None}
        /\ m.book \in Books
    BY <2>4 DEF Machines, States, SyncStates
  <2>8. trusted' => m.st.last_update_id = s /\ Tracks(m.book, s, m.st.prev_final_u)
    <3> HIDE DEF s
    <3> QED
      BY <2>1, <2>2, <2>3, ReplayFollows
  <2> HIDE DEF m
  <2>9. state' \in States
    <3>1. <<>> \in Seq(Events) /\ <<>> \in Seq(Whole)
      BY EmptySeq
    <3>2. state' \in SyncStates
      BY <2>6, <2>7, <3>1, Zenon DEF SyncStates
    <3>3. state'.buffer = <<>>
      BY <2>6
    <3> QED
      BY <3>1, <3>2, <3>3 DEF States
  <2>10. /\ state'.syncing = FALSE /\ state'.last_update_id = m.st.last_update_id
         /\ state'.prev_final_u = m.st.prev_final_u
    BY <2>6
  <2>11. NoStuckSync' /\ Followed'
    <3>1. trusted' => s # None
      BY <2>1
    <3> HIDE DEF s
    <3>2. trusted' => /\ state'.last_update_id # None
                      /\ Tracks(book', state'.last_update_id, state'.prev_final_u)
      BY <2>1, <2>8, <2>10, <3>1
    <3> QED
      BY <2>10, <3>2, FollowedNext DEF NoStuckSync
  <2>12. trusted' \in BOOLEAN
    BY <2>1, Zenon
  <2> HIDE DEF s
  <2> QED
    BY <2>1, <2>5, <2>7, <2>9, <2>11, <2>12 DEF IInv, envVars
<1> QED BY <1>2, <1>3, <1>4, <1>6, <1>7 DEF TaskStep

LEMMA MarkStep ==
  ASSUME IInv, MarkDesynced
  PROVE  /\ state' \in States /\ book' \in Books /\ NoStuckSync' /\ Followed'
         /\ tasks' = tasks /\ generation' = generation /\ trusted' = trusted
<1>1. state' \in States /\ state'.syncing = FALSE /\ state'.synced = FALSE
  BY FreshTyped DEF MarkDesynced
<1>2. book' \in Books
  BY DEF MarkDesynced, EmptyBook, Books
<1> QED
  BY <1>1, <1>2, Unsynced DEF MarkDesynced, NoStuckSync

LEMMA EnvironmentStep ==
  ASSUME IInv, Environment
  PROVE  IInv'
<1>1. exchange \in Nat /\ sent \in 0 .. exchange /\ MaxDrops \in Nat /\ MaxDisconnects \in Nat
  BY UpdatesAre, DepthAssumption DEF IInv
<1>2. ASSUME UNCHANGED <<state, book, tasks, generation, trusted>>
      PROVE  NoStuckSync' /\ Followed'
  BY <1>2 DEF IInv, NoStuckSync, Followed, Tracks, BookAt
<1>3. CASE ExchangeUpdate
  <2>1. tasks' \in Seq(TasksUpTo(exchange + 1))
    <3>1. TasksUpTo(exchange) \subseteq TasksUpTo(exchange + 1)
      BY <1>1 DEF TasksUpTo, Tasks
    <3> QED
      BY <1>3, <3>1, SeqMonotonic DEF ExchangeUpdate, IInv
  <2> QED
    BY <1>1, <1>2, <1>3, <2>1 DEF ExchangeUpdate, IInv
<1>4. CASE Emit
  <2> DEFINE e == [U |-> sent + 1, u |-> exchange]
  <2>1. e \in Whole
    BY <1>1, <1>4, UpdatesAre DEF Emit, Whole, Events, IInv
  <2>2. wire' = Append(wire, e) /\ sent' = exchange
    BY <1>4 DEF Emit
  <2> HIDE DEF e
  <2>3. wire' \in Seq(Whole)
    BY <2>1, <2>2 DEF IInv
  <2> QED
    BY <1>1, <1>2, <1>4, <2>2, <2>3 DEF Emit, IInv
<1>5. CASE LoseEvent
  <2>1. drops' \in 0 .. MaxDrops /\ sent' \in 0 .. exchange
    BY <1>1, <1>5 DEF LoseEvent, IInv
  <2> QED
    BY <1>2, <1>5, <2>1 DEF LoseEvent, IInv
<1>6. CASE Connect
  BY <1>1, <1>2, <1>6 DEF Connect, IInv
<1>7. CASE ConnectFails
  BY <1>7, MarkStep DEF ConnectFails, IInv, envVars
<1>8. CASE Disconnect
  <2>1. disconnects' \in 0 .. MaxDisconnects /\ wire' \in Seq(Whole)
    BY <1>1, <1>8, EmptySeq DEF Disconnect, IInv
  <2> QED
    BY <1>8, <2>1, MarkStep DEF Disconnect, IInv
<1> QED BY <1>3, <1>4, <1>5, <1>6, <1>7, <1>8 DEF Environment

LEMMA Inductive == IInv /\ [Next]_depthVars => IInv'
<1> SUFFICES ASSUME IInv, [Next]_depthVars PROVE IInv'
  OBVIOUS
<1>1. CASE UNCHANGED depthVars
  <2>1. NoStuckSync' /\ Followed'
    BY <1>1 DEF depthVars, IInv, NoStuckSync, Followed, Tracks, BookAt
  <2> QED
    BY <1>1, <2>1 DEF depthVars, IInv
<1> QED BY <1>1, EnvironmentStep, BufferStep, ApplyStep, TaskSteps DEF Next

THEOREM Invariance == Spec => []IInv
BY Initially, Inductive, PTL DEF Spec

-----------------------------------------------------------------------------
(* The stream, the sync state and the book keep their types, whatever is     *)
(* lost, late or repeated (_SyncState, depth_stream_manager.py 60-75).       *)
THEOREM TypeCorrect == Spec => []TypeOK
<1>1. IInv => TypeOK
  <2> SUFFICES ASSUME IInv PROVE TypeOK
    OBVIOUS
  <2>1. wire \in Seq(Events)
    BY SeqMonotonic DEF IInv, Whole
  <2>2. tasks \in Seq(Tasks)
    BY SeqMonotonic DEF IInv, TasksUpTo
  <2>3. sent \in Updates \cup {0}
    BY UpdatesAre DEF IInv
  <2> QED
    BY <2>1, <2>2, <2>3 DEF IInv, TypeOK, States, Books
<1> QED BY <1>1, Invariance, PTL

(* Whatever is lost, fails, resets or overlaps, a raised syncing flag has a  *)
(* _sync task behind it (depth_stream_manager.py 232-348, 373-385).          *)
THEOREM SyncNeverStuck == Spec => []NoStuckSync
<1>1. IInv => NoStuckSync
  BY DEF IInv
<1> QED BY <1>1, Invariance, PTL

(* A repair that met no gap gives the exchange's own book, and the events    *)
(* that continue it keep it so at the cursor, however many repairs overlap   *)
(* and however far the snapshots lag (_sync and _apply_event, 268-371).      *)
THEOREM BookFollowsExchange == Spec => []BookMatchesCursor
<1>1. IInv => BookMatchesCursor
  BY DEF IInv, Followed, Tracks, BookMatchesCursor
<1> QED BY <1>1, Invariance, PTL
=============================================================================
