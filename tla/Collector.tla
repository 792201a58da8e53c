------------------------------- MODULE Collector -------------------------------
(***************************************************************************)
(* The depth path of the collector (market_data/collector.py): an event     *)
(* goes to the depth manager, then to the depth file with a baseline after  *)
(* every sync, then to the C++ mirror, which is reloaded after every sync.  *)
(* The depth manager is taken at its interface, as DepthSync describes it:  *)
(* repairs complete between any two messages, and what they leave need not  *)
(* be the exchange's book; a lost event is noticed when there is a cursor.  *)
(***************************************************************************)
EXTENDS EngineMirror, WsClient

CONSTANTS
  MaxSyncs,    \* bound: repairs completed
  MaxLosses,   \* bound: events lost
  MaxEvents,   \* bound: changes of the exchange's book
  MaxChanges,  \* bound: levels one event changes
  MaxDrift     \* bound: levels a repair leaves otherwise than the exchange has them

ASSUME CollectorAssumption ==
  /\ MaxSyncs \in Nat /\ MaxLosses \in Nat /\ MaxEvents \in Nat /\ MaxChanges \in Nat
  /\ MaxDrift \in Nat

VARIABLES
  exchange,      \* the exchange's book
  seen,          \* ghost: the sizes each of its levels has had
  local,         \* depth_mgr.book
  synced,        \* depth_mgr.is_synced
  cursor,        \* what the manager checks the next event by: "none" is nothing,
                 \* "next" what it follows, "behind" what it does not follow
  generation,    \* depth_mgr.sync_generation
  events, losses, \* the exchange's events so far, and those lost
  clean,         \* ghost: no event since the mirror was loaded crossed the local book
  mirrorGen,     \* self._mirror_generation
  writtenGen,    \* self._written_snapshot_generation
  recorded,      \* ghost: the book a reader gets from the last baseline on
  captured,      \* ghost: the book load_capture has after the rows so far
  fresh          \* ghost: the last sync came after the last lost connection

depthVars == <<local, synced, cursor, generation, fresh>>
sinkVars == <<mirror, mirrorGen, clean, writtenGen, recorded, captured>>
exchangeVars == <<exchange, seen, events, losses>>
collectorVars ==
  <<wsVars, depthVars, sinkVars, exchangeVars>>

Cursors == {"none", "next", "behind"}

EmptyLocal == [side \in Sides |-> [p \in Prices |-> 0]]

Uncrossed(book) ==
  \A b, a \in Prices : book["bid"][b] > 0 /\ book["ask"][a] > 0 => b < a

(* apply_levels of the event e, the changes from one book to another.        *)
Apply(book, e) ==
  [side \in Sides |->
     [p \in Prices |-> IF e[side][p] = -1 THEN book[side][p] ELSE e[side][p]]]

(* What the exchange can send: each level given really changes, and its book *)
(* never crosses.                                                            *)
LevelSets == {c \in SUBSET (Sides \X Prices) : Cardinality(c) \in 1 .. MaxChanges}

EventFor(sizes) ==
  [side \in Sides |->
     [p \in Prices |-> IF <<side, p>> \in DOMAIN sizes THEN sizes[<<side, p>>] ELSE -1]]

ExchangeEvents ==
  {e \in {EventFor(sizes) : sizes \in UNION {[c -> Qtys \cup {0}] : c \in LevelSets}} :
     /\ \A side \in Sides, p \in Prices : e[side][p] # exchange[side][p]
     /\ Uncrossed(Apply(exchange, e))}

Moves(e) ==
  /\ events < MaxEvents
  /\ events' = events + 1
  /\ exchange' = Apply(exchange, e)
  /\ seen' = [side \in Sides |-> [p \in Prices |-> seen[side][p] \cup {exchange'[side][p]}]]

Init ==
  /\ WsInit
  /\ exchange = EmptyLocal /\ local = EmptyLocal
  /\ seen = [side \in Sides |-> [p \in Prices |-> {0}]]
  /\ synced = FALSE /\ cursor = "none" /\ generation = 0
  /\ events = 0 /\ losses = 0 /\ clean = FALSE
  /\ mirror = NewMirror /\ mirrorGen = 0 /\ writtenGen = 0 /\ recorded = EmptyLocal
  /\ captured = EmptyLocal
  /\ fresh = FALSE

-----------------------------------------------------------------------------
(* _on_disconnect and mark_desynced.                                         *)
OnDisconnect ==
  /\ local' = EmptyLocal
  /\ synced' = FALSE /\ cursor' = "none" /\ fresh' = FALSE
  /\ UNCHANGED generation

Connect ==
  /\ Opened
  /\ UNCHANGED <<depthVars, sinkVars, exchangeVars>>

ConnectFails ==
  /\ OpenFails
  /\ OnDisconnect
  /\ UNCHANGED <<sinkVars, exchangeVars>>

ConnectionBreaks ==
  /\ Breaks
  /\ OnDisconnect
  /\ UNCHANGED <<sinkVars, exchangeVars>>

(* Mistake: a clean end is no disconnect.                                    *)
EndUnreported ==
  /\ EndsCleanly
  /\ fresh' = FALSE
  /\ UNCHANGED <<local, synced, cursor, generation, sinkVars,
                 exchangeVars>>

ConnectionEnds ==
  /\ EndsCleanly
  /\ IF stopped THEN UNCHANGED depthVars ELSE OnDisconnect
  /\ UNCHANGED <<sinkVars, exchangeVars>>

Reconnect ==
  /\ Wake
  /\ UNCHANGED <<depthVars, sinkVars, exchangeVars>>

Stop ==
  /\ StopClient
  /\ UNCHANGED <<depthVars, sinkVars, exchangeVars>>

(* What a repair leaves, level by level: a snapshot, of now or of a while    *)
(* ago, with events applied over it that it may already have had             *)
(* (depth_stream_manager.py:327-348).                                        *)
Repaired(book) ==
  /\ \A side \in Sides, p \in Prices : book[side][p] \in seen[side][p]
  /\ Cardinality({l \in Sides \X Prices : book[l[1]][l[2]] # exchange[l[1]][l[2]]}) <= MaxDrift

(* _sync completes, on whatever connection (DepthSync's first finding), also *)
(* late, beside a book that is already live.                                 *)
SyncCompletes ==
  /\ link # "ended" /\ generation < MaxSyncs
  /\ generation' = generation + 1
  /\ \E book \in LocalBooks : Repaired(book) /\ local' = book
  /\ synced' = TRUE /\ fresh' = TRUE
  /\ cursor' \in Cursors
  /\ UNCHANGED <<wsVars, sinkVars, exchangeVars>>

(* The exchange moves and its event never comes: lost, or sent while the     *)
(* connection was down.                                                      *)
EventLost ==
  /\ losses < MaxLosses
  /\ losses' = losses + 1
  /\ \E e \in ExchangeEvents : Moves(e)
  /\ cursor' = IF cursor = "none" THEN "none" ELSE "behind"
  /\ UNCHANGED <<wsVars, sinkVars, local, synced, generation, fresh>>

-----------------------------------------------------------------------------
(* Mistake: the baseline is written and loaded once.                         *)
FirstOnly(done) == done = 0

Outdated(done) == generation > done

Baseline(done) == Outdated(done)

(* Mistake: a sync since the last event does not reload the mirror.          *)
MirrorOnlyFirst(e) ==
  IF mirrorGen = 0 THEN LoadSnapshot(mirror, local') ELSE ApplyToMirror(mirror, e)

MirrorAfter(e) ==
  IF Outdated(mirrorGen) THEN LoadSnapshot(mirror, local') ELSE ApplyToMirror(mirror, e)

(* load_capture (backtest/data.py:160-162) applies the rows of a baseline to *)
(* the book it has, as it applies those of an event.                         *)
Rows(book) ==
  [side \in Sides |-> [p \in Prices |-> IF book[side][p] = 0 THEN -1 ELSE book[side][p]]]

CaptureAfter(baseline, e) ==
  Apply(IF Baseline(writtenGen) THEN Apply(captured, Rows(baseline)) ELSE captured, e)

(* Steps 3 to 5 of _handle_depth, once the manager has applied the event.    *)
Distribute(e) ==
  /\ recorded' = Apply(IF Baseline(writtenGen) THEN local' ELSE recorded, e)
  /\ captured' = CaptureAfter(local', e)
  /\ writtenGen' = generation
  /\ mirror' = MirrorAfter(e)
  /\ mirrorGen' = generation
  /\ clean' = (Uncrossed(local') /\ (Outdated(mirrorGen) \/ clean))

(* A writer raises: the rest of _handle_depth is skipped, and the client     *)
(* takes the exception for a lost connection.                                *)
WriterRaises(e) ==
  /\ Breaks
  /\ OnDisconnect
  /\ \/ writtenGen < generation /\ UNCHANGED <<recorded, captured, writtenGen>>
     \/ /\ recorded' = IF Baseline(writtenGen) THEN Apply(local, e) ELSE recorded
        /\ captured' = IF Baseline(writtenGen) THEN Apply(captured, Rows(Apply(local, e))) ELSE captured
        /\ writtenGen' = generation
  /\ UNCHANGED <<mirror, mirrorGen, clean>>

(* handle_event finds a gap: the manager starts over.                        *)
Gap == cursor = "behind"

HandleDepth ==
  /\ link = "open"
  /\ \E e \in ExchangeEvents :
       /\ Moves(e)
       /\ \/ /\ ~synced
             /\ UNCHANGED <<wsVars, depthVars, sinkVars>>
          \/ /\ synced /\ Gap
             /\ synced' = FALSE /\ cursor' = "none"
             /\ UNCHANGED <<wsVars, local, generation, fresh, sinkVars>>
          \/ /\ synced /\ ~Gap
             /\ local' = Apply(local, e)
             /\ cursor' = "next"
             /\ Distribute(e)
             /\ UNCHANGED <<wsVars, synced, generation, fresh>>
          \/ synced /\ ~Gap /\ WriterRaises(e)
  /\ UNCHANGED losses

Next ==
  \/ Connect
  \/ ConnectFails
  \/ ConnectionBreaks
  \/ ConnectionEnds
  \/ Reconnect
  \/ Stop
  \/ SyncCompletes
  \/ EventLost
  \/ HandleDepth

(* The event loop wakes a sleep and ends a connect (open_timeout, 15 s).     *)
Fairness == WF_collectorVars(Reconnect) /\ WF_collectorVars(Connect \/ ConnectFails)

Spec == Init /\ [][Next]_collectorVars
FairSpec == Spec /\ Fairness

-----------------------------------------------------------------------------
TypeOK ==
  /\ link \in {"connecting", "open", "sleeping", "ended"}
  /\ backoff \in 1 .. MaxBackoff /\ stopped \in BOOLEAN
  /\ exchange \in LocalBooks /\ local \in LocalBooks /\ recorded \in LocalBooks
  /\ captured \in LocalBooks
  /\ synced \in BOOLEAN /\ cursor \in Cursors /\ clean \in BOOLEAN
  /\ {generation, mirrorGen, writtenGen} \subseteq 0 .. MaxSyncs
  /\ events \in 0 .. MaxEvents /\ losses \in 0 .. MaxLosses
  /\ seen \in [Sides -> [Prices -> SUBSET (Qtys \cup {0})]]
  /\ mirror \in Mirrors
  /\ fresh \in BOOLEAN

(* The module docstring of engine_mirror.py (7-11): the C++ book holds one   *)
(* order for each level the bridge knows, never crosses, and never trades,   *)
(* also when a lost event has left the local book stale or crossed.          *)
EngineTwin ==
  /\ mirror.engine = mirror.levels
  /\ mirror.trades = 0
  /\ \A b, a \in Ticks :
       mirror.engine["bid"][b] > 0 /\ mirror.engine["ask"][a] > 0 => b < a

(* engine_mirror.py:3-5: after every update the mirror is the local book,    *)
(* level by level, however syncs, gaps, failing writers and reconnects fall  *)
(* between events.  A repair may leave a local book that crosses, or an      *)
(* event cross it: the bridge then drops levels that it takes for stale      *)
(* (11-12), until it is loaded anew, and has the local size of all others.   *)
MirrorExact ==
  synced /\ mirrorGen = generation =>
    /\ \A side \in Sides, t \in Ticks :
         mirror.levels[side][t] \in {0, LotsOfBook(local)[side][t]}
    /\ clean => mirror.levels = LotsOfBook(local)

(* collector.py:288-291: the last baseline and the rows after it rebuild the *)
(* local book, also where it is not the exchange's.                          *)
RecordedRebuildsBook == synced /\ writtenGen = generation => recorded = local

(* What the comments say of the capture: rows are kept "to correctly         *)
(* reconstruct historical books" (collector.py:279), and a capture that      *)
(* starts with a baseline gives the book (backtest/data.py:137-138).  It     *)
(* fails after a repair: levels gone meanwhile are not in the new baseline,  *)
(* and load_capture keeps them.                                              *)
CaptureRebuildsBook == synced /\ writtenGen = generation => captured = local

(* binance_ws_client.py:116-119: a depth cursor never crosses a connection   *)
(* boundary: a synced book was synced since the last connection was lost.    *)
CursorOfConnection == synced /\ link # "ended" => fresh

(* A client that is stopped while it has no connection ends, or opens the    *)
(* one it was already waiting for.                                           *)
StoppedClientEnds ==
  stopped /\ link \in {"sleeping", "connecting"} ~> link \in {"ended", "open"}
=============================================================================
