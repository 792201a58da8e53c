------------------------------- MODULE DepthSync -------------------------------
(***************************************************************************)
(* Reconstruction of one exchange book from a diff stream and REST          *)
(* snapshots: DepthStreamManager (market_data/depth_stream_manager.py)      *)
(* driven by the receive loop of BinanceWSClient.run, with the exchange and *)
(* the network as environment.  handle_event, mark_desynced and the stretch *)
(* of _sync after its last await each run without interruption in asyncio,  *)
(* so each is one action; the awaits of _sync are where actions interleave. *)
(***************************************************************************)
EXTENDS Integers, Sequences, FiniteSets, SequencesExt, Selection

CONSTANTS
  PriceLevels,     \* the price levels of the book
  Touches,         \* update id -> the level it sets
  Removals,        \* the update ids that remove their level
  MaxLag,          \* how far a REST snapshot may trail the stream
  Attempts,        \* REST attempts of one _sync (3 in the code)
  MaxTasks,        \* bound: _sync tasks alive at once
  MaxWire,         \* bound: events in flight on the socket
  MaxDrops,        \* bound: events lost on the way
  MaxDisconnects,  \* bound: connections lost
  None

Updates == DOMAIN Touches

ASSUME DepthAssumption ==
  /\ Touches \in Seq(PriceLevels)
  /\ Removals \subseteq Updates
  /\ MaxLag \in Nat /\ Attempts \in Nat \ {0} /\ MaxTasks \in Nat \ {0}
  /\ MaxWire \in Nat \ {0} /\ MaxDrops \in Nat /\ MaxDisconnects \in Nat
  /\ None \notin Nat

VARIABLES
  exchange,   \* the exchange's last update id
  link,       \* the socket: "up" or "down"
  sent,       \* last update id the exchange put on this connection
  wire,       \* depth events in flight, oldest first
  drops, disconnects,   \* faults so far
  state,      \* self._state, a _SyncState
  book,       \* self.book, a LocalOrderBook
  tasks,      \* the _sync tasks alive, oldest first
  generation, \* self._sync_generation
  trusted     \* ghost: the last repair was whole and nothing was missed since

envVars == <<exchange, link, sent, wire, drops, disconnects>>
depthVars == <<exchange, link, sent, wire, drops, disconnects,
               state, book, tasks, generation, trusted>>

Events == [U : Updates, u : Updates]

SyncStates ==
  [synced : BOOLEAN, syncing : BOOLEAN, last_update_id : Nat \cup {None},
   prev_final_u : Nat \cup {None}, buffer : Seq(Events)]

(* A task awaits the answer to its request (snap = None) or its own turn on  *)
(* the event loop with snapshot `snap' on its way; `lost' is how many        *)
(* connections had been lost when the server took that snapshot (ghost).     *)
Tasks == [attempt : 1 .. Attempts, snap : Nat \cup {None}, lost : Nat]

FreshState ==
  [synced |-> FALSE, syncing |-> FALSE, last_update_id |-> None,
   prev_final_u |-> None, buffer |-> <<>>]

NewTask == [attempt |-> 1, snap |-> None, lost |-> 0]

(* The exchange's book after update n: the id of the update that set each    *)
(* level, 0 where there is no level.                                         *)
BookAt(n) ==
  [l \in PriceLevels |->
     LET K == {k \in 1 .. n : Touches[k] = l} IN
     IF K = {} \/ Max(K) \in Removals THEN 0 ELSE Max(K)]

EmptyBook == [l \in PriceLevels |-> 0]

(* apply_levels: an event carries the absolute quantity, as of update u, of  *)
(* every level its updates touched.                                          *)
ApplyLevels(b, e) ==
  [l \in PriceLevels |->
     IF \E n \in e.U .. e.u : Touches[n] = l THEN BookAt(e.u)[l] ELSE b[l]]

-----------------------------------------------------------------------------
(* _apply_event on [st, book, spawned]: a gap replaces the state by one that *)
(* is already syncing and starts a task; otherwise the levels are applied    *)
(* and the cursor moves.                                                     *)
(* Mistake: only an event that overlaps the last one counts as a gap.        *)
OverlapOnly(st, e) == st.prev_final_u # None /\ e.U < st.prev_final_u + 1

Gap(st, e) == st.prev_final_u # None /\ e.U # st.prev_final_u + 1

Apply(m, e) ==
  [m EXCEPT !.book = ApplyLevels(@, e), !.st.prev_final_u = e.u]

ApplyChecked(m, e) ==
  IF Gap(m.st, e)
  THEN [m EXCEPT !.st = [FreshState EXCEPT !.buffer = <<e>>, !.syncing = TRUE],
                 !.spawned = @ + 1]
  ELSE Apply(m, e)

(* Steps 2 to 5 of _sync, run when the snapshot has arrived.  The loop goes   *)
(* on over the old list even when a gap has replaced the state.               *)
Residual(last_id) == Select(state.buffer, {e \in Events : e.u > last_id})

SyncPoint(last_id) ==
  LET first == Residual(last_id)[1]
  IN first.U <= last_id + 1 /\ last_id + 1 <= first.u

Replay(last_id) ==
  LET residual == Residual(last_id)
      start == [st |-> [state EXCEPT !.last_update_id = last_id, !.buffer = residual],
                book |-> BookAt(last_id), spawned |-> 0]
  IN IF residual = <<>> THEN start
     ELSE FoldLeft(ApplyChecked, Apply(start, Head(residual)), Tail(residual))

Spawn(ts, k) == ts \o [i \in 1 .. k |-> NewTask]

-----------------------------------------------------------------------------
Init ==
  /\ exchange = 0 /\ link = "down" /\ sent = 0 /\ wire = <<>>
  /\ drops = 0 /\ disconnects = 0
  /\ state = FreshState /\ book = EmptyBook
  /\ tasks = <<>> /\ generation = 0 /\ trusted = FALSE

-----------------------------------------------------------------------------
(* The exchange and the network.                                            *)
ExchangeUpdate ==
  /\ exchange + 1 \in Updates
  /\ exchange' = exchange + 1
  /\ UNCHANGED <<link, sent, wire, drops, disconnects, state, book, tasks,
                 generation, trusted>>

(* The 100 ms batch: one event for all updates since the last one.           *)
Emit ==
  /\ link = "up" /\ sent < exchange /\ Len(wire) < MaxWire
  /\ wire' = Append(wire, [U |-> sent + 1, u |-> exchange])
  /\ sent' = exchange
  /\ UNCHANGED <<exchange, link, drops, disconnects, state, book, tasks,
                 generation, trusted>>

LoseEvent ==
  /\ link = "up" /\ sent < exchange /\ drops < MaxDrops
  /\ sent' = exchange
  /\ drops' = drops + 1
  /\ UNCHANGED <<exchange, link, wire, disconnects, state, book, tasks,
                 generation, trusted>>

(* BinanceWSClient.run: the connection opens; the stream starts from now.    *)
Connect ==
  /\ link = "down"
  /\ link' = "up" /\ sent' = exchange
  /\ UNCHANGED <<exchange, wire, drops, disconnects, state, book, tasks,
                 generation, trusted>>

(* mark_desynced, called through on_disconnect.  Tasks keep running.         *)
MarkDesynced ==
  /\ state' = FreshState
  /\ book' = EmptyBook
  /\ UNCHANGED <<tasks, generation, trusted>>

ConnectFails ==
  /\ link = "down"
  /\ MarkDesynced
  /\ UNCHANGED envVars

Disconnect ==
  /\ link = "up" /\ disconnects < MaxDisconnects
  /\ link' = "down" /\ wire' = <<>>
  /\ disconnects' = disconnects + 1
  /\ MarkDesynced
  /\ UNCHANGED <<exchange, sent, drops>>

-----------------------------------------------------------------------------
(* handle_event before sync: buffer, and start a repair if none is flagged.  *)
BufferEvent ==
  /\ wire # <<>> /\ ~state.synced
  /\ state' = [state EXCEPT !.buffer = Append(@, Head(wire)), !.syncing = TRUE]
  /\ IF state.syncing THEN UNCHANGED tasks
     ELSE /\ Len(tasks) < MaxTasks
          /\ tasks' = Spawn(tasks, 1)
  /\ wire' = Tail(wire)
  /\ UNCHANGED <<exchange, link, sent, drops, disconnects, book, generation,
                 trusted>>

(* handle_event after sync: _apply_event with the continuity check.          *)
ApplyEvent ==
  /\ wire # <<>> /\ state.synced
  /\ LET e == Head(wire)
         m == ApplyChecked([st |-> state, book |-> book, spawned |-> 0], e)
     IN
     /\ Len(tasks) + m.spawned <= MaxTasks
     /\ state' = m.st
     /\ book' = m.book
     /\ tasks' = Spawn(tasks, m.spawned)
     /\ trusted' = (trusted /\ (state.prev_final_u # None
                                  \/ e.U <= state.last_update_id + 1))
  /\ wire' = Tail(wire)
  /\ UNCHANGED <<exchange, link, sent, drops, disconnects, generation>>

-----------------------------------------------------------------------------
(* The awaits of _sync.                                                      *)
Answered(i) ==
  /\ tasks[i].snap = None
  /\ \E s \in (exchange - MaxLag) .. exchange :
       s >= 0 /\ tasks' = [tasks EXCEPT ![i] =
                              [@ EXCEPT !.snap = s, !.lost = disconnects]]
  /\ UNCHANGED <<envVars, state, book, generation, trusted>>

(* Mistake: one attempt too many.                                            *)
FetchFailsOnceMore(i) ==
  /\ tasks[i].attempt <= Attempts
  /\ tasks' = [tasks EXCEPT ![i] = [NewTask EXCEPT !.attempt = tasks[i].attempt + 1]]
  /\ UNCHANGED <<envVars, state, book, generation, trusted>>

(* The attempt failed: refused, timed out, or its answer was lost or late.    *)
FetchFails(i) ==
  /\ tasks[i].attempt < Attempts
  /\ tasks' = [tasks EXCEPT ![i] = [NewTask EXCEPT !.attempt = tasks[i].attempt + 1]]
  /\ UNCHANGED <<envVars, state, book, generation, trusted>>

(* Mistake: the flag stays set when the task gives up.                       *)
GiveUpFlagged(i) ==
  /\ tasks[i].attempt = Attempts
  /\ tasks' = RemoveAt(tasks, i)
  /\ UNCHANGED <<envVars, state, book, generation, trusted>>

GiveUp(i) ==
  /\ tasks[i].attempt = Attempts
  /\ state' = [state EXCEPT !.syncing = FALSE]
  /\ tasks' = RemoveAt(tasks, i)
  /\ UNCHANGED <<envVars, book, generation, trusted>>

(* Mistake: the buffer is dropped, the flag is not.                          *)
MissSyncPointFlagged(i) ==
  LET s == tasks[i].snap IN
  /\ s # None
  /\ Residual(s) # <<>> /\ ~SyncPoint(s)
  /\ state' = [state EXCEPT !.buffer = <<>>]
  /\ book' = BookAt(s)
  /\ tasks' = RemoveAt(tasks, i)
  /\ UNCHANGED <<envVars, generation, trusted>>

(* The snapshot does not meet the first residual event: the state is reset   *)
(* and the next event starts over.                                           *)
MissSyncPoint(i) ==
  LET s == tasks[i].snap IN
  /\ s # None
  /\ Residual(s) # <<>> /\ ~SyncPoint(s)
  /\ state' = FreshState
  /\ book' = BookAt(s)
  /\ tasks' = RemoveAt(tasks, i)
  /\ UNCHANGED <<envVars, generation, trusted>>

CompleteSync(i) ==
  LET s == tasks[i].snap
      m == Replay(s)
  IN
  /\ s # None
  /\ Residual(s) # <<>> => SyncPoint(s)
  /\ m.spawned \in 0 .. MaxTasks - (Len(tasks) - 1)
  /\ state' = [synced |-> TRUE, syncing |-> FALSE, buffer |-> <<>>,
               last_update_id |-> m.st.last_update_id,
               prev_final_u |-> m.st.prev_final_u]
  /\ book' = m.book
  /\ tasks' = Spawn(RemoveAt(tasks, i), m.spawned)
  /\ generation' = generation + 1
  /\ trusted' = (state.prev_final_u = None /\ m.spawned = 0)
  /\ UNCHANGED envVars

TaskStep(i) ==
  \/ Answered(i)
  \/ FetchFails(i)
  \/ GiveUp(i)
  \/ MissSyncPoint(i)
  \/ CompleteSync(i)

-----------------------------------------------------------------------------
Environment ==
  \/ ExchangeUpdate
  \/ Emit
  \/ LoseEvent
  \/ Connect
  \/ ConnectFails
  \/ Disconnect

Next ==
  \/ Environment
  \/ BufferEvent
  \/ ApplyEvent
  \/ \E i \in DOMAIN tasks : TaskStep(i)

(* The event loop runs what is ready and every REST request ends (10 s       *)
(* client timeout): a task that can take a step takes one.                   *)
Fairness == WF_depthVars(\E i \in DOMAIN tasks : TaskStep(i))

Spec == Init /\ [][Next]_depthVars
FairSpec == Spec /\ Fairness

-----------------------------------------------------------------------------
TypeOK ==
  /\ exchange \in Updates \cup {0}
  /\ link \in {"up", "down"}
  /\ sent \in Updates \cup {0}
  /\ wire \in Seq(Events)
  /\ drops \in 0 .. MaxDrops /\ disconnects \in 0 .. MaxDisconnects
  /\ state \in SyncStates
  /\ book \in [PriceLevels -> Updates \cup {0}]
  /\ tasks \in Seq(Tasks)
  /\ generation \in Nat
  /\ trusted \in BOOLEAN

(* A state that waits for a repair has one: `syncing' without a task alive   *)
(* would buffer every later event and never start another fetch              *)
(* (handle_event 243-247), whatever fails, resets or overlaps.               *)
NoStuckSync == state.syncing => tasks # <<>>

(* A repair that completes on a state without a cursor and replays without a *)
(* gap gives the exchange's own book, and applying events keeps it so at the *)
(* cursor as long as the first of them reaches back to the snapshot: however *)
(* many tasks overlap, snapshots lag and connections are lost.  While the    *)
(* stream is still behind the snapshot, each level is the exchange's at the  *)
(* cursor or at the snapshot.                                                *)
BookMatchesCursor ==
  trusted /\ state.synced =>
    LET last == state.last_update_id
        prev == state.prev_final_u
    IN IF prev = None \/ prev >= last
       THEN book = BookAt(IF prev = None THEN last ELSE prev)
       ELSE \A l \in PriceLevels : book[l] \in {BookAt(prev)[l], BookAt(last)[l]}

(* Every repair releases the flag that holds back the next one.              *)
RepairEnds == state.syncing ~> ~state.syncing

(* mark_desynced's docstring (223-225): "every reconnect begins with a new   *)
(* snapshot": no repair completes with one taken on an earlier connection.   *)
(* It fails: a task started before the disconnect outlives it.               *)
NewSnapshotPerConnection ==
  [][\A i \in DOMAIN tasks : CompleteSync(i) => tasks[i].lost = disconnects]_depthVars

(* The module docstring (25-27): every event applied continues the one       *)
(* before it, or the stream is resynced; so a synced book that has caught up *)
(* with its snapshot is the exchange's at the cursor.  It fails when an      *)
(* event is lost: the first one applied after a sync is not checked.         *)
SyncedBookIsExchangeBook ==
  state.synced /\ state.prev_final_u # None /\ state.last_update_id # None =>
    (state.prev_final_u >= state.last_update_id
       => book = BookAt(state.prev_final_u))
=============================================================================
