----------------------------- MODULE PostgresWriter ----------------------------
(***************************************************************************)
(* PostgresTradeWriter (storage/postgres_writer.py): trades are buffered by *)
(* a synchronous write and inserted by flush tasks that queue on an asyncio *)
(* lock.  A task runs without interruption between its awaits: the lock, a  *)
(* connection of the pool, the insert.  The pool and the server, asyncpg    *)
(* and PostgreSQL, are the environment.                                     *)
(***************************************************************************)
EXTENDS Naturals, Sequences

CONSTANTS
  PgFlushEvery,   \* _flush_every: rows that start a flush task (200 in the code)
  MaxReady        \* bound: flush tasks created and not run yet

ASSUME PostgresAssumption == PgFlushEvery \in Nat \ {0} /\ MaxReady \in Nat \ {0}

VARIABLES
  enabled,     \* self._enabled
  connecting,  \* connect(): at "pool", at "schema", or "over"
  pool,        \* self._pool: "none", "open", "closing" (close() awaited) or "closed"
  pgBuffer,    \* self._buffer, rows in order
  ready,       \* flush tasks created by write and not run yet
  lock,        \* the coroutines at self._lock, the holder first: "task" or "close"
  stage,       \* the holder: "none" (not resumed yet), "acquire" or "insert"
  batch,       \* to_flush of the holder
  table,       \* the rows of the trades table
  dropped      \* ghost: rows given up after an error

pgVars == <<enabled, connecting, pool, pgBuffer, ready, lock, stage, batch,
            table, dropped>>

Elements(s) == {s[i] : i \in DOMAIN s}

PgInit ==
  /\ enabled = TRUE /\ connecting = "pool" /\ pool = "none"
  /\ pgBuffer = <<>> /\ ready = 0
  /\ lock = <<>> /\ stage = "none" /\ batch = <<>>
  /\ table = {} /\ dropped = {}

(* A new process: the table stays.                                           *)
PgRestart ==
  /\ enabled' = TRUE /\ connecting' = "pool" /\ pool' = "none"
  /\ pgBuffer' = <<>> /\ ready' = 0
  /\ lock' = <<>> /\ stage' = "none" /\ batch' = <<>>
  /\ dropped' = {}
  /\ UNCHANGED table

-----------------------------------------------------------------------------
(* connect: the pool is visible to flush before the schema is checked; any   *)
(* failure, or ten seconds without an answer, disables the writer.           *)
PoolCreated ==
  /\ connecting = "pool"
  /\ connecting' = "schema" /\ pool' = "open"
  /\ UNCHANGED <<enabled, pgBuffer, ready, lock, stage, batch, table, dropped>>

SchemaVerified ==
  /\ connecting = "schema"
  /\ connecting' = "over"
  /\ UNCHANGED <<enabled, pool, pgBuffer, ready, lock, stage, batch, table, dropped>>

ConnectFailed ==
  /\ connecting # "over"
  /\ connecting' = "over" /\ enabled' = FALSE /\ pool' = "none"
  /\ UNCHANGED <<pgBuffer, ready, lock, stage, batch, table, dropped>>

(* run() cancels a connect in flight before the writer is closed: neither    *)
(* the flag nor the pool is touched.                                         *)
ConnectCancelled ==
  /\ connecting' = "over"
  /\ UNCHANGED <<enabled, pool, pgBuffer, ready, lock, stage, batch, table, dropped>>

(* write: every row at or past the threshold starts one more task.           *)
PgWrite(row) ==
  /\ IF ~enabled THEN UNCHANGED <<pgBuffer, ready>>
     ELSE /\ pgBuffer' = Append(pgBuffer, row)
          /\ ready' = IF Len(pgBuffer') >= PgFlushEvery THEN ready + 1 ELSE ready
          /\ ready' <= MaxReady
  /\ UNCHANGED <<enabled, connecting, pool, lock, stage, batch, table, dropped>>

-----------------------------------------------------------------------------
(* flush.  A coroutine that finds the lock free takes the buffer at once;    *)
(* one that waited takes it when it is resumed, and may find it empty.       *)
MayFlush == enabled /\ pgBuffer # <<>> /\ pool \in {"open", "closing"}

(* Mistake: the buffer is copied, and cleared only after the insert.         *)
TakeCopy ==
  /\ batch' = pgBuffer
  /\ stage' = "acquire"
  /\ UNCHANGED pgBuffer

TakeBuffer ==
  /\ batch' = pgBuffer /\ pgBuffer' = <<>>
  /\ stage' = "acquire"

Arrive(who) ==
  /\ lock' = Append(lock, who)
  /\ IF lock = <<>> THEN TakeBuffer ELSE UNCHANGED <<pgBuffer, stage, batch>>

(* Mistake: a task too many.                                                 *)
RunTaskTwice ==
  /\ ready >= 0
  /\ ready' = ready - 1
  /\ IF MayFlush THEN Arrive("task") ELSE UNCHANGED <<pgBuffer, lock, stage, batch>>
  /\ UNCHANGED <<enabled, connecting, pool, table, dropped>>

RunTask ==
  /\ ready > 0
  /\ ready' = ready - 1
  /\ IF MayFlush THEN Arrive("task") ELSE UNCHANGED <<pgBuffer, lock, stage, batch>>
  /\ UNCHANGED <<enabled, connecting, pool, table, dropped>>

(* Leaving the `async with'; close goes on to the pool.                      *)
Release ==
  /\ lock' = Tail(lock) /\ stage' = "none" /\ batch' = <<>>
  /\ pool' = IF Head(lock) = "close" THEN "closing" ELSE pool

(* Mistake: the early return leaves the lock held.                           *)
ReturnLocked == UNCHANGED <<lock, stage, batch, pool>>

ReturnEmpty == Release

Resume ==
  /\ lock # <<>> /\ stage = "none"
  /\ IF pgBuffer = <<>> THEN ReturnEmpty /\ UNCHANGED pgBuffer
     ELSE TakeBuffer /\ UNCHANGED <<lock, pool>>
  /\ UNCHANGED <<enabled, connecting, ready, table, dropped>>

Acquired ==
  /\ stage = "acquire" /\ pool = "open"
  /\ stage' = "insert"
  /\ UNCHANGED <<enabled, connecting, pool, pgBuffer, ready, lock, batch, table, dropped>>

Inserted ==
  /\ stage = "insert"
  /\ table' = table \cup Elements(batch)
  /\ Release
  /\ UNCHANGED <<enabled, connecting, pgBuffer, ready, dropped>>

(* No connection, or the insert failed, or its answer was lost after the     *)
(* server had committed it: the rows are not put back.                       *)
FlushFailed ==
  /\ stage \in {"acquire", "insert"}
  /\ \/ UNCHANGED table
     \/ stage = "insert" /\ table' = table \cup Elements(batch)
  /\ dropped' = dropped \cup Elements(batch)
  /\ Release
  /\ UNCHANGED <<enabled, connecting, pgBuffer, ready>>

-----------------------------------------------------------------------------
(* Mistake: a flush already running is taken for the last one.               *)
PgCloseBusy ==
  /\ IF MayFlush /\ lock = <<>> THEN Arrive("close") /\ UNCHANGED pool
     ELSE /\ pool' = IF pool = "open" THEN "closing" ELSE pool
          /\ UNCHANGED <<pgBuffer, lock, stage, batch>>
  /\ UNCHANGED <<enabled, connecting, ready, table, dropped>>

(* close: nothing without a pool; else a last flush, and then the pool,      *)
(* which waits for the connections in use but not for one being acquired.    *)
PgClose ==
  /\ IF MayFlush THEN Arrive("close") /\ UNCHANGED pool
     ELSE /\ pool' = IF pool = "open" THEN "closing" ELSE pool
          /\ UNCHANGED <<pgBuffer, lock, stage, batch>>
  /\ UNCHANGED <<enabled, connecting, ready, table, dropped>>

PoolClosed ==
  /\ pool = "closing" /\ stage # "insert"
  /\ pool' = "closed"
  /\ UNCHANGED <<enabled, connecting, pgBuffer, ready, lock, stage, batch, table, dropped>>

FlushStep == RunTask \/ Resume \/ Acquired \/ Inserted \/ FlushFailed

PgStep ==
  \/ PoolCreated
  \/ SchemaVerified
  \/ ConnectFailed
  \/ FlushStep
  \/ PoolClosed
=============================================================================
