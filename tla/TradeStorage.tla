------------------------------ MODULE TradeStorage -----------------------------
(***************************************************************************)
(* The trade path of the collector: every tick goes to the day's Parquet    *)
(* file and to Postgres (Collector._handle_trade), a heartbeat flushes the  *)
(* file, and run_collector.py stops the feed, closes both and exits.  The   *)
(* process may be killed at any instant and started again.                  *)
(***************************************************************************)
EXTENDS ParquetWriter, PostgresWriter

CONSTANTS
  MaxTrades,     \* bound: trades seen in all
  MaxRestarts,   \* bound: processes started after the first
  MaxDiskErrors  \* bound: calls the disk fails

ASSUME StorageAssumption ==
  MaxTrades \in Nat /\ MaxRestarts \in Nat /\ MaxDiskErrors \in Nat

VARIABLES
  phase,        \* "up", "abandoned" (run() raised), "stopping", "closing", "exited"
  today,        \* the UTC date
  writtenOn,    \* ghost: for each trade the day the file writer took it, 0 if never
  accepted,     \* ghost: rows this process handed to an enabled Postgres writer
  restarts, diskErrors,   \* faults so far
  unopened      \* ghost: the days on which a file could not be opened

runVars == <<phase, today, writtenOn, accepted, restarts, diskErrors, unopened>>
storageVars == <<parquet, pgVars, runVars>>

Init ==
  /\ parquet = NewWriter([d \in Days |-> EmptyFile])
  /\ PgInit
  /\ phase = "up" /\ today = 1 /\ writtenOn = <<>> /\ accepted = {}
  /\ restarts = 0 /\ diskErrors = 0 /\ unopened = {}

DiskMay(fault) ==
  /\ fault = "none" \/ diskErrors < MaxDiskErrors
  /\ diskErrors' = IF parquet'.raised THEN diskErrors + 1 ELSE diskErrors

(* The feed may go on under `abandoned': with --duration-seconds, _main      *)
(* sleeps on after run() has failed.                                         *)
Collecting == phase \in {"up", "abandoned"}

(* _handle_trade: an exception of the file writer skips the rest and makes   *)
(* the client reconnect.                                                     *)
HandleTrade(fault) ==
  LET row == Len(writtenOn) + 1 IN
  /\ Collecting /\ row <= MaxTrades
  /\ parquet' = WriteRow(parquet, row, today, fault)
  /\ DiskMay(fault)
  /\ unopened' = IF parquet'.date # parquet.date /\ ~parquet'.open
                 THEN unopened \cup {today} ELSE unopened
  /\ IF parquet'.raised
     THEN /\ writtenOn' = Append(writtenOn, 0)
          /\ UNCHANGED <<pgVars, accepted>>
     ELSE /\ writtenOn' = Append(writtenOn, today)
          /\ PgWrite(row)
          /\ accepted' = IF enabled THEN accepted \cup {row} ELSE accepted
  /\ UNCHANGED <<phase, today, restarts>>

(* _heartbeat: an exception ends its task and, through gather, run().        *)
Heartbeat(fault) ==
  /\ phase = "up" /\ parquet.buffer # <<>>
  /\ parquet' = FlushNow(parquet, fault)
  /\ DiskMay(fault)
  /\ phase' = IF parquet'.raised THEN "abandoned" ELSE "up"
  /\ UNCHANGED <<pgVars, today, writtenOn, accepted, restarts, unopened>>

Midnight ==
  /\ phase # "exited" /\ today < MaxDay
  /\ today' = today + 1
  /\ UNCHANGED <<parquet, pgVars, phase, writtenOn, accepted, restarts, diskErrors, unopened>>

(* _main's finally: run() is cancelled, and waits for the receive loop, the  *)
(* heartbeat and the connect to end.                                         *)
Stop ==
  /\ phase = "up"
  /\ phase' = "stopping"
  /\ ConnectCancelled
  /\ UNCHANGED <<parquet, today, writtenOn, accepted, restarts, diskErrors, unopened>>

(* close_async up to its first await: an exception of the file writer ends   *)
(* the process with Postgres unclosed.                                       *)
CloseAsync(fault) ==
  /\ phase = "stopping"
  /\ parquet' = Close(parquet, fault)
  /\ DiskMay(fault)
  /\ IF parquet'.raised
     THEN phase' = "exited" /\ UNCHANGED pgVars
     ELSE /\ phase' = "closing"
          /\ PgClose
  /\ UNCHANGED <<today, writtenOn, accepted, restarts, unopened>>

Exit ==
  /\ phase = "closing" /\ pool \in {"none", "closed"}
  /\ phase' = "exited"
  /\ UNCHANGED <<parquet, pgVars, today, writtenOn, accepted, restarts, diskErrors, unopened>>

(* Killed; or run() has raised, and `await run_task' raises again in the     *)
(* finally block, so that close_async is never reached.                      *)
Die ==
  /\ phase # "exited"
  /\ phase' = "exited"
  /\ UNCHANGED <<parquet, pgVars, today, writtenOn, accepted, restarts, diskErrors, unopened>>

Restart ==
  /\ phase = "exited" /\ restarts < MaxRestarts
  /\ phase' = "up" /\ restarts' = restarts + 1
  /\ parquet' = NewWriter(parquet.files)
  /\ PgRestart
  /\ accepted' = {}
  /\ UNCHANGED <<today, writtenOn, diskErrors, unopened>>

PgMoves ==
  /\ phase # "exited"
  /\ PgStep
  /\ UNCHANGED <<parquet, runVars>>

Next ==
  \/ \E fault \in Faults : HandleTrade(fault) \/ Heartbeat(fault) \/ CloseAsync(fault)
  \/ Midnight
  \/ Stop
  \/ Exit
  \/ Die
  \/ Restart
  \/ PgMoves

(* Ready tasks run, the pool answers and a statement ends (command_timeout,  *)
(* 30 s), and an event loop that closes goes on to the end.                  *)
Fairness ==
  /\ WF_storageVars(phase # "exited" /\ FlushStep /\ UNCHANGED <<parquet, runVars>>)
  /\ WF_storageVars(phase # "exited" /\ PoolClosed /\ UNCHANGED <<parquet, runVars>>)
  /\ WF_storageVars(Exit)

Spec == Init /\ [][Next]_storageVars
FairSpec == Spec /\ Fairness

-----------------------------------------------------------------------------
TypeOK ==
  /\ parquet \in ParquetWriters
  /\ enabled \in BOOLEAN /\ connecting \in {"pool", "schema", "over"}
  /\ pool \in {"none", "open", "closing", "closed"}
  /\ pgBuffer \in Seq(Nat) /\ batch \in Seq(Nat)
  /\ ready \in 0 .. MaxReady
  /\ lock \in Seq({"task", "close"}) /\ stage \in {"none", "acquire", "insert"}
  /\ table \subseteq Nat /\ dropped \subseteq Nat
  /\ phase \in {"up", "abandoned", "stopping", "closing", "exited"}
  /\ today \in Days
  /\ writtenOn \in Seq(Days \cup {0}) /\ accepted \subseteq Nat
  /\ restarts \in 0 .. MaxRestarts /\ diskErrors \in 0 .. MaxDiskErrors
  /\ unopened \subseteq Days

(* Rotation (parquet_writer 172-191): the rows of a file, and behind them    *)
(* those buffered for it, are in order and of its day, whatever flushes,     *)
(* midnights and disk errors came between; only the rows of a day whose file *)
(* could not be opened wait in the buffer, for the file of a later day.      *)
RowsOnTheirDay ==
  LET Held(rows, d) ==
        /\ Rising(rows)
        /\ \A row \in Elements(rows) :
             writtenOn[row] = d \/ (writtenOn[row] < d /\ writtenOn[row] \in unopened)
  IN /\ \A d \in Days : Held(parquet.files[d].rows, d)
     /\ IF parquet.open
        THEN Held(parquet.files[parquet.date].rows \o parquet.buffer, parquet.date)
        ELSE \A row \in Elements(parquet.buffer) : writtenOn[row] \in unopened

(* The class docstring (116-121): after a clean close, with no disk error so *)
(* far and no process killed before, every trade is in the readable file of  *)
(* its day, except what a later process truncated.                           *)
CleanCloseKeepsAll ==
  phase = "closing" /\ diskErrors = 0 /\ restarts = 0 =>
    \A row \in DOMAIN writtenOn : row \in ReadableRows(writtenOn[row])

(* flush (150-153): batches reach the server in the order the trades came,   *)
(* and a row is in one place: given up or inserted before the batch in       *)
(* flight, the batch before the buffer.                                      *)
BatchesInOrder ==
  /\ Rising(batch \o pgBuffer)
  /\ \A row \in (table \cap accepted) \cup dropped :
       \A later \in Elements(batch \o pgBuffer) : row < later

(* close (174-182): once the pool is closed nothing waits for it in the      *)
(* buffer; of all rows accepted only a batch still acquiring its connection  *)
(* is neither inserted nor given up.                                         *)
ClosedPoolLeavesNothing ==
  pool = "closed" =>
    /\ pgBuffer = <<>>
    /\ accepted = (table \cap accepted) \cup dropped \cup Elements(batch)
    /\ batch # <<>> => stage = "acquire"

(* A file that can be read loses its rows only to a process started later on *)
(* the same day.                                                             *)
ReadableRowsStay ==
  [][\A d \in Days :
       parquet.files[d].readable /\ parquet'.files[d] # parquet.files[d]
         => d = today /\ restarts > 0 /\ parquet.date # d]_storageVars

(* close_async ends, whatever fails: no error leaves the lock to a task that *)
(* is gone, and the pool is not held for ever.                               *)
CloseEnds == phase = "closing" ~> phase = "exited"
=============================================================================
