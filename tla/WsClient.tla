-------------------------------- MODULE WsClient -------------------------------
(***************************************************************************)
(* BinanceWSClient (market_data/binance_ws_client.py): one loop that        *)
(* connects, awaits the handler of each message in turn, and after any      *)
(* exception reports the disconnect, backs off and connects again.          *)
(***************************************************************************)
EXTENDS Naturals

CONSTANT MaxBackoff   \* MAX_BACKOFF_S: 30 in the code

ASSUME BackoffAssumption == MaxBackoff \in Nat \ {0}

VARIABLES
  link,        \* run(): "connecting", "open", "sleeping" or "ended"
  backoff,     \* backoff_s
  stopped      \* self._stop

wsVars == <<link, backoff, stopped>>

WsInit == link = "connecting" /\ backoff = 1 /\ stopped = FALSE

Opened ==
  /\ link = "connecting"
  /\ link' = "open" /\ backoff' = 1
  /\ UNCHANGED stopped

(* The except branch; on_disconnect is awaited before the sleep.             *)
BackOff ==
  /\ link' = "sleeping"
  /\ UNCHANGED <<backoff, stopped>>

OpenFails == link = "connecting" /\ BackOff

(* ConnectionClosed, a lost transport, or an exception of a handler.         *)
Breaks == link = "open" /\ BackOff

(* The iterator ends without an exception, as after force_disconnect: still  *)
(* a lost connection, unless the client has been stopped.                    *)
EndsCleanly ==
  /\ link = "open"
  /\ IF stopped THEN link' = "ended" /\ UNCHANGED <<backoff, stopped>> ELSE BackOff

(* Mistake: no cap on the delay.                                             *)
WakeUncapped ==
  /\ link = "sleeping"
  /\ link' = IF stopped THEN "ended" ELSE "connecting"
  /\ backoff' = 2 * backoff
  /\ UNCHANGED stopped

(* Mistake: the flag is only looked at once connected.                       *)
WakeAnyway ==
  /\ link = "sleeping"
  /\ link' = "connecting"
  /\ backoff' = IF 2 * backoff < MaxBackoff THEN 2 * backoff ELSE MaxBackoff
  /\ UNCHANGED stopped

Wake ==
  /\ link = "sleeping"
  /\ link' = IF stopped THEN "ended" ELSE "connecting"
  /\ backoff' = IF 2 * backoff < MaxBackoff THEN 2 * backoff ELSE MaxBackoff
  /\ UNCHANGED stopped

StopClient ==
  /\ ~stopped
  /\ stopped' = TRUE
  /\ UNCHANGED <<link, backoff>>
=============================================================================
