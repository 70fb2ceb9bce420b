----------------------------- MODULE TradingState -----------------------------
(***************************************************************************)
(* The state that the trading loop shares: what the bot keeps in memory,   *)
(* what it keeps in its database, and what the exchange (Trading 212)      *)
(* holds.  The modules that extend this one add one actor each:            *)
(* T212Exchange, OrderExecution, OcoMonitor and TradingCore (ticks, crash, *)
(* start-up).                                                              *)
(*                                                                         *)
(* Quantities are counted in the size of one BUY.  Prices, times and texts *)
(* are left out; a bracket's two legs are identified by the id of the BUY  *)
(* they protect, because the code always records both or neither.          *)
(***************************************************************************)
EXTENDS Integers, Sequences, FiniteSets

CONSTANTS
    Tickers,
    Intervals,      \* the bar intervals; each has its own tick task
    MaxPositions,   \* risk.max_positions
    MaxOrders,      \* bound: orders per behaviour
    Scenes          \* the settings and circumstances to be examined, see Scene

\* refused:  the exchange (or the network) refuses a call, which has no effect
\* lost:     a call takes effect but every reply to it is lost
\* rejected: a market order is accepted and later reported REJECTED
\* uncancelled: a cancellation fails and the leg stays open
\* bounced:  the exchange gives up a leg whose shares have been sold
\* revoked:  the exchange or the account's owner cancels a leg
\* stale:    an order waits longer than its stale window
\* offline:  get_positions fails at start-up
FaultKinds == {"refused", "lost", "rejected", "uncancelled", "bounced", "revoked",
               "stale", "offline"}

\* A behaviour plays in one scene.
Scene == [
    tickers : SUBSET Tickers,   \* what the models give signals for
    safe : BOOLEAN,             \* the effective safe_mode
    overlap : BOOLEAN,          \* may ticks and cooldown ends overtake calls to the exchange?
    faults : SUBSET FaultKinds, \* the failures that may happen
    orders : 0..MaxOrders,      \* bound: orders of this scene
    crashes : Nat]              \* bound: crashes of this scene

ASSUME TradingAssumption ==
    /\ IsFiniteSet(Tickers)
    /\ MaxPositions \in Nat /\ MaxOrders \in Nat
    /\ Scenes \subseteq Scene

VARIABLES
    \* the exchange
    held,       \* held[t]: quantity of t in the account
    legs,       \* legs[n]: the stop and limit orders of BUY n
    executed,   \* ids of the market orders that were executed
    \* the database
    rows,       \* rows[t]: the row of table position
    orders,     \* table order: orders[n] is the order with id n
    journal,    \* table tradejournal
    \* the process
    up,         \* "down", "starting" (positions fetched) or "up"
    queue,      \* ids of the orders waiting in the broker's queue
    drain,      \* the drain task
    monitors,   \* monitors[n]: the OCO monitor task of BUY n's bracket
    taskOf,     \* _oco_task_by_ticker: the BUY whose monitor is registered, or 0
    tick,       \* tick[i]: the tick of interval i: "idle", "clear" or "halted"
    halt,       \* the kill switch
    fetched,    \* what get_positions returned at start-up
    crashes,
    scene       \* never changes

exchangeVars == <<held, legs, executed>>
dbVars == <<rows, orders, journal>>
taskVars == <<queue, drain, monitors, taskOf, tick>>
envVars == <<up, halt, fetched, crashes, scene>>
vars == <<exchangeVars, dbVars, taskVars, envVars>>

-----------------------------------------------------------------------------
Ids == 1..MaxOrders
LegKinds == {"stop", "limit"}
LegStates == {"none", "open", "filled", "dead"}
Sides == {"BUY", "SELL"}

\* A position row.  cooling: cooldown_until_ts is in the future; model: the row
\* names the model that opened the position; oco: the BUY whose stop and limit
\* ids are recorded, 0 for NULL.
NoRow == [present |-> FALSE, qty |-> 0, oco |-> 0, cooling |-> FALSE, model |-> FALSE]
OpenRow == [NoRow EXCEPT !.present = TRUE, !.qty = 1, !.model = TRUE]
ClosedRow == [NoRow EXCEPT !.present = TRUE, !.cooling = TRUE]
IsOpen(row) == row.present /\ row.qty > 0

\* PositionRepo.upsert of `new` over `row`.  An existing row takes the quantity
\* and the cooldown and keeps its bracket ids and its model.
Upsert(row, new) ==
    IF row.present
    THEN [row EXCEPT !.qty = new.qty, !.cooling = new.cooling]
    ELSE new

NoMonitor == [pc |-> "none", seen |-> "none", qty |-> 0, model |-> FALSE]
IdleDrain == [pc |-> "idle", id |-> 0, placed |-> {}, status |-> "none", pos |-> NoRow]

\* A monitor's close: the row is deleted and a fresh one holds the cooldown
CloseRow(t) == rows' = [rows EXCEPT ![t] = ClosedRow]

JournalEntry(how, n, q, priced) == [how |-> how, id |-> n, qty |-> q, priced |-> priced]

\* The task of bracket n ends: its done-callback pops the ticker's entry,
\* whichever task the entry names
EndMonitor(n) ==
    /\ monitors' = [monitors EXCEPT ![n] = NoMonitor]
    /\ taskOf' = [taskOf EXCEPT ![orders[n].ticker] = 0]

Init ==
    /\ held = [t \in Tickers |-> 0]
    /\ legs = [n \in Ids |-> [k \in LegKinds |-> "none"]]
    /\ executed = {}
    /\ rows = [t \in Tickers |-> NoRow] /\ orders = <<>> /\ journal = {}
    /\ queue = {} /\ drain = IdleDrain
    /\ monitors = [n \in Ids |-> NoMonitor] /\ taskOf = [t \in Tickers |-> 0]
    /\ tick = [i \in Intervals |-> "idle"]
    /\ up = "up" /\ halt = TRUE /\ crashes = 0
    /\ fetched = [t \in Tickers |-> 0]
    /\ scene \in Scenes
=============================================================================
