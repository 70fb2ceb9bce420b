---------------------------- MODULE TradingSafety ----------------------------
(***************************************************************************)
(* What the trading loop promises about the exchange, the database and its *)
(* own tasks.  Each property names the scenes in which the code keeps it.  *)
(***************************************************************************)
EXTENDS TradingCore

DrainPcs == {"idle", "market", "stop", "limit", "survivor", "result",
             "cancelStop", "cancelLimit", "closing"}
MonitorPcs == {"none", "poll", "read", "cancelStop", "cancelLimit"}
Row == [present : BOOLEAN, qty : Nat, oco : {0} \cup Ids, cooling : BOOLEAN, model : BOOLEAN]

\* Types.  Every order has a positive quantity and the account is never short.
TypeOK ==
    /\ held \in [Tickers -> Nat]
    /\ legs \in [Ids -> [LegKinds -> LegStates]]
    /\ executed \subseteq Ids
    /\ rows \in [Tickers -> Row]
    /\ orders \in Seq([ticker : Tickers, side : Sides, qty : Nat \ {0},
                       status : {"pending", "filled"}])
    /\ Len(orders) <= MaxOrders
    /\ journal \subseteq [how : {"OCO", "SELL"}, id : Ids, qty : Nat, priced : BOOLEAN]
    /\ up \in {"down", "starting", "up"}
    /\ queue \subseteq 1..Len(orders)
    /\ drain \in [pc : DrainPcs, id : {0} \cup Ids, placed : SUBSET LegKinds,
                  status : {"none", "filled", "failed", "stale_dropped"}, pos : Row]
    /\ monitors \in [Ids -> [pc : MonitorPcs, seen : LegStates, qty : Nat, model : BOOLEAN]]
    /\ taskOf \in [Tickers -> {0} \cup Ids]
    /\ tick \in [Intervals -> {"idle", "clear", "halted"}]
    /\ halt \in BOOLEAN
    /\ fetched \in [Tickers -> Nat]
    /\ scene \in Scenes
    /\ crashes \in 0..scene.crashes

OfTicker(n, t) == n \in 1..Len(orders) /\ orders[n].ticker = t
HasLeg(n, state) == \E k \in LegKinds : legs[n][k] = state
Executing(n) == drain.pc # "idle" /\ drain.id = n
CancellingBracket(n) == drain.pc \in {"cancelStop", "cancelLimit"} /\ drain.pos.oco = n

\* Scenes without some of the failures, without crashes, and without ticks that
\* overlap and ticks and cooldown ends during a call to the exchange
Barring(fs) == scene.faults \cap fs = {}
NoCrash == scene.crashes = 0
Orderly == ~scene.overlap

-----------------------------------------------------------------------------
\* While no exit of t is waiting to be noticed and the drain task is not
\* working on t, the position row and the account agree on the quantity
\* (_on_order_fill and _close_position against place_market_order and the legs).
Agreement ==
    Orderly /\ scene.safe /\ NoCrash /\ scene.faults \subseteq {"stale"} /\ up = "up" =>
        \A t \in Tickers :
            \/ rows[t].qty = held[t]
            \/ drain.pc # "idle" /\ Order.ticker = t
            \/ \E n \in Ids : OfTicker(n, t) /\ monitors[n].pc # "none" /\ HasLeg(n, "filled")

\* Every open stop or limit order has a task that will cancel it or see it
\* fill: none outlives its bracket.
EveryLegOwned ==
    Orderly /\ scene.safe /\ NoCrash /\ Barring({"lost", "rejected", "uncancelled"}) /\ up = "up" =>
        \A n \in Ids : HasLeg(n, "open") =>
            monitors[n].pc # "none" \/ Executing(n) \/ CancellingBracket(n)

\* While a recorded bracket protects a position, a task watches it, after a
\* restart too (the re-attachment in run, all_with_oco).
BracketsWatched ==
    Barring({"uncancelled"}) /\ up = "up" => \A t \in Tickers :
        LET n == rows[t].oco IN
        n # 0 => (HasLeg(n, "open") => monitors[n].pc # "none" \/ CancellingBracket(n))

\* The registered task of a ticker is alive and watches that ticker, so the
\* SELL branch never cancels the wrong task (_oco_task_by_ticker).
RegisteredTaskAlive ==
    \A t \in Tickers : taskOf[t] # 0 =>
        OfTicker(taskOf[t], t) /\ monitors[taskOf[t]].pc # "none"

\* ... and unless positions are pyramided, every live monitor is the one that
\* the SELL branch would cancel.
MonitorsRegistered ==
    /\ RegisteredTaskAlive
    /\ Orderly /\ scene.safe =>
        \A n \in Ids : monitors[n].pc # "none" => taskOf[orders[n].ticker] = n

\* The tasks that watch brackets are those that should, and the register of them
\* is true: together the monitors, their register and the rows.
ProtectionMonitored == BracketsWatched /\ MonitorsRegistered

\* An order that waits, or is about to be submitted, has not been executed
\* before: whatever fails, the broker never submits one twice.
Pending == queue \cup {n \in Ids : drain.pc = "market" /\ drain.id = n}
NeverExecutedTwice == Pending \cap executed = {}

-----------------------------------------------------------------------------
\* The drain task has executed a market order of t and not recorded it yet.
InHand(side, t) ==
    drain.pc \notin {"idle", "market"} /\ drain.status = "filled" /\ Order.side = side /\ Order.ticker = t

\* The fill callback of a BUY, or the start-up that has fetched it, is still to
\* write the row of t, whether the account holds it by then or not.
Untold(t) == InHand("BUY", t) \/ (up = "starting" /\ fetched[t] > 0)

\* The position of t as Positions.tla sees it: the row is one change behind if it
\* differs from the account, and two if what is untold has been sold again.
Lag(t) ==
    IF rows[t].qty # held[t] THEN 1
    ELSE IF held[t] = 0 /\ Untold(t) THEN 2
    ELSE 0
Seen(t) == [held |-> held[t], known |-> rows[t].qty, news |-> Lag(t)]
Unseen == [held |-> 0, known |-> 0, news |-> 0]

\* Scenes without pyramiding in which every fill is answered truly and a
\* start-up finds the account.
Faithful ==
    /\ Orderly /\ scene.safe /\ Barring({"lost", "rejected"})
    /\ NoCrash \/ Barring({"offline"})
Followed == INSTANCE Positions WITH
    running <- up # "down",
    position <- [t \in Tickers |-> IF Faithful THEN Seen(t) ELSE Unseen]

\* The rows follow the account change by change, and nothing is bought while a
\* row is behind, whatever crashes, dies or is refused (run_gates,
\* _on_order_fill, _close_position, reconcile_positions).
RowsFollowAccount == Followed!Spec

-----------------------------------------------------------------------------
\* Every journal entry stands for an execution: a SELL for an executed order,
\* a stop or limit exit for a filled leg of no more than the quantity it names.
EntriesBacked ==
    Barring({"rejected"}) => \A e \in journal :
        /\ e.how = "SELL" => e.id \in executed
        /\ e.how = "OCO" => HasLeg(e.id, "filled") /\ e.qty >= orders[e.id].qty

\* A SELL is journalled with an entry price: it closed a position that was
\* open (build_sell_journal_entry reads avg_entry of the row).  A pyramided
\* position can be closed under a SELL that the account still fills.
PricedJournal ==
    Orderly /\ scene.safe /\ Barring({"lost", "rejected", "offline"}) =>
        \A e \in journal : e.priced

\* The shares of trades of which x is for q[x] shares, counted one by one
Shares(q) == UNION {{x} \X (1..q[x]) : x \in DOMAIN q}
Total(q) == Cardinality(Shares(q))

\* The journal never records more shares sold than were bought: no share is
\* closed both by a monitor and by a SELL.  A monitor that is started again
\* after a crash names the quantity of its row, which is more than its legs sell
\* when the row holds several BUYs.
Bought(t) == Total([n \in {n \in executed : OfTicker(n, t) /\ orders[n].side = "BUY"} |-> orders[n].qty])
Journalled(t) == Total([e \in {e \in journal : OfTicker(e.id, t)} |-> e.qty])
JournalWithinBought ==
    /\ Barring({"rejected"})
    /\ NoCrash \/ (Orderly /\ scene.safe /\ Barring({"lost", "offline"}))
    => \A t \in Tickers : Journalled(t) <= Bought(t)

\* The journal is the account's history: its entries stand for executions, have
\* an entry price, and never sell more than was bought (_on_order_fill,
\* _close_position).
JournalBacked == EntriesBacked /\ PricedJournal /\ JournalWithinBought

\* risk.max_positions bounds the open positions (run_gates).
WithinMaxPositions == OpenCount <= MaxPositions

-----------------------------------------------------------------------------
Closes(t) == IsOpen(rows[t]) /\ ~IsOpen(rows'[t])

\* A position is closed in the database only when the account holds none of it:
\* what Positions means for the end of a position, in terms of the rows.
NothingForgotten ==
    [][Orderly /\ scene.safe /\ Barring({"lost", "rejected", "offline"}) =>
        \A t \in Tickers : Closes(t) => held[t] = 0]_vars

\* Start-up leaves the rows as the account is, if nothing is traded between
\* the fetch and the write (reconcile_positions).
ReconcileAgrees ==
    [][up = "starting" /\ up' = "up" /\ fetched = held /\ Barring({"offline"})
        => \A t \in Tickers : rows'[t].qty = held[t]]_vars

\* No order is executed while the kill switch is on.
HaltBlocksOrders == [][executed' # executed => ~halt]_vars

-----------------------------------------------------------------------------
\* A filled leg is eventually noticed: no row names its bracket any more
\* (monitor_oco).
ExitRecorded ==
    \A n \in Ids :
        HasLeg(n, "filled") /\ Barring({"bounced", "revoked"})
            ~> \A t \in Tickers : rows[t].oco # n

\* Once a leg of a bracket has filled, the other one does not stay open.
BracketResolved ==
    \A n \in Ids :
        HasLeg(n, "filled") /\ Orderly /\ scene.safe /\ NoCrash
            /\ Barring({"lost", "rejected", "uncancelled"})
            ~> ~HasLeg(n, "open")

\* ... and not even when the leg filled while the bot was down.
OrphansCancelled == \A n \in Ids : HasLeg(n, "filled") ~> ~HasLeg(n, "open")
=============================================================================
