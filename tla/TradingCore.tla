----------------------------- MODULE TradingCore -----------------------------
(***************************************************************************)
(* The trading loop: ticks that turn signals into orders through the risk  *)
(* gates, the drain task that executes them, the monitors that close       *)
(* positions, the exchange, the kill switch, crashes and start-up          *)
(* (alphaTrade/main.py: make_tick, run, reconcile_positions; risk/gates.py; *)
(* kill_switch.py).                                                        *)
(***************************************************************************)
EXTENDS OrderExecution

Signals == {"BUY", "SELL", "HOLD"}

Quiet == queue = {} /\ drain.pc = "idle"

\* is_halted() is read once, before the awaits of the tick (equity, VIX)
TickStarts(i) ==
    /\ up = "up" /\ tick[i] = "idle"
    /\ scene.overlap \/ (Quiet /\ \A j \in Intervals : tick[j] = "idle")
    /\ tick' = [tick EXCEPT ![i] = IF halt THEN "halted" ELSE "clear"]
    /\ UNCHANGED <<exchangeVars, dbVars, queue, drain, monitors, taskOf, envVars>>

OpenCount == Cardinality({t \in Tickers : IsOpen(rows[t])})

\* Mutants: a SELL needs no position; a BUY does not look for one
ApprovedWithoutPosition(t, signal) ==
    /\ signal # "HOLD"
    /\ ~rows[t].cooling
    /\ signal = "BUY" => ~(IsOpen(rows[t]) /\ scene.safe) /\ OpenCount < MaxPositions

ApprovedOnTop(t, signal) ==
    /\ signal # "HOLD"
    /\ ~rows[t].cooling
    /\ signal = "BUY" => OpenCount < MaxPositions
    /\ signal = "SELL" => IsOpen(rows[t])

\* run_gates.  A HOLD from a daily loss halt, a retired model, a full sector or
\* an undecided consensus is a HOLD signal here.
Approved(t, signal) ==
    /\ signal # "HOLD"
    /\ ~rows[t].cooling
    /\ signal = "BUY" => /\ ~(IsOpen(rows[t]) /\ scene.safe)
                         /\ OpenCount < MaxPositions
    /\ signal = "SELL" => IsOpen(rows[t])

\* Mutant: the sign of a SELL is applied when it is sized
OrderForSigned(t, signal) ==
    [ticker |-> t, side |-> signal,
     qty |-> IF signal = "SELL" THEN -rows[t].qty ELSE 1, status |-> "pending"]

\* A BUY is sized from the equity (1 here), a SELL from the position's row
OrderFor(t, signal) ==
    [ticker |-> t, side |-> signal,
     qty |-> IF signal = "SELL" THEN rows[t].qty ELSE 1, status |-> "pending"]

Approvals(signal) == {t \in scene.tickers : Approved(t, signal[t])}

\* The sequences that list a set once
Listings(S) ==
    {f \in [1..Cardinality(S) -> S] : \A t \in S : \E k \in 1..Cardinality(S) : f[k] = t}

\* The loop over the signals has no await: every ticker is judged by the same
\* positions, and the orders are saved and enqueued in one step.  Each tick has
\* its own bar time, so its client order ids and keys are new.
TickEnds(i) ==
    /\ up = "up" /\ tick[i] # "idle"
    /\ \E signal \in [scene.tickers -> Signals] :
       \E ts \in Listings(IF tick[i] = "clear" THEN Approvals(signal) ELSE {}) :
        /\ Len(orders) + Len(ts) <= scene.orders
        /\ orders' = orders \o [k \in 1..Len(ts) |-> OrderFor(ts[k], signal[ts[k]])]
        /\ queue' = queue \cup {Len(orders) + k : k \in 1..Len(ts)}
    /\ tick' = [tick EXCEPT ![i] = "idle"]
    /\ UNCHANGED <<exchangeVars, rows, journal, drain, monitors, taskOf, envVars>>

\* The cooldown of t is over.  Without overlap it outlasts the cancellation
\* that a monitor starts when it closes the position.
CooldownExpires(t) ==
    /\ rows[t].cooling
    /\ \/ scene.overlap
       \/ \A n \in 1..Len(orders) : orders[n].ticker = t => monitors[n].pc \in {"none", "poll", "read"}
    /\ rows' = [rows EXCEPT ![t].cooling = FALSE]
    /\ UNCHANGED <<exchangeVars, orders, journal, taskVars, envVars>>

\* POST and DELETE of the kill switch, or the sentinel file itself
SetHalt(on) ==
    /\ up = "up" /\ halt # on
    /\ halt' = on
    /\ UNCHANGED <<exchangeVars, dbVars, taskVars, up, fetched, crashes, scene>>

-----------------------------------------------------------------------------
\* The process dies: everything in memory is gone
Die ==
    /\ up # "down" /\ crashes < scene.crashes
    /\ up' = "down" /\ crashes' = crashes + 1
    /\ queue' = {} /\ drain' = IdleDrain /\ tick' = [i \in Intervals |-> "idle"]
    /\ monitors' = [n \in Ids |-> NoMonitor]
    /\ taskOf' = [t \in Tickers |-> 0]
    /\ UNCHANGED <<exchangeVars, halt, fetched, scene>>

Crash == Die /\ UNCHANGED dbVars

\* The process dies between two commits of the fill callback or of a monitor.
\* A BUY commits the order, the row, the bracket's ids; what closes a position
\* deletes the row, adds the one with the cooldown, and journals.
PartlyClosed(t) == {[rows EXCEPT ![t] = r] : r \in {NoRow, ClosedRow}}

BuyCutShort ==
    /\ drain.pc = "result" /\ drain.status = "filled" /\ Order.side = "BUY"
    /\ RecordFill
    /\ rows' \in {rows, [rows EXCEPT ![Order.ticker] = RowAfterBuy(@, drain.id)]}

SaleCutShort ==
    /\ drain.status = "filled" /\ Order.side = "SELL"
    /\ \/ /\ drain.pc = "result" /\ rows[Order.ticker].oco = 0
          /\ RecordFill
          /\ rows' \in {rows} \cup PartlyClosed(Order.ticker)
       \/ /\ drain.pc = "closing"
          /\ rows' \in PartlyClosed(Order.ticker)
          /\ UNCHANGED orders

CloseCutShort(n) ==
    /\ monitors[n].pc = "read" /\ Decision(monitors[n].seen, legs[n]["limit"]).close
    /\ rows' \in PartlyClosed(orders[n].ticker)
    /\ UNCHANGED orders

CrashMidway ==
    /\ Die /\ UNCHANGED journal
    /\ BuyCutShort \/ SaleCutShort \/ \E n \in Ids : CloseCutShort(n)

\* run() touches the sentinel file, then asks for the account's positions
StartUp ==
    /\ up = "down"
    /\ up' = "starting" /\ halt' = TRUE
    /\ fetched' = held
    /\ UNCHANGED <<exchangeVars, dbVars, taskVars, crashes, scene>>

\* Mutant: only missing rows are added
ReconciledMissingOnly(row, qty) ==
    IF qty = 0 THEN IF IsOpen(row) THEN NoRow ELSE row
    ELSE IF row.present THEN row ELSE [NoRow EXCEPT !.present = TRUE, !.qty = qty]

\* What reconcile_positions makes of a row, given the quantity at the exchange
Reconciled(row, qty) ==
    IF qty = 0 THEN IF IsOpen(row) THEN NoRow ELSE row
    ELSE IF row.present /\ row.qty = qty THEN row
    ELSE Upsert(row, [NoRow EXCEPT !.present = TRUE, !.qty = qty, !.cooling = row.cooling])

\* Mutant: the monitors are not started again
ReattachNothing == UNCHANGED <<taskOf, monitors>>

\* Every bracket recorded in a row is watched again, for the row's quantity
Reattach ==
    /\ taskOf' = [t \in Tickers |-> rows'[t].oco]
    /\ monitors' = [n \in Ids |->
           IF \E t \in Tickers : rows'[t].oco = n
           THEN LET row == rows'[CHOOSE t \in Tickers : rows'[t].oco = n] IN
                [NoMonitor EXCEPT !.pc = "poll", !.qty = row.qty, !.model = row.model]
           ELSE NoMonitor]

\* Reconcile, start the drain task, watch the brackets
StartedUp ==
    /\ up = "starting"
    /\ \/ rows' = [t \in Tickers |-> Reconciled(rows[t], fetched[t])]
       \/ "offline" \in scene.faults /\ rows' = rows
    /\ Reattach
    /\ up' = "up"
    /\ UNCHANGED <<exchangeVars, orders, journal, queue, drain, tick, halt, fetched, crashes, scene>>

-----------------------------------------------------------------------------
Ticks == \E i \in Intervals : TickStarts(i) \/ TickEnds(i)
Environment ==
    \/ Exchange
    \/ \E t \in Tickers : CooldownExpires(t)
    \/ \E on \in BOOLEAN : SetHalt(on)
Restart == StartUp \/ StartedUp

Next ==
    \/ Ticks \/ Drain \/ (\E n \in Ids : Monitor(n))
    \/ Environment
    \/ Crash \/ CrashMidway \/ Restart

Spec == Init /\ [][Next]_vars

\* The event loop runs the drain task and every monitor whenever they are
\* ready, and every call to the exchange ends (timeouts, at most 3 attempts).
\* A cooldown ends with time.  A crashed process is started again by its
\* container.  Nothing forces signals, triggers, crashes or the kill switch.
Fairness ==
    /\ WF_vars(Drain)
    /\ \A n \in Ids : WF_vars(Monitor(n))
    /\ WF_vars(Restart)

FairSpec == Spec /\ Fairness
=============================================================================
