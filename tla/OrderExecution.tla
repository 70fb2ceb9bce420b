---------------------------- MODULE OrderExecution ----------------------------
(***************************************************************************)
(* The drain task of AsyncBroker executing one order at a time, and the    *)
(* callback of main.run that records the result (_process_one,             *)
(* _on_order_fill).  One action per await: the market order, each leg, the *)
(* cancellation of a surviving leg, each cancellation on a SELL.           *)
(* The queue is the priority buffer of PriorityBuffer.tla, with room for   *)
(* every order of the behaviour: SELLs first, then first come.             *)
(***************************************************************************)
EXTENDS OcoMonitor

Order == orders[drain.id]

\* the id decides among equals: ids are given out in enqueue order
Urgent(m, n) ==
    \/ orders[m].side = "SELL" /\ orders[n].side = "BUY"
    \/ orders[m].side = orders[n].side /\ m < n

\* get() and the stale check
Take(n) ==
    /\ up = "up" /\ drain.pc = "idle"
    /\ n \in queue /\ \A m \in queue \ {n} : Urgent(n, m)
    /\ queue' = queue \ {n}
    /\ \/ drain' = [IdleDrain EXCEPT !.pc = "market", !.id = n]
       \/ /\ "stale" \in scene.faults
          /\ drain' = [IdleDrain EXCEPT !.pc = "result", !.id = n, !.status = "stale_dropped"]
    /\ UNCHANGED <<exchangeVars, dbVars, monitors, taskOf, tick, envVars>>

AfterMarket(status) ==
    drain' = [drain EXCEPT !.status = status,
                           !.pc = IF status = "filled" /\ Order.side = "BUY"
                                  THEN "stop" ELSE "result"]

\* place_market_order and the poll for its fill price.  However the poll ends,
\* REJECTED and CANCELLED included, the result is "filled".
Market ==
    /\ up = "up" /\ drain.pc = "market"
    /\ \/ CanExecute(drain.id) /\ Execute(drain.id) /\ AfterMarket("filled")
       \/ /\ ~CanExecute(drain.id) \/ "refused" \in scene.faults
          /\ AfterMarket("failed") /\ UNCHANGED exchangeVars
       \/ /\ "lost" \in scene.faults /\ CanExecute(drain.id)
          /\ Execute(drain.id) /\ AfterMarket("failed")
       \/ "rejected" \in scene.faults /\ AfterMarket("filled") /\ UNCHANGED exchangeVars
    /\ UNCHANGED <<legs, dbVars, queue, monitors, taskOf, tick, envVars>>

\* Where the drain task goes after the call for leg k
AfterLeg(k, placed) ==
    CASE k = "stop" -> "limit"
      [] k = "limit" /\ placed \in {{}, LegKinds} -> "result"
      [] OTHER -> "survivor"

\* The POST of a leg: it may be refused, and the reply to it may be lost
PlaceLeg(k) ==
    /\ up = "up" /\ drain.pc = k
    /\ \E sent, answered \in BOOLEAN :
        /\ ~sent => "refused" \in scene.faults /\ ~answered
        /\ sent /\ ~answered => "lost" \in scene.faults
        /\ legs' = IF sent THEN [legs EXCEPT ![drain.id][k] = "open"] ELSE legs
        /\ LET placed == IF answered THEN drain.placed \cup {k} ELSE drain.placed
           IN drain' = [drain EXCEPT !.placed = placed, !.pc = AfterLeg(k, placed)]
    /\ UNCHANGED <<held, executed, dbVars, queue, monitors, taskOf, tick, envVars>>

\* Only one leg was placed: it is cancelled and forgotten, even if the
\* cancellation fails
CancelSurvivor ==
    /\ up = "up" /\ drain.pc = "survivor"
    /\ \E k \in drain.placed : Cancel(drain.id, k)
    /\ drain' = [drain EXCEPT !.pc = "result", !.placed = {}]
    /\ UNCHANGED <<held, executed, dbVars, queue, monitors, taskOf, tick, envVars>>

-----------------------------------------------------------------------------
\* Mutant: a failed order is put back in the queue
ResultRetried ==
    /\ up = "up" /\ drain.pc = "result" /\ drain.status # "filled"
    /\ queue' = IF drain.status = "failed" THEN queue \cup {drain.id} ELSE queue
    /\ drain' = IdleDrain
    /\ UNCHANGED <<exchangeVars, dbVars, monitors, taskOf, tick, envVars>>

\* _on_order_fill for a result that is not "filled": nothing is recorded
ResultNotFilled ==
    /\ up = "up" /\ drain.pc = "result" /\ drain.status # "filled"
    /\ drain' = IdleDrain
    /\ UNCHANGED <<exchangeVars, dbVars, queue, monitors, taskOf, tick, envVars>>

RecordFill == orders' = [orders EXCEPT ![drain.id].status = "filled"]

\* A BUY on a row that holds something adds to it; else the row is (re)opened
RowAfterBuy(row, n) ==
    LET new == [OpenRow EXCEPT !.qty = IF IsOpen(row) THEN row.qty + orders[n].qty
                                                      ELSE orders[n].qty]
    IN Upsert(row, new)

\* Mutant: the monitor is told the quantity of the whole position
WatchWholeRow(n) ==
    /\ monitors' = [monitors EXCEPT ![n] =
           [NoMonitor EXCEPT !.pc = "poll", !.qty = rows'[orders[n].ticker].qty, !.model = TRUE]]
    /\ taskOf' = [taskOf EXCEPT ![orders[n].ticker] = n]

\* The monitor of bracket n starts, told the quantity of its own BUY
Watch(n) ==
    /\ monitors' = [monitors EXCEPT ![n] =
           [NoMonitor EXCEPT !.pc = "poll", !.qty = orders[n].qty, !.model = TRUE]]
    /\ taskOf' = [taskOf EXCEPT ![orders[n].ticker] = n]

BuyFilled ==
    /\ up = "up" /\ drain.pc = "result" /\ drain.status = "filled" /\ Order.side = "BUY"
    /\ RecordFill
    /\ LET n == drain.id
           t == Order.ticker
           row == RowAfterBuy(rows[t], n)
       IN IF drain.placed = LegKinds
          THEN /\ rows' = [rows EXCEPT ![t] = [row EXCEPT !.oco = n]]
               /\ Watch(n)
          ELSE /\ rows' = [rows EXCEPT ![t] = row]
               /\ UNCHANGED <<monitors, taskOf>>
    /\ drain' = IdleDrain
    /\ UNCHANGED <<exchangeVars, journal, queue, tick, envVars>>

\* Mutants: the row is left as it is; the monitor is forgotten but not cancelled
RecordSaleKeepingRow(n, pos) ==
    /\ UNCHANGED rows
    /\ journal' = IF pos.present
                  THEN journal \cup {JournalEntry("SELL", n, orders[n].qty, pos.qty > 0)}
                  ELSE journal

AbandonNothing(m) == UNCHANGED <<monitors, legs>>

\* The end of the SELL branch.  pos is the row read at the branch's start: it
\* decides whether and what is journalled.
RecordSale(n, pos) ==
    /\ CloseRow(orders[n].ticker)
    /\ journal' = IF pos.present
                  THEN journal \cup {JournalEntry("SELL", n, orders[n].qty, pos.qty > 0)}
                  ELSE journal

\* task.cancel() on the monitor of bracket m.  A cancellation it has already
\* handed to a worker thread may still go out.
AbandonMonitor(m) ==
    /\ monitors' = [monitors EXCEPT ![m] = NoMonitor]
    /\ \/ UNCHANGED legs
       \/ monitors[m].pc = "cancelStop" /\ Cancel(m, "stop")
       \/ monitors[m].pc = "cancelLimit" /\ Cancel(m, "limit")

\* The registered monitor is cancelled at once; without recorded legs there is
\* no await and the sale is recorded in the same step
SellFilled ==
    /\ up = "up" /\ drain.pc = "result" /\ drain.status = "filled" /\ Order.side = "SELL"
    /\ RecordFill
    /\ LET t == Order.ticker IN
       /\ taskOf' = [taskOf EXCEPT ![t] = 0]
       /\ IF taskOf[t] = 0 THEN UNCHANGED <<monitors, legs>> ELSE AbandonMonitor(taskOf[t])
       /\ IF rows[t].oco # 0
          THEN /\ drain' = [drain EXCEPT !.pc = "cancelStop", !.pos = rows[t]]
               /\ UNCHANGED <<rows, journal>>
          ELSE /\ drain' = IdleDrain
               /\ RecordSale(drain.id, rows[t])
    /\ UNCHANGED <<held, executed, queue, tick, envVars>>

CancelOnSale(k, next) ==
    /\ Cancel(drain.pos.oco, k)
    /\ drain' = [drain EXCEPT !.pc = next]
    /\ UNCHANGED <<held, executed, dbVars, queue, monitors, taskOf, tick, envVars>>

CancelStopOnSale == up = "up" /\ drain.pc = "cancelStop" /\ CancelOnSale("stop", "cancelLimit")
CancelLimitOnSale == up = "up" /\ drain.pc = "cancelLimit" /\ CancelOnSale("limit", "closing")

\* If a monitor has replaced the row meanwhile, reading pos raises after the
\* commit of the new row, and nothing is journalled
SellRecorded ==
    /\ up = "up" /\ drain.pc = "closing"
    /\ RecordSale(drain.id, IF rows[Order.ticker].oco = drain.pos.oco THEN drain.pos ELSE NoRow)
    /\ drain' = IdleDrain
    /\ UNCHANGED <<exchangeVars, orders, queue, monitors, taskOf, tick, envVars>>

Drain ==
    \/ \E n \in Ids : Take(n)
    \/ Market \/ PlaceLeg("stop") \/ PlaceLeg("limit") \/ CancelSurvivor
    \/ ResultNotFilled \/ BuyFilled \/ SellFilled
    \/ CancelStopOnSale \/ CancelLimitOnSale \/ SellRecorded
=============================================================================
