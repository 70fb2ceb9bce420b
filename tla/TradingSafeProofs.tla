-------------------------- MODULE TradingSafeProofs --------------------------
(***************************************************************************)
(* The trading loop in scenes where ticks do not overlap and positions are *)
(* not pyramided: one order per ticker, one monitor per position, and rows *)
(* that follow the account.                                                *)
(***************************************************************************)
EXTENDS TradingProofs, FunctionTheorems

SalePcs == {"cancelStop", "cancelLimit", "closing"}

\* A process that is not up has no tasks, and without crashes it is always up.
Stopped ==
    /\ up # "up" => /\ queue = {} /\ drain.pc = "idle"
                    /\ \A i \in Intervals : tick[i] = "idle"
                    /\ \A n \in Ids : monitors[n].pc = "none"
    /\ NoCrash => up = "up"

\* A row that is not there holds nothing.
AbsentEmpty == \A t \in Tickers : ~rows[t].present => rows[t].qty = 0 /\ ~rows[t].cooling

\* A sale cancels the bracket of its own ticker.
SaleOfTicker == drain.pc \in SalePcs => OfTicker(drain.pos.oco, Order.ticker)

\* A tick that runs is the only one, and nothing is queued or executed then.
TicksAlone ==
    \A i \in Intervals : tick[i] # "idle" =>
        Quiet /\ up = "up" /\ \A j \in Intervals : j # i => tick[j] = "idle"

\* Of two orders that are not finished, each has its own ticker.
Unfinished == queue \cup {n \in Ids : drain.pc # "idle" /\ drain.id = n}
OneOrder == \A m, n \in Unfinished : orders[m].ticker = orders[n].ticker => m = n

\* While a BUY is on its way nothing is open and nothing is watched on its ticker.
Unwatched(t) == \A m \in Ids : OfTicker(m, t) => monitors[m].pc = "none"
EntriesAlone ==
    \A n \in Unrecorded : orders[n].side = "BUY" =>
        ~IsOpen(rows[orders[n].ticker]) /\ Unwatched(orders[n].ticker)

\* A live monitor is the registered one, and it watches the bracket of the open
\* row or has closed the row and is about to end.
MonitorsOwn ==
    \A n \in Ids : monitors[n].pc # "none" =>
        /\ taskOf[orders[n].ticker] = n
        /\ \/ rows[orders[n].ticker].oco = n
           \/ /\ monitors[n].pc \in {"cancelStop", "cancelLimit"}
              /\ rows[orders[n].ticker].cooling /\ ~IsOpen(rows[orders[n].ticker])

\* A sale that cancels a bracket has ended its monitor.
SaleAlone == drain.pc \in SalePcs => Unwatched(Order.ticker)

Tidy ==
    /\ Sound /\ Stopped /\ AbsentEmpty /\ SaleOfTicker
    /\ Orderly => TicksAlone /\ OneOrder
    /\ Orderly /\ scene.safe => EntriesAlone /\ MonitorsOwn /\ SaleAlone

-----------------------------------------------------------------------------
\* The account and the rows never hold more than one BUY of a ticker.
AtMostOne ==
    /\ \A n \in 1..Len(orders) : orders[n].qty = 1
    /\ \A t \in Tickers : held[t] <= 1 /\ rows[t].qty <= 1

\* What the account holds is in a row, in hand, or in what start-up fetched.
HeldRecorded ==
    /\ up = "up" => \A t \in Tickers : held[t] > 0 => IsOpen(rows[t]) \/ InHand("BUY", t)
    /\ up = "starting" => \A t \in Tickers : held[t] <= fetched[t] /\ fetched[t] <= 1

\* When a leg of the current bracket has filled, nothing is held any more.
FillSells ==
    \A n \in 1..Len(orders) :
        HasLeg(n, "filled") /\ (rows[orders[n].ticker].oco = n \/ (InHand("BUY", orders[n].ticker) /\ drain.id = n))
            => held[orders[n].ticker] = 0

\* A SELL that was executed sold everything, and the row it found is open.
SaleTrue ==
    \A t \in Tickers : InHand("SELL", t) =>
        /\ held[t] = 0
        /\ drain.pc = "result" => IsOpen(rows[t]) /\ (rows[t].oco # 0 => ~HasLeg(rows[t].oco, "filled"))
        /\ drain.pc \in SalePcs => drain.pos.qty > 0

Kept ==
    /\ Tidy
    /\ Faithful => /\ AtMostOne /\ HeldRecorded /\ FillSells /\ SaleTrue
                   /\ \A e \in journal : e.priced

-----------------------------------------------------------------------------
LegsOwned ==
    \A n \in Ids : HasLeg(n, "open") =>
        monitors[n].pc # "none" \/ Executing(n) \/ CancellingBracket(n)

\* What the drain task knows of the legs it placed.
PlacedTrue ==
    /\ \A n \in 1..Len(orders) : orders[n].side = "SELL" => NoLegs(n)
    /\ drain.pc \in {"market", "stop"} => drain.placed = {}
    /\ drain.pc = "limit" => drain.placed \subseteq {"stop"}
    /\ drain.pc = "survivor" => \E k \in LegKinds : drain.placed = {k}
    /\ drain.pc = "result" => drain.placed \in {{}, LegKinds}
    /\ drain.pc \in {"limit", "survivor", "result"} =>
           \A k \in LegKinds : legs[drain.id][k] = "open" => k \in drain.placed
    /\ drain.pc = "result" /\ drain.status # "filled" => NoLegs(drain.id)

Untroubled == Faithful /\ NoCrash /\ Barring({"uncancelled"})

Owned == Kept /\ (Untroubled => LegsOwned /\ PlacedTrue)

-----------------------------------------------------------------------------
Alive(n) == \A k \in LegKinds : legs[n][k] \in {"open", "filled"}
Selling(t) == drain.pc \in SalePcs /\ Order.ticker = t

\* An open row has a bracket with both legs, and a monitor that polls them.
RowsWatched ==
    \A t \in Tickers : IsOpen(rows[t]) =>
        /\ rows[t].oco # 0
        /\ Selling(t) \/ (monitors[rows[t].oco].pc \in {"poll", "read"} /\ Alive(rows[t].oco))

\* Every BUY that is executed gets both legs.
PlacedAll ==
    \A t \in Tickers : InHand("BUY", t) =>
        /\ drain.pc \in {"stop", "limit", "result"}
        /\ drain.pc = "limit" => drain.placed = {"stop"}
        /\ drain.pc = "result" => drain.placed = LegKinds
        /\ \A k \in drain.placed : legs[drain.id][k] \in {"open", "filled"}

\* What a monitor reads is never a leg that died, so it ends after an exit.
ReadAlive ==
    \A n \in Ids :
        /\ monitors[n].pc = "read" => monitors[n].seen \in {"open", "filled"}
        /\ monitors[n].pc \in {"cancelStop", "cancelLimit"} =>
               held[orders[n].ticker] = 0 /\ rows[orders[n].ticker].oco # n

\* What an open row or a BUY in hand no longer holds has been sold.
SoldSeen ==
    \A t \in Tickers : held[t] = 0 =>
        /\ IsOpen(rows[t]) => InHand("SELL", t) \/ HasLeg(rows[t].oco, "filled")
        /\ InHand("BUY", t) => drain.pc # "stop" /\ HasLeg(drain.id, "filled")

Serene == Orderly /\ scene.safe /\ NoCrash /\ scene.faults \subseteq {"stale"}

Exact == Owned /\ (Serene => RowsWatched /\ PlacedAll /\ ReadAlive /\ SoldSeen)

-----------------------------------------------------------------------------
\* What every step of the drain task keeps: the clock of the process, the set of
\* orders that are under way, and what the orders say.
LEMMA DrainKeeps ==
    ASSUME Typed, Drain
    PROVE  /\ up = "up" /\ UNCHANGED <<tick, envVars>>
           /\ queue' \subseteq queue
           /\ Unfinished' \subseteq Unfinished /\ Unrecorded' \subseteq Unrecorded
           /\ Len(orders') = Len(orders)
           /\ \A n \in 1..Len(orders) :
                /\ orders'[n].ticker = orders[n].ticker
                /\ orders'[n].side = orders[n].side /\ orders'[n].qty = orders[n].qty
<1> DEFINE Same == /\ Len(orders') = Len(orders)
                   /\ \A n \in 1..Len(orders) :
                        /\ orders'[n].ticker = orders[n].ticker
                        /\ orders'[n].side = orders[n].side /\ orders'[n].qty = orders[n].qty
           Early == {"market", "stop", "limit", "survivor", "result"}
<1>1. drain \in DrainRecord
  BY DEF Typed, TypeOK, DrainRecord
<1>2. ASSUME NEW n \in Ids, Take(n)
      PROVE  /\ up = "up" /\ UNCHANGED <<tick, envVars>> /\ Same /\ queue' \subseteq queue
             /\ n \in queue /\ drain.pc = "idle" /\ drain'.id = n
  BY <1>2 DEF Take, IdleDrain, dbVars
<1>3. CASE \E n \in Ids : Take(n)
  BY <1>2, <1>3 DEF Unfinished, Unrecorded
<1>4. ASSUME up = "up", drain.pc # "idle", queue' = queue, UNCHANGED <<tick, envVars>>, Same,
             drain'.pc = "idle" \/ drain'.id = drain.id,
             drain'.pc \in Early => drain.pc \in Early
      PROVE  /\ up = "up" /\ UNCHANGED <<tick, envVars>> /\ Same
             /\ queue' \subseteq queue
             /\ Unfinished' \subseteq Unfinished /\ Unrecorded' \subseteq Unrecorded
  BY <1>4 DEF Unfinished, Unrecorded
<1> HIDE DEF Same
<1>5. CASE Market
  <2>1. Same
    BY <1>5 DEF Market, dbVars, Same
  <2>2. PICK status : AfterMarket(status)
    BY <1>5 DEF Market
  <2>3. drain'.id = drain.id
    BY <1>1, <2>2 DEF AfterMarket, DrainRecord
  <2>4. QED
    BY <1>4, <1>5, <2>1, <2>3 DEF Market, Same
<1>6. ASSUME NEW k \in LegKinds, PlaceLeg(k)
      PROVE  /\ up = "up" /\ UNCHANGED <<tick, envVars>> /\ Same
             /\ queue' \subseteq queue
             /\ Unfinished' \subseteq Unfinished /\ Unrecorded' \subseteq Unrecorded
  <2>1. Same
    BY <1>6 DEF PlaceLeg, dbVars, Same
  <2>2. drain'.id = drain.id /\ drain.pc \in Early /\ drain.pc # "idle"
    BY <1>1, <1>6 DEF PlaceLeg, DrainRecord, LegKinds
  <2>3. QED
    BY <1>4, <1>6, <2>1, <2>2 DEF PlaceLeg
<1>7. CASE CancelSurvivor \/ CancelStopOnSale \/ CancelLimitOnSale
  <2>1. Same
    BY <1>7 DEF CancelSurvivor, CancelStopOnSale, CancelLimitOnSale, CancelOnSale, dbVars, Same
  <2>2. /\ drain'.id = drain.id /\ drain.pc # "idle" /\ (drain'.pc \in Early => drain.pc \in Early)
        /\ up = "up" /\ queue' = queue /\ UNCHANGED <<tick, envVars>>
    BY <1>1, <1>7 DEF CancelSurvivor, CancelStopOnSale, CancelLimitOnSale, CancelOnSale, DrainRecord
  <2>3. QED
    BY <1>4, <2>1, <2>2 DEF Same
<1>8. CASE ResultNotFilled
  BY <1>4, <1>8, ConstantTypes DEF ResultNotFilled, dbVars, Same
<1>9. CASE BuyFilled
  <2>1. Same
    BY <1>9, DrainTypes, RecordFillTypes DEF BuyFilled, Same, Typed
  <2>2. drain'.pc = "idle" /\ drain.pc = "result"
    BY <1>9, ConstantTypes DEF BuyFilled
  <2>3. QED
    BY <1>4, <1>9, <2>1, <2>2 DEF BuyFilled, Same
<1>10. CASE SellFilled
  <2>1. Same
    BY <1>10, DrainTypes, RecordFillTypes DEF SellFilled, Same, Typed
  <2>2. /\ drain'.pc = "idle" \/ (drain'.id = drain.id /\ drain'.pc = "cancelStop")
        /\ drain.pc = "result" /\ up = "up" /\ queue' = queue /\ UNCHANGED <<tick, envVars>>
    BY <1>1, <1>10, ConstantTypes DEF SellFilled, DrainRecord
  <2>3. QED
    BY <1>4, <2>1, <2>2 DEF Same
<1>11. CASE SellRecorded
  BY <1>4, <1>11, ConstantTypes DEF SellRecorded, Same
<1>12. QED
  BY <1>3, <1>5, <1>6, <1>7, <1>8, <1>9, <1>10, <1>11 DEF Drain, Same, LegKinds

\* The steps of the drain task that record no fill touch neither the database
\* nor a monitor, and none of them begins a sale's cancellations.
LEMMA PlainDrain ==
    ASSUME Typed, Drain, ~BuyFilled, ~SellFilled, ~SellRecorded
    PROVE  /\ UNCHANGED <<rows, monitors, taskOf, orders>>
           /\ drain'.pc \in SalePcs => drain.pc \in SalePcs /\ drain'.id = drain.id
<1> DEFINE Plain == /\ UNCHANGED <<rows, monitors, taskOf, orders>>
                    /\ drain'.pc \in SalePcs => drain.pc \in SalePcs /\ drain'.id = drain.id
<1>1. drain \in DrainRecord
  BY DEF Typed, TypeOK, DrainRecord
<1>2. ASSUME NEW n \in Ids, Take(n) PROVE Plain
  BY <1>2 DEF Take, IdleDrain, dbVars, SalePcs
<1>3. CASE Market
  <2>1. PICK status : AfterMarket(status)
    BY <1>3 DEF Market
  <2>2. drain'.pc \notin SalePcs
    BY <1>1, <2>1 DEF AfterMarket, DrainRecord, SalePcs
  <2>3. QED
    BY <1>3, <2>2 DEF Market, dbVars
<1>4. ASSUME NEW k \in LegKinds, PlaceLeg(k) PROVE Plain
  <2>1. drain'.pc \notin SalePcs
    BY <1>1, <1>4 DEF PlaceLeg, AfterLeg, DrainRecord, SalePcs, LegKinds
  <2>2. QED
    BY <1>4, <2>1 DEF PlaceLeg, dbVars
<1>5. CASE CancelSurvivor \/ ResultNotFilled
  BY <1>1, <1>5, ConstantTypes DEF CancelSurvivor, ResultNotFilled, IdleDrain, dbVars, DrainRecord, SalePcs
<1>6. CASE CancelStopOnSale \/ CancelLimitOnSale
  BY <1>1, <1>6 DEF CancelStopOnSale, CancelLimitOnSale, CancelOnSale, dbVars, DrainRecord, SalePcs
<1>7. QED
  BY <1>2, <1>3, <1>4, <1>5, <1>6 DEF Drain, LegKinds

\* What the steps of the monitors keep.
LEMMA MonitorKeeps ==
    ASSUME NEW n \in Ids, Monitor(n)
    PROVE  up = "up" /\ UNCHANGED <<orders, held, executed, queue, drain, tick, envVars>>
BY DEF Monitor, ReadStop, ReadLimit, CancelOther, ClosePosition, exchangeVars, dbVars

\* What the steps of the environment keep.
LEMMA EnvironmentKeeps ==
    ASSUME Environment
    PROVE  UNCHANGED <<orders, journal, executed, taskVars, up, fetched, crashes, scene>>
BY DEF Environment, Exchange, LegFills, LegBounces, LegRevoked, CooldownExpires, SetHalt,
       exchangeVars, dbVars, envVars

\* A process that is not up has no tasks.
LEMMA StoppedStep == Typed /\ Stopped /\ [Next]_vars => Stopped'
<1> SUFFICES ASSUME Typed, Stopped, [Next]_vars PROVE Stopped'
  OBVIOUS
<1>1. CASE UNCHANGED vars
  BY <1>1 DEF Stopped, NoCrash, vars, taskVars, envVars
<1>2. CASE Ticks
  BY <1>2 DEF Ticks, TickStarts, TickEnds, Stopped, NoCrash, envVars
<1>3. CASE Drain
  BY <1>3, DrainKeeps DEF Stopped, NoCrash, envVars
<1>4. CASE \E n \in Ids : Monitor(n)
  BY <1>4, MonitorKeeps DEF Stopped, NoCrash, envVars
<1>5. CASE Environment
  BY <1>5, EnvironmentKeeps DEF Stopped, NoCrash, taskVars
<1>6. CASE Crash \/ CrashMidway
  <2>1. Die
    BY <1>6 DEF Crash, CrashMidway
  <2>2. ~NoCrash'
    BY SMTT(60), <2>1, DieTypes DEF Die, NoCrash, Typed, TypeOK
  <2>3. /\ queue' = {} /\ drain'.pc = "idle" /\ \A n \in Ids : monitors'[n].pc = "none"
        /\ \A i \in Intervals : tick'[i] = "idle"
    BY <2>1, DieTypes DEF Die
  <2>4. QED
    BY <2>2, <2>3 DEF Stopped
<1>7. CASE StartUp
  BY <1>7 DEF StartUp, Stopped, NoCrash, taskVars
<1>8. CASE StartedUp
  BY <1>8 DEF StartedUp, Stopped, NoCrash
<1>9. QED
  BY <1>1, <1>2, <1>3, <1>4, <1>5, <1>6, <1>7, <1>8 DEF Next, Restart

\* A row that is written over a row that is not there is a whole row.
LEMMA AbsentStep == Typed /\ AbsentEmpty /\ [Next]_vars => AbsentEmpty'
<1> SUFFICES ASSUME Typed, AbsentEmpty, [Next]_vars PROVE AbsentEmpty'
  OBVIOUS
<1> DEFINE Whole(r) == ~r.present => r.qty = 0 /\ ~r.cooling
<1>1. /\ rows \in [Tickers -> Row] /\ fetched \in [Tickers -> Nat] /\ \A t \in Tickers : Whole(rows[t])
      /\ Whole(NoRow) /\ Whole(ClosedRow)
  BY DEF Typed, TypeOK, AbsentEmpty, NoRow, ClosedRow
<1>2. ASSUME NEW t, NEW r, Whole(r), rows' \in {rows, [rows EXCEPT ![t] = r]} PROVE AbsentEmpty'
  BY <1>1, <1>2 DEF AbsentEmpty
<1>3. CASE UNCHANGED vars \/ Ticks \/ StartUp
  BY <1>1, <1>3 DEF vars, dbVars, Ticks, TickStarts, TickEnds, StartUp, AbsentEmpty
<1>4. ASSUME NEW n \in Ids, Monitor(n) PROVE AbsentEmpty'
  <2>1. rows' \in {rows, [rows EXCEPT ![orders[n].ticker] = ClosedRow]}
    BY <1>4 DEF Monitor, ReadStop, ReadLimit, CancelOther, ClosePosition, CloseRow, dbVars
  <2>2. QED
    BY <1>1, <1>2, <2>1
<1>5. CASE Environment
  <2>1. rows' = rows \/ \E t \in Tickers : rows[t].cooling /\ rows' = [rows EXCEPT ![t].cooling = FALSE]
    BY <1>5 DEF Environment, Exchange, LegFills, LegBounces, LegRevoked, CooldownExpires, SetHalt, dbVars
  <2>2. CASE rows' = rows
    BY <1>1, <2>2 DEF AbsentEmpty
  <2>3. ASSUME NEW t \in Tickers, rows[t].cooling, rows' = [rows EXCEPT ![t].cooling = FALSE]
        PROVE  AbsentEmpty'
    <3>1. Whole([rows[t] EXCEPT !.cooling = FALSE])
      BY <1>1, <2>3 DEF Row
    <3>2. rows' = [rows EXCEPT ![t] = [rows[t] EXCEPT !.cooling = FALSE]]
      BY <1>1, <2>3
    <3>3. QED
      BY <1>2, <3>1, <3>2
  <2>4. QED
    BY <2>1, <2>2, <2>3
<1>6. ASSUME NEW n \in 1..Len(orders), NEW t \in Tickers
      PROVE  Whole(RowAfterBuy(rows[t], n))
  BY <1>1, RowAfterBuyTypes
<1>7. CASE Drain
  <2>1. CASE BuyFilled
    <3> DEFINE row == RowAfterBuy(rows[Order.ticker], drain.id)
               r == IF drain.placed = LegKinds THEN [row EXCEPT !.oco = drain.id] ELSE row
    <3>1. drain.id \in 1..Len(orders) /\ Order.ticker \in Tickers
      BY <2>1, DrainTypes DEF BuyFilled
    <3>2. row \in Row /\ row.present
      BY <1>1, <3>1, RowAfterBuyTypes
    <3>3. r.present
      <4> HIDE DEF row
      <4>1. QED
        BY <3>2 DEF Row
    <3>4. rows' = [rows EXCEPT ![Order.ticker] = r]
      BY <2>1 DEF BuyFilled
    <3> HIDE DEF r
    <3>5. QED
      BY <1>2, <3>3, <3>4
  <2>2. CASE ~BuyFilled
    <3>1. CASE SellFilled \/ SellRecorded
      <4>1. rows' = rows \/ \E n : rows' = [rows EXCEPT ![orders[n].ticker] = ClosedRow]
        BY <3>1 DEF SellFilled, SellRecorded, RecordSale, CloseRow, Order
      <4>2. QED
        BY SMTT(60), <1>1, <1>2, <4>1
    <3>2. CASE ~SellFilled /\ ~SellRecorded
      BY <1>1, <1>7, <2>2, <3>2, PlainDrain DEF AbsentEmpty
    <3>3. QED
      BY <3>1, <3>2
  <2>3. QED
    BY <2>1, <2>2
<1>8. CASE Crash \/ CrashMidway
  <2>1. CASE Crash
    BY <1>1, <2>1 DEF Crash, dbVars, AbsentEmpty
  <2>2. CASE BuyCutShort
    <3>1. drain.id \in 1..Len(orders) /\ Order.ticker \in Tickers
      BY <2>2, DrainTypes DEF BuyCutShort
    <3>2. rows' \in {rows, [rows EXCEPT ![Order.ticker] = RowAfterBuy(rows[Order.ticker], drain.id)]}
      BY <2>2 DEF BuyCutShort
    <3>3. QED
      BY <1>2, <1>6, <3>1, <3>2
  <2>3. CASE SaleCutShort \/ \E n \in Ids : CloseCutShort(n)
    <3>1. \E t : rows' \in {rows} \cup PartlyClosed(t)
      BY <2>3 DEF SaleCutShort, CloseCutShort
    <3>2. QED
      BY <1>1, <1>2, <3>1 DEF PartlyClosed
  <2>4. QED
    BY <1>8, <2>1, <2>2, <2>3 DEF CrashMidway
<1>9. CASE StartedUp
  <2>1. CASE rows' = rows
    BY <1>1, <2>1 DEF AbsentEmpty
  <2>2. CASE rows' = [t \in Tickers |-> Reconciled(rows[t], fetched[t])]
    <3> SUFFICES ASSUME NEW t \in Tickers PROVE Whole(Reconciled(rows[t], fetched[t]))
      BY <2>2 DEF AbsentEmpty
    <3>1. rows[t] \in Row /\ fetched[t] \in Nat
      BY <1>1
    <3>2. Reconciled(rows[t], fetched[t]) \in {NoRow, rows[t]} \/ Reconciled(rows[t], fetched[t]).present
      BY <3>1, ReconciledTypes
    <3>3. QED
      BY <1>1, <3>2
  <2>3. QED
    BY <1>9, <2>1, <2>2 DEF StartedUp
<1>10. QED
  BY <1>3, <1>4, <1>5, <1>7, <1>8, <1>9 DEF Next, Restart

\* Orders are never removed, and keep their ticker, side and quantity.
LEMMA OrdersGrow ==
    ASSUME Typed, [Next]_vars
    PROVE  /\ 1..Len(orders) \subseteq 1..Len(orders')
           /\ \A n \in 1..Len(orders) :
                /\ orders'[n].ticker = orders[n].ticker
                /\ orders'[n].side = orders[n].side /\ orders'[n].qty = orders[n].qty
           /\ \A n, t : OfTicker(n, t) => OfTicker(n, t)'
<1> DEFINE Grow == /\ 1..Len(orders) \subseteq 1..Len(orders')
                   /\ \A n \in 1..Len(orders) :
                        /\ orders'[n].ticker = orders[n].ticker
                        /\ orders'[n].side = orders[n].side /\ orders'[n].qty = orders[n].qty
<1>1. ASSUME UNCHANGED orders PROVE Grow
  BY <1>1
<1>2. ASSUME NEW i \in Intervals, TickEnds(i) PROVE Grow
  <2>1. /\ Len(orders') \in Nat /\ Len(orders) \in Nat /\ Len(orders') >= Len(orders)
        /\ \A n \in 1..Len(orders) : orders'[n] = orders[n]
    BY <1>2, TickAppends, OrderTypes DEF Typed
  <2>2. QED
    BY <2>1
<1>3. ASSUME Ticks PROVE Grow
  BY <1>1, <1>2, <1>3 DEF Ticks, TickStarts, dbVars
<1>4. ASSUME Drain PROVE Grow
  BY <1>4, DrainKeeps
<1>5. ASSUME Crash \/ CrashMidway PROVE Grow
  BY <1>1, <1>5, CutShortTypes DEF Crash, CrashMidway, dbVars
<1>6. ASSUME UNCHANGED vars \/ (\E n \in Ids : Monitor(n)) \/ Environment \/ Restart PROVE Grow
  BY <1>1, <1>6, MonitorKeeps, EnvironmentKeeps DEF vars, dbVars, Restart, StartUp, StartedUp
<1>7. Grow
  BY <1>3, <1>4, <1>5, <1>6 DEF Next
<1>8. QED
  BY <1>7 DEF OfTicker

\* A sale cancels the bracket of its own ticker.
LEMMA SaleOfTickerStep == Typed /\ SaleOfTicker /\ BracketsProtect /\ [Next]_vars => SaleOfTicker'
<1> SUFFICES ASSUME Typed, SaleOfTicker, BracketsProtect, [Next]_vars, drain'.pc \in SalePcs
             PROVE  OfTicker(drain.pos.oco, Order.ticker)'
  BY DEF SaleOfTicker
<1>1. ASSUME drain.pc \in SalePcs, drain'.pos = drain.pos, drain'.id = drain.id
      PROVE  OfTicker(drain.pos.oco, Order.ticker)'
  <2>1. OfTicker(drain.pos.oco, Order.ticker)
    BY <1>1 DEF SaleOfTicker
  <2>2. OfTicker(drain.pos.oco, Order.ticker) => drain.pos.oco \in 1..Len(orders)
    BY DEF OfTicker
  <2>3. drain.id \in 1..Len(orders)
    BY <1>1, DrainTypes DEF SalePcs
  <2>4. QED
    BY <1>1, <2>1, <2>2, <2>3, OrdersGrow DEF OfTicker, Order
<1>2. CASE drain' = drain
  BY <1>1, <1>2
<1>3. CASE Drain
  <2>1. drain \in DrainRecord
    BY SMTT(60) DEF Typed, TypeOK, DrainRecord
  <2>2. CASE SellFilled
    <3>1. /\ drain'.pos = rows[Order.ticker] /\ drain'.id = drain.id /\ rows[Order.ticker].oco # 0
      BY <2>1, <2>2, ConstantTypes DEF SellFilled, SalePcs, DrainRecord
    <3>2. Order.ticker \in Tickers /\ drain.id \in 1..Len(orders)
      BY <2>2, DrainTypes DEF SellFilled
    <3>3. OfTicker(rows[Order.ticker].oco, Order.ticker)
      BY <3>1, <3>2 DEF Typed, References
    <3>4. QED
      BY <3>1, <3>2, <3>3, OrdersGrow DEF OfTicker, Order
  <2>3. CASE CancelStopOnSale \/ CancelLimitOnSale
    BY <1>1, <2>1, <2>3 DEF CancelStopOnSale, CancelLimitOnSale, CancelOnSale, SalePcs, DrainRecord
  <2>4. CASE ~SellFilled /\ ~CancelStopOnSale /\ ~CancelLimitOnSale
    <3>1. ASSUME NEW n \in Ids, Take(n) PROVE drain'.pc \notin SalePcs
      BY <3>1 DEF Take, IdleDrain, SalePcs
    <3>2. ASSUME Market PROVE drain'.pc \notin SalePcs
      <4>1. PICK status : AfterMarket(status)
        BY <3>2 DEF Market
      <4>2. QED
        BY <2>1, <4>1 DEF AfterMarket, DrainRecord, SalePcs
    <3>3. ASSUME NEW k \in LegKinds, PlaceLeg(k) PROVE drain'.pc \notin SalePcs
      BY <2>1, <3>3 DEF PlaceLeg, AfterLeg, DrainRecord, SalePcs, LegKinds
    <3>4. ASSUME CancelSurvivor \/ ResultNotFilled PROVE drain'.pc \notin SalePcs
      BY <2>1, <3>4, ConstantTypes DEF CancelSurvivor, ResultNotFilled, IdleDrain, DrainRecord, SalePcs
    <3>5. ASSUME BuyFilled \/ SellRecorded PROVE drain'.pc \notin SalePcs
      BY <3>5, ConstantTypes DEF BuyFilled, SellRecorded, IdleDrain, SalePcs
    <3>6. QED
      BY <1>3, <2>4, <3>1, <3>2, <3>3, <3>4, <3>5 DEF Drain, LegKinds
  <2>5. QED
    BY <2>2, <2>3, <2>4
<1>4. CASE Crash \/ CrashMidway
  BY <1>4, DieTypes DEF Crash, CrashMidway, SalePcs
<1>5. QED
  BY <1>2, <1>3, <1>4, MonitorKeeps, EnvironmentKeeps
     DEF Next, vars, taskVars, Ticks, TickStarts, TickEnds, Restart, StartUp, StartedUp

\* Nothing is executed while a tick runs.
LEMMA TicksAloneStep == Stopped /\ Typed /\ Orderly /\ TicksAlone /\ [Next]_vars => TicksAlone'
<1> SUFFICES ASSUME Stopped, Typed, Orderly, TicksAlone, [Next]_vars PROVE TicksAlone'
  OBVIOUS
<1>1. tick \in [Intervals -> {"idle", "clear", "halted"}]
  BY DEF Typed, TypeOK
<1>2. CASE UNCHANGED <<tick, queue, drain, up>>
  BY <1>2 DEF TicksAlone, Quiet
<1>3. CASE \A i \in Intervals : tick'[i] = "idle"
  BY <1>3 DEF TicksAlone
<1>4. ASSUME NEW i \in Intervals, TickStarts(i) PROVE TicksAlone'
  <2>1. /\ up = "up" /\ Quiet /\ \A j \in Intervals : j # i => tick'[j] = "idle"
        /\ UNCHANGED <<queue, drain, up>>
    BY <1>1, <1>4 DEF TickStarts, Orderly, envVars
  <2>2. QED
    BY <2>1 DEF TicksAlone, Quiet
<1>5. ASSUME NEW i \in Intervals, TickEnds(i) PROVE TicksAlone'
  <2>1. \A j \in Intervals : tick'[j] = "idle"
    BY <1>1, <1>5 DEF TickEnds, TicksAlone
  <2>2. QED
    BY <1>3, <2>1
<1>6. CASE Drain
  <2>1. ~Quiet
    BY <1>6 DEF Drain, Quiet, Take, Market, PlaceLeg, CancelSurvivor, ResultNotFilled, BuyFilled, SellFilled,
       CancelStopOnSale, CancelLimitOnSale, SellRecorded
  <2>2. QED
    BY SMTT(60), <1>6, <2>1, DrainKeeps DEF TicksAlone
<1>7. CASE Crash \/ CrashMidway
  BY <1>3, <1>7 DEF Crash, CrashMidway, Die
<1>8. CASE Restart
  BY <1>3, <1>8 DEF Restart, StartUp, StartedUp, Stopped, taskVars
<1>9. QED
  BY <1>2, <1>4, <1>5, <1>6, <1>7, <1>8, MonitorKeeps, EnvironmentKeeps DEF Next, Ticks, vars, taskVars, envVars

\* When a tick ends without overlap, its orders are the only ones under way.
LEMMA TickOrders ==
    ASSUME Typed, TicksAlone, NEW i \in Intervals, TickEnds(i)
    PROVE  /\ queue = {} /\ drain.pc = "idle" /\ queue' = (Len(orders) + 1)..Len(orders')
           /\ Unfinished = {} /\ Unrecorded = {} /\ Unfinished' = queue' /\ Unrecorded' = queue'
           /\ Len(orders) \in Nat /\ Len(orders') \in Nat
           /\ \A m, n \in queue' : orders'[m].ticker = orders'[n].ticker => m = n
           /\ \A n \in queue' : /\ n \in Ids /\ n \in 1..Len(orders') /\ n \notin 1..Len(orders)
                                /\ orders'[n].ticker \in Tickers
                                /\ orders'[n] = OrderFor(orders'[n].ticker, orders'[n].side)
                                /\ Approved(orders'[n].ticker, orders'[n].side)
<1>1. queue = {} /\ drain.pc = "idle" /\ drain' = drain
  BY DEF TickEnds, TicksAlone, Quiet
<1>2. PICK signal \in [scene.tickers -> Signals], S \in SUBSET Tickers : \E ts \in Seq(S) :
             /\ ts \in Listings(S) /\ (S = {} \/ S = Approvals(signal))
             /\ Len(ts) \in Nat
             /\ Len(orders') = Len(orders) + Len(ts) /\ Len(orders') <= MaxOrders
             /\ \A k \in 1..Len(ts) : /\ ts[k] \in S
                                      /\ orders'[Len(orders) + k] = OrderFor(ts[k], signal[ts[k]])
             /\ \A k, j \in 1..Len(ts) : ts[k] = ts[j] => k = j
             /\ queue' = queue \cup (Len(orders) + 1)..Len(orders')
  BY TickAppends
<1>3. PICK ts \in Seq(S) :
             /\ (S = {} \/ S = Approvals(signal))
             /\ Len(ts) \in Nat
             /\ Len(orders') = Len(orders) + Len(ts) /\ Len(orders') <= MaxOrders
             /\ \A k \in 1..Len(ts) : /\ ts[k] \in S
                                      /\ orders'[Len(orders) + k] = OrderFor(ts[k], signal[ts[k]])
             /\ \A k, j \in 1..Len(ts) : ts[k] = ts[j] => k = j
             /\ queue' = queue \cup (Len(orders) + 1)..Len(orders')
  BY <1>2
<1>4. /\ Len(orders) \in Nat /\ Len(orders') \in Nat /\ Len(orders) <= Len(orders')
      /\ queue' = (Len(orders) + 1)..Len(orders')
  BY <1>1, <1>3, OrderTypes DEF Typed
<1>5. Unfinished = {} /\ Unrecorded = {} /\ Unfinished' = queue' /\ Unrecorded' = queue'
  BY <1>1 DEF Unfinished, Unrecorded
<1>6. ASSUME NEW n \in queue'
      PROVE  /\ n - Len(orders) \in 1..Len(ts) /\ n = Len(orders) + (n - Len(orders))
             /\ n \in Ids /\ n \in 1..Len(orders') /\ n \notin 1..Len(orders)
  <2>1. n \in 1..Len(orders') /\ n \notin 1..Len(orders)
    BY <1>4, <1>6
  <2>2. n \in Ids
    BY <1>3, <1>4, <2>1, TradingAssumption DEF Ids
  <2>3. QED
    BY <1>3, <1>4, <1>6, <2>1, <2>2
<1>7. ASSUME NEW n \in queue'
      PROVE  LET t == ts[n - Len(orders)] IN
             /\ t \in S /\ t \in Tickers /\ orders'[n] = OrderFor(t, signal[t])
             /\ orders'[n].ticker = t /\ orders'[n].side = signal[t] /\ Approved(t, signal[t])
  <2> DEFINE t == ts[n - Len(orders)]
  <2>1. t \in S /\ t \in Tickers /\ orders'[n] = OrderFor(t, signal[t])
    BY <1>3, <1>6
  <2>2. orders'[n].ticker = t /\ orders'[n].side = signal[t]
    BY <2>1 DEF OrderFor
  <2>3. Approved(t, signal[t])
    BY <1>3, <2>1 DEF Approvals
  <2>4. QED
    BY <2>1, <2>2, <2>3
<1>8. ASSUME NEW m \in queue', NEW n \in queue', orders'[m].ticker = orders'[n].ticker PROVE m = n
  <2>1. ts[m - Len(orders)] = ts[n - Len(orders)]
    BY <1>7, <1>8
  <2>2. m - Len(orders) = n - Len(orders)
    BY <1>3, <1>6, <2>1
  <2>3. QED
    BY <1>6, <2>2
<1>9. QED
  BY <1>1, <1>4, <1>5, <1>6, <1>7, <1>8

\* A ticker never has two orders under way.
LEMMA OneOrderStep ==
    Typed /\ Stopped /\ Orderly /\ TicksAlone /\ OneOrder /\ [Next]_vars => OneOrder'
<1> SUFFICES ASSUME Typed, Stopped, Orderly, TicksAlone, OneOrder, [Next]_vars PROVE OneOrder'
  OBVIOUS
<1>1. Unfinished \subseteq 1..Len(orders)
  BY DEF Typed, TypeOK, References, Unfinished
<1>2. CASE Unfinished' \subseteq Unfinished
  BY <1>1, <1>2, OrdersGrow DEF OneOrder
<1>3. ASSUME NEW i \in Intervals, TickEnds(i) PROVE OneOrder'
  BY <1>3, TickOrders DEF OneOrder
<1>4. CASE UNCHANGED <<queue, drain>>
  BY <1>2, <1>4 DEF Unfinished
<1>5. CASE Crash \/ CrashMidway
  <2>1. queue' = {} /\ drain'.pc = "idle"
    BY <1>5, DieTypes DEF Crash, CrashMidway
  <2>2. QED
    BY <1>2, <2>1 DEF Unfinished
<1>6. QED
  BY <1>2, <1>3, <1>4, <1>5, DrainKeeps, MonitorKeeps, EnvironmentKeeps
     DEF Next, Ticks, TickStarts, vars, taskVars, Restart, StartUp, StartedUp

-----------------------------------------------------------------------------
(***************************************************************************)
(* One monitor per ticker, without pyramiding.  A position is entered only *)
(* when the ticker has none and its cooldown is over, which is after the   *)
(* monitor of the last one has ended.                                      *)
(***************************************************************************)
Lone == EntriesAlone /\ MonitorsOwn /\ SaleAlone

\* What the parts of the invariant say of ids and tickers.
LEMMA TidyTypes ==
    ASSUME Tidy
    PROVE  /\ Typed /\ rows \in [Tickers -> Row] /\ monitors \in [Ids -> MonitorRecord]
           /\ taskOf \in [Tickers -> {0} \cup Ids] /\ drain \in DrainRecord
           /\ 1..Len(orders) \subseteq Ids /\ 0 \notin Ids
           /\ \A n \in 1..Len(orders) : orders[n].ticker \in Tickers
           /\ \A n \in Ids : monitors[n].pc # "none" => n \in 1..Len(orders)
           /\ \A n \in Unrecorded : n \in 1..Len(orders)
           /\ \A t \in Tickers : rows[t].oco # 0 => IsOpen(rows[t])
<1>1. Typed /\ TypeOK
  BY DEF Tidy, Sound, Typed
<1>2. queue \subseteq 1..Len(orders) /\ (drain.pc # "idle" => drain.id \in 1..Len(orders))
  BY <1>1 DEF Typed, TypeOK, References
<1>3. \A n \in Unrecorded : n \in 1..Len(orders)
  BY <1>2 DEF Unrecorded
<1>4. \A n \in Ids : monitors[n].pc # "none" => n \in 1..Len(orders)
  BY <1>1 DEF Typed, References
<1>5. \A t \in Tickers : rows[t].oco # 0 => IsOpen(rows[t])
  BY DEF Tidy, Sound, BracketsProtect
<1>6. /\ rows \in [Tickers -> Row] /\ monitors \in [Ids -> MonitorRecord]
      /\ taskOf \in [Tickers -> {0} \cup Ids] /\ drain \in DrainRecord
  BY <1>1 DEF TypeOK, MonitorRecord, DrainRecord
<1>7. 0 \notin Ids
  BY TradingAssumption DEF Ids
<1>8. QED
  BY <1>1, <1>3, <1>4, <1>5, <1>6, <1>7, OrderTypes

\* Steps that leave rows, monitors and their register alone.
LEMMA LoneKept ==
    ASSUME Tidy, Lone, UNCHANGED <<rows, monitors, taskOf, orders>>, Unrecorded' \subseteq Unrecorded,
           drain'.pc \in SalePcs => drain.pc \in SalePcs /\ drain'.id = drain.id
    PROVE  Lone'
<1>1. \A t : Unwatched(t)' = Unwatched(t)
  BY DEF Unwatched, OfTicker
<1>2. EntriesAlone'
  BY <1>1 DEF Lone, EntriesAlone
<1>3. MonitorsOwn'
  BY DEF Lone, MonitorsOwn
<1>4. SaleAlone'
  <2> SUFFICES ASSUME drain'.pc \in SalePcs PROVE Unwatched(Order.ticker)'
    BY DEF SaleAlone
  <2>1. Unwatched(Order.ticker) /\ Order' = Order
    BY DEF Lone, SaleAlone, Order
  <2>2. QED
    BY <2>1 DEF Unwatched, OfTicker
<1>5. QED
  BY <1>2, <1>3, <1>4 DEF Lone

\* A BUY is recorded on a ticker with no open row and no monitor.
LEMMA LoneBuyFilled ==
    ASSUME Tidy, OneOrder, Lone, BuyFilled
    PROVE  Lone'
<1> DEFINE n == drain.id
           t == Order.ticker
           whole == drain.placed = LegKinds
<1>1. /\ n \in 1..Len(orders) /\ n \in Ids /\ t \in Tickers /\ t = orders[n].ticker
      /\ n \in Unrecorded /\ n \in Unfinished /\ orders[n].side = "BUY" /\ drain.pc = "result"
  BY DrainTypes, TidyTypes, UnrecordedTypes DEF BuyFilled, Order, Unfinished
<1>2. ~IsOpen(rows[t]) /\ Unwatched(t)
  BY <1>1 DEF Lone, EntriesAlone
<1>3. /\ drain'.pc = "idle" /\ queue' = queue
      /\ \E r : rows' = [rows EXCEPT ![t] = r] /\ (whole => r.oco = n)
      /\ IF whole THEN Watch(n) ELSE UNCHANGED <<monitors, taskOf>>
  <2> DEFINE row == RowAfterBuy(rows[t], n)
             r == IF whole THEN [row EXCEPT !.oco = n] ELSE row
  <2>1. row \in Row
    BY <1>1, TidyTypes, RowAfterBuyTypes
  <2>2. whole => r.oco = n
    <3> HIDE DEF row
    <3>1. QED
      BY <2>1 DEF Row
  <2>3. rows' = [rows EXCEPT ![t] = r]
    BY DEF BuyFilled
  <2> HIDE DEF r
  <2>4. QED
    BY <2>2, <2>3, ConstantTypes DEF BuyFilled
<1>4. /\ Len(orders') = Len(orders) /\ \A m \in 1..Len(orders) : orders'[m].ticker = orders[m].ticker /\ orders'[m].side = orders[m].side
  BY <1>1, TidyTypes, RecordFillTypes DEF BuyFilled, Typed
<1>5. \A m \in Ids : m # n => monitors'[m] = monitors[m]
  BY <1>3, TidyTypes DEF Watch
<1>6. \A u \in Tickers : u # t => rows'[u] = rows[u] /\ taskOf'[u] = taskOf[u]
  BY <1>1, <1>3, TidyTypes DEF Watch
<1>7. whole => taskOf'[t] = n /\ rows'[t].oco = n
  BY <1>1, <1>3, TidyTypes DEF Watch
<1>8. ~whole => monitors' = monitors
  BY <1>3
<1>9. Unrecorded' = queue /\ queue \subseteq Unfinished /\ queue \subseteq Unrecorded /\ n \notin queue
  BY <1>1, <1>3 DEF Unrecorded, Unfinished, Tidy, Sound, ExecutedOnce
<1> HIDE DEF n, t, whole
<1>10. EntriesAlone'
  <2> SUFFICES ASSUME NEW m \in queue, orders'[m].side = "BUY"
               PROVE  ~IsOpen(rows'[orders'[m].ticker]) /\ Unwatched(orders[m].ticker)'
    BY <1>9 DEF EntriesAlone
  <2>1. /\ m \in 1..Len(orders) /\ orders[m].ticker # t /\ orders[m].ticker \in Tickers
        /\ orders'[m].ticker = orders[m].ticker /\ orders[m].side = "BUY"
    BY <1>1, <1>4, <1>9, TidyTypes DEF OneOrder
  <2>2. ~IsOpen(rows[orders[m].ticker]) /\ Unwatched(orders[m].ticker)
    BY <1>9, <2>1 DEF Lone, EntriesAlone
  <2>3. ~IsOpen(rows'[orders'[m].ticker])
    BY <1>6, <2>1, <2>2
  <2>4. ASSUME NEW k \in Ids, k \in 1..Len(orders), orders[k].ticker = orders[m].ticker PROVE monitors'[k].pc = "none"
    BY <1>1, <1>5, <2>1, <2>2, <2>4 DEF Unwatched, OfTicker
  <2>5. QED
    BY <1>4, <2>1, <2>3, <2>4 DEF Unwatched, OfTicker
<1>11. MonitorsOwn'
  <2> SUFFICES ASSUME NEW m \in Ids, monitors'[m].pc # "none"
               PROVE  /\ taskOf'[orders'[m].ticker] = m
                      /\ \/ rows'[orders'[m].ticker].oco = m
                         \/ /\ monitors'[m].pc \in {"cancelStop", "cancelLimit"}
                            /\ rows'[orders'[m].ticker].cooling /\ ~IsOpen(rows'[orders'[m].ticker])
    BY DEF MonitorsOwn
  <2>1. CASE m = n /\ whole
    BY <1>1, <1>4, <1>7, <2>1
  <2>2. CASE m # n \/ ~whole
    <3>1. monitors'[m] = monitors[m] /\ m \in 1..Len(orders) /\ orders[m].ticker \in Tickers
      BY <1>5, <1>8, <2>2, TidyTypes
    <3>2. orders[m].ticker # t
      BY <1>2, <3>1 DEF Unwatched, OfTicker
    <3>3. QED
      BY <1>4, <1>6, <3>1, <3>2 DEF Lone, MonitorsOwn
  <2>3. QED
    BY <2>1, <2>2
<1>12. SaleAlone'
  BY <1>3 DEF SaleAlone, SalePcs
<1>13. QED
  BY <1>10, <1>11, <1>12 DEF Lone

\* Steps that end monitors of t, and close its row only when it has none left.
LEMMA LoneEnds ==
    ASSUME Tidy, Lone, [Next]_vars, NEW t \in Tickers,
           Len(orders') = Len(orders),
           \A n \in Ids : monitors'[n] = monitors[n] \/ monitors'[n].pc = "none",
           \A n \in Ids : OfTicker(n, t) => monitors'[n].pc = "none",
           \A u \in Tickers : u # t => rows'[u] = rows[u] /\ taskOf'[u] = taskOf[u],
           rows'[t] = rows[t] \/ ~IsOpen(rows'[t]),
           Unrecorded' \subseteq Unrecorded,
           drain'.pc \in SalePcs => Order'.ticker = t \/ (drain.pc \in SalePcs /\ drain'.id = drain.id)
    PROVE  Lone'
<1>1. \A m \in 1..Len(orders) : orders'[m].ticker = orders[m].ticker /\ orders'[m].side = orders[m].side
  BY TidyTypes, OrdersGrow
<1>2. \A u : Unwatched(u) => Unwatched(u)'
  BY <1>1 DEF Unwatched, OfTicker
<1>3. Unwatched(t)'
  BY <1>1 DEF Unwatched, OfTicker
<1>4. EntriesAlone'
  <2> SUFFICES ASSUME NEW m \in Unrecorded, orders'[m].side = "BUY"
               PROVE  ~IsOpen(rows'[orders'[m].ticker]) /\ Unwatched(orders[m].ticker)'
    BY DEF EntriesAlone
  <2>1. m \in 1..Len(orders) /\ orders'[m].ticker = orders[m].ticker /\ orders[m].ticker \in Tickers /\ orders[m].side = "BUY"
    BY <1>1, TidyTypes
  <2>2. ~IsOpen(rows[orders[m].ticker]) /\ Unwatched(orders[m].ticker)
    BY <2>1 DEF Lone, EntriesAlone
  <2>3. Unwatched(orders[m].ticker)'
    BY <1>1, <2>1, <2>2 DEF Unwatched, OfTicker
  <2>4. QED
    BY <2>1, <2>2, <2>3
<1>5. MonitorsOwn'
  <2> SUFFICES ASSUME NEW m \in Ids, monitors'[m].pc # "none"
               PROVE  /\ taskOf'[orders'[m].ticker] = m
                      /\ \/ rows'[orders'[m].ticker].oco = m
                         \/ /\ monitors'[m].pc \in {"cancelStop", "cancelLimit"}
                            /\ rows'[orders'[m].ticker].cooling /\ ~IsOpen(rows'[orders'[m].ticker])
    BY DEF MonitorsOwn
  <2>1. monitors'[m] = monitors[m] /\ m \in 1..Len(orders) /\ orders[m].ticker \in Tickers
    BY TidyTypes
  <2>2. orders[m].ticker # t
    BY <2>1 DEF OfTicker
  <2>3. QED
    BY <1>1, <2>1, <2>2 DEF Lone, MonitorsOwn
<1>6. SaleAlone'
  <2> SUFFICES ASSUME drain'.pc \in SalePcs PROVE Unwatched(Order.ticker)'
    BY DEF SaleAlone
  <2>1. CASE Order'.ticker = t
    BY <1>3, <2>1 DEF Unwatched
  <2>2. CASE drain.pc \in SalePcs /\ drain'.id = drain.id
    <3>1. Unwatched(Order.ticker) /\ drain.id \in 1..Len(orders)
      BY <2>2, TidyTypes, DrainTypes DEF Lone, SaleAlone, SalePcs
    <3>2. Order'.ticker = Order.ticker
      BY <1>1, <2>2, <3>1 DEF Order
    <3>3. QED
      BY <1>1, <3>1, <3>2 DEF Unwatched, OfTicker
  <2>3. QED
    BY <2>1, <2>2
<1>7. QED
  BY <1>4, <1>5, <1>6 DEF Lone

\* A sale ends the monitor of its ticker before it cancels the bracket.
LEMMA LoneSellFilled ==
    ASSUME Tidy, Lone, SellFilled
    PROVE  Lone'
<1> DEFINE t == Order.ticker
<1>1. /\ drain.id \in 1..Len(orders) /\ t \in Tickers /\ t = orders[drain.id].ticker
      /\ drain.pc = "result" /\ up = "up"
  BY DrainTypes, TidyTypes DEF SellFilled, Order
<1>2. [Next]_vars
  BY DEF Next, Drain
<1>3. /\ Len(orders') = Len(orders)
      /\ \A n \in 1..Len(orders) : orders'[n].ticker = orders[n].ticker
  BY <1>1, TidyTypes, RecordFillTypes DEF SellFilled, Typed
<1>4. /\ taskOf' = [taskOf EXCEPT ![t] = 0]
      /\ taskOf[t] = 0 => monitors' = monitors
      /\ taskOf[t] # 0 => monitors' = [monitors EXCEPT ![taskOf[t]] = NoMonitor]
      /\ rows' = rows \/ rows' = [rows EXCEPT ![t] = ClosedRow]
      /\ drain'.pc \in SalePcs => drain'.id = drain.id
  BY <1>1, ConstantTypes, TidyTypes
     DEF SellFilled, AbandonMonitor, RecordSale, CloseRow, SalePcs, DrainRecord
<1>5. Unrecorded' \subseteq Unrecorded
  BY <1>2, TidyTypes, DrainKeeps DEF SellFilled, Drain
<1>6. \A n \in Ids : monitors'[n] = monitors[n] \/ monitors'[n].pc = "none"
  BY <1>1, <1>4, TidyTypes, ConstantTypes
<1>7. ASSUME NEW n \in Ids, OfTicker(n, t) PROVE monitors'[n].pc = "none"
  <2>1. monitors[n].pc # "none" => taskOf[t] = n
    BY <1>7 DEF Lone, MonitorsOwn, OfTicker
  <2>2. 0 \notin Ids
    BY TidyTypes
  <2>3. QED
    BY <1>1, <1>4, <1>6, <2>1, <2>2, TidyTypes, ConstantTypes
<1>8. \A u \in Tickers : u # t => rows'[u] = rows[u] /\ taskOf'[u] = taskOf[u]
  BY <1>1, <1>4, TidyTypes
<1>9. rows'[t] = rows[t] \/ ~IsOpen(rows'[t])
  <2>1. ~IsOpen(ClosedRow)
    BY DEF IsOpen, ClosedRow, NoRow
  <2>2. QED
    BY <1>1, <1>4, <2>1, TidyTypes
<1>10. drain'.pc \in SalePcs => Order'.ticker = t
  BY <1>1, <1>3, <1>4 DEF Order
<1> HIDE DEF t
<1>11. QED
  BY <1>1, <1>2, <1>3, <1>5, <1>6, <1>7, <1>8, <1>9, <1>10, LoneEnds

\* The row of a sale is closed when no monitor of its ticker is left.
LEMMA LoneSellRecorded ==
    ASSUME Tidy, Lone, SellRecorded
    PROVE  Lone'
<1> DEFINE t == Order.ticker
<1>1. /\ drain.id \in 1..Len(orders) /\ t \in Tickers /\ t = orders[drain.id].ticker
  BY DrainTypes, TidyTypes DEF SellRecorded, Order
<1>2. [Next]_vars /\ Drain
  BY DEF Next, Drain
<1>3. /\ UNCHANGED <<orders, monitors, taskOf>> /\ rows' = [rows EXCEPT ![t] = ClosedRow]
      /\ drain'.pc = "idle"
  BY ConstantTypes DEF SellRecorded, RecordSale, CloseRow, Order
<1>4. Unrecorded' \subseteq Unrecorded
  BY <1>2, TidyTypes, DrainKeeps
<1>5. \A n \in Ids : OfTicker(n, t) => monitors'[n].pc = "none"
  BY <1>3 DEF Lone, SaleAlone, Unwatched, SellRecorded, SalePcs
<1>6. \A u \in Tickers : u # t => rows'[u] = rows[u] /\ taskOf'[u] = taskOf[u]
  BY <1>1, <1>3, TidyTypes
<1>7. ~IsOpen(rows'[t])
  BY <1>1, <1>3, TidyTypes DEF IsOpen, ClosedRow, NoRow
<1> HIDE DEF t
<1>8. QED
  BY <1>1, <1>2, <1>3, <1>4, <1>5, <1>6, <1>7, LoneEnds DEF SalePcs

\* The other steps of the drain task touch no row and no monitor.
LEMMA LoneDrain ==
    ASSUME Tidy, OneOrder, Lone, Drain
    PROVE  Lone'
<1>1. CASE BuyFilled
  BY <1>1, LoneBuyFilled
<1>2. CASE SellFilled
  BY <1>2, LoneSellFilled
<1>3. CASE SellRecorded
  BY <1>3, LoneSellRecorded
<1>4. CASE ~BuyFilled /\ ~SellFilled /\ ~SellRecorded
  <2>1. Unrecorded' \subseteq Unrecorded
    BY TidyTypes, DrainKeeps
  <2>2. UNCHANGED <<rows, monitors, taskOf, orders>>
    BY <1>4, TidyTypes, PlainDrain
  <2>3. drain'.pc \in SalePcs => drain.pc \in SalePcs /\ drain'.id = drain.id
    BY <1>4, TidyTypes, PlainDrain
  <2>4. QED
    BY <2>1, <2>2, <2>3, LoneKept
<1>5. QED
  BY <1>1, <1>2, <1>3, <1>4

\* A monitor that closes a row stays until it has cancelled the other leg.
LEMMA LoneMonitor ==
    ASSUME Tidy, Lone, NEW n \in Ids, Monitor(n)
    PROVE  Lone'
<1> DEFINE t == orders[n].ticker
<1>1. /\ n \in 1..Len(orders) /\ t \in Tickers /\ monitors[n].pc # "none"
  BY TidyTypes DEF Monitor, ReadStop, ReadLimit, CancelOther
<1>2. [Next]_vars /\ UNCHANGED <<orders, drain, queue>>
  BY MonitorKeeps DEF Next
<1>3. taskOf[t] = n /\ \A m \in Ids : OfTicker(m, t) /\ monitors[m].pc # "none" => m = n
  BY <1>1 DEF Lone, MonitorsOwn, OfTicker
<1>4. Unrecorded' = Unrecorded
  BY <1>2 DEF Unrecorded
<1>5. CASE CancelOther(n)
  <2>1. UNCHANGED rows /\ EndMonitor(n)
    BY <1>5 DEF CancelOther, dbVars
  <2>2. \A m \in Ids : monitors'[m] = monitors[m] \/ monitors'[m].pc = "none"
    BY <2>1, TidyTypes, ConstantTypes DEF EndMonitor
  <2>3. ASSUME NEW m \in Ids, OfTicker(m, t) PROVE monitors'[m].pc = "none"
    BY <1>3, <2>1, <2>3, TidyTypes, ConstantTypes DEF EndMonitor
  <2>4. \A u \in Tickers : u # t => rows'[u] = rows[u] /\ taskOf'[u] = taskOf[u]
    BY <1>1, <2>1, TidyTypes DEF EndMonitor
  <2>5. drain'.pc \in SalePcs => drain.pc \in SalePcs /\ drain'.id = drain.id
    BY <1>2
  <2> HIDE DEF t
  <2>6. QED
    BY <1>1, <1>2, <1>4, <2>1, <2>2, <2>3, <2>4, <2>5, LoneEnds
<1>6. ASSUME UNCHANGED taskOf,
             \A m \in Ids : monitors'[m].pc # "none" => monitors[m].pc # "none",
             \A m \in Ids : m # n => monitors'[m] = monitors[m],
             \A u \in Tickers : u # t => rows'[u] = rows[u],
             \/ rows'[t] = rows[t] /\ monitors[n].pc \notin {"cancelStop", "cancelLimit"}
             \/ /\ rows'[t] = ClosedRow
                /\ monitors'[n].pc \in {"cancelStop", "cancelLimit"}
      PROVE  Lone'
  <2>1. \A u : Unwatched(u) => Unwatched(u)'
    BY <1>2, <1>6 DEF Unwatched, OfTicker
  <2>2. ~IsOpen(ClosedRow) /\ ClosedRow.cooling
    BY DEF ClosedRow, NoRow, IsOpen
  <2>3. EntriesAlone'
    <3> SUFFICES ASSUME NEW m \in Unrecorded, orders[m].side = "BUY"
                 PROVE  ~IsOpen(rows'[orders[m].ticker]) /\ Unwatched(orders[m].ticker)'
      BY <1>2, <1>4 DEF EntriesAlone
    <3>1. orders[m].ticker \in Tickers
      BY TidyTypes
    <3>2. ~IsOpen(rows[orders[m].ticker]) /\ Unwatched(orders[m].ticker)
      BY DEF Lone, EntriesAlone
    <3>3. QED
      BY <1>2, <1>6, <2>2, <3>1, <3>2 DEF Unwatched, OfTicker
  <2>4. MonitorsOwn'
    <3> SUFFICES ASSUME NEW m \in Ids, monitors'[m].pc # "none"
                 PROVE  /\ taskOf[orders[m].ticker] = m
                        /\ \/ rows'[orders[m].ticker].oco = m
                           \/ /\ monitors'[m].pc \in {"cancelStop", "cancelLimit"}
                              /\ rows'[orders[m].ticker].cooling /\ ~IsOpen(rows'[orders[m].ticker])
      BY <1>2, <1>6 DEF MonitorsOwn
    <3>1. monitors[m].pc # "none" /\ m \in 1..Len(orders) /\ orders[m].ticker \in Tickers
      BY <1>6, TidyTypes
    <3>2. CASE m = n
      BY <1>3, <1>6, <2>2, <3>1, <3>2 DEF Lone, MonitorsOwn
    <3>3. CASE m # n
      <4>1. orders[m].ticker # t
        BY <1>3, <3>1, <3>3 DEF OfTicker
      <4>2. QED
        BY <1>6, <3>1, <3>3, <4>1 DEF Lone, MonitorsOwn
    <3>4. QED
      BY <3>2, <3>3
  <2>5. SaleAlone'
    BY <1>2, <1>6 DEF Lone, SaleAlone, Order, Unwatched, OfTicker
  <2>6. QED
    BY <2>3, <2>4, <2>5 DEF Lone
<1>7. CASE ReadStop(n)
  <2>1. /\ UNCHANGED <<taskOf, rows>> /\ monitors[n].pc = "poll"
        /\ monitors' = [monitors EXCEPT ![n].pc = "read", ![n].seen = legs[n]["stop"]]
    BY <1>7 DEF ReadStop, dbVars
  <2>2. \A m \in Ids : m # n => monitors'[m] = monitors[m]
    BY <2>1, TidyTypes
  <2>3. QED
    BY <1>1, <1>6, <2>1, <2>2
<1>8. CASE ReadLimit(n)
  <2> DEFINE d == Decision(monitors[n].seen, legs[n]["limit"])
  <2>1. /\ UNCHANGED taskOf /\ monitors[n].pc = "read"
        /\ monitors' = [monitors EXCEPT ![n].pc = d.pc, ![n].seen = "none"]
        /\ d.close => rows' = [rows EXCEPT ![t] = ClosedRow]
        /\ ~d.close => rows' = rows
    BY <1>8 DEF ReadLimit, ClosePosition, CloseRow, dbVars
  <2>2. \A m \in Ids : m # n => monitors'[m] = monitors[m]
    BY <2>1, TidyTypes
  <2>3. d.close => d.pc \in {"cancelStop", "cancelLimit"}
    BY DEF Decision
  <2>4. monitors'[n].pc = d.pc
    BY <2>1, TidyTypes DEF MonitorRecord
  <2> HIDE DEF d
  <2>5. rows'[t] = IF d.close THEN ClosedRow ELSE rows[t]
    BY <1>1, <2>1, TidyTypes
  <2>6. \A u \in Tickers : u # t => rows'[u] = rows[u]
    BY <1>1, <2>1, TidyTypes
  <2>7. \A m \in Ids : monitors'[m].pc # "none" => monitors[m].pc # "none"
    BY <1>1, <2>2
  <2> HIDE DEF t
  <2>8. QED
    BY <1>1, <1>6, <2>1, <2>2, <2>3, <2>4, <2>5, <2>6, <2>7
<1>9. QED
  BY <1>5, <1>7, <1>8 DEF Monitor

\* A cooldown ends after the monitor that started it, and the exchange and the
\* kill switch touch no row and no task.
LEMMA LoneEnvironment ==
    ASSUME Tidy, Orderly, Lone, Environment
    PROVE  Lone'
<1>1. UNCHANGED <<orders, taskVars>> /\ Unrecorded' = Unrecorded
  BY EnvironmentKeeps DEF Unrecorded, taskVars
<1>2. CASE UNCHANGED rows
  BY <1>1, <1>2, LoneKept DEF taskVars
<1>3. ASSUME NEW t \in Tickers, CooldownExpires(t) PROVE Lone'
  <2>1. /\ rows' = [rows EXCEPT ![t] = [rows[t] EXCEPT !.cooling = FALSE]]
        /\ \A n \in 1..Len(orders) : orders[n].ticker = t => monitors[n].pc \in {"none", "poll", "read"}
    BY <1>3, TidyTypes DEF CooldownExpires, Orderly
  <2>2. \A u \in Tickers : u # t => rows'[u] = rows[u]
    BY <2>1, TidyTypes
  <2>3. rows'[t].oco = rows[t].oco /\ IsOpen(rows'[t]) = IsOpen(rows[t])
    BY <2>1, TidyTypes DEF Row, IsOpen
  <2>4. EntriesAlone' /\ SaleAlone'
    BY <1>1, <2>2, <2>3, TidyTypes DEF Lone, EntriesAlone, SaleAlone, Unwatched, OfTicker, Order, taskVars
  <2>5. MonitorsOwn'
    BY <1>1, <2>1, <2>2, <2>3, TidyTypes DEF Lone, MonitorsOwn, taskVars
  <2>6. QED
    BY <2>4, <2>5 DEF Lone
<1>4. QED
  BY <1>2, <1>3, ExchangeMoves, TidyTypes DEF Environment, SetHalt, dbVars

\* A tick enters a position only on a ticker whose row is closed and cool, and
\* such a ticker has no monitor.
LEMMA LoneTicks ==
    ASSUME Tidy, Orderly, scene.safe, TicksAlone, Lone, Ticks
    PROVE  Lone'
<1>1. ASSUME NEW i \in Intervals, TickStarts(i) PROVE Lone'
  BY <1>1, LoneKept DEF TickStarts, dbVars, Unrecorded
<1>2. ASSUME NEW i \in Intervals, TickEnds(i) PROVE Lone'
  <2>1. UNCHANGED <<rows, monitors, taskOf, drain>> /\ drain.pc = "idle" /\ [Next]_vars
    BY <1>2, TidyTypes, TickOrders DEF TickEnds, Next, Ticks
  <2>2. /\ 1..Len(orders) \subseteq 1..Len(orders')
        /\ \A n \in 1..Len(orders) : orders'[n].ticker = orders[n].ticker
    BY <2>1, OrdersGrow, TidyTypes
  <2>3. EntriesAlone'
    <3> SUFFICES ASSUME NEW m \in queue', orders'[m].side = "BUY"
                 PROVE  ~IsOpen(rows[orders'[m].ticker]) /\ Unwatched(orders[m].ticker)'
      BY <1>2, <2>1, TickOrders, TidyTypes DEF EntriesAlone
    <3> DEFINE t == orders'[m].ticker
    <3>1. t \in Tickers /\ Approved(t, "BUY")
      BY <1>2, TickOrders, TidyTypes
    <3>2. ~IsOpen(rows[t]) /\ ~rows[t].cooling
      BY <3>1 DEF Approved
    <3> HIDE DEF t
    <3>3. ASSUME NEW k \in Ids, orders'[k].ticker = t PROVE monitors[k].pc = "none"
      <4> SUFFICES ASSUME monitors[k].pc # "none" PROVE FALSE
        OBVIOUS
      <4>1. k \in 1..Len(orders) /\ orders[k].ticker = t
        BY <2>2, <3>3, TidyTypes
      <4>2. rows[t].oco = k
        BY <3>2, <4>1 DEF Lone, MonitorsOwn
      <4>3. rows[t].oco # 0
        BY <4>2, TidyTypes
      <4>4. QED
        BY <3>1, <3>2, <4>3, TidyTypes
    <3>4. QED
      BY <2>1, <3>2, <3>3 DEF Unwatched, OfTicker, t
  <2>4. MonitorsOwn'
    <3>1. \A k \in Ids : monitors[k].pc # "none" => k \in 1..Len(orders) /\ orders'[k].ticker = orders[k].ticker
      BY <2>2, TidyTypes
    <3>2. QED
      BY <2>1, <3>1 DEF Lone, MonitorsOwn
  <2>5. SaleAlone'
    BY <2>1 DEF SaleAlone, SalePcs
  <2>6. QED
    BY SMTT(60), <2>3, <2>4, <2>5 DEF Lone
<1>3. QED
  BY <1>1, <1>2 DEF Ticks

\* A crash leaves no task, and start-up watches the recorded brackets only.
LEMMA LoneRestarts ==
    ASSUME Tidy, Lone, Crash \/ CrashMidway \/ Restart
    PROVE  Lone'
<1>1. CASE Crash \/ CrashMidway
  <2>1. queue' = {} /\ drain'.pc = "idle" /\ \A n \in Ids : monitors'[n].pc = "none"
    BY <1>1, DieTypes, TidyTypes DEF Crash, CrashMidway
  <2>2. QED
    BY <2>1 DEF Lone, EntriesAlone, MonitorsOwn, SaleAlone, Unrecorded, SalePcs
<1>2. CASE StartUp
  BY <1>2, LoneKept DEF StartUp, dbVars, taskVars, Unrecorded
<1>3. CASE StartedUp
  <2>1. queue' = {} /\ drain'.pc = "idle" /\ UNCHANGED orders
    BY <1>3 DEF StartedUp, Tidy, Stopped
  <2>2. Unrecorded' = {}
    BY <2>1 DEF Unrecorded
  <2>3. rows' \in [Tickers -> Row] /\ \A t \in Tickers : rows'[t].oco # 0 => OfTicker(rows'[t].oco, t)
    <3>1. Typed'
      BY <1>3, TidyTypes, TypedRestart DEF Restart
    <3>2. QED
      BY <2>1, <3>1 DEF Typed, TypeOK, References, OfTicker
  <2>4. /\ \A t \in Tickers : taskOf'[t] = rows'[t].oco
        /\ \A n \in Ids : monitors'[n].pc # "none" => \E t \in Tickers : rows'[t].oco = n
    BY <1>3, <2>3, ReattachTypes, TidyTypes DEF StartedUp
  <2>5. ASSUME NEW n \in Ids, monitors'[n].pc # "none"
        PROVE  taskOf'[orders'[n].ticker] = n /\ rows'[orders'[n].ticker].oco = n
    <3>1. PICK t \in Tickers : rows'[t].oco = n
      BY <2>4, <2>5
    <3>2. orders'[n].ticker = t
      BY <2>1, <2>3, <3>1, TidyTypes DEF OfTicker
    <3>3. QED
      BY <2>4, <3>1, <3>2
  <2>6. QED
    BY <2>1, <2>2, <2>5 DEF Lone, EntriesAlone, MonitorsOwn, SaleAlone, SalePcs
<1>4. QED
  BY <1>1, <1>2, <1>3 DEF Restart

\* One monitor per ticker, in every step.
LEMMA LoneStep == Tidy /\ Orderly /\ scene.safe /\ Lone /\ TicksAlone /\ OneOrder /\ [Next]_vars => Lone'
<1>1. Tidy /\ Lone /\ UNCHANGED vars => Lone'
  BY LoneKept DEF vars, dbVars, taskVars, Unrecorded
<1>2. QED
  BY <1>1, LoneDrain, LoneMonitor, LoneEnvironment, LoneTicks, LoneRestarts DEF Next

\* Nothing is open and nothing runs at the first start.
LEMMA TidyInit == Init => Tidy
<1> SUFFICES ASSUME Init PROVE Tidy
  OBVIOUS
<1>1. Sound
  BY SoundInit
<1>2. Stopped /\ AbsentEmpty /\ SaleOfTicker
  BY ConstantTypes DEF Init, Stopped, AbsentEmpty, SaleOfTicker, SalePcs, NoRow
<1>3. TicksAlone /\ OneOrder
  BY ConstantTypes DEF Init, TicksAlone, OneOrder, Unfinished
<1>4. EntriesAlone /\ MonitorsOwn /\ SaleAlone
  <2>1. EntriesAlone
    BY ConstantTypes DEF Init, EntriesAlone, Unrecorded
  <2>2. MonitorsOwn
    BY ConstantTypes DEF Init, MonitorsOwn
  <2>3. SaleAlone
    BY SMTT(60), ConstantTypes DEF Init, SaleAlone, SalePcs
  <2>4. QED
    BY <2>1, <2>2, <2>3
<1>5. QED
  BY <1>1, <1>2, <1>3, <1>4 DEF Tidy

\* Every step keeps the scene, and with it what the scene promises.
LEMMA SceneKept == [Next]_vars => scene' = scene
BY MonitorKeeps, EnvironmentKeeps
   DEF Next, vars, envVars, Ticks, TickStarts, TickEnds, Drain, Take, Market, PlaceLeg, CancelSurvivor, ResultNotFilled,
       BuyFilled, SellFilled, CancelStopOnSale, CancelLimitOnSale, CancelOnSale, SellRecorded,
       Crash, CrashMidway, Die, Restart, StartUp, StartedUp

\* One order and one monitor per ticker, in every step.
LEMMA TidyStep == Tidy /\ [Next]_vars => Tidy'
<1> SUFFICES ASSUME Tidy, [Next]_vars PROVE Tidy'
  OBVIOUS
<1>1. Sound' /\ Stopped' /\ AbsentEmpty' /\ SaleOfTicker'
  BY SoundStep, StoppedStep, AbsentStep, SaleOfTickerStep DEF Tidy, Sound
<1>2. Orderly' = Orderly /\ scene'.safe = scene.safe
  BY SceneKept DEF Orderly
<1>3. Orderly => TicksAlone' /\ OneOrder'
  BY TicksAloneStep, OneOrderStep DEF Tidy, Sound
<1>4. Orderly /\ scene.safe => Lone'
  BY LoneStep DEF Tidy, Lone
<1>5. QED
  BY <1>1, <1>2, <1>3, <1>4 DEF Tidy, Lone

\* The inductive invariant, in every reachable state.
LEMMA TidyAlways == Spec => []Tidy
BY TidyInit, TidyStep, PTL DEF Spec

\* Every live monitor is the one that the SELL branch would cancel, and the
\* registered one is alive (_oco_task_by_ticker in main.run).
THEOREM MonitorsAreRegistered == Spec => []MonitorsRegistered
<1>1. Tidy => MonitorsRegistered
  BY DEF Tidy, Sound, Typed, References, MonitorsRegistered, MonitorsOwn
<1>2. QED
  BY <1>1, TidyAlways, PTL

\* The tasks that watch brackets are those that should, and the register of
\* them is true (main.run, monitor_oco).
THEOREM ProtectionIsMonitored == Spec => []ProtectionMonitored
<1>1. BracketsWatched /\ MonitorsRegistered => ProtectionMonitored
  BY DEF ProtectionMonitored
<1>2. QED
  BY <1>1, RecordedBracketsWatched, MonitorsAreRegistered, PTL

\* Start-up leaves the rows as the account is, if nothing was traded since the
\* positions were fetched (reconcile_positions).
THEOREM StartUpReconciles == Spec => ReconcileAgrees
<1>1. ASSUME Tidy, [Next]_vars, up = "starting", up' = "up", fetched = held, Barring({"offline"}), NEW t \in Tickers
      PROVE  rows'[t].qty = held[t]
  <2>1. StartedUp
    BY <1>1, DrainKeeps, MonitorKeeps, EnvironmentKeeps, TidyTypes
       DEF Next, Ticks, TickStarts, TickEnds, Restart, StartUp, Crash, CrashMidway, Die, vars, envVars
  <2>2. rows'[t] = Reconciled(rows[t], held[t])
    BY <1>1, <2>1 DEF StartedUp, Barring
  <2>3. held[t] \in Nat /\ rows[t] \in Row /\ (~rows[t].present => rows[t].qty = 0)
    BY <1>1, TidyTypes DEF Typed, TypeOK, Tidy, AbsentEmpty
  <2>4. CASE held[t] = 0
    BY <2>2, <2>3, <2>4 DEF Reconciled, IsOpen, NoRow, Row
  <2>5. CASE held[t] > 0
    BY <2>2, <2>3, <2>5, ReconciledTypes
  <2>6. QED
    BY <2>3, <2>4, <2>5
<1>2. Tidy /\ [Next]_vars => [up = "starting" /\ up' = "up" /\ fetched = held /\ Barring({"offline"})
                               => \A t \in Tickers : rows'[t].qty = held[t]]_vars
  BY <1>1
<1>3. QED
  BY <1>2, TidyAlways, PTL DEF Spec, ReconcileAgrees

-----------------------------------------------------------------------------
(***************************************************************************)
(* Rows that follow the account.  A BUY is executed when neither the       *)
(* account nor the row holds anything of its ticker, so whatever sells,    *)
(* sells everything, and what closes the row comes after it.               *)
(***************************************************************************)
Books == AtMostOne /\ HeldRecorded /\ FillSells /\ SaleTrue /\ \A e \in journal : e.priced

\* The types of what the account and the process hold.
LEMMA AccountTypes ==
    ASSUME Tidy
    PROVE  /\ held \in [Tickers -> Nat] /\ fetched \in [Tickers -> Nat]
           /\ legs \in [Ids -> [LegKinds -> LegStates]]
           /\ \A t \in Tickers : rows[t].qty \in Nat /\ held[t] \in Nat /\ fetched[t] \in Nat
           /\ \A n \in 1..Len(orders) : orders[n].qty \in Nat /\ n \in Ids /\ n # 0
           /\ \A s, t : InHand(s, t) => t \in Tickers /\ drain.id \in 1..Len(orders)
           /\ drain.pc \in SalePcs \cup {"stop", "limit", "survivor"} => drain.status = "filled"
           /\ drain.pc \in SalePcs => Order.side = "SELL"
           /\ drain.pc \in {"stop", "limit", "survivor"} => Order.side = "BUY"
<1>1. Typed /\ TypeOK
  BY TidyTypes DEF Typed
<1>2. /\ held \in [Tickers -> Nat] /\ fetched \in [Tickers -> Nat] /\ legs \in [Ids -> [LegKinds -> LegStates]]
      /\ rows \in [Tickers -> Row]
  BY <1>1 DEF TypeOK
<1>3. \A n \in 1..Len(orders) : orders[n].qty \in Nat /\ n \in Ids /\ n # 0
  BY <1>1, OrderTypes, TidyTypes
<1>4. \A s, t : InHand(s, t) => t \in Tickers /\ drain.id \in 1..Len(orders)
  BY <1>1, DrainTypes DEF InHand
<1>5. BracketsProtect
  BY DEF Tidy, Sound
<1>6. /\ drain.pc \in SalePcs \cup {"stop", "limit", "survivor"} => drain.status = "filled"
      /\ drain.pc \in SalePcs => Order.side = "SELL"
      /\ drain.pc \in {"stop", "limit", "survivor"} => Order.side = "BUY"
  BY <1>5 DEF BracketsProtect, SalePcs
<1>7. \A t \in Tickers : rows[t].qty \in Nat /\ held[t] \in Nat /\ fetched[t] \in Nat
  BY <1>2 DEF Row
<1>8. QED
  BY <1>2, <1>3, <1>4, <1>6, <1>7

\* Steps that neither trade nor write a quantity.
LEMMA BooksKept ==
    ASSUME Tidy, Books, UNCHANGED <<orders, held, journal, fetched, up>>,
           \A t \in Tickers : /\ rows'[t].qty = rows[t].qty /\ rows'[t].oco = rows[t].oco
                              /\ rows'[t].present = rows[t].present,
           \A n \in 1..Len(orders) : HasLeg(n, "filled")' => HasLeg(n, "filled"),
           \A s, t : InHand(s, t)' = InHand(s, t),
           \A s, t : InHand(s, t) => drain'.id = drain.id /\ drain'.pos = drain.pos,
           drain'.pc = "result" => drain.pc = "result" \/ \A t : ~InHand("SELL", t),
           drain'.pc \in SalePcs => drain.pc \in SalePcs
    PROVE  Books'
<1>1. \A t \in Tickers : IsOpen(rows[t])' = IsOpen(rows[t])
  BY DEF IsOpen
<1>2. AtMostOne'
  BY DEF Books, AtMostOne
<1>3. HeldRecorded'
  BY <1>1 DEF Books, HeldRecorded
<1>4. FillSells'
  <2> SUFFICES ASSUME NEW n \in 1..Len(orders), HasLeg(n, "filled")',
                      rows'[orders[n].ticker].oco = n \/ (InHand("BUY", orders[n].ticker)' /\ drain'.id = n)
               PROVE  held[orders[n].ticker] = 0
    BY DEF FillSells
  <2>1. orders[n].ticker \in Tickers /\ HasLeg(n, "filled")
    BY TidyTypes
  <2>2. rows[orders[n].ticker].oco = n \/ (InHand("BUY", orders[n].ticker) /\ drain.id = n)
    BY <2>1
  <2>3. QED
    BY <2>1, <2>2 DEF Books, FillSells
<1>5. SaleTrue'
  <2> SUFFICES ASSUME NEW t \in Tickers, InHand("SELL", t)'
               PROVE  /\ held[t] = 0
                      /\ drain'.pc = "result" => IsOpen(rows'[t]) /\ (rows'[t].oco # 0 => ~HasLeg(rows[t].oco, "filled")')
                      /\ drain'.pc \in SalePcs => drain'.pos.qty > 0
    BY DEF SaleTrue
  <2>1. InHand("SELL", t) /\ drain'.id = drain.id /\ drain'.pos = drain.pos
    OBVIOUS
  <2>2. rows[t].oco # 0 => rows[t].oco \in 1..Len(orders)
    BY TidyTypes DEF Typed, References, OfTicker
  <2>3. rows[t].oco # 0 /\ HasLeg(rows[t].oco, "filled")' => HasLeg(rows[t].oco, "filled")
    BY <2>2 DEF HasLeg
  <2>4. QED
    BY <1>1, <2>1, <2>3 DEF Books, SaleTrue
<1>6. QED
  BY <1>2, <1>3, <1>4, <1>5 DEF Books

\* A leg that fills sells all that is held; the other events touch no books.
LEMMA BooksEnvironment ==
    ASSUME Tidy, Books, Environment
    PROVE  Books'
<1>1. UNCHANGED <<orders, journal, taskVars, up, fetched>> /\ drain' = drain
  BY EnvironmentKeeps DEF taskVars
<1>2. \A s, t : InHand(s, t)' = InHand(s, t)
  BY <1>1 DEF InHand, Order
<1>3. ASSUME NEW n \in Ids, NEW k \in LegKinds, LegFills(n, k) PROVE Books'
  <2> DEFINE t == orders[n].ticker
  <2>1. n \in 1..Len(orders)
    BY <1>3, TidyTypes DEF LegFills, Typed, References, LegKinds
  <2>2. /\ t \in Tickers /\ orders[n].qty = 1 /\ held[t] >= 1 /\ held[t] <= 1
        /\ held' = [held EXCEPT ![t] = @ - 1]
        /\ legs' = [legs EXCEPT ![n][k] = "filled"] /\ UNCHANGED rows
    BY <1>3, <2>1, TidyTypes DEF LegFills, Books, AtMostOne, dbVars
  <2>3. /\ held'[t] = 0 /\ \A u \in Tickers : u # t => held'[u] = held[u]
        /\ \A u \in Tickers : held'[u] <= held[u]
    BY <2>2, AccountTypes
  <2>4. \A m \in Ids : m # n => legs'[m] = legs[m]
    BY <2>2, AccountTypes
  <2> HIDE DEF t
  <2>5. AtMostOne'
    BY <1>1, <2>2, <2>3, AccountTypes DEF Books, AtMostOne
  <2>6. HeldRecorded'
    BY <1>1, <1>2, <2>2, <2>3, AccountTypes DEF Books, HeldRecorded
  <2>7. FillSells'
    <3> SUFFICES ASSUME NEW m \in 1..Len(orders), HasLeg(m, "filled")', orders[m].ticker # t,
                        rows[orders[m].ticker].oco = m \/ (InHand("BUY", orders[m].ticker) /\ drain.id = m)
                 PROVE  held[orders[m].ticker] = 0
      BY <1>1, <1>2, <2>2, <2>3, TidyTypes DEF FillSells
    <3>1. m # n
      BY DEF t
    <3>2. HasLeg(m, "filled")
      BY <2>4, <3>1, AccountTypes DEF HasLeg
    <3>3. QED
      BY <3>2 DEF Books, FillSells
  <2>8. SaleTrue'
    <3> SUFFICES ASSUME NEW u \in Tickers, InHand("SELL", u)
                 PROVE  /\ held'[u] = 0
                        /\ drain.pc = "result" => IsOpen(rows[u]) /\ (rows[u].oco # 0 => ~HasLeg(rows[u].oco, "filled")')
                        /\ drain.pc \in SalePcs => drain.pos.qty > 0
      BY <1>1, <1>2, <2>2 DEF SaleTrue
    <3>1. /\ held[u] = 0
          /\ drain.pc = "result" => IsOpen(rows[u]) /\ (rows[u].oco # 0 => ~HasLeg(rows[u].oco, "filled"))
          /\ drain.pc \in SalePcs => drain.pos.qty > 0
      BY DEF Books, SaleTrue
    <3>2. u # t
      BY <2>2, <3>1
    <3>3. rows[u].oco # 0 => OfTicker(rows[u].oco, u)
      BY TidyTypes DEF Typed, References
    <3>4. rows[u].oco # 0 => rows[u].oco # n /\ rows[u].oco \in Ids
      BY <3>2, <3>3, TidyTypes DEF OfTicker, t
    <3>5. rows[u].oco # 0 /\ HasLeg(rows[u].oco, "filled")' => HasLeg(rows[u].oco, "filled")
      BY <2>2, <2>4, <3>4 DEF HasLeg
    <3>6. QED
      BY <2>3, <3>1, <3>2, <3>5
  <2>9. QED
    BY <1>1, <2>5, <2>6, <2>7, <2>8 DEF Books
<1>4. ASSUME UNCHANGED held,
             \A t \in Tickers : /\ rows'[t].qty = rows[t].qty /\ rows'[t].oco = rows[t].oco
                                /\ rows'[t].present = rows[t].present,
             \A n \in 1..Len(orders) : HasLeg(n, "filled")' => HasLeg(n, "filled")
      PROVE  Books'
  BY <1>1, <1>2, <1>4, BooksKept
<1>5. ASSUME NEW n \in Ids, NEW k \in LegKinds, LegBounces(n, k) \/ LegRevoked(n, k) PROVE Books'
  <2>1. UNCHANGED <<held, rows>> /\ legs' = [legs EXCEPT ![n][k] = "dead"]
    BY <1>5 DEF LegBounces, LegRevoked, dbVars
  <2>2. \A m \in Ids, j \in LegKinds : legs'[m][j] = legs[m][j] \/ legs'[m][j] = "dead"
    BY <2>1, AccountTypes
  <2>3. \A m \in 1..Len(orders) : HasLeg(m, "filled")' => HasLeg(m, "filled")
    BY <2>2, AccountTypes DEF HasLeg
  <2>4. QED
    BY <1>4, <2>1, <2>3
<1>6. ASSUME NEW t \in Tickers, CooldownExpires(t) PROVE Books'
  <2>1. rows' = [rows EXCEPT ![t] = [rows[t] EXCEPT !.cooling = FALSE]] /\ UNCHANGED <<held, legs>>
    BY <1>6, TidyTypes DEF CooldownExpires, exchangeVars
  <2>2. \A u \in Tickers : /\ rows'[u].qty = rows[u].qty /\ rows'[u].oco = rows[u].oco
                           /\ rows'[u].present = rows[u].present
    BY <2>1, TidyTypes DEF Row
  <2>3. QED
    BY <1>4, <2>1, <2>2 DEF HasLeg
<1>7. ASSUME NEW on \in BOOLEAN, SetHalt(on) PROVE Books'
  BY <1>4, <1>7 DEF SetHalt, HasLeg, dbVars, exchangeVars
<1>8. QED
  BY <1>3, <1>5, <1>6, <1>7 DEF Environment, Exchange

\* A monitor closes a row when a leg of its bracket has filled, and that leg
\* sold everything.
LEMMA BooksMonitor ==
    ASSUME Tidy, Lone, Books, NEW n \in Ids, Monitor(n)
    PROVE  Books'
<1> DEFINE t == orders[n].ticker
           d == Decision(monitors[n].seen, legs[n]["limit"])
<1>1. /\ n \in 1..Len(orders) /\ t \in Tickers /\ n # 0 /\ monitors[n].pc # "none"
      /\ UNCHANGED <<orders, held, drain, envVars>>
  BY MonitorKeeps, TidyTypes, AccountTypes DEF Monitor, ReadStop, ReadLimit, CancelOther
<1>2. \A s, u : InHand(s, u)' = InHand(s, u)
  BY <1>1 DEF InHand, Order
<1>3. ASSUME NEW m \in 1..Len(orders), HasLeg(m, "filled")' PROVE HasLeg(m, "filled")
  <2>1. CASE CancelOther(n)
    <3>1. \E k \in LegKinds : Cancel(n, k)
      BY <2>1 DEF CancelOther, LegKinds
    <3>2. \A j \in LegKinds : legs'[m][j] = "filled" => legs[m][j] = "filled"
      <4>1. PICK k \in LegKinds : Cancel(n, k)
        BY <3>1
      <4>2. TypeOK /\ m \in Ids
        BY TidyTypes, AccountTypes DEF Typed
      <4>3. \A j \in LegKinds : legs'[m][j] \in {legs[m][j], "dead"}
        BY <4>1, <4>2, CancelTypes
      <4>4. QED
        BY <4>3
    <3>3. QED
      BY <1>3, <3>2 DEF HasLeg
  <2>2. CASE ~CancelOther(n)
    BY <1>3, <2>2 DEF Monitor, ReadStop, ReadLimit, exchangeVars, HasLeg
  <2>3. QED
    BY <2>1, <2>2
<1>4. CASE UNCHANGED <<rows, journal>>
  BY <1>1, <1>2, <1>3, <1>4, BooksKept DEF envVars
<1>5. CASE ReadLimit(n) /\ d.close
  <2>1. /\ rows' = [rows EXCEPT ![t] = ClosedRow] /\ UNCHANGED legs /\ monitors[n].pc = "read"
        /\ journal' = journal \/ \E q : journal' = journal \cup {JournalEntry("OCO", n, q, TRUE)}
    BY <1>5 DEF ReadLimit, ClosePosition, CloseRow, exchangeVars
  <2>2. HasLeg(n, "filled")
    <3>1. monitors[n].seen = "filled" \/ legs[n]["limit"] = "filled"
      BY <1>5 DEF Decision
    <3>2. monitors[n].seen = "filled" => legs[n]["stop"] = "filled"
      BY <2>1 DEF Tidy, Sound, SeenTrue
    <3>3. QED
      BY <3>1, <3>2 DEF HasLeg, LegKinds
  <2>3. rows[t].oco = n
    BY <1>1, <2>1 DEF Lone, MonitorsOwn
  <2>4. held[t] = 0
    BY <1>1, <2>2, <2>3 DEF Books, FillSells
  <2>5. ~(InHand("SELL", t) /\ drain.pc = "result")
    BY <1>1, <2>2, <2>3 DEF Books, SaleTrue
  <2>6. /\ rows'[t].oco = 0 /\ rows'[t].qty = 0 /\ \A u \in Tickers : u # t => rows'[u] = rows[u]
    BY <1>1, <2>1, TidyTypes DEF ClosedRow, NoRow
  <2> HIDE DEF t, d
  <2>7. AtMostOne'
    <3>1. ASSUME NEW u \in Tickers PROVE rows'[u].qty <= 1
      <4>1. CASE u = t
        BY <2>6, <4>1
      <4>2. CASE u # t
        BY <2>6, <4>2 DEF Books, AtMostOne
      <4>3. QED
        BY <4>1, <4>2
    <3>2. QED
      BY <1>1, <3>1 DEF Books, AtMostOne
  <2>8. HeldRecorded'
    BY <1>1, <1>2, <2>4, <2>6 DEF Books, HeldRecorded, envVars
  <2>9. FillSells'
    <3>1. ASSUME NEW m \in 1..Len(orders), HasLeg(m, "filled")', orders[m].ticker # t,
                 rows'[orders[m].ticker].oco = m \/ (InHand("BUY", orders[m].ticker)' /\ drain'.id = m)
          PROVE  held[orders[m].ticker] = 0
      BY <1>1, <1>2, <1>3, <2>6, <3>1, TidyTypes DEF Books, FillSells
    <3>2. QED
      BY <1>1, <2>4, <3>1 DEF FillSells
  <2>10. SaleTrue'
    <3>1. ASSUME NEW u \in Tickers, InHand("SELL", u), drain.pc = "result"
          PROVE  IsOpen(rows'[u]) /\ (rows'[u].oco # 0 => ~HasLeg(rows[u].oco, "filled")')
      BY <2>1, <2>5, <2>6, <3>1 DEF Books, SaleTrue, HasLeg
    <3>2. QED
      BY <1>1, <1>2, <3>1 DEF Books, SaleTrue
  <2>11. \A e \in journal' : e.priced
    BY <2>1 DEF Books, JournalEntry
  <2>12. QED
    BY <2>7, <2>8, <2>9, <2>10, <2>11 DEF Books
<1>6. QED
  BY <1>4, <1>5 DEF Monitor, ReadStop, ReadLimit, CancelOther, dbVars

\* The orders of a tick are for one BUY's worth, and touch no books.
LEMMA BooksTicks ==
    ASSUME Tidy, TicksAlone, Books, Ticks
    PROVE  Books'
<1>1. ASSUME NEW i \in Intervals, TickStarts(i) PROVE Books'
  BY <1>1, BooksKept DEF TickStarts, exchangeVars, dbVars, envVars, InHand, Order, HasLeg
<1>2. ASSUME NEW i \in Intervals, TickEnds(i) PROVE Books'
  <2>1. /\ UNCHANGED <<held, legs, rows, journal, drain, up, fetched>> /\ drain.pc = "idle"
    BY <1>2, TidyTypes, TickOrders DEF TickEnds, exchangeVars, envVars
  <2>2. \A s, t : ~InHand(s, t) /\ ~InHand(s, t)'
    BY <2>1 DEF InHand
  <2>3. /\ 1..Len(orders) \subseteq 1..Len(orders')
        /\ \A n \in 1..Len(orders) : orders'[n].ticker = orders[n].ticker /\ orders'[n].qty = orders[n].qty
    <3>1. [Next]_vars
      BY <1>2 DEF Next, Ticks
    <3>2. QED
      BY <3>1, OrdersGrow, TidyTypes
  <2>4. ASSUME NEW n \in 1..Len(orders'), n \notin 1..Len(orders)
        PROVE  orders'[n].qty = 1 /\ ~HasLeg(n, "filled")
    <3>1. n \in queue'
      BY <1>2, <2>4, TickOrders, TidyTypes
    <3> DEFINE t == orders'[n].ticker
    <3>2. /\ t \in Tickers /\ n \in Ids
          /\ orders'[n] = OrderFor(t, orders'[n].side) /\ Approved(t, orders'[n].side)
      BY <1>2, <3>1, TickOrders, TidyTypes
    <3>3. orders'[n].side = "SELL" => IsOpen(rows[t])
      BY <3>2 DEF Approved
    <3>4. orders'[n].qty = IF orders'[n].side = "SELL" THEN rows[t].qty ELSE 1
      BY <3>2 DEF OrderFor
    <3>5. IsOpen(rows[t]) => rows[t].qty = 1
      BY <3>2, AccountTypes DEF IsOpen, Books, AtMostOne
    <3>6. ~HasLeg(n, "filled")
      BY <2>4, <3>2, TidyTypes DEF Typed, References, HasLeg
    <3> HIDE DEF t
    <3>7. QED
      BY <3>3, <3>4, <3>5, <3>6
  <2>5. AtMostOne'
    BY <2>1, <2>3, <2>4 DEF Books, AtMostOne
  <2>6. HeldRecorded'
    BY <2>1, <2>2 DEF Books, HeldRecorded
  <2>7. FillSells'
    <3> SUFFICES ASSUME NEW n \in 1..Len(orders'), HasLeg(n, "filled"), rows[orders'[n].ticker].oco = n
                 PROVE  held[orders'[n].ticker] = 0
      BY <2>1, <2>2 DEF FillSells, HasLeg
    <3>1. n \in 1..Len(orders)
      BY <2>4
    <3>2. QED
      BY <2>3, <3>1 DEF Books, FillSells
  <2>8. SaleTrue'
    BY <2>2 DEF SaleTrue
  <2>9. QED
    BY <2>1, <2>5, <2>6, <2>7, <2>8 DEF Books
<1>3. QED
  BY <1>1, <1>2 DEF Ticks

\* A market order moves one BUY's worth, and is in hand until it is recorded.
LEMMA BooksMarket ==
    ASSUME Tidy, Lone, Books, Barring({"lost", "rejected"}), Market
    PROVE  Books'
<1> DEFINE n == drain.id
           t == Order.ticker
<1>1. /\ n \in 1..Len(orders) /\ n \in Ids /\ n \in Unrecorded /\ t \in Tickers /\ t = orders[n].ticker
      /\ Order = orders[n] /\ Order.side \in Sides /\ orders[n].qty = 1
      /\ up = "up" /\ drain.pc = "market" /\ NoLegs(n)
      /\ UNCHANGED <<legs, rows, orders, journal, up, fetched>>
  BY DrainTypes, TidyTypes, OrderTypes, UnrecordedTypes
     DEF Market, dbVars, envVars, Order, Tidy, Sound, BracketOrder, Typed, Books, AtMostOne
<1>2. \A s, u : ~InHand(s, u)
  BY <1>1 DEF InHand
<1>3. \/ CanExecute(n) /\ Execute(n) /\ AfterMarket("filled")
      \/ AfterMarket("failed") /\ UNCHANGED held
  BY DEF Market, Barring, exchangeVars
<1>4. CASE AfterMarket("failed") /\ UNCHANGED held
  <2>1. drain'.pc = "result" /\ drain'.status = "failed"
    BY <1>4, TidyTypes DEF AfterMarket, DrainRecord
  <2>2. \A s, u : ~InHand(s, u)'
    BY <2>1 DEF InHand
  <2>3. \A s, u : InHand(s, u)' = InHand(s, u)
    BY <1>2, <2>2 DEF InHand
  <2>4. \A m \in 1..Len(orders) : HasLeg(m, "filled")' => HasLeg(m, "filled")
    BY <1>1 DEF HasLeg
  <2>5. QED
    BY <1>1, <1>2, <1>4, <2>1, <2>3, <2>4, BooksKept DEF SalePcs
<1>5. CASE CanExecute(n) /\ Execute(n) /\ AfterMarket("filled")
  <2>1. /\ drain'.status = "filled" /\ drain'.id = n
        /\ drain'.pc = IF Order.side = "BUY" THEN "stop" ELSE "result"
        /\ Order' = Order
    BY <1>1, <1>5, TidyTypes DEF AfterMarket, DrainRecord, Order
  <2>2. \A s, u : InHand(s, u)' <=> s = Order.side /\ u = t
    BY <2>1 DEF InHand
  <2>3. held' = [held EXCEPT ![t] = IF Order.side = "BUY" THEN @ + 1 ELSE @ - 1]
    BY <1>1, <1>5 DEF Execute
  <2>4. /\ \A u \in Tickers : u # t => held'[u] = held[u]
        /\ held'[t] = IF Order.side = "BUY" THEN held[t] + 1 ELSE held[t] - 1
    BY <1>1, <2>3, AccountTypes
  <2>5. \A m \in 1..Len(orders) : HasLeg(m, "filled")' = HasLeg(m, "filled")
    BY <1>1 DEF HasLeg
  <2>6. CASE Order.side = "BUY"
    <3>1. ~IsOpen(rows[t]) /\ rows[t].oco = 0
      BY <1>1, <2>6, TidyTypes DEF Lone, EntriesAlone
    <3>2. held[t] = 0
      BY <1>1, <1>2, <3>1, AccountTypes DEF Books, HeldRecorded
    <3>3. held'[t] = 1
      BY <2>4, <2>6, <3>2
    <3>4. ~HasLeg(n, "filled")
      BY <1>1 DEF HasLeg, NoLegs
    <3> HIDE DEF t, n
    <3>5. AtMostOne'
      BY <1>1, <2>4, <3>3 DEF Books, AtMostOne
    <3>6. HeldRecorded'
      BY <1>1, <2>2, <2>4, <2>6, <1>2 DEF Books, HeldRecorded
    <3>7. FillSells'
      <4> SUFFICES ASSUME NEW m \in 1..Len(orders), HasLeg(m, "filled"),
                          rows[orders[m].ticker].oco = m \/ (orders[m].ticker = t /\ n = m)
                   PROVE  held'[orders[m].ticker] = 0
        BY <1>1, <2>1, <2>2, <2>5 DEF FillSells
      <4>1. m # n
        BY <3>4
      <4>2. rows[orders[m].ticker].oco = m /\ orders[m].ticker \in Tickers /\ m # 0
        BY <4>1, TidyTypes, AccountTypes
      <4>3. orders[m].ticker # t
        BY <3>1, <4>2
      <4>4. QED
        BY <2>4, <4>2, <4>3 DEF Books, FillSells
    <3>8. SaleTrue'
      BY <2>2, <2>6 DEF SaleTrue
    <3>9. QED
      BY <1>1, <3>5, <3>6, <3>7, <3>8 DEF Books
  <2>7. CASE Order.side = "SELL"
    <3>1. held[t] >= 1 /\ held[t] <= 1
      BY <1>1, <1>5, <2>7 DEF CanExecute, Books, AtMostOne
    <3>2. held'[t] = 0 /\ held[t] = 1
      BY <1>1, <2>4, <2>7, <3>1, AccountTypes
    <3>3. IsOpen(rows[t])
      BY <1>1, <1>2, <3>1, AccountTypes DEF Books, HeldRecorded
    <3>4. rows[t].oco # 0 => ~HasLeg(rows[t].oco, "filled")
      <4>1. rows[t].oco # 0 => rows[t].oco \in 1..Len(orders) /\ orders[rows[t].oco].ticker = t
        BY <1>1, TidyTypes DEF Typed, References, OfTicker
      <4>2. QED
        BY <3>2, <4>1 DEF Books, FillSells
    <3> HIDE DEF t, n
    <3>5. AtMostOne'
      BY <1>1, <2>4, <3>2 DEF Books, AtMostOne
    <3>6. HeldRecorded'
      BY <1>1, <1>2, <2>4, <3>2, AccountTypes DEF Books, HeldRecorded
    <3>7. FillSells'
      <4> SUFFICES ASSUME NEW m \in 1..Len(orders), HasLeg(m, "filled"), rows[orders[m].ticker].oco = m
                   PROVE  held'[orders[m].ticker] = 0
        BY <1>1, <2>2, <2>5, <2>7 DEF FillSells
      <4>1. orders[m].ticker \in Tickers /\ held[orders[m].ticker] = 0
        BY TidyTypes DEF Books, FillSells
      <4>2. QED
        BY <2>4, <3>2, <4>1
    <3>8. SaleTrue'
      BY <1>1, <2>1, <2>2, <2>7, <3>2, <3>3, <3>4 DEF SaleTrue, SalePcs, HasLeg
    <3>9. QED
      BY <1>1, <3>5, <3>6, <3>7, <3>8 DEF Books
  <2>8. QED
    BY <1>1, <2>6, <2>7 DEF Sides
<1>6. QED
  BY <1>3, <1>4, <1>5

\* A BUY is recorded as the whole of its position.
LEMMA BooksBuyFilled ==
    ASSUME Tidy, Lone, Books, BuyFilled
    PROVE  Books'
<1> DEFINE n == drain.id
           t == Order.ticker
<1>1. /\ n \in 1..Len(orders) /\ n # 0 /\ n \in Unrecorded /\ t \in Tickers /\ t = orders[n].ticker
      /\ Order = orders[n] /\ orders[n].side = "BUY" /\ orders[n].qty = 1
      /\ up = "up" /\ drain.pc = "result" /\ drain.status = "filled" /\ drain'.pc = "idle"
      /\ UNCHANGED <<held, legs, journal, up, fetched>>
  BY DrainTypes, TidyTypes, AccountTypes, UnrecordedTypes, ConstantTypes
     DEF BuyFilled, exchangeVars, envVars, Order, Typed, Books, AtMostOne
<1>2. InHand("BUY", t) /\ \A s, u : InHand(s, u) => s = "BUY" /\ u = t
  BY <1>1 DEF InHand
<1>3. \A s, u : ~InHand(s, u)'
  BY <1>1 DEF InHand
<1>4. /\ Len(orders') = Len(orders)
      /\ \A m \in 1..Len(orders) : orders'[m].ticker = orders[m].ticker /\ orders'[m].qty = orders[m].qty
  BY <1>1, TidyTypes, RecordFillTypes DEF BuyFilled, Typed
<1>5. ~IsOpen(rows[t]) /\ rows[t].oco = 0
  BY <1>1, TidyTypes DEF Lone, EntriesAlone
<1>6. /\ rows'[t].qty = 1 /\ IsOpen(rows'[t]) /\ rows'[t].oco \in {0, n}
      /\ \A u \in Tickers : u # t => rows'[u] = rows[u]
  <2> DEFINE row == RowAfterBuy(rows[t], n)
             r == IF drain.placed = LegKinds THEN [row EXCEPT !.oco = n] ELSE row
  <2>1. row \in Row /\ row.qty = 1 /\ row.present /\ row.oco = 0
    BY <1>1, <1>5, TidyTypes, RowAfterBuyTypes
  <2>2. rows' = [rows EXCEPT ![t] = r]
    BY DEF BuyFilled
  <2> HIDE DEF row
  <2>3. r.qty = 1 /\ r.present /\ r.oco \in {0, n}
    BY <2>1 DEF Row
  <2> HIDE DEF r
  <2>4. QED
    BY <1>1, <2>2, <2>3, TidyTypes DEF IsOpen
<1> HIDE DEF t, n
<1>7. AtMostOne'
  <2>1. ASSUME NEW u \in Tickers PROVE rows'[u].qty <= 1
    <3>1. CASE u = t
      BY <1>6, <3>1
    <3>2. CASE u # t
      BY <1>6, <3>2 DEF Books, AtMostOne
    <3>3. QED
      BY <3>1, <3>2
  <2>2. QED
    BY <1>1, <1>4, <2>1 DEF Books, AtMostOne
<1>8. HeldRecorded'
  BY <1>1, <1>2, <1>6 DEF Books, HeldRecorded
<1>9. FillSells'
  <2> SUFFICES ASSUME NEW m \in 1..Len(orders), HasLeg(m, "filled"), rows'[orders[m].ticker].oco = m
               PROVE  held[orders[m].ticker] = 0
    BY <1>1, <1>3, <1>4 DEF FillSells, HasLeg
  <2>1. orders[m].ticker \in Tickers /\ m # 0
    BY TidyTypes, AccountTypes
  <2>2. CASE m = n
    BY <1>1, <1>2, <2>2 DEF Books, FillSells, n
  <2>3. CASE m # n
    BY <1>6, <2>1, <2>3 DEF Books, FillSells
  <2>4. QED
    BY <2>2, <2>3
<1>10. SaleTrue'
  BY <1>3 DEF SaleTrue
<1>11. QED
  BY <1>1, <1>7, <1>8, <1>9, <1>10 DEF Books

\* A SELL closes the row of a ticker of which nothing is held.
LEMMA BooksSale ==
    ASSUME Tidy, Books, UNCHANGED <<held, up, fetched>>,
           Len(orders') = Len(orders),
           \A m \in 1..Len(orders) : orders'[m].ticker = orders[m].ticker /\ orders'[m].qty = orders[m].qty,
           \A m \in 1..Len(orders) : HasLeg(m, "filled")' => HasLeg(m, "filled"),
           InHand("SELL", Order.ticker), drain'.pc = "idle",
           rows' = [rows EXCEPT ![Order.ticker] = ClosedRow],
           \A e \in journal' : e \in journal \/ e.priced
    PROVE  Books'
<1> DEFINE t == Order.ticker
<1>1. t \in Tickers /\ held[t] = 0
  BY AccountTypes DEF Books, SaleTrue
<1>2. \A s, u : ~InHand(s, u)'
  BY DEF InHand
<1>3. \A u : ~InHand("BUY", u)
  BY DEF InHand
<1>4. /\ rows'[t].qty = 0 /\ rows'[t].oco = 0 /\ \A u \in Tickers : u # t => rows'[u] = rows[u]
  BY <1>1, TidyTypes DEF ClosedRow, NoRow
<1> HIDE DEF t
<1>5. AtMostOne'
  <2>1. ASSUME NEW u \in Tickers PROVE rows'[u].qty <= 1
    <3>1. CASE u = t
      BY <1>4, <3>1
    <3>2. CASE u # t
      BY <1>4, <3>2 DEF Books, AtMostOne
    <3>3. QED
      BY <3>1, <3>2
  <2>2. QED
    BY <2>1 DEF Books, AtMostOne
<1>6. HeldRecorded'
  BY <1>1, <1>3, <1>4 DEF Books, HeldRecorded
<1>7. FillSells'
  <2> SUFFICES ASSUME NEW m \in 1..Len(orders), HasLeg(m, "filled"), rows'[orders[m].ticker].oco = m
               PROVE  held[orders[m].ticker] = 0
    BY <1>2 DEF FillSells
  <2>1. orders[m].ticker \in Tickers
    BY TidyTypes
  <2>2. QED
    BY <1>1, <1>4, <2>1 DEF Books, FillSells
<1>8. SaleTrue'
  BY <1>2 DEF SaleTrue
<1>9. \A e \in journal' : e.priced
  BY DEF Books
<1>10. QED
  BY <1>5, <1>6, <1>7, <1>8, <1>9 DEF Books

\* The entry of a sale whose row was open has a price.
LEMMA SalePriced ==
    ASSUME NEW n, NEW pos, RecordSale(n, pos), pos.present => pos.qty > 0
    PROVE  \A e \in journal' : e \in journal \/ e.priced
<1>1. CASE pos.present
  <2>1. (pos.qty > 0) = TRUE
    BY <1>1
  <2>2. journal' = journal \cup {JournalEntry("SELL", n, orders[n].qty, TRUE)}
    BY <1>1, <2>1 DEF RecordSale
  <2>3. QED
    BY <2>2 DEF JournalEntry
<1>2. CASE ~pos.present
  BY <1>2 DEF RecordSale
<1>3. QED
  BY <1>1, <1>2

\* Cancelling a bracket during a sale leaves the books as they are; a sale
\* without a bracket is recorded at once.
LEMMA BooksSellFilled ==
    ASSUME Tidy, Lone, Books, SellFilled
    PROVE  Books'
<1> DEFINE t == Order.ticker
<1>1. /\ drain.id \in 1..Len(orders) /\ t \in Tickers /\ t = orders[drain.id].ticker
      /\ Order = orders[drain.id] /\ Order.side = "SELL"
      /\ drain.pc = "result" /\ drain.status = "filled" /\ up = "up" /\ InHand("SELL", t)
      /\ UNCHANGED <<held, up, fetched>>
  BY DrainTypes, TidyTypes DEF SellFilled, Order, InHand, envVars
<1>2. IsOpen(rows[t]) /\ (rows[t].oco # 0 => ~HasLeg(rows[t].oco, "filled")) /\ held[t] = 0
  BY <1>1 DEF Books, SaleTrue
<1>3. /\ Len(orders') = Len(orders)
      /\ \A n \in 1..Len(orders) : orders'[n].ticker = orders[n].ticker /\ orders'[n].qty = orders[n].qty
                                   /\ orders'[n].side = orders[n].side
  BY <1>1, TidyTypes, RecordFillTypes DEF SellFilled, Typed
<1>4. ASSUME NEW m \in 1..Len(orders), HasLeg(m, "filled")' PROVE HasLeg(m, "filled")
  <2>1. CASE UNCHANGED legs
    BY <1>4, <2>1 DEF HasLeg
  <2>2. ASSUME NEW n, NEW k \in LegKinds, Cancel(n, k) PROVE HasLeg(m, "filled")
    BY SMTT(60), <1>4, <2>2, TidyTypes, AccountTypes, CancelTypes DEF HasLeg, Typed
  <2>3. QED
    BY <2>1, <2>2 DEF SellFilled, AbandonMonitor, LegKinds
<1>5. CASE rows[t].oco = 0
  <2>1. RecordSale(drain.id, rows[t]) /\ drain'.pc = "idle"
    BY <1>5, ConstantTypes DEF SellFilled
  <2>2. rows' = [rows EXCEPT ![Order.ticker] = ClosedRow]
    BY <1>1, <2>1 DEF RecordSale, CloseRow
  <2>3. \A e \in journal' : e \in journal \/ e.priced
    BY <1>2, <2>1, SalePriced DEF IsOpen
  <2>4. QED
    BY <1>1, <1>3, <1>4, <2>1, <2>2, <2>3, BooksSale
<1>6. CASE rows[t].oco # 0
  <2>1. /\ UNCHANGED <<rows, journal>> /\ drain'.pc = "cancelStop" /\ drain'.pos = rows[t] /\ drain'.id = drain.id
        /\ drain'.status = "filled"
    BY <1>1, <1>6, TidyTypes DEF SellFilled, DrainRecord
  <2>2. Order'.ticker = t /\ Order'.side = "SELL"
    BY <1>1, <1>3, <2>1 DEF Order
  <2>3. \A s, u : InHand(s, u)' <=> s = "SELL" /\ u = t
    BY <2>1, <2>2 DEF InHand
  <2>4. \A u : ~InHand("BUY", u)
    BY <1>1 DEF InHand
  <2> HIDE DEF t
  <2>5. AtMostOne'
    BY <1>1, <1>3, <2>1 DEF Books, AtMostOne
  <2>6. HeldRecorded'
    BY <1>1, <2>1, <2>4 DEF Books, HeldRecorded
  <2>7. FillSells'
    BY <1>1, <1>3, <1>4, <2>1, <2>3 DEF Books, FillSells
  <2>8. SaleTrue'
    BY <1>1, <1>2, <2>1, <2>3 DEF SaleTrue, IsOpen
  <2>9. QED
    BY <2>1, <2>5, <2>6, <2>7, <2>8 DEF Books
<1>7. QED
  BY <1>5, <1>6

\* The end of a sale, and every other step of the drain task.
LEMMA BooksDrain ==
    ASSUME Tidy, Lone, Books, Barring({"lost", "rejected"}), Drain
    PROVE  Books'
<1>1. CASE SellRecorded
  <2> DEFINE pos == IF rows[Order.ticker].oco = drain.pos.oco THEN drain.pos ELSE NoRow
  <2>1. /\ drain.pc = "closing" /\ drain'.pc = "idle" /\ UNCHANGED <<held, up, fetched, orders, legs>>
        /\ RecordSale(drain.id, pos)
    BY <1>1, ConstantTypes DEF SellRecorded, exchangeVars, envVars
  <2>2. InHand("SELL", Order.ticker)
    BY <2>1, AccountTypes DEF InHand, SalePcs
  <2>3. drain.pos.qty > 0
    BY <2>1, <2>2, AccountTypes DEF Books, SaleTrue, SalePcs
  <2>4. pos.present => pos.qty > 0
    BY <2>3 DEF NoRow
  <2> HIDE DEF pos
  <2>5. \A e \in journal' : e \in journal \/ e.priced
    BY <2>1, <2>4, SalePriced
  <2>6. rows' = [rows EXCEPT ![Order.ticker] = ClosedRow]
    BY <2>1 DEF RecordSale, CloseRow, Order
  <2>7. QED
    BY <2>1, <2>2, <2>5, <2>6, BooksSale DEF HasLeg
<1>2. ASSUME UNCHANGED <<held, rows, journal, orders>>,
             drain'.id = drain.id, drain'.pos = drain.pos, drain'.status = drain.status,
             drain.pc \notin {"idle", "market"}, drain'.pc \notin {"idle", "market"},
             drain'.pc = "result" => Order.side = "BUY",
             drain'.pc \in SalePcs => drain.pc \in SalePcs,
             \E n : \E k \in LegKinds : Cancel(n, k) \/ legs' = legs
      PROVE  Books'
  <2>1. \A s, t : InHand(s, t)' = InHand(s, t)
    BY <1>2 DEF InHand, Order
  <2>2. ASSUME NEW m \in 1..Len(orders), HasLeg(m, "filled")' PROVE HasLeg(m, "filled")
    <3>1. CASE UNCHANGED legs
      BY <2>2, <3>1 DEF HasLeg
    <3>2. ASSUME NEW n, NEW k \in LegKinds, Cancel(n, k) PROVE HasLeg(m, "filled")
      BY SMTT(60), <2>2, <3>2, TidyTypes, AccountTypes, CancelTypes DEF HasLeg, Typed
    <3>3. QED
      BY <1>2, <3>1, <3>2
  <2>3. drain'.pc = "result" => \A t : ~InHand("SELL", t)
    BY <1>2 DEF InHand
  <2>4. UNCHANGED <<up, fetched>>
    BY TidyTypes, DrainKeeps DEF envVars
  <2>5. QED
    BY <1>2, <2>1, <2>2, <2>3, <2>4, BooksKept
<1>3. CASE CancelSurvivor
  <2>1. UNCHANGED <<held, rows, journal, orders>> /\ drain.pc = "survivor"
    BY <1>3 DEF CancelSurvivor, dbVars
  <2>2. /\ drain'.id = drain.id /\ drain'.pos = drain.pos /\ drain'.status = drain.status /\ drain'.pc = "result"
    BY <1>3, TidyTypes DEF CancelSurvivor, DrainRecord
  <2>3. \E n : \E k \in LegKinds : Cancel(n, k)
    BY <1>3, TidyTypes DEF CancelSurvivor, DrainRecord
  <2>4. QED
    BY <1>2, <2>1, <2>2, <2>3, AccountTypes DEF SalePcs
<1>4. CASE CancelStopOnSale \/ CancelLimitOnSale
  <2>1. UNCHANGED <<held, rows, journal, orders>> /\ drain.pc \in {"cancelStop", "cancelLimit"}
    BY <1>4 DEF CancelStopOnSale, CancelLimitOnSale, CancelOnSale, dbVars
  <2>2. /\ drain'.id = drain.id /\ drain'.pos = drain.pos /\ drain'.status = drain.status
        /\ drain'.pc \in {"cancelLimit", "closing"}
    BY <1>4, TidyTypes DEF CancelStopOnSale, CancelLimitOnSale, CancelOnSale, DrainRecord
  <2>3. \E n : \E k \in LegKinds : Cancel(n, k)
    BY <1>4 DEF CancelStopOnSale, CancelLimitOnSale, CancelOnSale, LegKinds
  <2>4. QED
    BY <1>2, <2>1, <2>2, <2>3 DEF SalePcs
<1>5. ASSUME NEW k \in LegKinds, PlaceLeg(k) PROVE Books'
  <2>1. /\ UNCHANGED <<held, rows, journal, orders>> /\ drain.pc = k /\ drain.pc \in {"stop", "limit"}
        /\ Order.side = "BUY" /\ drain.id \in Ids
    BY <1>5, DrainTypes, AccountTypes, TidyTypes DEF PlaceLeg, dbVars, LegKinds
  <2>2. /\ drain'.id = drain.id /\ drain'.pos = drain.pos /\ drain'.status = drain.status
        /\ drain'.pc \in {"limit", "survivor", "result"}
    BY <1>5, <2>1, TidyTypes DEF PlaceLeg, AfterLeg, DrainRecord, LegKinds
  <2>3. \A s, t : InHand(s, t)' = InHand(s, t)
    BY <2>1, <2>2 DEF InHand, Order
  <2>4. legs' = legs \/ legs' = [legs EXCEPT ![drain.id][k] = "open"]
    BY <1>5 DEF PlaceLeg
  <2>5. \A m \in Ids, j \in LegKinds : legs'[m][j] = legs[m][j] \/ legs'[m][j] = "open"
    BY SMTT(60), <2>1, <2>4, AccountTypes
  <2>6. \A m \in 1..Len(orders) : HasLeg(m, "filled")' => HasLeg(m, "filled")
    BY <2>5, AccountTypes DEF HasLeg
  <2>7. UNCHANGED <<up, fetched>>
    BY TidyTypes, DrainKeeps DEF envVars
  <2>8. \A t : ~InHand("SELL", t)
    BY <2>1 DEF InHand
  <2>9. QED
    BY <2>1, <2>2, <2>3, <2>6, <2>7, <2>8, BooksKept DEF SalePcs
<1>6. CASE (\E n \in Ids : Take(n)) \/ ResultNotFilled
  <2>1. UNCHANGED <<orders, held, legs, rows, journal, up, fetched>>
    BY <1>6 DEF Take, ResultNotFilled, exchangeVars, dbVars, envVars
  <2>2. /\ drain.pc = "idle" \/ drain.status # "filled"
        /\ drain'.status # "filled" /\ drain'.pc \notin SalePcs
    <3>1. CASE ResultNotFilled
      BY <3>1 DEF ResultNotFilled, IdleDrain, SalePcs
    <3>2. ASSUME NEW n \in Ids, Take(n)
          PROVE  drain.pc = "idle" /\ drain'.status # "filled" /\ drain'.pc \notin SalePcs
      BY <3>2 DEF Take, IdleDrain, SalePcs
    <3>3. QED
      BY <1>6, <3>1, <3>2
  <2>3. (\A s, t : ~InHand(s, t)) /\ (\A s, t : ~InHand(s, t)')
    BY <2>2 DEF InHand
  <2>4. \A s, t : InHand(s, t)' = InHand(s, t)
    <3>1. TAKE s, t
    <3>2. InHand(s, t) = FALSE /\ InHand(s, t)' = FALSE
      BY <2>3 DEF InHand
    <3>3. QED
      BY <3>2
  <2>5. \A m \in 1..Len(orders) : HasLeg(m, "filled")' => HasLeg(m, "filled")
    BY <2>1 DEF HasLeg
  <2>6. QED
    BY SMTT(60), <2>1, <2>2, <2>3, <2>4, <2>5, BooksKept
<1>7. QED
  BY <1>1, <1>3, <1>4, <1>5, <1>6, BooksMarket, BooksBuyFilled, BooksSellFilled DEF Drain, LegKinds

\* What a crash cuts short leaves rows of one BUY's worth.
LEMMA BooksCrash ==
    ASSUME Tidy, Lone, Books, Crash \/ CrashMidway
    PROVE  Books'
<1>1. /\ up' = "down" /\ drain'.pc = "idle" /\ UNCHANGED <<held, legs, fetched, journal>>
  BY DieTypes, TidyTypes DEF Crash, CrashMidway, dbVars, exchangeVars
<1>2. \A s, u : ~InHand(s, u)'
  BY <1>1 DEF InHand
<1>3. /\ Len(orders') = Len(orders)
      /\ \A m \in 1..Len(orders) : orders'[m].ticker = orders[m].ticker /\ orders'[m].qty = orders[m].qty
      /\ \A t \in Tickers : rows'[t].oco \in {0, rows[t].oco}
  <2>1. CASE Crash
    BY <2>1 DEF Crash, dbVars
  <2>2. CASE CrashMidway
    BY <2>2, CutShortTypes, TidyTypes DEF CrashMidway
  <2>3. QED
    BY <2>1, <2>2
<1>4. ASSUME NEW u \in Tickers PROVE rows'[u].qty <= 1
  <2>1. rows[u].qty <= 1 /\ ClosedRow.qty = 0 /\ NoRow.qty = 0
    BY DEF Books, AtMostOne, ClosedRow, NoRow
  <2>2. CASE BuyCutShort
    <3> DEFINE n == drain.id
               t == Order.ticker
    <3>1. /\ n \in 1..Len(orders) /\ n \in Unrecorded /\ t \in Tickers /\ t = orders[n].ticker
          /\ orders[n].side = "BUY" /\ orders[n].qty = 1
      BY <2>2, DrainTypes, TidyTypes, UnrecordedTypes DEF BuyCutShort, Order, Books, AtMostOne
    <3>2. ~IsOpen(rows[t])
      BY <3>1 DEF Lone, EntriesAlone
    <3>3. RowAfterBuy(rows[t], n).qty = 1
      BY <3>1, <3>2, TidyTypes, RowAfterBuyTypes
    <3>4. rows' = rows \/ rows' = [rows EXCEPT ![t] = RowAfterBuy(rows[t], n)]
      BY <2>2 DEF BuyCutShort
    <3> HIDE DEF t, n
    <3>5. QED
      BY <2>1, <3>1, <3>3, <3>4, TidyTypes
  <2>3. CASE SaleCutShort \/ \E n \in Ids : CloseCutShort(n)
    <3>1. \E t : rows' \in {rows} \cup PartlyClosed(t)
      BY <2>3 DEF SaleCutShort, CloseCutShort
    <3>2. QED
      BY <2>1, <3>1, TidyTypes DEF PartlyClosed
  <2>4. QED
    BY <2>1, <2>2, <2>3 DEF Crash, CrashMidway, dbVars
<1>5. AtMostOne'
  BY <1>1, <1>3, <1>4 DEF Books, AtMostOne
<1>6. HeldRecorded'
  BY <1>1 DEF HeldRecorded
<1>7. FillSells'
  <2> SUFFICES ASSUME NEW m \in 1..Len(orders), HasLeg(m, "filled"), rows'[orders[m].ticker].oco = m
               PROVE  held[orders[m].ticker] = 0
    BY <1>1, <1>2, <1>3 DEF FillSells, HasLeg
  <2>1. orders[m].ticker \in Tickers /\ m # 0
    BY TidyTypes, AccountTypes
  <2>2. rows[orders[m].ticker].oco = m
    BY <1>3, <2>1
  <2>3. QED
    BY <2>2 DEF Books, FillSells
<1>8. SaleTrue'
  BY <1>2 DEF SaleTrue
<1>9. QED
  BY <1>1, <1>5, <1>6, <1>7, <1>8 DEF Books

\* Start-up fetches what is held, and writes it into the rows.
LEMMA BooksRestart ==
    ASSUME Tidy, Books, NoCrash \/ Barring({"offline"}), Restart
    PROVE  Books'
<1>1. /\ UNCHANGED <<held, legs, orders, journal, drain>> /\ drain.pc = "idle"
      /\ \A m \in 1..Len(orders) : HasLeg(m, "filled")' = HasLeg(m, "filled")
  BY DEF Restart, StartUp, StartedUp, exchangeVars, dbVars, taskVars, Tidy, Stopped, HasLeg
<1>2. (\A s, u : ~InHand(s, u)) /\ (\A s, u : ~InHand(s, u)')
  BY <1>1 DEF InHand
<1>3. CASE StartUp
  <2>1. UNCHANGED rows /\ up' = "starting" /\ fetched' = held
    BY <1>3 DEF StartUp, dbVars
  <2>2. AtMostOne'
    BY <1>1, <2>1 DEF Books, AtMostOne
  <2>3. HeldRecorded'
    BY <1>1, <2>1, AccountTypes DEF Books, AtMostOne, HeldRecorded
  <2>4. FillSells'
    BY <1>1, <1>2, <2>1 DEF Books, FillSells
  <2>5. QED
    BY <1>1, <1>2, <2>2, <2>3, <2>4 DEF Books, SaleTrue
<1>4. CASE StartedUp
  <2>1. up = "starting" /\ up' = "up" /\ UNCHANGED fetched
    BY <1>4 DEF StartedUp
  <2>2. ~NoCrash
    BY <2>1 DEF Tidy, Stopped
  <2>3. rows' = [t \in Tickers |-> Reconciled(rows[t], fetched[t])]
    BY <1>4, <2>2 DEF StartedUp, Barring
  <2>4. ASSUME NEW t \in Tickers
        PROVE  /\ rows'[t].qty <= 1 /\ rows'[t].oco \in {0, rows[t].oco}
               /\ held[t] > 0 => IsOpen(rows'[t])
    <3>1. /\ rows[t] \in Row /\ fetched[t] \in Nat /\ held[t] \in Nat /\ rows[t].qty <= 1
          /\ held[t] <= fetched[t] /\ fetched[t] <= 1
      BY <2>1, AccountTypes, TidyTypes DEF Books, AtMostOne, HeldRecorded
    <3> DEFINE r == Reconciled(rows[t], fetched[t])
    <3>2. /\ r.oco \in {rows[t].oco, 0}
          /\ fetched[t] > 0 => r.qty = fetched[t] /\ r.present
      BY <3>1, ReconciledTypes
    <3>3. fetched[t] = 0 => r \in {NoRow, rows[t]}
      BY <3>1 DEF Reconciled
    <3>4. NoRow.qty = 0
      BY DEF NoRow
    <3>5. rows'[t] = r
      BY <2>3
    <3> HIDE DEF r
    <3>6. r.qty <= 1
      BY <3>1, <3>2, <3>3, <3>4
    <3>7. held[t] > 0 => IsOpen(r)
      BY <3>1, <3>2 DEF IsOpen
    <3>8. QED
      BY <3>2, <3>5, <3>6, <3>7
  <2>5. AtMostOne'
    BY <1>1, <2>4 DEF Books, AtMostOne
  <2>6. HeldRecorded'
    BY <1>1, <2>1, <2>4 DEF Books, HeldRecorded
  <2>7. FillSells'
    <3> SUFFICES ASSUME NEW m \in 1..Len(orders), HasLeg(m, "filled"), rows'[orders[m].ticker].oco = m
                 PROVE  held[orders[m].ticker] = 0
      BY <1>1, <1>2 DEF FillSells, HasLeg
    <3>1. orders[m].ticker \in Tickers /\ m # 0
      BY TidyTypes, AccountTypes
    <3>2. rows[orders[m].ticker].oco = m
      BY <2>4, <3>1
    <3>3. QED
      BY <3>2 DEF Books, FillSells
  <2>8. QED
    BY <1>1, <1>2, <2>5, <2>6, <2>7 DEF Books, SaleTrue
<1>5. QED
  BY <1>3, <1>4 DEF Restart

\* Kept, in every step.
LEMMA KeptStep == Kept /\ [Next]_vars => Kept'
<1> SUFFICES ASSUME Kept, [Next]_vars PROVE Kept'
  OBVIOUS
<1>1. Tidy /\ Tidy'
  BY TidyStep DEF Kept
<1>2. Faithful' = Faithful
  BY SceneKept DEF Faithful, Orderly, Barring, NoCrash
<1>3. ASSUME Faithful PROVE Books'
  <2>1. Books /\ Lone /\ TicksAlone /\ Orderly
    BY <1>1, <1>3 DEF Kept, Books, Tidy, Lone, Faithful
  <2>2. CASE UNCHANGED vars
    BY <1>1, <2>1, <2>2, BooksKept DEF vars, exchangeVars, dbVars, taskVars, envVars, InHand, Order, HasLeg
  <2>3. QED
    BY <1>1, <1>3, <2>1, <2>2, BooksDrain, BooksMonitor, BooksEnvironment, BooksTicks, BooksCrash, BooksRestart
       DEF Next, Faithful, Barring
<1>4. QED
  BY <1>1, <1>2, <1>3 DEF Kept, Books

\* At the first start the account is empty.
LEMMA KeptInit == Init => Kept
<1> SUFFICES ASSUME Init PROVE Kept
  OBVIOUS
<1>1. Tidy
  BY TidyInit
<1>2. orders = <<>> /\ journal = {} /\ drain.pc = "idle" /\ up = "up"
      /\ \A t \in Tickers : held[t] = 0 /\ rows[t].qty = 0
  BY ConstantTypes DEF Init, NoRow
<1>3. QED
  BY <1>1, <1>2 DEF Kept, AtMostOne, HeldRecorded, FillSells, SaleTrue, InHand

\* Rows that follow the account, in every reachable state.
LEMMA KeptAlways == Spec => []Kept
BY KeptInit, KeptStep, PTL DEF Spec

\* Whatever closes a row comes after the sale of all that was held.
LEMMA ClosesSold ==
    ASSUME Kept, Faithful, [Next]_vars, NEW t \in Tickers, Closes(t)
    PROVE  held[t] = 0
<1>1. Tidy /\ Books /\ Lone
  BY DEF Kept, Books, Tidy, Lone, Faithful
<1>2. rows'[t] # rows[t]
  BY DEF Closes
<1>3. ASSUME NEW n \in Ids, monitors[n].pc = "read", Decision(monitors[n].seen, legs[n]["limit"]).close,
             orders[n].ticker = t
      PROVE  held[t] = 0
  <2>1. monitors[n].seen = "filled" \/ legs[n]["limit"] = "filled"
    BY <1>3 DEF Decision
  <2>2. monitors[n].seen = "filled" => legs[n]["stop"] = "filled"
    BY <1>1, <1>3 DEF Tidy, Sound, SeenTrue
  <2>3. HasLeg(n, "filled")
    BY <2>1, <2>2 DEF HasLeg, LegKinds
  <2>4. n \in 1..Len(orders) /\ rows[t].oco = n
    BY <1>1, <1>3, TidyTypes DEF Lone, MonitorsOwn
  <2>5. QED
    BY <1>1, <1>3, <2>3, <2>4 DEF Books, FillSells
<1>4. CASE (SellFilled \/ SellRecorded) /\ Order.ticker = t
  <2>1. InHand("SELL", t)
    BY <1>1, <1>4, AccountTypes DEF SellFilled, SellRecorded, InHand, SalePcs
  <2>2. QED
    BY <1>1, <2>1 DEF Books, SaleTrue
<1>5. CASE BuyFilled
  <2> DEFINE row == RowAfterBuy(rows[Order.ticker], drain.id)
             r == IF drain.placed = LegKinds THEN [row EXCEPT !.oco = drain.id] ELSE row
  <2>1. drain.id \in 1..Len(orders) /\ Order.ticker \in Tickers
    BY <1>1, <1>5, DrainTypes, TidyTypes DEF BuyFilled
  <2>2. row \in Row /\ IsOpen(row)
    BY <1>1, <2>1, TidyTypes, RowAfterBuyTypes
  <2>3. rows' = [rows EXCEPT ![Order.ticker] = r]
    BY <1>5 DEF BuyFilled
  <2> HIDE DEF row
  <2>4. IsOpen(r)
    BY <2>2 DEF IsOpen, Row
  <2> HIDE DEF r
  <2>5. QED
    BY <1>1, <2>3, <2>4, TidyTypes DEF Closes
<1>6. CASE Drain
  <2>1. CASE SellFilled \/ SellRecorded
    <3>1. rows' = rows \/ rows' = [rows EXCEPT ![Order.ticker] = ClosedRow]
      BY <2>1 DEF SellFilled, SellRecorded, RecordSale, CloseRow, Order
    <3>2. Order.ticker = t
      BY <1>1, <1>2, <3>1, TidyTypes
    <3>3. QED
      BY SMTT(60), <1>4, <2>1, <3>2
  <2>2. CASE ~SellFilled /\ ~SellRecorded /\ ~BuyFilled
    BY <1>1, <1>2, <1>6, <2>2, TidyTypes, PlainDrain
  <2>3. QED
    BY <1>5, <2>1, <2>2
<1>7. ASSUME NEW n \in Ids, Monitor(n) PROVE held[t] = 0
  <2>1. ReadLimit(n) /\ Decision(monitors[n].seen, legs[n]["limit"]).close
    BY <1>2, <1>7 DEF Monitor, ReadStop, ReadLimit, CancelOther, dbVars
  <2>2. rows' = [rows EXCEPT ![orders[n].ticker] = ClosedRow]
    BY <2>1 DEF ReadLimit, ClosePosition, CloseRow
  <2>3. QED
    BY <1>1, <1>2, <1>3, <2>1, <2>2, TidyTypes DEF ReadLimit
<1>8. CASE CrashMidway
  <2>1. CASE BuyCutShort
    <3>1. drain.id \in 1..Len(orders) /\ Order.ticker \in Tickers
      BY <1>1, <2>1, DrainTypes, TidyTypes DEF BuyCutShort
    <3>2. IsOpen(RowAfterBuy(rows[Order.ticker], drain.id))
      BY <1>1, <3>1, TidyTypes, RowAfterBuyTypes
    <3>3. rows' = [rows EXCEPT ![Order.ticker] = RowAfterBuy(rows[Order.ticker], drain.id)]
      BY <1>2, <2>1 DEF BuyCutShort
    <3>4. QED
      BY <1>1, <3>1, <3>2, <3>3, TidyTypes DEF Closes
  <2>2. CASE SaleCutShort
    <3>1. InHand("SELL", Order.ticker)
      BY <2>2 DEF SaleCutShort, InHand
    <3>2. rows' \in PartlyClosed(Order.ticker)
      BY <1>2, <2>2 DEF SaleCutShort
    <3>3. Order.ticker = t
      BY <1>1, <1>2, <3>2, TidyTypes DEF PartlyClosed
    <3>4. QED
      BY <1>1, <3>1, <3>3 DEF Books, SaleTrue
  <2>3. ASSUME NEW n \in Ids, CloseCutShort(n) PROVE held[t] = 0
    <3>1. orders[n].ticker = t
      BY <1>1, <1>2, <2>3, TidyTypes DEF CloseCutShort, PartlyClosed
    <3>2. QED
      BY <1>3, <2>3, <3>1 DEF CloseCutShort
  <2>4. QED
    BY <1>8, <2>1, <2>2, <2>3 DEF CrashMidway
<1>9. CASE StartedUp
  <2>1. up = "starting" /\ ~NoCrash
    BY <1>1, <1>9 DEF StartedUp, Tidy, Stopped
  <2>2. rows' = [u \in Tickers |-> Reconciled(rows[u], fetched[u])]
    BY <1>9, <2>1 DEF StartedUp, Barring, Faithful
  <2>3. /\ rows[t] \in Row /\ fetched[t] \in Nat /\ held[t] \in Nat /\ held[t] <= fetched[t]
    BY <1>1, <2>1, AccountTypes, TidyTypes DEF Books, HeldRecorded
  <2>4. fetched[t] > 0 => IsOpen(Reconciled(rows[t], fetched[t]))
    BY <2>3, ReconciledTypes DEF IsOpen
  <2>5. ~IsOpen(rows'[t])
    BY DEF Closes
  <2>6. QED
    BY <2>2, <2>3, <2>4, <2>5
<1>10. CASE Environment
  <2>1. PICK u \in Tickers : CooldownExpires(u)
    BY <1>2, <1>10, ExchangeMoves, TidyTypes, <1>1 DEF Environment, SetHalt, dbVars
  <2>2. IsOpen(rows'[t]) = IsOpen(rows[t])
    BY <1>1, <2>1, TidyTypes DEF CooldownExpires, IsOpen, Row
  <2>3. QED
    BY <2>2 DEF Closes
<1>11. QED
  BY <1>2, <1>6, <1>7, <1>8, <1>9, <1>10
     DEF Next, vars, dbVars, Ticks, TickStarts, TickEnds, Crash, Restart, StartUp

\* A position is closed in the database only when the account holds none of it
\* (_on_order_fill, _close_position, reconcile_positions).
THEOREM ClosedPositionsAreSold == Spec => NothingForgotten
<1>1. Kept /\ [Next]_vars =>
        [Orderly /\ scene.safe /\ Barring({"lost", "rejected", "offline"})
           => \A t \in Tickers : Closes(t) => held[t] = 0]_vars
  BY ClosesSold DEF Faithful, Barring
<1>2. QED
  BY <1>1, KeptAlways, PTL DEF Spec, NothingForgotten

\* Every SELL is journalled with the entry price of the position it closed
\* (build_sell_journal_entry).
THEOREM JournalEntriesPriced == Spec => []PricedJournal
<1>1. Kept => PricedJournal
  BY DEF Kept, Faithful, PricedJournal, Barring
<1>2. QED
  BY <1>1, KeptAlways, PTL

-----------------------------------------------------------------------------
(***************************************************************************)
(* Every open leg has a task.  The drain task owns the legs it places      *)
(* until the monitor starts, and the bracket it cancels after the monitor  *)
(* has ended.                                                              *)
(***************************************************************************)
Tended == LegsOwned /\ PlacedTrue

\* Steps that end no monitor, open no leg and leave the drain task alone.
LEMMA TendedKept ==
    ASSUME Owned, Tended, [Next]_vars, UNCHANGED drain,
           \A n \in Ids : monitors[n].pc # "none" => monitors'[n].pc # "none",
           \A n \in Ids, k \in LegKinds : legs'[n][k] = "open" => legs[n][k] = "open",
           \A n \in Ids : NoLegs(n) => NoLegs(n)'
    PROVE  Tended'
<1>1. Tidy
  BY DEF Owned, Kept
<1>2. /\ 1..Len(orders) \subseteq 1..Len(orders')
      /\ \A n \in 1..Len(orders) : orders'[n].side = orders[n].side
  BY <1>1, TidyTypes, OrdersGrow
<1>3. LegsOwned'
  BY DEF Tended, LegsOwned, HasLeg, Executing, CancellingBracket
<1>4. \A n \in 1..Len(orders') : orders'[n].side = "SELL" => NoLegs(n)'
  <2>1. Typed' /\ Typed
    BY <1>1, TidyTypes, TypedStep
  <2>2. 1..Len(orders') \subseteq Ids
    <3>1. Len(orders') \in Nat /\ Len(orders') <= MaxOrders
      BY <2>1 DEF Typed, TypeOK
    <3>2. QED
      BY <3>1, TradingAssumption DEF Ids
  <2>3. \A n \in Ids : n \notin 1..Len(orders) => NoLegs(n)
    BY <2>1 DEF Typed, References, NoLegs
  <2>4. QED
    BY <1>2, <2>2, <2>3 DEF Tended, PlacedTrue
<1>5. drain.pc # "idle" => drain.id \in Ids
  BY <1>1, TidyTypes, DrainTypes
<1>6. PlacedTrue'
  BY <1>4, <1>5 DEF Tended, PlacedTrue
<1>7. QED
  BY <1>3, <1>6 DEF Tended

\* The steps of the monitors, of the exchange and of the ticks.
LEMMA TendedOthers ==
    ASSUME Owned, Tended, Untroubled, [Next]_vars,
           (\E n \in Ids : Monitor(n)) \/ Environment \/ Ticks \/ UNCHANGED vars
    PROVE  Tended'
<1>1. Tidy /\ Typed /\ TypeOK /\ SeenTrue
  BY TidyTypes DEF Owned, Kept, Tidy, Sound, Typed
<1>2. CASE Environment
  <2>1. UNCHANGED <<drain, monitors>>
    BY <1>2, EnvironmentKeeps DEF taskVars
  <2>2. /\ \A n \in Ids, k \in LegKinds : legs'[n][k] = "open" => legs[n][k] = "open"
        /\ \A n \in Ids : NoLegs(n) => NoLegs(n)'
    <3>1. CASE UNCHANGED legs
      BY <3>1 DEF NoLegs
    <3>2. CASE Exchange
      BY <1>1, <3>2, ExchangeMoves
    <3>3. QED
      BY <1>2, <3>1, <3>2 DEF Environment, CooldownExpires, SetHalt, exchangeVars
  <2>3. QED
    BY <2>1, <2>2, TendedKept
<1>3. CASE Ticks \/ UNCHANGED vars
  BY <1>3, TendedKept DEF Ticks, TickStarts, TickEnds, vars, exchangeVars, taskVars, NoLegs
<1>4. ASSUME NEW n \in Ids, ReadStop(n) \/ ReadLimit(n) PROVE Tended'
  <2>1. UNCHANGED <<drain, legs>>
    BY <1>4 DEF ReadStop, ReadLimit, exchangeVars
  <2>2. \E pc \in {"poll", "read", "cancelStop", "cancelLimit"} : \E s :
          monitors' = [monitors EXCEPT ![n].pc = pc, ![n].seen = s]
    BY <1>4 DEF ReadStop, ReadLimit, Decision
  <2>3. \A m \in Ids : monitors[m].pc # "none" => monitors'[m].pc # "none"
    BY <1>1, <2>2, TidyTypes DEF MonitorRecord
  <2>4. QED
    BY <2>1, <2>3, TendedKept DEF NoLegs
<1>5. ASSUME NEW n \in Ids, CancelOther(n) PROVE Tended'
  <2> DEFINE k == IF monitors[n].pc = "cancelStop" THEN "stop" ELSE "limit"
  <2>1. /\ UNCHANGED <<drain, orders>> /\ monitors[n].pc \in {"cancelStop", "cancelLimit"}
        /\ monitors' = [monitors EXCEPT ![n] = NoMonitor] /\ Cancel(n, k) /\ k \in LegKinds
    BY <1>5 DEF CancelOther, EndMonitor, LegKinds, dbVars
  <2>2. \A j \in LegKinds : j # k => legs[n][j] \in {"filled", "dead"}
    BY <1>1, <2>1 DEF SeenTrue, LegKinds
  <2> HIDE DEF k
  <2>3. /\ \A m \in Ids, j \in LegKinds : legs'[m][j] = legs[m][j] \/ legs'[m][j] = "dead"
        /\ legs'[n][k] # "open"
        /\ \A m \in Ids : m # n => legs'[m] = legs[m]
    BY <1>1, <2>1, CancelTypes DEF Untroubled, Barring
  <2>4. ~HasLeg(n, "open")'
    BY <2>2, <2>3 DEF HasLeg
  <2>5. \A m \in Ids : m # n => monitors'[m] = monitors[m]
    BY <1>1, <2>1, TidyTypes
  <2>6. LegsOwned'
    BY <2>1, <2>3, <2>4, <2>5 DEF Tended, LegsOwned, HasLeg, Executing, CancellingBracket
  <2>7. \A m \in Ids : NoLegs(m) => NoLegs(m)'
    <3>1. ~NoLegs(n)
      <4>1. \E j \in LegKinds : j # k
        BY <2>1 DEF LegKinds
      <4>2. QED
        BY <2>2, <4>1 DEF NoLegs
    <3>2. QED
      BY <2>3, <3>1 DEF NoLegs
  <2>8. drain.pc # "idle" => drain.id \in Ids
    BY <1>1, DrainTypes
  <2>9. 1..Len(orders) \subseteq Ids
    BY <1>1, TidyTypes
  <2>10. PlacedTrue'
    BY <2>1, <2>3, <2>7, <2>8, <2>9 DEF Tended, PlacedTrue
  <2>11. QED
    BY <2>6, <2>10 DEF Tended
<1>6. QED
  BY <1>2, <1>3, <1>4, <1>5 DEF Monitor

\* A cancellation that never fails opens nothing and leaves its leg closed.
LEMMA CancelCloses ==
    ASSUME Typed, Barring({"uncancelled"}), NEW n \in Ids, NEW k \in LegKinds, Cancel(n, k)
    PROVE  /\ legs'[n][k] # "open"
           /\ \A m \in Ids, j \in LegKinds : legs'[m][j] = "open" => legs[m][j] = "open"
           /\ \A m \in Ids : NoLegs(m) => NoLegs(m)'
           /\ \A m \in Ids : HasLeg(m, "open")' => HasLeg(m, "open")
<1>1. /\ legs' \in [Ids -> [LegKinds -> LegStates]] /\ legs'[n][k] # "open"
      /\ \A m \in Ids, j \in LegKinds : legs'[m][j] = legs[m][j] \/ (legs[m][j] = "open" /\ legs'[m][j] = "dead")
  BY CancelTypes DEF Typed, Barring
<1>2. ASSUME NEW m \in Ids, NoLegs(m) PROVE NoLegs(m)'
  <2>1. \A j \in LegKinds : legs'[m][j] = "none"
    BY <1>1, <1>2 DEF NoLegs
  <2>2. legs'[m] \in [LegKinds -> LegStates]
    BY <1>1
  <2>3. QED
    BY <2>1, <2>2 DEF NoLegs
<1>3. QED
  BY <1>1, <1>2 DEF HasLeg

\* The drain task takes an order: nothing else changes.
LEMMA TakeKeeps ==
    ASSUME NEW n \in Ids, Take(n)
    PROVE  /\ UNCHANGED <<legs, orders, monitors>> /\ drain.pc = "idle" /\ n \in queue
           /\ drain'.id = n /\ drain'.placed = {} /\ drain'.pc \in {"market", "result"}
<1>1. UNCHANGED <<legs, orders, monitors>> /\ drain.pc = "idle" /\ n \in queue
  BY DEF Take, exchangeVars, dbVars
<1>2. drain'.id = n /\ drain'.placed = {} /\ drain'.pc \in {"market", "result"}
  BY DEF Take, IdleDrain
<1>3. QED
  BY <1>1, <1>2

\* The orders of the drain task on its way from the queue to the last leg.
LEMMA TendedPlacing ==
    ASSUME Owned, Tended, Untroubled,
           (\E n \in Ids : Take(n)) \/ Market \/ (\E k \in LegKinds : PlaceLeg(k)) \/ CancelSurvivor
    PROVE  Tended'
<1>1. /\ Tidy /\ Typed /\ drain \in DrainRecord /\ BracketOrder /\ legs \in [Ids -> [LegKinds -> LegStates]]
      /\ 1..Len(orders) \subseteq Ids
  BY TidyTypes, AccountTypes DEF Owned, Kept, Tidy, Sound
<1>2. UNCHANGED <<orders, monitors>>
  <2>1. ASSUME NEW n \in Ids, Take(n) PROVE UNCHANGED <<orders, monitors>>
    BY <2>1, TakeKeeps
  <2>2. ASSUME NEW k \in LegKinds, PlaceLeg(k) PROVE UNCHANGED <<orders, monitors>>
    BY <2>2 DEF PlaceLeg, dbVars
  <2>3. Market \/ CancelSurvivor => UNCHANGED <<orders, monitors>>
    BY DEF Market, CancelSurvivor, dbVars
  <2>4. QED
    BY <2>1, <2>2, <2>3
<1>3. Barring({"lost", "uncancelled"}) /\ Barring({"uncancelled"})
  BY DEF Untroubled, Faithful, Barring
<1>4. ASSUME NEW n \in Ids, Take(n) PROVE Tended'
  <2>1. /\ UNCHANGED legs /\ drain.pc = "idle" /\ drain'.id = n /\ drain'.placed = {} /\ NoLegs(n)
        /\ drain'.pc \in {"market", "result"}
    <3>1. n \in queue /\ UNCHANGED legs /\ drain.pc = "idle"
      BY <1>4, TakeKeeps
    <3>2. drain'.id = n /\ drain'.placed = {} /\ drain'.pc \in {"market", "result"}
      BY <1>4, TakeKeeps
    <3>3. NoLegs(n)
      BY <1>1, <3>1 DEF BracketOrder
    <3>4. QED
      BY <3>1, <3>2, <3>3
  <2>2. LegsOwned'
    BY <1>2, <2>1 DEF Tended, LegsOwned, HasLeg, Executing, CancellingBracket
  <2>3. PlacedTrue'
    BY <1>2, <2>1 DEF Tended, PlacedTrue, NoLegs
  <2>4. QED
    BY <2>2, <2>3 DEF Tended
<1>5. CASE Market
  <2>1. /\ UNCHANGED legs /\ drain.pc = "market" /\ drain.id \in Ids /\ NoLegs(drain.id) /\ drain.placed = {}
    BY <1>1, <1>5, DrainTypes DEF Market, BracketOrder, Tended, PlacedTrue
  <2>2. /\ drain'.id = drain.id /\ drain'.placed = {} /\ drain'.pc \in {"stop", "result"}
    BY <1>1, <1>5, <2>1 DEF Market, AfterMarket, DrainRecord
  <2>3. LegsOwned'
    BY <1>2, <2>1, <2>2 DEF Tended, LegsOwned, HasLeg, Executing, CancellingBracket
  <2>4. PlacedTrue'
    BY <1>2, <2>1, <2>2 DEF Tended, PlacedTrue, NoLegs
  <2>5. QED
    BY <2>3, <2>4 DEF Tended
<1>6. ASSUME NEW k \in LegKinds, PlaceLeg(k) PROVE Tended'
  <2>1. /\ drain.pc = k /\ drain.id \in Ids /\ drain.id \in 1..Len(orders)
        /\ orders[drain.id].side = "BUY" /\ drain.status = "filled"
    BY <1>1, <1>6, DrainTypes, AccountTypes DEF PlaceLeg, LegKinds, Order
  <2>2. PICK sent \in BOOLEAN :
          /\ legs' = IF sent THEN [legs EXCEPT ![drain.id][k] = "open"] ELSE legs
          /\ LET placed == IF sent THEN drain.placed \cup {k} ELSE drain.placed
             IN drain' = [drain EXCEPT !.placed = placed, !.pc = AfterLeg(k, placed)]
    BY <1>3, <1>6 DEF PlaceLeg, Barring
  <2> DEFINE placed == IF sent THEN drain.placed \cup {k} ELSE drain.placed
  <2>3. drain'.id = drain.id /\ drain'.placed = placed /\ drain'.pc = AfterLeg(k, placed) /\ drain'.status = "filled"
    BY <1>1, <2>1, <2>2 DEF DrainRecord
  <2>4. /\ \A m \in Ids : m # drain.id => legs'[m] = legs[m]
        /\ \A j \in LegKinds : j # k => legs'[drain.id][j] = legs[drain.id][j]
        /\ legs'[drain.id][k] = IF sent THEN "open" ELSE legs[drain.id][k]
    BY <1>1, <2>1, <2>2
  <2>5. LegsOwned'
    <3>1. drain'.pc # "idle"
      BY <2>3 DEF AfterLeg
    <3>2. drain.pc \notin {"cancelStop", "cancelLimit"}
      BY <2>1 DEF LegKinds
    <3>3. QED
      BY <1>2, <2>3, <2>4, <3>1, <3>2 DEF Tended, LegsOwned, HasLeg, Executing, CancellingBracket
  <2>6. \A m \in 1..Len(orders) : orders[m].side = "SELL" => NoLegs(m)'
    BY <1>1, <2>1, <2>4 DEF Tended, PlacedTrue, NoLegs
  <2> HIDE DEF placed
  <2>7. CASE k = "stop"
    <3>1. drain'.pc = "limit" /\ drain.placed = {} /\ NoLegs(drain.id)
      BY <1>1, <2>1, <2>3, <2>7 DEF AfterLeg, Tended, PlacedTrue, BracketOrder
    <3>2. legs[drain.id]["stop"] = "none" /\ legs[drain.id]["limit"] = "none"
      BY <3>1 DEF NoLegs, LegKinds
    <3>3. placed = (IF sent THEN {"stop"} ELSE {})
      BY <2>7, <3>1 DEF placed
    <3>4. \A j \in LegKinds : legs'[drain.id][j] = "open" => j \in placed
      BY <2>4, <2>7, <3>2, <3>3 DEF LegKinds
    <3>5. QED
      BY <1>2, <2>3, <2>5, <2>6, <3>1, <3>3, <3>4 DEF Tended, PlacedTrue
  <2>8. CASE k = "limit"
    <3>1. /\ drain.placed \subseteq {"stop"} /\ legs[drain.id]["limit"] = "none"
          /\ \A j \in LegKinds : legs[drain.id][j] = "open" => j \in drain.placed
      BY <1>1, <2>1, <2>8 DEF Tended, PlacedTrue, BracketOrder
    <3>2. placed \subseteq LegKinds /\ \A j \in LegKinds : legs'[drain.id][j] = "open" => j \in placed
      BY <2>4, <2>8, <3>1 DEF LegKinds, placed
    <3>3. \/ drain'.pc = "result" /\ placed \in {{}, LegKinds}
          \/ drain'.pc = "survivor" /\ placed \notin {{}, LegKinds}
      BY <2>3, <2>8 DEF AfterLeg
    <3>4. placed \notin {{}, LegKinds} => \E j \in LegKinds : placed = {j}
      BY <3>2 DEF LegKinds
    <3>5. QED
      BY <1>2, <2>3, <2>5, <2>6, <3>2, <3>3, <3>4 DEF Tended, PlacedTrue
  <2>9. QED
    BY <2>7, <2>8 DEF LegKinds
<1>7. CASE CancelSurvivor
  <2>1. drain.pc = "survivor" /\ drain.id \in Ids /\ drain.status = "filled"
    BY <1>1, <1>7, DrainTypes, AccountTypes DEF CancelSurvivor
  <2>2. PICK k \in LegKinds : drain.placed = {k}
    BY <2>1 DEF Tended, PlacedTrue
  <2>3. Cancel(drain.id, k) /\ drain'.pc = "result" /\ drain'.placed = {} /\ drain'.id = drain.id /\ drain'.status = "filled"
    BY <1>1, <1>7, <2>1, <2>2 DEF CancelSurvivor, DrainRecord
  <2>4. /\ legs'[drain.id][k] # "open"
        /\ \A m \in Ids, j \in LegKinds : legs'[m][j] = "open" => legs[m][j] = "open"
        /\ \A m \in Ids : NoLegs(m) => NoLegs(m)'
    BY <1>1, <1>3, <2>1, <2>3, CancelCloses
  <2>5. \A j \in LegKinds : legs'[drain.id][j] # "open"
    BY <2>1, <2>2, <2>4 DEF Tended, PlacedTrue
  <2>6. LegsOwned'
    BY <1>2, <2>1, <2>3, <2>4 DEF Tended, LegsOwned, HasLeg, Executing, CancellingBracket
  <2>7. PlacedTrue'
    BY <1>1, <1>2, <2>3, <2>4, <2>5 DEF Tended, PlacedTrue
  <2>8. QED
    BY <2>6, <2>7 DEF Tended
<1>8. QED
  BY <1>4, <1>5, <1>6, <1>7

\* The steps that hand a bracket over: to the monitor, from it, and to nobody
\* when both legs are closed.
LEMMA TendedRecording ==
    ASSUME Owned, Tended, Untroubled,
           ResultNotFilled \/ BuyFilled \/ SellFilled \/ CancelStopOnSale \/ CancelLimitOnSale \/ SellRecorded
    PROVE  Tended'
<1>1. /\ Tidy /\ Typed /\ TypeOK /\ drain \in DrainRecord /\ Watched /\ Lone /\ Books
      /\ 1..Len(orders) \subseteq Ids /\ monitors \in [Ids -> MonitorRecord]
  BY TidyTypes DEF Owned, Kept, Books, Tidy, Sound, Lone, Untroubled, Faithful, Typed
<1>2. Barring({"uncancelled"})
  BY DEF Untroubled
<1>3. drain.pc # "idle" /\ drain.id \in Ids /\ drain.id \in 1..Len(orders)
  BY <1>1, DrainTypes DEF ResultNotFilled, BuyFilled, SellFilled, CancelStopOnSale, CancelLimitOnSale, SellRecorded
<1>4. Order.side = "SELL" => NoLegs(drain.id) /\ ~HasLeg(drain.id, "open")
  BY <1>3 DEF Tended, PlacedTrue, Order, NoLegs, HasLeg
<1>5. /\ Len(orders') = Len(orders) /\ \A m \in 1..Len(orders) : orders'[m].side = orders[m].side
  BY <1>1, DrainKeeps DEF Drain
<1>6. ASSUME drain'.pc = "idle", \A n \in Ids : NoLegs(n) => NoLegs(n)'
      PROVE  PlacedTrue'
  BY <1>1, <1>5, <1>6 DEF Tended, PlacedTrue
<1>7. CASE ResultNotFilled
  <2>1. UNCHANGED <<legs, monitors>> /\ drain'.pc = "idle" /\ drain.pc = "result" /\ NoLegs(drain.id)
    BY <1>7, ConstantTypes DEF ResultNotFilled, exchangeVars, Tended, PlacedTrue
  <2>2. LegsOwned'
    BY <2>1 DEF Tended, LegsOwned, HasLeg, NoLegs, Executing, CancellingBracket
  <2>3. QED
    BY <1>6, <2>1, <2>2 DEF Tended, NoLegs
<1>8. CASE BuyFilled
  <2>1. UNCHANGED legs /\ drain'.pc = "idle" /\ drain.pc = "result"
    BY <1>8, ConstantTypes DEF BuyFilled, exchangeVars
  <2>2. drain.placed = LegKinds => monitors'[drain.id].pc = "poll"
    BY ZenonT(60), <1>1, <1>3, <1>8 DEF BuyFilled, Watch, NoMonitor
  <2>3. \A n \in Ids : n # drain.id => monitors'[n] = monitors[n]
    BY <1>1, <1>3, <1>8 DEF BuyFilled, Watch
  <2>4. drain.placed # LegKinds => ~HasLeg(drain.id, "open")
    BY <2>1 DEF Tended, PlacedTrue, HasLeg
  <2>5. LegsOwned'
    BY <2>1, <2>2, <2>3, <2>4 DEF Tended, LegsOwned, HasLeg, Executing, CancellingBracket
  <2>6. QED
    BY <1>6, <2>1, <2>5 DEF Tended, NoLegs
<1>9. CASE SellFilled
  <2> DEFINE t == Order.ticker
             m == taskOf[t]
  <2>1. /\ t \in Tickers /\ InHand("SELL", t) /\ drain.pc = "result" /\ Order.side = "SELL"
    BY <1>1, <1>9, DrainTypes DEF SellFilled, InHand
  <2>2. IsOpen(rows[t])
    BY <1>1, <2>1 DEF Books, SaleTrue
  <2>3. m = 0 => UNCHANGED <<monitors, legs>>
    BY <1>9 DEF SellFilled
  <2>4. m # 0 => /\ OfTicker(m, t) /\ monitors[m].pc # "none" /\ m \in Ids
                 /\ monitors' = [monitors EXCEPT ![m] = NoMonitor]
                 /\ rows[t].oco = m
    BY <1>1, <1>9, <2>1, <2>2 DEF SellFilled, AbandonMonitor, Typed, References, RegisteredTaskAlive, OfTicker, Lone, MonitorsOwn
  <2>5. /\ \A k \in Ids, j \in LegKinds : legs'[k][j] = "open" => legs[k][j] = "open"
        /\ \A k \in Ids : NoLegs(k) => NoLegs(k)'
    <3>1. CASE UNCHANGED legs
      BY <3>1 DEF NoLegs
    <3>2. CASE m # 0 /\ \E k \in LegKinds : Cancel(m, k)
      BY <1>1, <1>2, <2>4, <3>2, CancelCloses
    <3>3. QED
      BY <1>9, <2>3, <3>1, <3>2 DEF SellFilled, AbandonMonitor, LegKinds
  <2>6. rows[t].oco # 0 => drain'.pc = "cancelStop" /\ drain'.pos.oco = rows[t].oco /\ drain'.id = drain.id
    BY <1>1, <1>9 DEF SellFilled, DrainRecord
  <2>7. rows[t].oco = 0 => drain'.pc = "idle"
    BY <1>9, ConstantTypes DEF SellFilled
  <2>8. \A k \in Ids : k # m => monitors'[k] = monitors[k]
    BY <1>1, <2>3, <2>4
  <2>9. m \in Ids \/ m = 0
    BY <1>1, <2>1 DEF TypeOK
  <2> HIDE DEF m, t
  <2>10. LegsOwned'
    <3> SUFFICES ASSUME NEW k \in Ids, HasLeg(k, "open")'
                 PROVE  monitors'[k].pc # "none" \/ CancellingBracket(k)'
      BY DEF LegsOwned
    <3>1. HasLeg(k, "open")
      BY <2>5 DEF HasLeg
    <3>2. monitors[k].pc # "none"
      BY <1>4, <2>1, <3>1 DEF Tended, LegsOwned, Executing, CancellingBracket
    <3>3. CASE k # m
      BY <2>8, <3>2, <3>3
    <3>4. CASE k = m
      <4>1. m # 0
        BY <3>4, <1>1, TidyTypes
      <4>2. QED
        BY <2>4, <2>6, <3>4, <4>1 DEF CancellingBracket
    <3>5. QED
      BY <3>3, <3>4
  <2>11. PlacedTrue'
    <3>1. drain'.pc = "cancelStop" => PlacedTrue'
      BY <1>1, <1>5, <2>5 DEF Tended, PlacedTrue
    <3>2. QED
      BY <1>6, <2>5, <2>6, <2>7, <3>1
  <2>12. QED
    BY <2>10, <2>11 DEF Tended
<1>10. ASSUME NEW k \in LegKinds, NEW next, CancelOnSale(k, next), drain.pc \in {"cancelStop", "cancelLimit"},
              next \in {"cancelLimit", "closing"}, next = "closing" => k = "limit" /\ drain.pc = "cancelLimit"
       PROVE  Tended'
  <2> DEFINE n == drain.pos.oco
  <2>1. /\ UNCHANGED <<monitors, orders>> /\ drain'.pc = next /\ drain'.pos = drain.pos /\ drain'.id = drain.id
        /\ Cancel(n, k)
    BY <1>1, <1>10 DEF CancelOnSale, DrainRecord, dbVars
  <2>2. n \in Ids
    <3>1. OfTicker(n, Order.ticker)
      BY <1>1, <1>10 DEF Tidy, SaleOfTicker, SalePcs
    <3>2. QED
      BY <1>1, <3>1 DEF OfTicker
  <2>3. /\ legs'[n][k] # "open"
        /\ \A m \in Ids, j \in LegKinds : legs'[m][j] = "open" => legs[m][j] = "open"
        /\ \A m \in Ids : NoLegs(m) => NoLegs(m)'
    BY <1>1, <1>2, <2>1, <2>2, CancelCloses
  <2>4. next = "closing" => legs[n]["stop"] # "open"
    BY <1>1, <1>2, <1>10 DEF Watched
  <2>5. next = "closing" => ~HasLeg(n, "open")'
    BY <1>10, <2>1, <2>2, <2>3, <2>4 DEF HasLeg, LegKinds
  <2> HIDE DEF n
  <2>6. LegsOwned'
    <3> SUFFICES ASSUME NEW m \in Ids, HasLeg(m, "open")'
                 PROVE  monitors'[m].pc # "none" \/ Executing(m)' \/ CancellingBracket(m)'
      BY DEF LegsOwned
    <3>1. HasLeg(m, "open")
      BY <2>3 DEF HasLeg
    <3>2. monitors[m].pc # "none" \/ Executing(m) \/ CancellingBracket(m)
      BY <3>1 DEF Tended, LegsOwned
    <3>3. QED
      BY <1>10, <2>1, <2>5, <3>2 DEF Executing, CancellingBracket, n
  <2>7. PlacedTrue'
    BY <1>1, <1>10, <2>1, <2>3 DEF Tended, PlacedTrue
  <2>8. QED
    BY <2>6, <2>7 DEF Tended
<1>11. CASE SellRecorded
  <2>1. UNCHANGED <<legs, monitors>> /\ drain'.pc = "idle" /\ drain.pc = "closing"
    BY <1>11, ConstantTypes DEF SellRecorded, exchangeVars
  <2>2. Order.side = "SELL"
    BY <1>1, <2>1, AccountTypes DEF SalePcs
  <2>3. LegsOwned'
    BY <1>4, <2>1, <2>2 DEF Tended, LegsOwned, HasLeg, Executing, CancellingBracket
  <2>4. QED
    BY <1>6, <2>1, <2>3 DEF Tended, NoLegs
<1>12. QED
  BY <1>7, <1>8, <1>9, <1>10, <1>11 DEF CancelStopOnSale, CancelLimitOnSale, LegKinds

\* Owned, in every step: without crashes there is no restart.
LEMMA OwnedStep == Owned /\ [Next]_vars => Owned'
<1> SUFFICES ASSUME Owned, [Next]_vars PROVE Owned'
  OBVIOUS
<1>1. Kept'
  BY KeptStep DEF Owned
<1>2. Untroubled' = Untroubled
  BY SceneKept DEF Untroubled, Faithful, Orderly, Barring, NoCrash
<1>3. ASSUME Untroubled PROVE Tended'
  <2>1. Tended /\ up = "up" /\ crashes = 0 /\ scene.crashes = 0
    <3>1. Tidy /\ crashes \in 0..scene.crashes
      BY TidyTypes DEF Owned, Kept, Typed, TypeOK
    <3>2. QED
      BY <1>3, <3>1 DEF Owned, Tended, Tidy, Stopped, Untroubled, NoCrash
  <2>2. CASE (\E n \in Ids : Monitor(n)) \/ Environment \/ Ticks \/ UNCHANGED vars
    BY <1>3, <2>1, <2>2, TendedOthers
  <2>3. CASE Drain
    BY <1>3, <2>1, <2>3, TendedPlacing, TendedRecording DEF Drain, LegKinds
  <2>4. QED
    BY <2>1, <2>2, <2>3 DEF Next, Crash, CrashMidway, Die, Restart, StartUp, StartedUp
<1>4. QED
  BY <1>1, <1>2, <1>3 DEF Owned, Tended

\* At the first start there are no legs.
LEMMA OwnedInit == Init => Owned
<1> SUFFICES ASSUME Init PROVE Owned
  OBVIOUS
<1>1. orders = <<>> /\ drain.pc = "idle" /\ \A n \in Ids : ~HasLeg(n, "open")
  BY ConstantTypes DEF Init, HasLeg
<1>2. QED
  BY <1>1, KeptInit DEF Owned, LegsOwned, PlacedTrue

\* Legs have owners, in every reachable state.
LEMMA OwnedAlways == Spec => []Owned
BY OwnedInit, OwnedStep, PTL DEF Spec

\* Every open stop or limit order has a task that will cancel it or see it fill
\* (_on_order_fill, monitor_oco).
THEOREM LegsHaveOwners == Spec => []EveryLegOwned
<1>1. Owned => EveryLegOwned
  BY DEF Owned, Untroubled, Faithful, EveryLegOwned, LegsOwned, Barring
<1>2. QED
  BY <1>1, OwnedAlways, PTL

-----------------------------------------------------------------------------
(***************************************************************************)
(* The account and the rows.  An exchange that answers and keeps its legs  *)
(* gives every position a bracket of two legs and a monitor, so what was   *)
(* sold has a filled leg that the monitor is about to read, or a SELL in   *)
(* hand.                                                                   *)
(***************************************************************************)
Sharp == RowsWatched /\ PlacedAll /\ ReadAlive /\ SoldSeen

\* The parts of the invariant that the following proofs start from.
LEMMA ExactParts ==
    ASSUME Exact, Serene
    PROVE  /\ Tidy /\ Typed /\ TypeOK /\ Lone /\ Books /\ Tended /\ Untroubled /\ Sharp /\ Kept /\ Owned
           /\ BracketOrder /\ SeenTrue /\ Watched /\ BracketsProtect /\ TicksAlone /\ OneOrder
           /\ up = "up" /\ crashes = 0 /\ scene.crashes = 0
           /\ Barring({"uncancelled"}) /\ Barring({"lost", "rejected"}) /\ scene.faults \subseteq {"stale"}
<1>1. Untroubled /\ Faithful /\ Orderly /\ scene.safe /\ NoCrash /\ scene.faults \subseteq {"stale"}
  BY DEF Serene, Untroubled, Faithful, Barring
<1>2. Owned /\ Kept /\ Tidy /\ Sharp
  BY DEF Exact, Owned, Kept, Serene, Sharp
<1>3. Sound /\ Lone /\ TicksAlone /\ OneOrder /\ up = "up"
  BY <1>1, <1>2 DEF Tidy, Lone, Stopped
<1>4. Books /\ Tended
  BY <1>1, <1>2 DEF Kept, Books, Owned, Tended
<1>5. Typed /\ TypeOK /\ BracketOrder /\ SeenTrue /\ Watched /\ BracketsProtect
  BY <1>3 DEF Sound, Typed
<1>6. scene.crashes = 0 /\ crashes = 0
  <2>1. crashes \in 0..scene.crashes
    BY <1>5 DEF TypeOK
  <2>2. QED
    BY <1>1, <2>1 DEF NoCrash
<1>7. QED
  BY <1>1, <1>2, <1>3, <1>4, <1>5, <1>6 DEF Barring

\* What a monitor polls is alive and is what the row names.
LEMMA PolledAlive ==
    ASSUME Exact, Serene, NEW n \in Ids, monitors[n].pc \in {"poll", "read"}
    PROVE  /\ n \in 1..Len(orders) /\ n # 0 /\ orders[n].ticker \in Tickers
           /\ rows[orders[n].ticker].oco = n /\ IsOpen(rows[orders[n].ticker]) /\ Alive(n)
<1> DEFINE t == orders[n].ticker
<1>1. n \in 1..Len(orders) /\ t \in Tickers /\ n # 0
  BY ExactParts, TidyTypes, AccountTypes
<1>2. rows[t].oco = n /\ IsOpen(rows[t])
  BY <1>1, ExactParts, TidyTypes DEF Lone, MonitorsOwn
<1>3. ~Selling(t)
  BY <1>1, ExactParts DEF Selling, Lone, SaleAlone, Unwatched, OfTicker
<1>4. QED
  BY <1>1, <1>2, <1>3, ExactParts DEF Sharp, RowsWatched

\* Steps that neither trade, nor touch a row, a leg or a task that matters.
LEMMA SharpKept ==
    ASSUME Exact, Serene, UNCHANGED <<held, legs, monitors>>,
           1..Len(orders) \subseteq 1..Len(orders'),
           \A n \in 1..Len(orders) : orders'[n].ticker = orders[n].ticker /\ orders'[n].side = orders[n].side,
           \A t \in Tickers : rows'[t].oco = rows[t].oco /\ IsOpen(rows'[t]) = IsOpen(rows[t]),
           \/ UNCHANGED drain
           \/ /\ drain.pc \notin SalePcs /\ drain'.pc \notin SalePcs
              /\ \A s, t : ~InHand(s, t)
              /\ \A s, t : ~InHand(s, t)'
    PROVE  Sharp'
<1>1. /\ drain.pc # "idle" => drain.id \in 1..Len(orders)
      /\ \A n \in Ids : monitors[n].pc # "none" => n \in 1..Len(orders)
  BY ExactParts, TidyTypes, DrainTypes
<1>2. \A s, t : InHand(s, t)' => InHand(s, t) /\ UNCHANGED drain
  BY <1>1 DEF InHand, Order
<1>3. \A s, t : InHand(s, t) => InHand(s, t)'
  BY <1>1 DEF InHand, Order
<1>4. \A t : Selling(t) => Selling(t)'
  BY <1>1 DEF Selling, Order, SalePcs
<1>5. RowsWatched'
  BY <1>4, ExactParts DEF Sharp, RowsWatched, Alive
<1>6. PlacedAll'
  BY <1>2, ExactParts DEF Sharp, PlacedAll
<1>7. ReadAlive'
  <2>1. \A n \in Ids : monitors[n].pc # "none" => orders[n].ticker \in Tickers
    BY ExactParts, TidyTypes
  <2>2. QED
    BY <1>1, <2>1, ExactParts DEF Sharp, ReadAlive
<1>8. SoldSeen'
  BY <1>2, <1>3, ExactParts DEF Sharp, SoldSeen, HasLeg
<1>9. QED
  BY <1>5, <1>6, <1>7, <1>8 DEF Sharp

\* A leg that fills is a leg of the row's bracket, or of the BUY in hand.
LEMMA SharpLegFills ==
    ASSUME Exact, Serene, NEW n \in Ids, NEW k \in LegKinds, LegFills(n, k)
    PROVE  Sharp'
<1> DEFINE t == orders[n].ticker
<1>1. n \in 1..Len(orders) /\ t \in Tickers /\ orders[n].qty = 1 /\ n # 0
  <2>1. n \in 1..Len(orders)
    BY ExactParts DEF LegFills, Typed, References, LegKinds
  <2>2. QED
    BY <2>1, ExactParts, TidyTypes, AccountTypes DEF Books, AtMostOne
<1>2. /\ held[t] >= 1 /\ held' = [held EXCEPT ![t] = @ - 1]
      /\ legs' = [legs EXCEPT ![n][k] = "filled"] /\ legs[n][k] = "open"
      /\ UNCHANGED <<rows, orders, drain, monitors>>
  BY <1>1 DEF LegFills, dbVars, taskVars
<1>3. /\ \A u \in Tickers : u # t => held'[u] = held[u]
      /\ held[t] # 0
      /\ \A m \in Ids, j \in LegKinds : legs'[m][j] = legs[m][j] \/ legs'[m][j] = "filled"
      /\ HasLeg(n, "filled")'
      /\ \A m \in Ids : HasLeg(m, "filled") => HasLeg(m, "filled")'
      /\ \A m \in Ids : Alive(m) => Alive(m)'
  BY <1>1, <1>2, ExactParts, AccountTypes DEF HasLeg, Alive
<1>4. \A s, u : InHand(s, u)' = InHand(s, u)
  BY <1>2 DEF InHand, Order
<1>5. \A u : Selling(u)' = Selling(u)
  BY <1>2 DEF Selling, Order
<1>6. drain.pc # "idle" => drain.id \in Ids /\ drain.placed \subseteq LegKinds
  BY ExactParts, DrainTypes
<1> HIDE DEF t
<1>7. RowsWatched'
  <2>1. \A u \in Tickers : rows[u].oco # 0 => rows[u].oco \in Ids
    BY ExactParts DEF TypeOK, Row
  <2>2. QED
    BY <1>2, <1>3, <1>5, <2>1, ExactParts DEF Sharp, RowsWatched
<1>8. PlacedAll'
  <2> SUFFICES ASSUME NEW u \in Tickers, InHand("BUY", u)
               PROVE  /\ drain.pc \in {"stop", "limit", "result"}
                      /\ drain.pc = "limit" => drain.placed = {"stop"}
                      /\ drain.pc = "result" => drain.placed = LegKinds
                      /\ \A j \in drain.placed : legs'[drain.id][j] \in {"open", "filled"}
    BY <1>2, <1>4 DEF PlacedAll
  <2>1. drain.id \in Ids /\ drain.placed \subseteq LegKinds
    BY <1>6 DEF InHand
  <2>2. QED
    BY <1>3, <2>1, ExactParts DEF Sharp, PlacedAll
<1>9. ReadAlive'
  <2>1. \A m \in Ids : monitors[m].pc \in {"cancelStop", "cancelLimit"} => orders[m].ticker \in Tickers /\ orders[m].ticker # t
    BY <1>3, ExactParts, TidyTypes DEF Sharp, ReadAlive
  <2>2. QED
    BY <1>2, <1>3, <2>1, ExactParts DEF Sharp, ReadAlive
<1>10. (IsOpen(rows[t]) => InHand("SELL", t) \/ rows[t].oco = n) /\ (InHand("BUY", t) => drain.id = n /\ drain.pc # "stop")
  <2>1. HasLeg(n, "open") /\ ~NoLegs(n)
    BY <1>2 DEF HasLeg, NoLegs
  <2>2. CASE monitors[n].pc # "none"
    <3>1. rows[t].oco = n
      BY <1>3, <2>2, ExactParts DEF Lone, MonitorsOwn, Sharp, ReadAlive, t
    <3>2. IsOpen(rows[t])
      BY <1>1, <3>1, ExactParts, TidyTypes
    <3>3. ~InHand("BUY", t)
      <4> SUFFICES ASSUME InHand("BUY", t) PROVE FALSE
        OBVIOUS
      <4>1. drain.id \in Unrecorded
        BY ExactParts, AccountTypes, UnrecordedTypes, DrainTypes DEF InHand, Sharp, PlacedAll
      <4>2. QED
        BY <3>2, <4>1, ExactParts DEF InHand, Order, Lone, EntriesAlone
    <3>4. QED
      BY <3>1, <3>3
  <2>3. CASE Executing(n)
    <3>1. drain.id = n /\ drain.pc # "idle" /\ Order = orders[n] /\ Order.ticker = t
      BY <2>3 DEF Executing, Order, t
    <3>2. Order.side = "BUY"
      <4>1. Order.side \in Sides
        BY <1>1, <3>1, ExactParts, OrderTypes
      <4>2. QED
        BY <1>1, <2>1, <3>1, <4>1, ExactParts DEF Tended, PlacedTrue, Sides
    <3>3. drain.pc \notin SalePcs \cup {"market", "stop"}
      BY <2>1, <3>1, <3>2, ExactParts, AccountTypes DEF BracketOrder
    <3>4. n \in Unrecorded
      BY <1>1, <3>1, <3>3, ExactParts DEF Unrecorded, TypeOK, DrainPcs, SalePcs
    <3>5. ~IsOpen(rows[t])
      BY <3>1, <3>2, <3>4, ExactParts DEF Lone, EntriesAlone, t
    <3>6. QED
      BY <3>1, <3>3, <3>5
  <2>4. CASE CancellingBracket(n)
    <3>1. drain.pc \in SalePcs /\ drain.pos.oco = n
      BY <2>4 DEF CancellingBracket, SalePcs
    <3>2. Order.ticker = t
      BY <3>1, ExactParts DEF Tidy, SaleOfTicker, OfTicker, t
    <3>3. InHand("SELL", t)
      BY <3>1, <3>2, ExactParts, AccountTypes DEF InHand, SalePcs
    <3>4. QED
      BY <1>1, <1>3, <3>3, ExactParts DEF Books, SaleTrue
  <2>5. QED
    BY <2>1, <2>2, <2>3, <2>4, ExactParts DEF Tended, LegsOwned
<1>11. SoldSeen'
  <2> SUFFICES ASSUME NEW u \in Tickers, held'[u] = 0
               PROVE  /\ IsOpen(rows[u]) => InHand("SELL", u) \/ HasLeg(rows[u].oco, "filled")'
                      /\ InHand("BUY", u) => drain.pc # "stop" /\ HasLeg(drain.id, "filled")'
    BY <1>2, <1>4 DEF SoldSeen
  <2>1. CASE u = t
    BY <1>2, <1>3, <1>10, <2>1
  <2>2. CASE u # t
    <3>1. held[u] = 0
      BY <1>3, <2>2
    <3>2. /\ IsOpen(rows[u]) => InHand("SELL", u) \/ HasLeg(rows[u].oco, "filled")
          /\ InHand("BUY", u) => drain.pc # "stop" /\ HasLeg(drain.id, "filled")
      BY <3>1, ExactParts DEF Sharp, SoldSeen
    <3>3. IsOpen(rows[u]) => rows[u].oco \in Ids
      BY ExactParts DEF Sharp, RowsWatched, TypeOK, Row
    <3>4. InHand("BUY", u) => drain.id \in Ids
      BY <1>6 DEF InHand
    <3>5. QED
      BY <1>2, <1>3, <3>2, <3>3, <3>4
  <2>3. QED
    BY <2>1, <2>2
<1>12. QED
  BY <1>7, <1>8, <1>9, <1>11 DEF Sharp

\* Ticks, cooldowns and the kill switch; no leg dies by itself.
LEMMA SharpOthers ==
    ASSUME Exact, Serene, Ticks \/ Environment \/ UNCHANGED vars
    PROVE  Sharp'
<1>1. [Next]_vars
  BY DEF Next
<1>2. /\ 1..Len(orders) \subseteq 1..Len(orders')
      /\ \A n \in 1..Len(orders) : orders'[n].ticker = orders[n].ticker /\ orders'[n].side = orders[n].side
  BY <1>1, ExactParts, OrdersGrow
<1>3. CASE Ticks \/ UNCHANGED vars
  BY <1>2, <1>3, SharpKept DEF Ticks, TickStarts, TickEnds, vars, exchangeVars, dbVars, taskVars
<1>4. CASE Exchange
  BY <1>4, ExactParts, SharpLegFills DEF Exchange, LegBounces, LegRevoked
<1>5. ASSUME NEW t \in Tickers, CooldownExpires(t) PROVE Sharp'
  <2>1. rows' = [rows EXCEPT ![t] = [rows[t] EXCEPT !.cooling = FALSE]] /\ UNCHANGED <<held, legs, monitors, drain>>
    BY <1>5, ExactParts, TidyTypes DEF CooldownExpires, exchangeVars, taskVars
  <2>2. \A u \in Tickers : rows'[u].oco = rows[u].oco /\ IsOpen(rows'[u]) = IsOpen(rows[u])
    BY <2>1, ExactParts, TidyTypes DEF Row, IsOpen
  <2>3. QED
    BY <1>2, <2>1, <2>2, SharpKept
<1>6. ASSUME NEW on \in BOOLEAN, SetHalt(on) PROVE Sharp'
  BY <1>2, <1>6, SharpKept DEF SetHalt, exchangeVars, dbVars, taskVars
<1>7. QED
  BY <1>3, <1>4, <1>5, <1>6 DEF Environment

\* A monitor reads open and filled legs only, and closes the row of an exit.
LEMMA SharpMonitor ==
    ASSUME Exact, Serene, NEW n \in Ids, Monitor(n)
    PROVE  Sharp'
<1> DEFINE t == orders[n].ticker
<1>1. /\ n \in 1..Len(orders) /\ t \in Tickers /\ monitors[n].pc # "none" /\ [Next]_vars
      /\ UNCHANGED <<orders, held, drain>>
  BY ExactParts, TidyTypes, MonitorKeeps DEF Monitor, ReadStop, ReadLimit, CancelOther, Next
<1>2. (\A s, u : InHand(s, u)' = InHand(s, u)) /\ \A u : Selling(u)' = Selling(u)
  BY <1>1 DEF InHand, Selling, Order
<1>3. \A u \in Tickers : rows[u].oco = n => u = t
  BY ExactParts, TidyTypes DEF Typed, References, OfTicker
<1>4. \A m \in Ids : monitors[m].pc # "none" => orders[m].ticker \in Tickers
  BY ExactParts, TidyTypes
<1>5. monitors \in [Ids -> MonitorRecord] /\ rows \in [Tickers -> Row] /\ legs \in [Ids -> [LegKinds -> LegStates]]
  BY ExactParts, TidyTypes, AccountTypes
<1>6. CASE ReadStop(n)
  <2>1. /\ UNCHANGED <<rows, legs>> /\ monitors[n].pc = "poll"
        /\ monitors' = [monitors EXCEPT ![n].pc = "read", ![n].seen = legs[n]["stop"]]
    BY <1>6 DEF ReadStop, exchangeVars, dbVars
  <2>2. legs[n]["stop"] \in {"open", "filled"}
    BY <2>1, PolledAlive DEF Alive, LegKinds
  <2>3. /\ monitors'[n].pc = "read" /\ monitors'[n].seen \in {"open", "filled"}
        /\ \A m \in Ids : m # n => monitors'[m] = monitors[m]
    BY <1>5, <2>1, <2>2 DEF MonitorRecord
  <2>4. RowsWatched'
    BY <1>1, <1>2, <1>5, <2>1, <2>3, ExactParts DEF Sharp, RowsWatched, Alive, Row
  <2>5. PlacedAll' /\ SoldSeen'
    BY <1>1, <1>2, <2>1, ExactParts DEF Sharp, PlacedAll, SoldSeen, HasLeg
  <2>6. ReadAlive'
    BY <1>1, <2>1, <2>3, ExactParts DEF Sharp, ReadAlive
  <2>7. QED
    BY <2>4, <2>5, <2>6 DEF Sharp
<1>7. CASE ReadLimit(n)
  <2> DEFINE d == Decision(monitors[n].seen, legs[n]["limit"])
  <2>1. /\ UNCHANGED legs /\ monitors[n].pc = "read"
        /\ monitors' = [monitors EXCEPT ![n].pc = d.pc, ![n].seen = "none"]
        /\ d.close => rows' = [rows EXCEPT ![t] = ClosedRow]
        /\ ~d.close => rows' = rows
    BY <1>7 DEF ReadLimit, ClosePosition, CloseRow, exchangeVars, dbVars
  <2>2. IsOpen(rows[t]) /\ rows[t].oco = n /\ legs[n]["limit"] \in {"open", "filled"} /\ n # 0
    BY <2>1, PolledAlive DEF Alive, LegKinds
  <2>3. monitors[n].seen \in {"open", "filled"}
    BY <2>1, ExactParts DEF Sharp, ReadAlive
  <2>4. IF d.close THEN d.pc \in {"cancelStop", "cancelLimit"} ELSE d.pc = "poll"
    BY <2>2, <2>3 DEF Decision
  <2>5. /\ monitors'[n].pc = d.pc
        /\ \A m \in Ids : m # n => monitors'[m] = monitors[m]
    BY <1>5, <2>1 DEF MonitorRecord
  <2> HIDE DEF d
  <2>6. d.close => rows'[t].oco = 0 /\ ~IsOpen(rows'[t])
    <3>1. ClosedRow.oco = 0 /\ ~IsOpen(ClosedRow)
      BY DEF ClosedRow, NoRow, IsOpen
    <3>2. QED
      BY <1>1, <1>5, <2>1, <3>1
  <2>7. d.close => held[t] = 0
    BY <1>1, <2>2, <2>6, ExactParts, ClosesSold DEF Closes, Untroubled
  <2>8. \A u \in Tickers : u # t => rows'[u] = rows[u]
    BY <1>1, <1>5, <2>1
  <2> HIDE DEF t
  <2>9. RowsWatched'
    <3> SUFFICES ASSUME NEW u \in Tickers, IsOpen(rows'[u])
                 PROVE  /\ rows'[u].oco # 0
                        /\ Selling(u) \/ (monitors'[rows'[u].oco].pc \in {"poll", "read"} /\ Alive(rows[u].oco)')
      BY <1>2 DEF RowsWatched
    <3>1. rows'[u] = rows[u]
      BY <2>1, <2>6, <2>8
    <3>2. /\ rows[u].oco # 0 /\ rows[u].oco \in Ids
          /\ Selling(u) \/ (monitors[rows[u].oco].pc \in {"poll", "read"} /\ Alive(rows[u].oco))
      BY <1>5, <3>1, ExactParts DEF Sharp, RowsWatched, Row
    <3>3. rows[u].oco = n => monitors'[n].pc = "poll"
      BY <1>3, <2>1, <2>4, <2>5, <2>6, <3>1
    <3>4. QED
      BY <2>1, <2>5, <3>1, <3>2, <3>3 DEF Alive
  <2>10. PlacedAll'
    BY <1>1, <1>2, <2>1, ExactParts DEF Sharp, PlacedAll
  <2>11. SoldSeen'
    <3> SUFFICES ASSUME NEW u \in Tickers, held[u] = 0
                 PROVE  /\ IsOpen(rows'[u]) => InHand("SELL", u) \/ HasLeg(rows[u].oco, "filled")'
                        /\ InHand("BUY", u) => drain.pc # "stop" /\ HasLeg(drain.id, "filled")'
      BY <1>1, <1>2 DEF SoldSeen
    <3>1. IsOpen(rows'[u]) => rows'[u] = rows[u]
      BY <2>1, <2>6, <2>8
    <3>2. QED
      BY <1>1, <2>1, <3>1, ExactParts DEF Sharp, SoldSeen, HasLeg
  <2>12. ReadAlive'
    <3> SUFFICES ASSUME NEW m \in Ids
                 PROVE  /\ monitors'[m].pc = "read" => monitors'[m].seen \in {"open", "filled"}
                        /\ monitors'[m].pc \in {"cancelStop", "cancelLimit"} =>
                               held[orders[m].ticker] = 0 /\ rows'[orders[m].ticker].oco # m
      BY <1>1 DEF ReadAlive
    <3>1. CASE m = n
      BY <2>2, <2>4, <2>5, <2>6, <2>7, <3>1 DEF t
    <3>2. CASE m # n
      <4>1. monitors'[m] = monitors[m]
        BY <2>5, <3>2
      <4>2. monitors'[m].pc \in {"cancelStop", "cancelLimit"} => orders[m].ticker \in Tickers /\ m # 0
        BY <1>4, <4>1, ExactParts, TidyTypes
      <4>3. \A u \in Tickers : rows'[u].oco \in {0, rows[u].oco}
        BY <2>1, <2>6, <2>8
      <4>4. QED
        BY <4>1, <4>2, <4>3, ExactParts DEF Sharp, ReadAlive
    <3>3. QED
      BY <3>1, <3>2
  <2>13. QED
    BY <2>9, <2>10, <2>11, <2>12 DEF Sharp
<1>8. CASE CancelOther(n)
  <2>1. /\ UNCHANGED rows /\ monitors[n].pc \in {"cancelStop", "cancelLimit"}
        /\ monitors' = [monitors EXCEPT ![n] = NoMonitor] /\ \E k \in LegKinds : Cancel(n, k)
    BY <1>8 DEF CancelOther, EndMonitor, LegKinds, dbVars
  <2>2. \A u \in Tickers : rows[u].oco # n
    BY <1>3, <2>1, ExactParts DEF Sharp, ReadAlive
  <2>3. /\ \A m \in Ids, j \in LegKinds : legs'[m][j] = legs[m][j] \/ (legs[m][j] = "open" /\ legs'[m][j] = "dead")
        /\ \A m \in Ids : m # n => legs'[m] = legs[m]
    BY <2>1, ExactParts, CancelTypes
  <2>4. \A m \in Ids : HasLeg(m, "filled") => HasLeg(m, "filled")'
    BY <2>3 DEF HasLeg
  <2>5. \A m \in Ids : m # n => monitors'[m] = monitors[m]
    BY <1>5, <2>1
  <2>6. monitors'[n].pc = "none"
    BY <1>5, <2>1 DEF NoMonitor
  <2>7. drain.pc \in {"stop", "limit", "result"} => drain.id \in Ids /\ drain.id # n /\ drain.placed \subseteq LegKinds
    BY <1>1, ExactParts, DrainTypes, UnrecordedTypes DEF BracketOrder
  <2>8. \A u \in Tickers : rows[u].oco # 0 => rows[u].oco \in Ids
    BY <1>5 DEF Row
  <2> HIDE DEF t
  <2>9. RowsWatched'
    <3> SUFFICES ASSUME NEW u \in Tickers, IsOpen(rows[u])
                 PROVE  /\ rows[u].oco # 0
                        /\ \/ Selling(u)
                           \/ /\ monitors'[rows[u].oco].pc \in {"poll", "read"}
                              /\ \A k \in LegKinds : legs'[rows[u].oco][k] \in {"open", "filled"}
      BY <1>1, <1>2, <2>1 DEF RowsWatched, Alive, Selling
    <3>1. /\ rows[u].oco # 0
          /\ \/ Selling(u)
             \/ /\ monitors[rows[u].oco].pc \in {"poll", "read"}
                /\ \A k \in LegKinds : legs[rows[u].oco][k] \in {"open", "filled"}
      BY ExactParts DEF Sharp, RowsWatched, Alive
    <3>2. rows[u].oco \in Ids /\ rows[u].oco # n
      BY <2>2, <2>8, <3>1
    <3>3. QED
      BY <2>3, <2>5, <3>1, <3>2
  <2>10. PlacedAll'
    BY <1>1, <1>2, <2>3, <2>7, ExactParts DEF Sharp, PlacedAll
  <2>11. ReadAlive'
    BY <1>1, <2>1, <2>5, <2>6, ExactParts DEF Sharp, ReadAlive
  <2>12. SoldSeen'
    <3> SUFFICES ASSUME NEW u \in Tickers, held[u] = 0
                 PROVE  /\ IsOpen(rows[u]) => InHand("SELL", u) \/ HasLeg(rows[u].oco, "filled")'
                        /\ InHand("BUY", u) => drain.pc # "stop" /\ HasLeg(drain.id, "filled")'
      BY <1>1, <1>2, <2>1 DEF SoldSeen
    <3>1. IsOpen(rows[u]) => rows[u].oco # 0
      BY ExactParts DEF Sharp, RowsWatched
    <3>2. InHand("BUY", u) => drain.pc \in {"stop", "limit", "result"}
      BY ExactParts DEF Sharp, PlacedAll
    <3>3. QED
      BY <1>1, <2>1, <2>4, <2>7, <2>8, <3>1, <3>2, ExactParts DEF Sharp, SoldSeen
  <2>13. QED
    BY <2>9, <2>10, <2>11, <2>12 DEF Sharp
<1>9. QED
  BY <1>6, <1>7, <1>8 DEF Monitor

\* A market order: a BUY of a ticker with no position, or the sale of one.
LEMMA SharpMarket ==
    ASSUME Exact, Serene, Market
    PROVE  Sharp'
<1> DEFINE n == drain.id
           t == Order.ticker
<1>1. /\ n \in 1..Len(orders) /\ n \in Ids /\ n \in Unrecorded /\ t \in Tickers /\ t = orders[n].ticker
      /\ Order = orders[n] /\ Order.side \in Sides /\ orders[n].qty = 1
      /\ drain.pc = "market" /\ drain.placed = {} /\ drain \in DrainRecord
      /\ UNCHANGED <<legs, rows, orders, monitors>>
  BY ExactParts, DrainTypes, OrderTypes, UnrecordedTypes
     DEF Market, dbVars, Order, Books, AtMostOne, Tended, PlacedTrue
<1>2. (\A s, u : ~InHand(s, u)) /\ \A u : ~Selling(u)
  BY <1>1 DEF InHand, Selling, SalePcs
<1>3. \/ CanExecute(n) /\ Execute(n) /\ AfterMarket("filled")
      \/ AfterMarket("failed") /\ UNCHANGED held
  BY ExactParts DEF Market, Barring, exchangeVars
<1>4. CASE AfterMarket("failed") /\ UNCHANGED held
  <2>1. drain'.pc = "result" /\ drain'.status = "failed"
    BY <1>1, <1>4 DEF AfterMarket, DrainRecord
  <2>2. \A s, u : ~InHand(s, u)'
    BY <2>1 DEF InHand
  <2>3. QED
    BY <1>1, <1>2, <1>4, <2>1, <2>2, SharpKept DEF SalePcs
<1>5. CASE CanExecute(n) /\ Execute(n) /\ AfterMarket("filled")
  <2>1. /\ drain'.status = "filled" /\ drain'.id = n /\ drain'.placed = {}
        /\ drain'.pc = IF Order.side = "BUY" THEN "stop" ELSE "result"
        /\ Order' = Order
    BY <1>1, <1>5 DEF AfterMarket, DrainRecord, Order
  <2>2. \A s, u : InHand(s, u)' <=> s = Order.side /\ u = t
    BY <2>1 DEF InHand
  <2>3. held' = [held EXCEPT ![t] = IF Order.side = "BUY" THEN @ + 1 ELSE @ - 1]
    BY <1>1, <1>5 DEF Execute
  <2>4. /\ \A u \in Tickers : u # t => held'[u] = held[u]
        /\ Order.side = "BUY" => held'[t] # 0
    BY <1>1, <2>3, ExactParts, AccountTypes
  <2>5. Order.side = "BUY" => Unwatched(t)
    BY <1>1, ExactParts DEF Lone, EntriesAlone
  <2>6. Order.side = "SELL" => held'[t] = 0
    <3>1. Order.side = "SELL" => held[t] >= 1 /\ held[t] <= 1 /\ held[t] \in Nat
      BY <1>1, <1>5, ExactParts, AccountTypes DEF CanExecute, Books, AtMostOne
    <3>2. QED
      BY <1>1, <2>3, <3>1, ExactParts, AccountTypes
  <2> HIDE DEF n, t
  <2>7. RowsWatched'
    BY <1>1, <1>2, ExactParts DEF Sharp, RowsWatched, Alive
  <2>8. PlacedAll'
    BY <2>1, <2>2 DEF PlacedAll
  <2>9. ReadAlive'
    <3> SUFFICES ASSUME NEW m \in Ids
                 PROVE  /\ monitors[m].pc = "read" => monitors[m].seen \in {"open", "filled"}
                        /\ monitors[m].pc \in {"cancelStop", "cancelLimit"} =>
                               held'[orders[m].ticker] = 0 /\ rows[orders[m].ticker].oco # m
      BY <1>1 DEF ReadAlive
    <3>1. monitors[m].pc # "none" => m \in 1..Len(orders) /\ orders[m].ticker \in Tickers
      BY ExactParts, TidyTypes
    <3>2. monitors[m].pc # "none" /\ orders[m].ticker = t => Order.side = "SELL"
      BY <1>1, <2>5, <3>1 DEF Unwatched, OfTicker, Sides
    <3>3. QED
      BY <2>4, <2>6, <3>1, <3>2, ExactParts DEF Sharp, ReadAlive
  <2>10. SoldSeen'
    <3> SUFFICES ASSUME NEW u \in Tickers, held'[u] = 0
                 PROVE  /\ IsOpen(rows[u]) => InHand("SELL", u)' \/ HasLeg(rows[u].oco, "filled")
                        /\ ~InHand("BUY", u)'
      BY <1>1 DEF SoldSeen, HasLeg
    <3>1. CASE u = t
      BY <1>1, <2>2, <2>4, <3>1 DEF Sides
    <3>2. CASE u # t
      BY <1>2, <2>2, <2>4, <3>2, ExactParts DEF Sharp, SoldSeen
    <3>3. QED
      BY <3>1, <3>2
  <2>11. QED
    BY <2>7, <2>8, <2>9, <2>10 DEF Sharp
<1>6. QED
  BY <1>3, <1>4, <1>5

\* Both legs of a BUY are placed, one after the other.
LEMMA SharpPlaceLeg ==
    ASSUME Exact, Serene, NEW k \in LegKinds, PlaceLeg(k)
    PROVE  Sharp'
<1> DEFINE n == drain.id
<1>1. /\ n \in 1..Len(orders) /\ n \in Ids /\ n \in Unrecorded /\ drain.pc = k /\ drain \in DrainRecord
      /\ Order.side = "BUY" /\ drain.status = "filled" /\ Order.ticker \in Tickers
      /\ UNCHANGED <<held, rows, orders, monitors>>
      /\ legs \in [Ids -> [LegKinds -> LegStates]]
  BY ExactParts, DrainTypes, AccountTypes, UnrecordedTypes DEF PlaceLeg, LegKinds, dbVars
<1>2. /\ legs' = [legs EXCEPT ![n][k] = "open"]
      /\ LET placed == drain.placed \cup {k}
         IN drain' = [drain EXCEPT !.placed = placed, !.pc = AfterLeg(k, placed)]
  BY ExactParts DEF PlaceLeg
<1>3. /\ k = "stop" => drain.placed = {} /\ NoLegs(n)
      /\ k = "limit" => drain.placed = {"stop"} /\ legs[n]["stop"] \in {"open", "filled"} /\ legs[n]["limit"] = "none"
  <2>1. InHand("BUY", Order.ticker)
    BY <1>1 DEF InHand, LegKinds
  <2>2. QED
    BY <1>1, <2>1, ExactParts DEF Tended, PlacedTrue, BracketOrder, Sharp, PlacedAll
<1>4. /\ drain'.id = n /\ drain'.status = "filled"
      /\ drain'.placed = drain.placed \cup {k} /\ drain'.pc = AfterLeg(k, drain.placed \cup {k})
  BY <1>1, <1>2 DEF DrainRecord
<1>5. k = "stop" => drain'.pc = "limit" /\ drain'.placed = {"stop"}
  BY <1>3, <1>4 DEF AfterLeg
<1>6. k = "limit" => drain'.pc = "result" /\ drain'.placed = LegKinds
  BY <1>3, <1>4 DEF AfterLeg, LegKinds
<1>7. /\ \A m \in Ids : m # n => legs'[m] = legs[m]
      /\ \A j \in LegKinds : j # k => legs'[n][j] = legs[n][j]
      /\ legs'[n][k] = "open"
  BY <1>1, <1>2
<1>8. (\A s, u : InHand(s, u)' <=> s = "BUY" /\ u = Order.ticker) /\ (\A s, u : InHand(s, u) <=> s = "BUY" /\ u = Order.ticker)
  BY <1>1, <1>4, <1>5, <1>6 DEF InHand, Order, LegKinds
<1>9. \A u : ~Selling(u)
  BY <1>1 DEF Selling, SalePcs, LegKinds
<1>10. \A u \in Tickers : rows[u].oco # n /\ (rows[u].oco # 0 => rows[u].oco \in Ids)
  BY <1>1, ExactParts DEF BracketOrder, TypeOK, Row
<1>11. drain.pc # "stop" /\ HasLeg(n, "filled") => HasLeg(n, "filled")'
  BY <1>1, <1>3, <1>4, <1>7 DEF HasLeg, LegKinds
<1>12. RowsWatched'
  BY <1>1, <1>7, <1>9, <1>10, ExactParts DEF Sharp, RowsWatched, Alive
<1>13. PlacedAll'
  <2> SUFFICES /\ drain'.pc \in {"stop", "limit", "result"}
               /\ drain'.pc = "limit" => drain'.placed = {"stop"}
               /\ drain'.pc = "result" => drain'.placed = LegKinds
               /\ \A j \in drain'.placed : legs'[drain'.id][j] \in {"open", "filled"}
    BY DEF PlacedAll
  <2>1. CASE k = "stop"
    BY <1>4, <1>5, <1>7, <2>1
  <2>2. CASE k = "limit"
    BY <1>3, <1>4, <1>6, <1>7, <2>2 DEF LegKinds
  <2>3. QED
    BY <2>1, <2>2 DEF LegKinds
<1>14. ReadAlive'
  BY <1>1, ExactParts DEF Sharp, ReadAlive
<1>15. SoldSeen'
  <2> SUFFICES ASSUME NEW u \in Tickers, held[u] = 0
               PROVE  /\ IsOpen(rows[u]) => HasLeg(rows[u].oco, "filled")'
                      /\ u = Order.ticker => drain'.pc # "stop" /\ HasLeg(n, "filled")'
    BY <1>1, <1>4, <1>8 DEF SoldSeen
  <2>1. IsOpen(rows[u]) => rows[u].oco # 0 /\ HasLeg(rows[u].oco, "filled")
    BY <1>8, ExactParts DEF Sharp, SoldSeen, RowsWatched
  <2>2. u = Order.ticker => drain.pc # "stop" /\ HasLeg(n, "filled")
    BY <1>8, ExactParts DEF Sharp, SoldSeen
  <2>3. drain'.pc # "stop"
    BY <1>5, <1>6 DEF LegKinds
  <2>4. QED
    BY <1>1, <1>7, <1>10, <1>11, <2>1, <2>2, <2>3 DEF HasLeg
<1>16. QED
  BY <1>12, <1>13, <1>14, <1>15 DEF Sharp

\* A recorded BUY has a bracket of two legs and a monitor.
LEMMA SharpBuyFilled ==
    ASSUME Exact, Serene, BuyFilled
    PROVE  Sharp'
<1> DEFINE n == drain.id
           t == Order.ticker
<1>1. /\ n \in 1..Len(orders) /\ n \in Ids /\ n # 0 /\ n \in Unrecorded /\ t \in Tickers /\ t = orders[n].ticker
      /\ Order.side = "BUY" /\ drain.pc = "result" /\ drain.status = "filled" /\ drain'.pc = "idle"
      /\ InHand("BUY", t) /\ UNCHANGED <<held, legs>>
      /\ monitors \in [Ids -> MonitorRecord] /\ rows \in [Tickers -> Row]
  BY ExactParts, DrainTypes, TidyTypes, AccountTypes, UnrecordedTypes, ConstantTypes
     DEF BuyFilled, exchangeVars, Order, InHand
<1>2. drain.placed = LegKinds /\ Alive(n)
  BY <1>1, ExactParts DEF Sharp, PlacedAll, Alive
<1>3. (\A s, u : ~InHand(s, u)') /\ (\A u : ~Selling(u)) /\ \A u : ~InHand("SELL", u)
  BY <1>1 DEF InHand, Selling, SalePcs
<1>4. /\ rows'[t].oco = n /\ \A u \in Tickers : u # t => rows'[u] = rows[u]
  <2> DEFINE row == RowAfterBuy(rows[t], n)
  <2>1. row \in Row
    BY <1>1, ExactParts, RowAfterBuyTypes
  <2>2. rows' = [rows EXCEPT ![t] = [row EXCEPT !.oco = n]]
    BY <1>2 DEF BuyFilled
  <2> HIDE DEF row
  <2>3. QED
    BY <1>1, <2>1, <2>2 DEF Row
<1>5. /\ monitors'[n].pc = "poll" /\ \A m \in Ids : m # n => monitors'[m] = monitors[m]
  BY <1>1, <1>2 DEF BuyFilled, Watch, NoMonitor
<1>6. \A m \in 1..Len(orders) : orders'[m].ticker = orders[m].ticker
  BY <1>1, ExactParts, RecordFillTypes DEF BuyFilled
<1>7. \A u \in Tickers : rows[u].oco # n /\ (rows[u].oco # 0 => rows[u].oco \in Ids)
  BY <1>1, ExactParts DEF BracketOrder, Row
<1>8. \A m \in Ids : monitors[m].pc # "none" => m \in 1..Len(orders) /\ orders[m].ticker \in Tickers
                                               /\ orders[m].ticker # t
  <2>1. Unwatched(t)
    BY <1>1, ExactParts DEF Lone, EntriesAlone, Order
  <2>2. QED
    BY <2>1, ExactParts, TidyTypes DEF Unwatched, OfTicker
<1> HIDE DEF n, t
<1>9. RowsWatched'
  <2> SUFFICES ASSUME NEW u \in Tickers, IsOpen(rows'[u])
               PROVE  rows'[u].oco # 0 /\ monitors'[rows'[u].oco].pc \in {"poll", "read"} /\ Alive(rows'[u].oco)
    BY <1>1 DEF RowsWatched, Alive
  <2>1. CASE u = t
    BY <1>1, <1>2, <1>4, <1>5, <2>1
  <2>2. CASE u # t
    BY <1>3, <1>4, <1>5, <1>7, <2>2, ExactParts DEF Sharp, RowsWatched
  <2>3. QED
    BY <2>1, <2>2
<1>10. PlacedAll'
  BY <1>3 DEF PlacedAll
<1>11. ReadAlive'
  <2> SUFFICES ASSUME NEW m \in Ids
               PROVE  /\ monitors'[m].pc = "read" => monitors'[m].seen \in {"open", "filled"}
                      /\ monitors'[m].pc \in {"cancelStop", "cancelLimit"} =>
                             held[orders'[m].ticker] = 0 /\ rows'[orders'[m].ticker].oco # m
    BY <1>1 DEF ReadAlive
  <2>1. CASE m = n
    BY <1>5, <2>1
  <2>2. CASE m # n
    BY <1>4, <1>5, <1>6, <1>8, <2>2, ExactParts DEF Sharp, ReadAlive
  <2>3. QED
    BY <2>1, <2>2
<1>12. SoldSeen'
  <2> SUFFICES ASSUME NEW u \in Tickers, held[u] = 0, IsOpen(rows'[u])
               PROVE  HasLeg(rows'[u].oco, "filled")
    BY <1>1, <1>3 DEF SoldSeen, HasLeg
  <2>1. CASE u = t
    BY <1>1, <1>4, <2>1, ExactParts DEF Sharp, SoldSeen, n
  <2>2. CASE u # t
    BY <1>3, <1>4, <2>2, ExactParts DEF Sharp, SoldSeen
  <2>3. QED
    BY <2>1, <2>2
<1>13. QED
  BY <1>9, <1>10, <1>11, <1>12 DEF Sharp

\* A SELL takes the bracket over from the monitor.
LEMMA SharpSellFilled ==
    ASSUME Exact, Serene, SellFilled
    PROVE  Sharp'
<1> DEFINE n == drain.id
           t == Order.ticker
           m == taskOf[t]
<1>1. /\ n \in 1..Len(orders) /\ t \in Tickers /\ Order.side = "SELL"
      /\ drain.pc = "result" /\ drain.status = "filled" /\ InHand("SELL", t) /\ drain \in DrainRecord
      /\ UNCHANGED held /\ monitors \in [Ids -> MonitorRecord]
  BY ExactParts, DrainTypes, TidyTypes DEF SellFilled, InHand
<1>2. IsOpen(rows[t]) /\ rows[t].oco # 0
  BY <1>1, ExactParts DEF Books, SaleTrue, Sharp, RowsWatched
<1>3. /\ UNCHANGED rows /\ drain'.pc = "cancelStop" /\ drain'.id = n /\ drain'.status = "filled"
  BY <1>1, <1>2 DEF SellFilled, DrainRecord
<1>4. /\ Len(orders') = Len(orders)
      /\ \A k \in 1..Len(orders) : orders'[k].ticker = orders[k].ticker /\ orders'[k].side = orders[k].side
  BY <1>1, ExactParts, RecordFillTypes DEF SellFilled
<1>5. (\A s, u : InHand(s, u)' <=> s = "SELL" /\ u = t) /\ (\A s, u : InHand(s, u) <=> s = "SELL" /\ u = t)
  BY <1>1, <1>3, <1>4 DEF InHand, Order
<1>6. (\A u : Selling(u)' <=> u = t) /\ \A u : ~Selling(u)
  BY <1>1, <1>3, <1>4 DEF Selling, SalePcs, Order
<1>7. m = 0 => UNCHANGED <<monitors, legs>>
  BY DEF SellFilled
<1>8. m # 0 => OfTicker(m, t) /\ m \in Ids /\ monitors' = [monitors EXCEPT ![m] = NoMonitor]
  BY <1>1, ExactParts DEF SellFilled, AbandonMonitor, Typed, References, RegisteredTaskAlive, TypeOK
<1>9. /\ \A k \in Ids : k # m => monitors'[k] = monitors[k]
      /\ \A k \in Ids : monitors'[k] = monitors[k] \/ monitors'[k].pc = "none"
  BY <1>1, <1>7, <1>8, ConstantTypes
<1>10. /\ \A k \in Ids : k # m => legs'[k] = legs[k]
       /\ \A k \in Ids : HasLeg(k, "filled") => HasLeg(k, "filled")'
  <2>1. CASE UNCHANGED legs
    BY <2>1 DEF HasLeg
  <2>2. CASE m # 0 /\ \E k \in LegKinds : Cancel(m, k)
    <3>1. /\ \A k \in Ids : k # m => legs'[k] = legs[k]
          /\ \A k \in Ids, j \in LegKinds : legs'[k][j] = legs[k][j] \/ (legs[k][j] = "open" /\ legs'[k][j] = "dead")
      BY <2>2, ExactParts, CancelTypes
    <3>2. QED
      BY <3>1 DEF HasLeg
  <2>3. QED
    BY <1>7, <2>1, <2>2 DEF SellFilled, AbandonMonitor, LegKinds
<1>11. \A u \in Tickers : rows[u].oco # 0 => rows[u].oco \in Ids /\ (u # t => rows[u].oco # m)
  <2> HIDE DEF m
  <2>1. SUFFICES ASSUME NEW u \in Tickers, rows[u].oco # 0
                 PROVE  rows[u].oco \in Ids /\ (u # t => rows[u].oco # m)
    OBVIOUS
  <2>2. OfTicker(rows[u].oco, u)
    BY <2>1, ExactParts DEF Typed, References
  <2>3. rows[u].oco \in Ids
    BY <2>2, ExactParts, TidyTypes DEF OfTicker
  <2>4. u # t => rows[u].oco # m
    BY <1>8, <2>1, <2>2 DEF OfTicker
  <2>5. QED
    BY <2>3, <2>4
<1>12. \A k \in Ids : monitors[k].pc # "none" => k \in 1..Len(orders)
  BY ExactParts, TidyTypes
<1> HIDE DEF m, t, n
<1>13. RowsWatched'
  <2> SUFFICES ASSUME NEW u \in Tickers, IsOpen(rows[u])
               PROVE  /\ rows[u].oco # 0
                      /\ u = t \/ (monitors'[rows[u].oco].pc \in {"poll", "read"} /\ Alive(rows[u].oco)')
    BY <1>3, <1>6 DEF RowsWatched
  <2>1. rows[u].oco # 0 /\ monitors[rows[u].oco].pc \in {"poll", "read"} /\ Alive(rows[u].oco)
    BY <1>6, ExactParts DEF Sharp, RowsWatched
  <2>2. QED
    BY <1>3, <1>9, <1>10, <1>11, <2>1 DEF Alive
<1>14. PlacedAll'
  BY <1>5 DEF PlacedAll
<1>15. ReadAlive'
  BY <1>1, <1>3, <1>4, <1>9, <1>12, ExactParts DEF Sharp, ReadAlive
<1>16. SoldSeen'
  <2> SUFFICES ASSUME NEW u \in Tickers, held[u] = 0, IsOpen(rows[u]), u # t
               PROVE  HasLeg(rows[u].oco, "filled")'
    BY <1>1, <1>3, <1>5 DEF SoldSeen
  <2>1. HasLeg(rows[u].oco, "filled") /\ rows[u].oco \in Ids
    BY <1>5, <1>11, ExactParts DEF Sharp, SoldSeen, RowsWatched
  <2>2. QED
    BY <1>3, <1>10, <2>1 DEF HasLeg
<1>17. QED
  BY <1>13, <1>14, <1>15, <1>16 DEF Sharp

\* The sale cancels both legs, then closes the row.
LEMMA SharpSale ==
    ASSUME Exact, Serene, CancelStopOnSale \/ CancelLimitOnSale \/ SellRecorded
    PROVE  Sharp'
<1> DEFINE t == Order.ticker
           b == drain.pos.oco
<1>1. /\ drain.pc \in SalePcs /\ drain.status = "filled" /\ Order.side = "SELL" /\ t \in Tickers
      /\ UNCHANGED <<held, orders, monitors>> /\ drain \in DrainRecord
      /\ OfTicker(b, t) /\ b \in Ids /\ Unwatched(t)
  <2>1. drain.pc \in SalePcs
    BY DEF CancelStopOnSale, CancelLimitOnSale, SellRecorded, SalePcs
  <2>2. OfTicker(b, t) /\ Unwatched(t)
    BY <2>1, ExactParts DEF Tidy, SaleOfTicker, Lone, SaleAlone
  <2>3. QED
    BY <2>1, <2>2, ExactParts, AccountTypes, DrainTypes, TidyTypes
       DEF CancelStopOnSale, CancelLimitOnSale, CancelOnSale, SellRecorded, dbVars, exchangeVars, SalePcs, OfTicker
<1>2. (\A s, u : InHand(s, u) <=> s = "SELL" /\ u = t) /\ \A u : Selling(u) <=> u = t
  BY <1>1 DEF InHand, Selling, SalePcs
<1>3. \A u \in Tickers : rows[u].oco # 0 => rows[u].oco \in Ids /\ (u # t => rows[u].oco # b)
  BY <1>1, ExactParts DEF Typed, References, OfTicker, TypeOK, Row
<1>4. CASE SellRecorded
  <2>1. /\ UNCHANGED legs /\ drain'.pc = "idle" /\ rows' = [rows EXCEPT ![t] = ClosedRow]
    BY <1>4, ConstantTypes DEF SellRecorded, exchangeVars, RecordSale, CloseRow, Order
  <2>2. (\A s, u : ~InHand(s, u)') /\ \A u : ~Selling(u)'
    BY <2>1 DEF InHand, Selling, SalePcs
  <2>3. ClosedRow.oco = 0 /\ ~IsOpen(ClosedRow)
    BY DEF ClosedRow, NoRow, IsOpen
  <2>4. /\ rows'[t].oco = 0 /\ ~IsOpen(rows'[t]) /\ \A u \in Tickers : u # t => rows'[u] = rows[u]
    BY <1>1, <2>1, <2>3, ExactParts, TidyTypes
  <2>5. \A m \in Ids : monitors[m].pc # "none" => orders[m].ticker \in Tickers /\ m # 0
    BY ExactParts, TidyTypes
  <2> HIDE DEF t
  <2>6. RowsWatched'
    BY <1>1, <1>2, <2>1, <2>4, ExactParts DEF Sharp, RowsWatched, Alive
  <2>7. PlacedAll'
    BY <2>2 DEF PlacedAll
  <2>8. ReadAlive'
    BY <1>1, <2>4, <2>5, ExactParts DEF Sharp, ReadAlive
  <2>9. SoldSeen'
    BY <1>1, <1>2, <2>1, <2>2, <2>4, ExactParts DEF Sharp, SoldSeen, HasLeg
  <2>10. QED
    BY <2>6, <2>7, <2>8, <2>9 DEF Sharp
<1>5. CASE CancelStopOnSale \/ CancelLimitOnSale
  <2>1. /\ UNCHANGED rows /\ drain'.id = drain.id /\ drain'.pc \in SalePcs /\ drain'.status = "filled"
        /\ \E k \in LegKinds : Cancel(b, k)
    BY <1>1, <1>5 DEF CancelStopOnSale, CancelLimitOnSale, CancelOnSale, DrainRecord, SalePcs, LegKinds, dbVars
  <2>2. (\A s, u : InHand(s, u)' <=> s = "SELL" /\ u = t) /\ \A u : Selling(u)' <=> u = t
    BY <1>1, <2>1 DEF InHand, Selling, SalePcs, Order
  <2>3. /\ \A m \in Ids : m # b => legs'[m] = legs[m]
        /\ \A m \in Ids, j \in LegKinds : legs'[m][j] = legs[m][j] \/ (legs[m][j] = "open" /\ legs'[m][j] = "dead")
    BY <2>1, ExactParts, CancelTypes
  <2>4. \A m \in Ids : HasLeg(m, "filled") => HasLeg(m, "filled")'
    BY <2>3 DEF HasLeg
  <2> HIDE DEF t, b
  <2>5. RowsWatched'
    BY <1>1, <1>2, <1>3, <2>1, <2>2, <2>3, ExactParts DEF Sharp, RowsWatched, Alive
  <2>6. PlacedAll'
    BY <2>2 DEF PlacedAll
  <2>7. ReadAlive'
    BY <1>1, <2>1, ExactParts DEF Sharp, ReadAlive
  <2>8. SoldSeen'
    <3> SUFFICES ASSUME NEW u \in Tickers, held[u] = 0, IsOpen(rows[u]), u # t
                 PROVE  HasLeg(rows[u].oco, "filled")'
      BY <1>1, <2>1, <2>2 DEF SoldSeen
    <3>1. HasLeg(rows[u].oco, "filled") /\ rows[u].oco \in Ids
      BY <1>2, <1>3, ExactParts DEF Sharp, SoldSeen, RowsWatched
    <3>2. QED
      BY <2>1, <2>4, <3>1 DEF HasLeg
  <2>9. QED
    BY <2>5, <2>6, <2>7, <2>8 DEF Sharp
<1>6. QED
  BY <1>4, <1>5

\* Every step of the drain task; a BUY never ends with one leg.
LEMMA SharpDrain ==
    ASSUME Exact, Serene, Drain
    PROVE  Sharp'
<1>1. CASE (\E n \in Ids : Take(n)) \/ ResultNotFilled
  <2>1. UNCHANGED <<held, legs, monitors, orders, rows>>
    BY <1>1 DEF Take, ResultNotFilled, exchangeVars, dbVars
  <2>2. /\ drain.pc = "idle" \/ (drain.pc = "result" /\ drain.status # "filled")
        /\ drain'.status # "filled" /\ drain'.pc \notin SalePcs
    <3>1. CASE ResultNotFilled
      BY <3>1 DEF ResultNotFilled, IdleDrain, SalePcs
    <3>2. ASSUME NEW n \in Ids, Take(n)
          PROVE  drain.pc = "idle" /\ drain'.status # "filled" /\ drain'.pc \notin SalePcs
      BY <3>2 DEF Take, IdleDrain, SalePcs
    <3>3. QED
      BY <1>1, <3>1, <3>2
  <2>3. (\A s, t : ~InHand(s, t)) /\ (\A s, t : ~InHand(s, t)')
    BY <2>2 DEF InHand
  <2>4. drain.pc \notin SalePcs
    BY <2>2 DEF SalePcs
  <2>5. QED
    BY SMTT(60), <2>1, <2>2, <2>3, <2>4, SharpKept
<1>2. ~CancelSurvivor
  <2> SUFFICES ASSUME drain.pc = "survivor" PROVE FALSE
    BY DEF CancelSurvivor
  <2>1. InHand("BUY", Order.ticker) /\ Order.ticker \in Tickers
    BY ExactParts, AccountTypes, DrainTypes DEF InHand
  <2>2. QED
    BY <2>1, ExactParts DEF Sharp, PlacedAll
<1>3. QED
  BY <1>1, <1>2, SharpMarket, SharpPlaceLeg, SharpBuyFilled, SharpSellFilled, SharpSale DEF Drain, LegKinds

\* The strongest invariant, in every step.
LEMMA ExactStep == Exact /\ [Next]_vars => Exact'
<1> SUFFICES ASSUME Exact, [Next]_vars PROVE Exact'
  OBVIOUS
<1>1. Owned'
  BY OwnedStep DEF Exact
<1>2. Serene' = Serene
  BY SceneKept DEF Serene, Orderly, NoCrash
<1>3. ASSUME Serene PROVE Sharp'
  <2>1. up = "up" /\ crashes = 0 /\ scene.crashes = 0
    BY <1>3, ExactParts
  <2>2. QED
    BY <1>3, <2>1, SharpDrain, SharpMonitor, SharpOthers DEF Next, Crash, CrashMidway, Die, Restart, StartUp, StartedUp
<1>4. QED
  BY <1>1, <1>2, <1>3 DEF Exact, Sharp

\* At the first start nothing is held, open or watched.
LEMMA ExactInit == Init => Exact
<1> SUFFICES ASSUME Init PROVE Exact
  OBVIOUS
<1>1. /\ drain.pc = "idle" /\ \A n \in Ids : monitors[n].pc = "none"
      /\ \A t \in Tickers : ~IsOpen(rows[t])
  BY ConstantTypes DEF Init, NoRow, IsOpen
<1>2. QED
  BY <1>1, OwnedInit DEF Exact, RowsWatched, PlacedAll, ReadAlive, SoldSeen, InHand

\* The strongest invariant, in every reachable state.
LEMMA ExactAlways == Spec => []Exact
BY ExactInit, ExactStep, PTL DEF Spec

\* Unless an exit is waiting to be noticed or the drain task works on the ticker,
\* the position row and the account agree (_on_order_fill, _close_position).
THEOREM RowsAgreeWithAccount == Spec => []Agreement
<1>1. ASSUME Exact, Serene, NEW t \in Tickers
      PROVE  \/ rows[t].qty = held[t]
             \/ drain.pc # "idle" /\ Order.ticker = t
             \/ \E n \in Ids : OfTicker(n, t) /\ monitors[n].pc # "none" /\ HasLeg(n, "filled")
  <2> SUFFICES ASSUME ~(drain.pc # "idle" /\ Order.ticker = t), rows[t].qty # held[t]
               PROVE  \E n \in Ids : OfTicker(n, t) /\ monitors[n].pc # "none" /\ HasLeg(n, "filled")
    OBVIOUS
  <2>1. (\A s : ~InHand(s, t)) /\ ~Selling(t)
    BY DEF InHand, Selling, SalePcs
  <2>2. rows[t].qty \in Nat /\ rows[t].qty <= 1 /\ held[t] \in Nat /\ held[t] <= 1
    BY <1>1, ExactParts, AccountTypes DEF Books, AtMostOne
  <2>3. held[t] > 0 => IsOpen(rows[t])
    BY <1>1, <2>1, ExactParts DEF Books, HeldRecorded
  <2>4. held[t] = 0 /\ rows[t].qty = 1
    BY <2>2, <2>3 DEF IsOpen
  <2>5. IsOpen(rows[t])
    BY <1>1, <2>4, ExactParts DEF Tidy, AbsentEmpty, IsOpen
  <2>6. /\ rows[t].oco # 0 /\ monitors[rows[t].oco].pc # "none" /\ HasLeg(rows[t].oco, "filled")
    BY <1>1, <2>1, <2>4, <2>5, ExactParts DEF Sharp, RowsWatched, SoldSeen
  <2>7. rows[t].oco \in Ids /\ OfTicker(rows[t].oco, t)
    BY <1>1, <2>6, ExactParts DEF Typed, References, TypeOK, Row
  <2>8. QED
    BY <2>6, <2>7
<1>2. Exact => Agreement
  BY <1>1 DEF Serene, Agreement
<1>3. QED
  BY <1>2, ExactAlways, PTL

-----------------------------------------------------------------------------
(***************************************************************************)
(* The journal against the account.  Shares are counted one by one; each   *)
(* entry is assigned the execution it stands for, in any scene; and the    *)
(* account holds what was bought and not sold.                             *)
(***************************************************************************)
\* A share is a trade and a number up to the trade's quantity.
LEMMA SharesAre ==
    ASSUME NEW q
    PROVE  \A p : p \in Shares(q) <=> \E x \in DOMAIN q : \E i \in 1..q[x] : p = <<x, i>>
BY DEF Shares

\* Finitely many trades have finitely many shares.
LEMMA TotalFinite ==
    ASSUME NEW D, IsFiniteSet(D), NEW q \in [D -> Nat]
    PROVE  IsFiniteSet(Shares(q)) /\ Total(q) \in Nat
<1> DEFINE R == {{x} \X (1..q[x]) : x \in D}
           f == [x \in D |-> {x} \X (1..q[x])]
<1>1. f \in Surjection(D, R)
  BY Fun_IsSurj
<1>2. IsFiniteSet(R)
  BY <1>1, FS_Surjection
<1>3. ASSUME NEW x \in D PROVE IsFiniteSet({x} \X (1..q[x]))
  <2>1. q[x] \in Int /\ 1 \in Int
    OBVIOUS
  <2>2. IsFiniteSet(1..q[x])
    BY <2>1, FS_Interval
  <2>3. IsFiniteSet({x})
    BY FS_Singleton
  <2>4. QED
    BY <2>2, <2>3, FS_Product
<1>4. IsFiniteSet(UNION R)
  BY <1>2, <1>3, FS_UNION
<1>5. Shares(q) = UNION R
  BY DEF Shares
<1>6. QED
  BY <1>4, <1>5, FS_CardinalityType DEF Total

\* One more trade adds its quantity.
LEMMA TotalAdd ==
    ASSUME NEW D, IsFiniteSet(D), NEW q \in [D -> Nat],
           NEW x, x \notin D, NEW r \in [D \cup {x} -> Nat], \A y \in D : r[y] = q[y]
    PROVE  Total(r) = Total(q) + r[x]
<1> DEFINE New == {x} \X (1..r[x])
<1>1. r[x] \in Nat
  OBVIOUS
<1>2. IsFiniteSet(New) /\ Cardinality(New) = r[x]
  <2>1. IsFiniteSet(1..r[x]) /\ Cardinality(1..r[x]) = r[x]
    BY <1>1, FS_Interval
  <2>2. IsFiniteSet({x}) /\ Cardinality({x}) = 1
    BY FS_Singleton
  <2>3. IsFiniteSet(New) /\ Cardinality(New) = Cardinality({x}) * Cardinality(1..r[x])
    BY <2>1, <2>2, FS_Product
  <2>4. 1 * r[x] = r[x]
    BY <1>1
  <2>5. QED
    BY <2>1, <2>2, <2>3, <2>4
<1>3. \A p : p \in New <=> \E i \in 1..r[x] : p = <<x, i>>
  OBVIOUS
<1> HIDE DEF New
<1>4. Shares(r) = Shares(q) \cup New
  BY <1>3, SharesAre
<1>5. Shares(q) \cap New = {}
  BY <1>3, SharesAre
<1>6. IsFiniteSet(Shares(q)) /\ Total(q) \in Nat
  BY TotalFinite
<1>7. Cardinality(Shares(q) \cup New) = Cardinality(Shares(q)) + Cardinality(New) - Cardinality({})
  BY <1>2, <1>5, <1>6, FS_Union
<1>8. QED
  BY <1>1, <1>2, <1>4, <1>6, <1>7, FS_EmptySet DEF Total

\* Trades that can be told apart among others of no smaller quantity come to no
\* more shares than those.
LEMMA TotalWithin ==
    ASSUME NEW D, NEW q \in [D -> Nat], NEW E, IsFiniteSet(E), NEW r \in [E -> Nat],
           NEW f \in Injection(D, E), \A x \in D : q[x] <= r[f[x]]
    PROVE  Total(q) <= Total(r)
<1> DEFINE g == [p \in Shares(q) |-> <<f[p[1]], p[2]>>]
<1>1. f \in [D -> E] /\ \A x, y \in D : f[x] = f[y] => x = y
  BY DEF Injection, IsInjective
<1>2. \A p \in Shares(q) : p[1] \in D /\ p[2] \in 1..q[p[1]] /\ p = <<p[1], p[2]>>
  BY SharesAre
<1>3. \A p \in Shares(q) : g[p] \in Shares(r)
  <2> SUFFICES ASSUME NEW p \in Shares(q) PROVE <<f[p[1]], p[2]>> \in Shares(r)
    OBVIOUS
  <2>1. f[p[1]] \in E /\ p[2] \in 1..q[p[1]] /\ q[p[1]] <= r[f[p[1]]]
    BY <1>1, <1>2
  <2>2. p[2] \in 1..r[f[p[1]]]
    BY <1>2, <2>1
  <2>3. QED
    BY <2>1, <2>2, SharesAre
<1>4. g \in [Shares(q) -> Shares(r)]
  BY <1>3
<1>5. \A p, s \in Shares(q) : g[p] = g[s] => p = s
  BY <1>1, <1>2
<1>6. g \in Injection(Shares(q), Shares(r))
  BY <1>4, <1>5 DEF Injection, IsInjective
<1>7. IsFiniteSet(Shares(r))
  BY TotalFinite
<1>8. QED
  BY <1>6, <1>7, FS_Injection DEF Total

-----------------------------------------------------------------------------
\* The executions that took shares of t out of the account: SELL orders and legs.
Sales(t) ==
    {s \in ({"order"} \cup LegKinds) \X Ids :
        /\ OfTicker(s[2], t)
        /\ IF s[1] = "order" THEN s[2] \in executed /\ orders[s[2]].side = "SELL"
                             ELSE legs[s[2]][s[1]] = "filled"}
Purchases(t) == {n \in executed : OfTicker(n, t) /\ orders[n].side = "BUY"}
Sold(t) == Total([s \in Sales(t) |-> orders[s[2]].qty])

\* What the account holds is what was bought and not sold.
Balanced == \A t \in Tickers : held[t] + Sold(t) = Bought(t)

\* An entry of a SELL is written at the end of its order; an entry of a bracket by
\* a monitor that will not read the legs again.  So neither is written twice.
EntryTrue(e) ==
    /\ e.how = "SELL" => /\ orders[e.id].side = "SELL" /\ e.qty = orders[e.id].qty
                         /\ e.id \notin Unfinished
    /\ e.how = "OCO" => /\ e.id \notin Unrecorded /\ monitors[e.id].pc \notin {"poll", "read"}
                        /\ \A t \in Tickers : rows[t].oco # e.id
EntriesOnce ==
    \A e \in journal : EntryTrue(e) /\ \A f \in journal : e.how = f.how /\ e.id = f.id => e = f

\* The executions of a ticker are finitely many and have quantities.
LEMMA TradesFinite ==
    ASSUME Typed, NEW t
    PROVE  /\ IsFiniteSet(Sales(t)) /\ IsFiniteSet(Purchases(t))
           /\ [s \in Sales(t) |-> orders[s[2]].qty] \in [Sales(t) -> Nat]
           /\ [n \in Purchases(t) |-> orders[n].qty] \in [Purchases(t) -> Nat]
           /\ Sold(t) \in Nat /\ Bought(t) \in Nat
<1> DEFINE Kinds == {"order", "stop", "limit"}
<1>1. IsFiniteSet(Ids)
  <2>1. 1 \in Int /\ MaxOrders \in Int
    BY TradingAssumption
  <2>2. QED
    BY <2>1, FS_Interval DEF Ids
<1>2. IsFiniteSet(Kinds)
  <2>1. IsFiniteSet({"order"}) /\ IsFiniteSet({"stop"}) /\ IsFiniteSet({"limit"})
    BY FS_Singleton
  <2>2. IsFiniteSet({"order"} \cup {"stop"})
    BY <2>1, FS_Union
  <2>3. IsFiniteSet(({"order"} \cup {"stop"}) \cup {"limit"})
    BY <2>1, <2>2, FS_Union
  <2>4. Kinds = ({"order"} \cup {"stop"}) \cup {"limit"}
    OBVIOUS
  <2>5. QED
    BY <2>3, <2>4
<1>3. IsFiniteSet(Kinds \X Ids)
  BY <1>1, <1>2, FS_Product
<1>4. Sales(t) \subseteq Kinds \X Ids
  BY DEF Sales, LegKinds
<1>5. Purchases(t) \subseteq Ids
  BY DEF Purchases, Typed, TypeOK
<1> HIDE DEF Kinds
<1>6. IsFiniteSet(Sales(t)) /\ IsFiniteSet(Purchases(t))
  BY <1>1, <1>3, <1>4, <1>5, FS_Subset
<1>7. \A n : OfTicker(n, t) => orders[n].qty \in Nat
  BY OrderTypes DEF Typed, OfTicker
<1>8. /\ [s \in Sales(t) |-> orders[s[2]].qty] \in [Sales(t) -> Nat]
      /\ [n \in Purchases(t) |-> orders[n].qty] \in [Purchases(t) -> Nat]
  BY <1>7 DEF Sales, Purchases
<1>9. Bought(t) = Total([n \in Purchases(t) |-> orders[n].qty])
  BY DEF Bought, Purchases
<1>10. QED
  BY <1>6, <1>8, <1>9, TotalFinite DEF Sold

\* A sale more counts for its quantity.
LEMMA OneMoreSale ==
    ASSUME Typed, orders' = orders, NEW t, NEW x, x \notin Sales(t), orders[x[2]].qty \in Nat,
           Sales(t)' = Sales(t) \cup {x}
    PROVE  Sold(t)' = Sold(t) + orders[x[2]].qty
<1> DEFINE q == [s \in Sales(t) |-> orders[s[2]].qty]
           r == [s \in Sales(t) \cup {x} |-> orders[s[2]].qty]
<1>1. IsFiniteSet(Sales(t)) /\ q \in [Sales(t) -> Nat]
  BY TradesFinite
<1>2. [s \in Sales(t)' |-> orders'[s[2]].qty] = r
  OBVIOUS
<1>3. \A s \in Sales(t) : orders[s[2]].qty \in Nat
  BY OrderTypes DEF Typed, Sales, OfTicker
<1>4. r \in [Sales(t) \cup {x} -> Nat]
  BY <1>3
<1>5. \A y \in Sales(t) : r[y] = q[y]
  OBVIOUS
<1>6. r[x] = orders[x[2]].qty
  OBVIOUS
<1>7. Sold(t)' = Total(r)
  BY <1>2 DEF Sold
<1>8. Sold(t) = Total(q)
  BY DEF Sold
<1> DEFINE D == Sales(t)
<1>9. IsFiniteSet(D) /\ q \in [D -> Nat] /\ x \notin D /\ r \in [D \cup {x} -> Nat] /\ \A y \in D : r[y] = q[y]
  BY <1>1, <1>4, <1>5
<1> HIDE DEF q, r, D
<1>10. Total(r) = Total(q) + r[x]
  BY <1>9, TotalAdd
<1>11. QED
  BY <1>6, <1>7, <1>8, <1>10

\* A purchase more counts for its quantity.
LEMMA OneMorePurchase ==
    ASSUME Typed, orders' = orders, NEW t, NEW x, x \notin Purchases(t), orders[x].qty \in Nat,
           Purchases(t)' = Purchases(t) \cup {x}
    PROVE  Bought(t)' = Bought(t) + orders[x].qty
<1> DEFINE q == [n \in Purchases(t) |-> orders[n].qty]
           r == [n \in Purchases(t) \cup {x} |-> orders[n].qty]
<1>1. IsFiniteSet(Purchases(t)) /\ q \in [Purchases(t) -> Nat]
  BY TradesFinite
<1>2. [n \in Purchases(t)' |-> orders'[n].qty] = r
  OBVIOUS
<1>3. \A n \in Purchases(t) : orders[n].qty \in Nat
  BY OrderTypes DEF Typed, Purchases, OfTicker
<1>4. r \in [Purchases(t) \cup {x} -> Nat]
  BY <1>3
<1>5. \A y \in Purchases(t) : r[y] = q[y]
  OBVIOUS
<1>6. r[x] = orders[x].qty
  OBVIOUS
<1>7. Bought(t)' = Total(r)
  BY <1>2 DEF Bought, Purchases
<1>8. Bought(t) = Total(q)
  BY DEF Bought, Purchases
<1> HIDE DEF q, r
<1>9. Total(r) = Total(q) + r[x]
  BY <1>1, <1>4, <1>5, TotalAdd
<1>10. QED
  BY <1>6, <1>7, <1>8, <1>9

\* Steps after which the same orders are executed and the same legs are filled.
LEMMA SameTrades ==
    ASSUME Typed, Balanced, [Next]_vars, UNCHANGED <<held, executed>>,
           \A n \in Ids, k \in LegKinds : legs'[n][k] = "filled" <=> legs[n][k] = "filled"
    PROVE  Balanced'
<1> SUFFICES ASSUME NEW t \in Tickers PROVE held'[t] + Sold(t)' = Bought(t)'
  BY DEF Balanced
<1>1. \A n \in 1..Len(orders) :
        /\ orders'[n].qty = orders[n].qty /\ orders'[n].side = orders[n].side
        /\ OfTicker(n, t)' <=> OfTicker(n, t)
  BY OrdersGrow DEF OfTicker
<1>2. \A n \in Ids : n \in executed \/ HasLeg(n, "filled") => n \in 1..Len(orders)
  BY DEF Typed, References, HasLeg
<1>3. \A s : s \in Sales(t) => s[2] \in 1..Len(orders)
  BY DEF Sales, OfTicker
<1>4. Sales(t)' = Sales(t)
  <2>1. ASSUME NEW s \in ({"order"} \cup LegKinds) \X Ids PROVE s \in Sales(t)' <=> s \in Sales(t)
    <3>1. s[2] \in Ids /\ s[1] \in {"order"} \cup LegKinds
      OBVIOUS
    <3>2. CASE s[1] = "order"
      <4>1. s[2] \in executed => s[2] \in 1..Len(orders)
        BY <1>2, <3>1
      <4>2. QED
        BY <1>1, <3>2, <4>1 DEF Sales
    <3>3. CASE s[1] # "order"
      <4>1. s[1] \in LegKinds
        BY <3>1, <3>3
      <4>2. legs[s[2]][s[1]] = "filled" => s[2] \in 1..Len(orders)
        BY <1>2, <3>1, <4>1 DEF HasLeg
      <4>3. QED
        BY <1>1, <3>1, <3>3, <4>1, <4>2 DEF Sales
    <3>4. QED
      BY <3>2, <3>3
  <2>2. QED
    BY <2>1 DEF Sales
<1>5. Purchases(t)' = Purchases(t)
  BY SMTT(60), <1>1, <1>2 DEF Purchases, Typed, TypeOK
<1>6. Sold(t)' = Sold(t)
  <2>1. [s \in Sales(t)' |-> orders'[s[2]].qty] = [s \in Sales(t) |-> orders[s[2]].qty]
    BY <1>1, <1>3, <1>4
  <2>2. QED
    BY <2>1 DEF Sold
<1>7. Bought(t)' = Bought(t)
  <2>1. \A n \in Purchases(t) : n \in 1..Len(orders)
    BY DEF Purchases, OfTicker
  <2>2. [n \in Purchases(t)' |-> orders'[n].qty] = [n \in Purchases(t) |-> orders[n].qty]
    BY <1>1, <1>5, <2>1
  <2>3. QED
    BY <2>2 DEF Bought, Purchases
<1>8. QED
  BY <1>6, <1>7 DEF Balanced

\* A leg that triggers sells what its order bought (T212Exchange).
LEMMA BalancedLegFills ==
    ASSUME Typed, Balanced, NEW n \in Ids, NEW k \in LegKinds, LegFills(n, k)
    PROVE  Balanced'
<1> SUFFICES ASSUME NEW t \in Tickers PROVE held'[t] + Sold(t)' = Bought(t)'
  BY DEF Balanced
<1> DEFINE x == <<k, n>>
<1>1. /\ legs \in [Ids -> [LegKinds -> LegStates]] /\ held \in [Tickers -> Nat]
      /\ legs[n][k] = "open" /\ legs' = [legs EXCEPT ![n][k] = "filled"]
      /\ held' = [held EXCEPT ![orders[n].ticker] = @ - orders[n].qty]
      /\ UNCHANGED <<executed, orders>>
  BY DEF Typed, TypeOK, LegFills, dbVars
<1>2. n \in 1..Len(orders)
  BY <1>1 DEF Typed, References
<1>3. orders[n].ticker \in Tickers /\ orders[n].qty \in Nat
  BY <1>2, OrderTypes DEF Typed
<1>4. Bought(t)' = Bought(t)
  BY <1>1 DEF Bought, OfTicker
<1>5. \A u : OfTicker(n, u) <=> u = orders[n].ticker
  BY <1>2 DEF OfTicker
<1>6. \A s \in ({"order"} \cup LegKinds) \X Ids : s # x /\ s[1] # "order" => legs'[s[2]][s[1]] = legs[s[2]][s[1]]
  BY <1>1
<1>7. /\ x \in ({"order"} \cup LegKinds) \X Ids /\ x[1] = k /\ x[2] = n /\ x[1] # "order"
      /\ legs'[x[2]][x[1]] = "filled" /\ legs[x[2]][x[1]] # "filled"
  BY <1>1 DEF LegKinds
<1> HIDE DEF x
<1>8. x \notin Sales(t)
  BY <1>7 DEF Sales
<1>9. CASE t = orders[n].ticker
  <2>1. Sales(t)' = Sales(t) \cup {x}
    BY ZenonT(60), <1>1, <1>5, <1>6, <1>7, <1>9 DEF Sales, OfTicker
  <2>2. Sold(t)' = Sold(t) + orders[n].qty
    BY <1>1, <1>3, <1>7, <1>8, <2>1, OneMoreSale
  <2>3. held'[t] = held[t] - orders[n].qty
    BY <1>1, <1>9
  <2>4. QED
    BY <1>1, <1>3, <1>4, <2>2, <2>3, TradesFinite DEF Balanced
<1>10. CASE t # orders[n].ticker
  <2>1. Sales(t)' = Sales(t)
    BY <1>1, <1>5, <1>6, <1>7, <1>10 DEF Sales, OfTicker
  <2>2. Sold(t)' = Sold(t)
    BY <1>1, <2>1 DEF Sold
  <2>3. held'[t] = held[t]
    BY <1>1, <1>10
  <2>4. QED
    BY <1>4, <2>2, <2>3 DEF Balanced
<1>11. QED
  BY <1>9, <1>10

\* A market order is bought or sold once (place_market_order).
LEMMA BalancedExecute ==
    ASSUME Sound, Balanced, drain.pc = "market", CanExecute(drain.id), Execute(drain.id),
           UNCHANGED <<legs, orders>>
    PROVE  Balanced'
<1> SUFFICES ASSUME NEW t \in Tickers PROVE held'[t] + Sold(t)' = Bought(t)'
  BY DEF Balanced
<1> DEFINE n == drain.id
           x == <<"order", n>>
<1>1. /\ n \in 1..Len(orders) /\ n \in Ids /\ Typed
      /\ orders[n].ticker \in Tickers /\ orders[n].qty \in Nat /\ orders[n].side \in {"BUY", "SELL"}
  BY DrainTypes, OrderTypes DEF Sound, Typed, Sides
<1>2. n \notin executed
  BY DEF Sound, ExecutedOnce
<1>3. executed' = executed \cup {n} /\ held \in [Tickers -> Nat]
  BY DEF Execute, Sound, Typed, TypeOK
<1> HIDE DEF n
<1>4. \A u : OfTicker(n, u) <=> u = orders[n].ticker
  BY <1>1 DEF OfTicker
<1>5. x \in ({"order"} \cup LegKinds) \X Ids /\ x[1] = "order" /\ x[2] = n
  BY <1>1
<1>6. \A s \in ({"order"} \cup LegKinds) \X Ids : s[1] = "order" /\ s[2] = n => s = x
  OBVIOUS
<1> HIDE DEF x
<1>7. CASE orders[n].side = "BUY"
  <2>1. held' = [held EXCEPT ![orders[n].ticker] = @ + orders[n].qty]
    BY <1>7 DEF Execute, n
  <2>2. Sales(t)' = Sales(t)
    BY <1>3, <1>5, <1>6, <1>7 DEF Sales, OfTicker
  <2>3. Sold(t)' = Sold(t)
    BY <2>2 DEF Sold
  <2>4. n \notin Purchases(t)
    BY <1>2 DEF Purchases
  <2>5. CASE t = orders[n].ticker
    <3>1. Purchases(t)' = Purchases(t) \cup {n}
      BY <1>3, <1>4, <1>7, <2>5 DEF Purchases, OfTicker
    <3>2. Bought(t)' = Bought(t) + orders[n].qty
      BY <1>1, <2>4, <3>1, OneMorePurchase
    <3>3. held'[t] = held[t] + orders[n].qty
      BY <1>3, <2>1, <2>5
    <3>4. QED
      BY <1>1, <1>3, <2>3, <3>2, <3>3, TradesFinite DEF Balanced
  <2>6. CASE t # orders[n].ticker
    <3>1. Purchases(t)' = Purchases(t)
      BY <1>3, <1>4, <2>6 DEF Purchases, OfTicker
    <3>2. Bought(t)' = Bought(t)
      BY <3>1 DEF Bought, Purchases
    <3>3. held'[t] = held[t]
      BY <1>3, <2>1, <2>6
    <3>4. QED
      BY <2>3, <3>2, <3>3 DEF Balanced
  <2>7. QED
    BY <2>5, <2>6
<1>8. CASE orders[n].side = "SELL"
  <2>1. held' = [held EXCEPT ![orders[n].ticker] = @ - orders[n].qty]
    BY <1>8 DEF Execute, n
  <2>2. Purchases(t)' = Purchases(t)
    BY <1>3, <1>8 DEF Purchases, OfTicker
  <2>3. Bought(t)' = Bought(t)
    BY <2>2 DEF Bought, Purchases
  <2>4. x \notin Sales(t)
    BY <1>2, <1>5 DEF Sales
  <2>5. CASE t = orders[n].ticker
    <3>1. Sales(t)' = Sales(t) \cup {x}
      BY <1>3, <1>4, <1>5, <1>6, <1>8, <2>5 DEF Sales, OfTicker
    <3>2. Sold(t)' = Sold(t) + orders[n].qty
      BY <1>1, <1>5, <2>4, <3>1, OneMoreSale
    <3>3. held'[t] = held[t] - orders[n].qty
      BY <1>3, <2>1, <2>5
    <3>4. QED
      BY <1>1, <1>3, <2>3, <3>2, <3>3, TradesFinite DEF Balanced
  <2>6. CASE t # orders[n].ticker
    <3>1. Sales(t)' = Sales(t)
      BY <1>3, <1>4, <1>5, <1>6, <2>6 DEF Sales, OfTicker
    <3>2. Sold(t)' = Sold(t)
      BY <3>1 DEF Sold
    <3>3. held'[t] = held[t]
      BY <1>3, <2>1, <2>6
    <3>4. QED
      BY <2>3, <3>2, <3>3 DEF Balanced
  <2>7. QED
    BY <2>5, <2>6
<1>9. QED
  BY <1>1, <1>7, <1>8

\* Every other step of the exchange, the drain task and the monitors leaves what
\* has been traded as it is.
LEMMA BalancedStep == Sound /\ Balanced /\ [Next]_vars => Balanced'
<1> SUFFICES ASSUME Sound, Balanced, [Next]_vars PROVE Balanced'
  OBVIOUS
<1> DEFINE Same == /\ UNCHANGED <<held, executed>>
                   /\ \A n \in Ids, k \in LegKinds : legs'[n][k] = "filled" <=> legs[n][k] = "filled"
<1>1. Typed /\ legs \in [Ids -> [LegKinds -> LegStates]]
  BY DEF Sound, Typed, TypeOK
<1>2. UNCHANGED exchangeVars => Same
  BY DEF exchangeVars
<1>3. ASSUME UNCHANGED <<held, executed>>, NEW n, NEW k \in LegKinds, Cancel(n, k) PROVE Same
  BY <1>1, <1>3, CancelTypes DEF Typed
<1>4. ASSUME UNCHANGED vars \/ Ticks \/ Crash \/ CrashMidway \/ Restart PROVE Same
  <2>1. UNCHANGED exchangeVars
    BY <1>4 DEF vars, Ticks, TickStarts, TickEnds, Crash, CrashMidway, Die, Restart, StartUp, StartedUp
  <2>2. QED
    BY <1>2, <2>1
<1>5. ASSUME NEW n \in Ids, Monitor(n) PROVE Same
  <2>1. CASE ReadStop(n) \/ ReadLimit(n)
    BY <1>2, <2>1 DEF ReadStop, ReadLimit
  <2>2. CASE CancelOther(n)
    <3>1. PICK k \in LegKinds : Cancel(n, k)
      BY <2>2 DEF CancelOther, LegKinds
    <3>2. QED
      BY <1>3, <2>2, <3>1 DEF CancelOther
  <2>3. QED
    BY <1>5, <2>1, <2>2 DEF Monitor
<1>6. CASE Environment
  <2>1. ASSUME NEW n \in Ids, NEW k \in LegKinds, LegBounces(n, k) \/ LegRevoked(n, k) PROVE Same
    BY <1>1, <2>1 DEF LegBounces, LegRevoked
  <2>2. ASSUME NEW t \in Tickers, CooldownExpires(t) PROVE Same
    BY <1>2, <2>2 DEF CooldownExpires
  <2>3. ASSUME NEW on \in BOOLEAN, SetHalt(on) PROVE Same
    BY <1>2, <2>3 DEF SetHalt
  <2>4. ASSUME Same PROVE Balanced'
    BY <1>1, <2>4, SameTrades
  <2> HIDE DEF Same
  <2>5. QED
    BY <1>1, <1>6, <2>1, <2>2, <2>3, <2>4, BalancedLegFills DEF Environment, Exchange
<1>7. CASE Drain
  <2>1. ASSUME (\E n \in Ids : Take(n)) \/ ResultNotFilled \/ BuyFilled \/ SellRecorded PROVE Same
    BY <1>2, <2>1 DEF Take, ResultNotFilled, BuyFilled, SellRecorded
  <2>2. ASSUME NEW k \in LegKinds, PlaceLeg(k) PROVE Same
    <3>1. drain.id \in Ids /\ drain.pc = k
      BY <1>1, <2>2, DrainTypes DEF PlaceLeg, LegKinds
    <3>2. legs[drain.id][k] = "none"
      BY <2>2, <3>1 DEF Sound, BracketOrder, NoLegs, LegKinds
    <3>3. legs' = legs \/ legs' = [legs EXCEPT ![drain.id][k] = "open"]
      BY <2>2 DEF PlaceLeg
    <3>4. \A n \in Ids, j \in LegKinds : legs'[n][j] = "filled" <=> legs[n][j] = "filled"
      BY <1>1, <3>1, <3>2, <3>3
    <3>5. QED
      BY <2>2, <3>4 DEF PlaceLeg
  <2>3. CASE CancelSurvivor \/ CancelStopOnSale \/ CancelLimitOnSale
    <3>1. PICK n : \E k \in LegKinds : Cancel(n, k)
      BY <1>1, <2>3, DrainTypes DEF CancelSurvivor, CancelStopOnSale, CancelLimitOnSale, CancelOnSale, LegKinds
    <3>2. UNCHANGED <<held, executed>>
      BY <2>3 DEF CancelSurvivor, CancelStopOnSale, CancelLimitOnSale, CancelOnSale
    <3>3. Same
      BY <1>3, <3>1, <3>2
    <3>4. QED
      BY <1>1, <3>3, SameTrades
  <2>4. ASSUME SellFilled PROVE Same
    <3>1. UNCHANGED <<held, executed>>
      BY <2>4 DEF SellFilled
    <3>2. legs' = legs \/ \E n : \E k \in LegKinds : Cancel(n, k)
      BY <2>4 DEF SellFilled, AbandonMonitor, LegKinds
    <3>3. QED
      BY <1>3, <3>1, <3>2
  <2>5. ASSUME Same PROVE Balanced'
    BY <1>1, <2>5, SameTrades
  <2>6. CASE Market
    <3>1. CASE UNCHANGED exchangeVars
      BY <1>2, <2>5, <3>1
    <3>2. CASE CanExecute(drain.id) /\ Execute(drain.id)
      BY <2>6, <3>2, BalancedExecute DEF Market, dbVars
    <3>3. QED
      BY <2>6, <3>1, <3>2 DEF Market
  <2> HIDE DEF Same
  <2>7. QED
    BY SMTT(60), <1>7, <2>1, <2>2, <2>3, <2>4, <2>5, <2>6 DEF Drain, LegKinds
<1>8. ASSUME Same PROVE Balanced'
  BY <1>1, <1>8, SameTrades
<1> HIDE DEF Same
<1>9. QED
  BY <1>4, <1>5, <1>6, <1>7, <1>8 DEF Next

\* Before the first order nothing is held, bought or sold.
LEMMA BalancedInit == Init => Balanced
<1> SUFFICES ASSUME Init, NEW t \in Tickers PROVE held[t] + Sold(t) = Bought(t)
  BY DEF Balanced
<1>1. held[t] = 0 /\ executed = {} /\ Len(orders) = 0
  BY DEF Init
<1>2. Sales(t) = {} /\ Purchases(t) = {}
  BY <1>1 DEF Sales, Purchases, OfTicker
<1>3. Shares([s \in Sales(t) |-> orders[s[2]].qty]) = {} /\ Shares([n \in Purchases(t) |-> orders[n].qty]) = {}
  BY <1>2, SharesAre
<1>4. Sold(t) = 0 /\ Bought(t) = 0
  BY <1>3, FS_EmptySet DEF Sold, Bought, Purchases, Total
<1>5. QED
  BY <1>1, <1>4

-----------------------------------------------------------------------------
\* What has been journalled stays true as long as no finished order and no
\* bracket without a row comes back.
LEMMA EntriesKept ==
    ASSUME Sound, EntriesOnce, [Next]_vars,
           \A n \in 1..Len(orders) : /\ n \in Unfinished' => n \in Unfinished
                                     /\ n \in Unrecorded' => n \in Unrecorded,
           \A n \in Ids : monitors'[n].pc \in {"poll", "read"} =>
                monitors[n].pc \in {"poll", "read"} \/ n \in Unrecorded \/ \E t \in Tickers : rows[t].oco = n,
           \A t \in Tickers : rows'[t].oco \in {0, rows[t].oco} \/ rows'[t].oco \in Unrecorded,
           \A e, f \in journal' : e \notin journal /\ f \notin journal => e = f,
           \A e \in journal' : e \notin journal =>
                EntryTrue(e)' /\ \A f \in journal : ~(e.how = f.how /\ e.id = f.id)
    PROVE  EntriesOnce'
<1>1. ASSUME NEW e \in journal PROVE EntryTrue(e)'
  <2>1. EntryTrue(e)
    BY DEF EntriesOnce
  <2>2. e.id \in 1..Len(orders) /\ e.id \in Ids /\ e.id # 0
    BY OrderTypes DEF Sound, Backed, Typed
  <2>3. orders'[e.id].side = orders[e.id].side /\ orders'[e.id].qty = orders[e.id].qty
    BY <2>2, OrdersGrow DEF Sound
  <2>4. QED
    BY <2>1, <2>2, <2>3 DEF EntryTrue
<1>2. \A e \in journal' : EntryTrue(e)'
  BY <1>1
<1>3. \A e, f \in journal' : e.how = f.how /\ e.id = f.id => e = f
  BY DEF EntriesOnce
<1>4. QED
  BY <1>2, <1>3 DEF EntriesOnce

\* A fill callback journals its SELL, and a monitor its bracket, once.
LEMMA EntriesOnceDrain == Sound /\ EntriesOnce /\ Drain => EntriesOnce'
<1> SUFFICES ASSUME Sound, EntriesOnce, Drain PROVE EntriesOnce'
  OBVIOUS
<1> DEFINE n == drain.id
<1>1. Typed /\ Typed' /\ [Next]_vars
  BY TypedDrain DEF Sound, Next
<1>2. Unfinished' \subseteq Unfinished /\ Unrecorded' \subseteq Unrecorded
  BY <1>1, DrainKeeps
<1>3. rows \in [Tickers -> Row] /\ monitors \in [Ids -> MonitorRecord]
  BY <1>1 DEF Typed, TypeOK, MonitorRecord
<1>4. ASSUME ~BuyFilled, ~SellFilled, ~SellRecorded PROVE EntriesOnce'
  <2>1. UNCHANGED <<rows, monitors>>
    BY <1>1, <1>4, PlainDrain
  <2>2. journal' = journal
    BY <1>4 DEF Drain, Take, Market, PlaceLeg, CancelSurvivor, ResultNotFilled, CancelStopOnSale,
                CancelLimitOnSale, CancelOnSale, dbVars
  <2>3. QED
    BY <1>1, <1>2, <2>1, <2>2, EntriesKept
<1>5. CASE BuyFilled
  <2> DEFINE t == Order.ticker
             row == RowAfterBuy(rows[t], n)
             r == IF drain.placed = LegKinds THEN [row EXCEPT !.oco = n] ELSE row
  <2>1. n \in 1..Len(orders) /\ n \in Unrecorded /\ t \in Tickers /\ journal' = journal
    BY <1>1, <1>5, DrainTypes, UnrecordedTypes DEF BuyFilled
  <2>2. rows' = [rows EXCEPT ![t] = r]
    BY <1>5 DEF BuyFilled
  <2>3. row \in Row /\ row.oco \in {rows[t].oco, 0}
    <3>1. rows[t] \in Row
      BY <1>3, <2>1
    <3>2. QED
      BY <1>1, <2>1, <3>1, RowAfterBuyTypes
  <2>4. \A m \in Ids : m # n => monitors'[m] = monitors[m]
    BY <1>3, <1>5 DEF BuyFilled, Watch
  <2> HIDE DEF row, n, t
  <2>5. r.oco \in {n, rows[t].oco, 0}
    BY <2>3 DEF Row
  <2> HIDE DEF r
  <2>6. \A u \in Tickers : rows'[u].oco \in {0, rows[u].oco} \/ rows'[u].oco \in Unrecorded
    BY <1>3, <2>1, <2>2, <2>5
  <2>7. \A m \in Ids : monitors'[m].pc \in {"poll", "read"} => monitors[m].pc \in {"poll", "read"} \/ m \in Unrecorded
    BY <2>1, <2>4
  <2>8. QED
    BY <1>1, <1>2, <2>1, <2>6, <2>7, EntriesKept
<1>6. ASSUME NEW pos, RecordSale(n, pos), drain'.pc = "idle", drain.pc # "idle", queue' = queue,
             orders[n].side = "SELL",
             \A m \in Ids : monitors'[m] = monitors[m] \/ monitors'[m].pc = "none"
      PROVE  EntriesOnce'
  <2>0. PICK e : e = JournalEntry("SELL", n, orders[n].qty, pos.qty > 0)
    OBVIOUS
  <2>1. n \in 1..Len(orders) /\ n \in Unfinished /\ n \notin Unfinished'
    BY <1>1, <1>6, DrainTypes DEF Unfinished, Sound, ExecutedOnce
  <2>2. rows' = [rows EXCEPT ![orders[n].ticker] = ClosedRow]
    BY <1>6 DEF RecordSale, CloseRow
  <2>3. \A u \in Tickers : rows'[u].oco \in {0, rows[u].oco}
    BY <1>3, <2>2, ConstantTypes
  <2>4. journal' = journal \/ journal' = journal \cup {e}
    BY <1>6, <2>0 DEF RecordSale
  <2>5. e.how = "SELL" /\ e.id = n /\ e.qty = orders[n].qty
    BY <2>0 DEF JournalEntry
  <2> HIDE DEF n
  <2>6. orders'[e.id].side = "SELL" /\ orders'[e.id].qty = e.qty /\ e.id \notin Unfinished'
    BY <1>1, <1>6, <2>1, <2>5, OrdersGrow
  <2>7. EntryTrue(e)'
    BY <2>5, <2>6 DEF EntryTrue
  <2>8. \A f \in journal : ~(f.how = e.how /\ f.id = e.id)
    BY <2>1, <2>5 DEF EntriesOnce, EntryTrue
  <2>9. /\ \A f, g \in journal' : f \notin journal /\ g \notin journal => f = g
        /\ \A f \in journal' : f \notin journal =>
              EntryTrue(f)' /\ \A g \in journal : ~(f.how = g.how /\ f.id = g.id)
    BY <2>4, <2>7, <2>8
  <2>10. \A m \in Ids : monitors'[m].pc \in {"poll", "read"} => monitors[m].pc \in {"poll", "read"}
    BY <1>6
  <2>11. QED
    BY <1>1, <1>2, <2>3, <2>9, <2>10, EntriesKept
<1>7. CASE SellFilled
  <2>1. /\ orders[n].side = "SELL" /\ drain.pc = "result" /\ queue' = queue
        /\ n \in 1..Len(orders) /\ Order.ticker \in Tickers
    BY <1>1, <1>7, DrainTypes DEF SellFilled, Order
  <2>2. \A m \in Ids : monitors'[m] = monitors[m] \/ monitors'[m].pc = "none"
    BY <1>3, <1>7, ConstantTypes DEF SellFilled, AbandonMonitor
  <2>3. CASE rows[Order.ticker].oco = 0
    <3>1. RecordSale(n, rows[Order.ticker]) /\ drain'.pc = "idle"
      BY <1>7, <2>3, ConstantTypes DEF SellFilled
    <3>2. QED
      BY <1>6, <2>1, <2>2, <3>1
  <2>4. CASE rows[Order.ticker].oco # 0
    <3>1. UNCHANGED <<rows, journal>>
      BY <1>7, <2>4 DEF SellFilled
    <3>2. \A m \in Ids : monitors'[m].pc \in {"poll", "read"} => monitors[m].pc \in {"poll", "read"}
      BY <2>2
    <3>3. QED
      BY <1>1, <1>2, <3>1, <3>2, EntriesKept
  <2>5. QED
    BY <2>3, <2>4
<1>8. CASE SellRecorded
  <2>1. /\ drain.pc = "closing" /\ queue' = queue /\ monitors' = monitors /\ drain'.pc = "idle"
        /\ \E pos : RecordSale(n, pos)
    BY <1>8, ConstantTypes DEF SellRecorded
  <2>2. orders[n].side = "SELL"
    BY <2>1 DEF Sound, BracketsProtect, Order
  <2>3. QED
    BY <1>6, <2>1, <2>2
<1>9. QED
  BY <1>4, <1>5, <1>7, <1>8

\* ... and a monitor its bracket.
LEMMA EntriesOnceMonitor == Sound /\ EntriesOnce /\ (\E n \in Ids : Monitor(n)) => EntriesOnce'
<1> SUFFICES ASSUME Sound, EntriesOnce, NEW n \in Ids, Monitor(n) PROVE EntriesOnce'
  OBVIOUS
<1>1. Typed /\ [Next]_vars
  BY DEF Sound, Next
<1>2. UNCHANGED <<orders, queue, drain>>
  BY MonitorKeeps
<1>3. Unfinished' = Unfinished /\ Unrecorded' = Unrecorded
  BY <1>2 DEF Unfinished, Unrecorded
<1>4. /\ rows \in [Tickers -> Row] /\ monitors \in [Ids -> MonitorRecord]
      /\ monitors[n].pc # "none"
  BY <1>1 DEF Typed, TypeOK, MonitorRecord, Monitor, ReadStop, ReadLimit, CancelOther
<1>5. /\ n \in 1..Len(orders) /\ n # 0 /\ n \notin Unrecorded
      /\ \A t \in Tickers : rows[t].oco = n => t = orders[n].ticker
  BY <1>1, <1>4 DEF Typed, References, OfTicker, Sound, BracketOrder
<1>6. CASE ReadStop(n)
  <2>1. UNCHANGED <<rows, journal>> /\ monitors[n].pc = "poll"
    BY <1>6 DEF ReadStop, dbVars
  <2>2. \A m \in Ids : monitors'[m].pc \in {"poll", "read"} => monitors[m].pc \in {"poll", "read"}
    BY <1>4, <1>6, <2>1 DEF ReadStop
  <2>3. QED
    BY <1>1, <1>3, <2>1, <2>2, EntriesKept
<1>7. CASE ReadLimit(n)
  <2> DEFINE d == Decision(monitors[n].seen, legs[n]["limit"])
  <2>0. PICK e : e = JournalEntry("OCO", n, monitors[n].qty, TRUE)
    OBVIOUS
  <2>1. monitors[n].pc = "read" /\ \A m \in Ids : m # n => monitors'[m] = monitors[m]
    BY <1>4, <1>7 DEF ReadLimit
  <2>2. \A m \in Ids : monitors'[m].pc \in {"poll", "read"} => monitors[m].pc \in {"poll", "read"}
    BY <2>1
  <2>3. CASE ~d.close
    <3>1. UNCHANGED <<rows, journal>>
      BY <1>7, <2>3 DEF ReadLimit, dbVars
    <3>2. QED
      BY <1>1, <1>3, <2>2, <3>1, EntriesKept
  <2>4. CASE d.close
    <3>1. d.pc \in {"cancelStop", "cancelLimit"}
      BY <2>4 DEF Decision
    <3>2. monitors'[n].pc = d.pc
      BY <1>4, <1>7 DEF ReadLimit, MonitorRecord
    <3>3. rows' = [rows EXCEPT ![orders[n].ticker] = ClosedRow] /\ (journal' = journal \/ journal' = journal \cup {e})
      BY <1>7, <2>0, <2>4 DEF ReadLimit, ClosePosition, CloseRow
    <3>4. e.how = "OCO" /\ e.id = n
      BY <2>0 DEF JournalEntry
    <3> HIDE DEF d
    <3>5. \A t \in Tickers : rows'[t].oco \in {0, rows[t].oco} /\ rows'[t].oco # n
      BY <1>4, <1>5, <3>3, ConstantTypes
    <3>6. EntryTrue(e)'
      BY <1>3, <1>5, <3>1, <3>2, <3>4, <3>5 DEF EntryTrue
    <3>7. \A f \in journal : ~(f.how = e.how /\ f.id = e.id)
      BY <2>1, <3>4 DEF EntriesOnce, EntryTrue
    <3>8. /\ \A f, g \in journal' : f \notin journal /\ g \notin journal => f = g
          /\ \A f \in journal' : f \notin journal =>
                EntryTrue(f)' /\ \A g \in journal : ~(f.how = g.how /\ f.id = g.id)
      BY <3>3, <3>6, <3>7
    <3>9. QED
      BY <1>1, <1>3, <2>2, <3>5, <3>8, EntriesKept
  <2>5. QED
    BY <2>3, <2>4
<1>8. CASE CancelOther(n)
  <2>1. UNCHANGED <<rows, journal>> /\ monitors' = [monitors EXCEPT ![n] = NoMonitor]
    BY <1>8 DEF CancelOther, EndMonitor, dbVars
  <2>2. \A m \in Ids : monitors'[m].pc \in {"poll", "read"} => monitors[m].pc \in {"poll", "read"}
    BY <1>4, <2>1, ConstantTypes
  <2>3. QED
    BY <1>1, <1>3, <2>1, <2>2, EntriesKept
<1>9. QED
  BY <1>6, <1>7, <1>8 DEF Monitor

\* New orders have new ids, and nothing that ended comes back after a crash.
LEMMA EntriesOnceStep == Sound /\ EntriesOnce /\ [Next]_vars => EntriesOnce'
<1> SUFFICES ASSUME Sound, EntriesOnce, [Next]_vars PROVE EntriesOnce'
  OBVIOUS
<1>1. Typed /\ rows \in [Tickers -> Row] /\ fetched \in [Tickers -> Nat]
  BY DEF Sound, Typed, TypeOK
<1>2. CASE UNCHANGED vars
  <2>1. UNCHANGED <<rows, journal, monitors, queue, drain>>
    BY <1>2 DEF vars, dbVars, taskVars
  <2>2. QED
    BY <2>1, EntriesKept DEF Unfinished, Unrecorded
<1>3. CASE Ticks
  <2>1. UNCHANGED <<rows, journal, monitors, drain>>
    BY <1>3 DEF Ticks, TickStarts, TickEnds, dbVars
  <2>2. \A n \in 1..Len(orders) : n \in queue' => n \in queue
    <3>1. ASSUME NEW i \in Intervals, TickEnds(i) PROVE \A n \in 1..Len(orders) : n \in queue' => n \in queue
      <4>1. /\ Len(orders) \in Nat /\ Len(orders') \in Nat
            /\ queue' = queue \cup (Len(orders) + 1)..Len(orders')
        BY <1>1, <3>1, TickAppends, OrderTypes DEF Typed
      <4>2. QED
        BY <4>1
    <3>2. QED
      BY <1>3, <3>1 DEF Ticks, TickStarts
  <2>3. QED
    BY <2>1, <2>2, EntriesKept DEF Unfinished, Unrecorded
<1>4. CASE Environment
  <2>1. UNCHANGED <<journal, monitors, queue, drain>>
    BY <1>4, EnvironmentKeeps DEF taskVars
  <2>2. \A t \in Tickers : rows'[t].oco = rows[t].oco
    <3>1. ASSUME NEW u \in Tickers, CooldownExpires(u) PROVE \A t \in Tickers : rows'[t].oco = rows[t].oco
      BY SMTT(60), <1>1, <3>1 DEF CooldownExpires, Row
    <3>2. QED
      BY <1>4, <3>1 DEF Environment, Exchange, LegFills, LegBounces, LegRevoked, SetHalt, dbVars
  <2>3. QED
    BY <2>1, <2>2, EntriesKept DEF Unfinished, Unrecorded
<1>5. CASE Crash \/ CrashMidway
  <2>1. Die /\ journal' = journal
    BY <1>5 DEF Crash, CrashMidway, dbVars
  <2>2. queue' = {} /\ drain'.pc = "idle" /\ \A n \in Ids : monitors'[n].pc = "none"
    BY <1>1, <2>1, DieTypes
  <2>3. \A t \in Tickers : rows'[t].oco \in {0, rows[t].oco}
    <3>1. CASE Crash
      BY <3>1 DEF Crash, dbVars
    <3>2. CASE CrashMidway
      BY <1>1, <3>2, CutShortTypes DEF CrashMidway
    <3>3. QED
      BY <1>5, <3>1, <3>2
  <2>4. QED
    BY <2>1, <2>2, <2>3, EntriesKept DEF Unfinished, Unrecorded
<1>6. CASE StartUp
  <2>1. UNCHANGED <<rows, journal, monitors, queue, drain>>
    BY <1>6 DEF StartUp, dbVars, taskVars
  <2>2. QED
    BY <2>1, EntriesKept DEF Unfinished, Unrecorded
<1>7. CASE StartedUp
  <2>1. UNCHANGED <<journal, queue, drain>> /\ Reattach /\ up = "starting"
    BY <1>7 DEF StartedUp
  <2>2. /\ rows' \in [Tickers -> Row] /\ \A t \in Tickers : rows'[t].oco \in {0, rows[t].oco}
    <3>1. \A t \in Tickers : /\ Reconciled(rows[t], fetched[t]) \in Row
                              /\ Reconciled(rows[t], fetched[t]).oco \in {rows[t].oco, 0}
      BY <1>1, ReconciledTypes
    <3>2. rows' = rows \/ rows' = [t \in Tickers |-> Reconciled(rows[t], fetched[t])]
      BY <1>7 DEF StartedUp
    <3>3. QED
      BY <1>1, <3>1, <3>2
  <2>3. \A t \in Tickers : rows'[t].oco # 0 => OfTicker(rows'[t].oco, t)
    BY <1>1, <2>2 DEF Typed, References
  <2>4. \A n \in Ids : monitors'[n].pc # "none" => \E t \in Tickers : rows'[t].oco = n
    BY <1>1, <2>1, <2>2, <2>3, ReattachTypes
  <2>5. \A n \in Ids : 0 # n
    BY TradingAssumption DEF Ids
  <2>6. \A n \in Ids : monitors'[n].pc # "none" => \E t \in Tickers : rows[t].oco = n
    BY <2>2, <2>4, <2>5
  <2>7. QED
    BY <2>1, <2>2, <2>6, EntriesKept DEF Unfinished, Unrecorded
<1>8. QED
  BY <1>2, <1>3, <1>4, <1>5, <1>6, <1>7, EntriesOnceDrain, EntriesOnceMonitor DEF Next, Restart

-----------------------------------------------------------------------------
\* A monitor closes no more than its bracket sells, unless start-up has told it
\* the quantity of a row of several BUYs; and so does what it journals.
Told == NoCrash \/ (Orderly /\ scene.safe /\ Barring({"lost", "rejected", "offline"}))
QuantitiesTrue ==
    Told => /\ \A n \in Ids : monitors[n].pc # "none" => monitors[n].qty <= orders[n].qty
            /\ \A e \in journal : e.how = "OCO" => e.qty <= orders[e.id].qty

\* The journal against the account.
Posted == Kept /\ Balanced /\ EntriesOnce /\ QuantitiesTrue

\* Quantities stay true while monitors are only started for their own order.
LEMMA QuantitiesKept ==
    ASSUME Sound, QuantitiesTrue, [Next]_vars,
           Told => \A n \in Ids : monitors'[n].pc # "none" =>
                \/ monitors[n].pc # "none" /\ monitors'[n].qty = monitors[n].qty
                \/ n \in 1..Len(orders) /\ monitors'[n].qty <= orders[n].qty,
           Told => \A e \in journal' :
                e \in journal \/ e.how # "OCO" \/ (e.id \in 1..Len(orders) /\ e.qty <= orders[e.id].qty)
    PROVE  QuantitiesTrue'
<1> SUFFICES ASSUME Told PROVE
        /\ \A n \in Ids : monitors'[n].pc # "none" => monitors'[n].qty <= orders'[n].qty
        /\ \A e \in journal' : e.how = "OCO" => e.qty <= orders'[e.id].qty
  BY SceneKept DEF QuantitiesTrue, Told, NoCrash, Orderly, Barring
<1>1. Typed /\ \A n \in 1..Len(orders) : orders'[n].qty = orders[n].qty
  BY OrdersGrow DEF Sound
<1>2. \A n \in Ids : monitors[n].pc # "none" => n \in 1..Len(orders)
  BY <1>1 DEF Typed, References
<1>3. \A e \in journal : e.id \in 1..Len(orders)
  BY DEF Sound, Backed
<1>4. \A n \in Ids : monitors'[n].pc # "none" => monitors'[n].qty <= orders'[n].qty
  BY <1>1, <1>2 DEF QuantitiesTrue
<1>5. \A e \in journal' : e.how = "OCO" => e.qty <= orders'[e.id].qty
  BY <1>1, <1>3 DEF QuantitiesTrue
<1>6. QED
  BY <1>4, <1>5

\* What a step writes about quantities (Watch, Reattach, _close_position).
LEMMA QuantitiesStep == Kept /\ QuantitiesTrue /\ [Next]_vars => QuantitiesTrue'
<1> SUFFICES ASSUME Kept, QuantitiesTrue, [Next]_vars PROVE QuantitiesTrue'
  OBVIOUS
<1>1. Sound /\ Typed /\ Stopped /\ monitors \in [Ids -> MonitorRecord]
  BY DEF Kept, Tidy, Sound, Typed, TypeOK, MonitorRecord
<1>2. ASSUME UNCHANGED <<journal, monitors>> PROVE QuantitiesTrue'
  BY <1>1, <1>2, QuantitiesKept
<1>3. ASSUME UNCHANGED vars \/ Ticks \/ Environment \/ StartUp PROVE UNCHANGED <<journal, monitors>>
  BY <1>3, EnvironmentKeeps DEF vars, Ticks, TickStarts, TickEnds, StartUp, dbVars, taskVars
<1>4. CASE Drain
  <2>1. CASE BuyFilled
    <3>1. drain.id \in 1..Len(orders) /\ orders[drain.id].qty \in Nat
      BY <1>1, <2>1, DrainTypes, OrderTypes DEF BuyFilled, Typed
    <3>2. journal' = journal /\ (monitors' = monitors \/ Watch(drain.id))
      BY <2>1 DEF BuyFilled
    <3>3. ASSUME Watch(drain.id), NEW n \in Ids
          PROVE  monitors'[n] = monitors[n] \/ (n = drain.id /\ monitors'[n].qty = orders[n].qty)
      BY <1>1, <3>3 DEF Watch, NoMonitor
    <3>4. \A n \in Ids : monitors'[n].pc # "none" =>
            \/ monitors[n].pc # "none" /\ monitors'[n].qty = monitors[n].qty
            \/ n \in 1..Len(orders) /\ monitors'[n].qty <= orders[n].qty
      BY <3>1, <3>2, <3>3
    <3>5. QED
      BY <1>1, <3>2, <3>4, QuantitiesKept
  <2>2. ASSUME NEW n, NEW pos, RecordSale(n, pos) PROVE \A e \in journal' : e \in journal \/ e.how # "OCO"
    BY <2>2 DEF RecordSale, JournalEntry
  <2>3. CASE SellFilled
    <3>1. \A n \in Ids : monitors'[n] = monitors[n] \/ monitors'[n].pc = "none"
      BY <1>1, <2>3, ConstantTypes DEF SellFilled, AbandonMonitor
    <3>2. \A e \in journal' : e \in journal \/ e.how # "OCO"
      BY <2>2, <2>3 DEF SellFilled
    <3>3. \A n \in Ids : monitors'[n].pc # "none" => monitors[n].pc # "none" /\ monitors'[n].qty = monitors[n].qty
      BY <3>1
    <3>4. QED
      BY <1>1, <3>2, <3>3, QuantitiesKept
  <2>4. CASE SellRecorded
    <3>1. monitors' = monitors /\ \A e \in journal' : e \in journal \/ e.how # "OCO"
      BY <2>2, <2>4 DEF SellRecorded
    <3>2. QED
      BY <1>1, <3>1, QuantitiesKept
  <2>5. CASE ~BuyFilled /\ ~SellFilled /\ ~SellRecorded
    <3>1. journal' = journal
      BY <1>4, <2>5 DEF Drain, Take, Market, PlaceLeg, CancelSurvivor, ResultNotFilled, CancelStopOnSale,
                  CancelLimitOnSale, CancelOnSale, dbVars
    <3>2. QED
      BY <1>1, <1>2, <1>4, <2>5, <3>1, PlainDrain
  <2>6. QED
    BY <2>1, <2>3, <2>4, <2>5
<1>5. ASSUME NEW n \in Ids, Monitor(n) PROVE QuantitiesTrue'
  <2>1. monitors[n].pc # "none" /\ n \in 1..Len(orders)
    BY <1>1, <1>5 DEF Monitor, ReadStop, ReadLimit, CancelOther, Typed, References
  <2>2. \A m \in Ids : monitors'[m].pc # "none" => monitors[m].pc # "none" /\ monitors'[m].qty = monitors[m].qty
    <3>1. CASE ReadStop(n)
      BY <1>1, <2>1, <3>1 DEF ReadStop, MonitorRecord
    <3>2. CASE ReadLimit(n)
      BY <1>1, <2>1, <3>2 DEF ReadLimit, MonitorRecord
    <3>3. CASE CancelOther(n)
      BY <1>1, <3>3, ConstantTypes DEF CancelOther, EndMonitor
    <3>4. QED
      BY <1>5, <3>1, <3>2, <3>3 DEF Monitor
  <2>3. \A e \in journal' : e \in journal \/ (e.id = n /\ e.qty = monitors[n].qty)
    BY <1>5 DEF Monitor, ReadStop, ReadLimit, CancelOther, ClosePosition, JournalEntry, dbVars
  <2>4. Told => monitors[n].qty <= orders[n].qty
    BY <2>1 DEF QuantitiesTrue
  <2>5. QED
    BY <1>1, <2>1, <2>2, <2>3, <2>4, QuantitiesKept
<1>6. CASE Crash \/ CrashMidway
  <2>1. Die /\ journal' = journal
    BY <1>6 DEF Crash, CrashMidway, dbVars
  <2>2. \A n \in Ids : monitors'[n].pc = "none"
    BY <1>1, <2>1, DieTypes
  <2>3. QED
    BY <1>1, <2>1, <2>2, QuantitiesKept
<1>7. CASE StartedUp
  <2>1. up = "starting" /\ Reattach /\ UNCHANGED <<orders, journal>>
    BY <1>7 DEF StartedUp
  <2>2. ASSUME Told, NEW n \in Ids, monitors'[n].pc # "none"
        PROVE  n \in 1..Len(orders) /\ monitors'[n].qty <= orders[n].qty
    <3>1. Kept' /\ Typed'
      BY KeptStep DEF Kept, Tidy, Sound
    <3>2. ~NoCrash
      BY <1>1, <2>1 DEF Stopped
    <3>3. Faithful'
      BY <2>2, <3>2, SceneKept DEF Told, Faithful, Orderly, Barring
    <3>4. AtMostOne'
      BY <3>1, <3>3 DEF Kept
    <3>5. rows' \in [Tickers -> Row] /\ (\A t \in Tickers : rows[t].oco # 0 => OfTicker(rows[t].oco, t))'
      BY <3>1 DEF Typed, TypeOK, References
    <3>6. \A t \in Tickers : rows'[t].oco # 0 => OfTicker(rows'[t].oco, t)
      BY <2>1, <3>5 DEF OfTicker
    <3>7. PICK t \in Tickers : rows'[t].oco = n /\ monitors'[n].qty = rows'[t].qty
      BY <1>1, <2>1, <2>2, <3>5, <3>6, ReattachTypes
    <3>8. n # 0
      BY TradingAssumption DEF Ids
    <3>9. n \in 1..Len(orders)
      BY <3>6, <3>7, <3>8 DEF OfTicker
    <3>10. orders'[n].qty = 1 /\ rows'[t].qty <= 1
      BY <2>1, <3>4, <3>9 DEF AtMostOne
    <3>11. QED
      BY <2>1, <3>7, <3>9, <3>10
  <2>3. QED
    BY <1>1, <2>1, <2>2, QuantitiesKept
<1>8. QED
  BY <1>2, <1>3, <1>4, <1>5, <1>6, <1>7 DEF Next, Restart

\* The journal is posted against the account throughout.
LEMMA PostedAlways == Spec => []Posted
<1>1. Init => Posted
  <2>1. ASSUME Init PROVE Posted
    <3>1. Kept /\ Balanced
      BY <2>1, KeptInit, BalancedInit
    <3>2. journal = {} /\ \A n \in Ids : monitors[n].pc = "none"
      BY <2>1, ConstantTypes DEF Init
    <3>3. QED
      BY <3>1, <3>2 DEF Posted, EntriesOnce, QuantitiesTrue
  <2>2. QED
    BY <2>1
<1>2. Posted /\ [Next]_vars => Posted'
  BY KeptStep, BalancedStep, EntriesOnceStep, QuantitiesStep DEF Posted, Kept, Tidy
<1>3. QED
  BY <1>1, <1>2, PTL DEF Spec

\* No entry names more than what its execution sold, so the journal of a ticker
\* comes to no more than its sales.
LEMMA JournalledIsSold ==
    ASSUME Posted, Told, Barring({"rejected"}), NEW t
    PROVE  Journalled(t) \in Nat /\ Journalled(t) <= Sold(t)
<1> DEFINE D == {e \in journal : OfTicker(e.id, t)}
           q == [e \in D |-> e.qty]
           r == [s \in Sales(t) |-> orders[s[2]].qty]
           leg(e) == CHOOSE k \in LegKinds : legs[e.id][k] = "filled"
           f == [e \in D |-> IF e.how = "SELL" THEN <<"order", e.id>> ELSE <<leg(e), e.id>>]
<1>1. Sound /\ Typed
  BY DEF Posted, Kept, Tidy, Sound
<1>2. \A e \in D : /\ e \in journal /\ e.id \in Ids /\ e.how \in {"OCO", "SELL"} /\ e.qty \in Nat
                   /\ OfTicker(e.id, t)
  BY <1>1 DEF Typed, TypeOK
<1>3. ASSUME NEW e \in D, e.how = "SELL" PROVE <<"order", e.id>> \in Sales(t) /\ e.qty <= orders[e.id].qty
  <2>1. e.id \in executed
    BY <1>1, <1>2, <1>3 DEF Sound, Backed, EntriesBacked
  <2>2. orders[e.id].side = "SELL" /\ e.qty = orders[e.id].qty
    BY <1>2, <1>3 DEF Posted, EntriesOnce, EntryTrue
  <2>3. QED
    BY <1>2, <2>1, <2>2 DEF Sales
<1>4. ASSUME NEW e \in D, e.how # "SELL"
      PROVE  leg(e) \in LegKinds /\ <<leg(e), e.id>> \in Sales(t) /\ e.qty <= orders[e.id].qty
  <2>1. e.how = "OCO"
    BY <1>2, <1>4
  <2>2. HasLeg(e.id, "filled")
    BY <1>1, <1>2, <2>1 DEF Sound, Backed, EntriesBacked
  <2>3. leg(e) \in LegKinds /\ legs[e.id][leg(e)] = "filled"
    BY <2>2 DEF HasLeg
  <2>4. e.qty <= orders[e.id].qty
    BY <1>2, <2>1 DEF Posted, QuantitiesTrue
  <2> HIDE DEF leg
  <2>5. leg(e) # "order"
    BY <2>3 DEF LegKinds
  <2>6. QED
    BY <1>2, <2>3, <2>4, <2>5 DEF Sales
<1> HIDE DEF leg
<1>5. \A e \in D : f[e] \in Sales(t) /\ f[e][2] = e.id /\ (f[e][1] = "order" <=> e.how = "SELL") /\ q[e] <= r[f[e]]
  <2> SUFFICES ASSUME NEW e \in D
               PROVE  f[e] \in Sales(t) /\ f[e][2] = e.id /\ (f[e][1] = "order" <=> e.how = "SELL") /\ q[e] <= r[f[e]]
    OBVIOUS
  <2>1. q[e] = e.qty
    OBVIOUS
  <2>2. CASE e.how = "SELL"
    BY <1>3, <2>1, <2>2
  <2>3. CASE e.how # "SELL"
    BY <1>4, <2>1, <2>3 DEF LegKinds
  <2>4. QED
    BY <2>2, <2>3
<1>6. f \in Injection(D, Sales(t))
  <2>1. f \in [D -> Sales(t)]
    BY <1>5
  <2>2. ASSUME NEW d \in D, NEW e \in D, f[d] = f[e] PROVE d = e
    <3>1. d.id = e.id /\ (d.how = "SELL" <=> e.how = "SELL")
      BY <1>5, <2>2
    <3>2. d.how = e.how
      BY <1>2, <3>1
    <3>3. QED
      BY <1>2, <3>1, <3>2 DEF Posted, EntriesOnce
  <2>3. QED
    BY <2>1, <2>2 DEF Injection, IsInjective
<1>7. q \in [D -> Nat]
  BY <1>2
<1>8. IsFiniteSet(Sales(t)) /\ r \in [Sales(t) -> Nat] /\ Sold(t) = Total(r)
  BY <1>1, TradesFinite DEF Sold
<1>9. Journalled(t) = Total(q)
  BY DEF Journalled
<1>10. \A e \in D : q[e] <= r[f[e]]
  BY <1>5
<1> HIDE DEF D, q, r, f
<1>11. Total(q) <= Total(r)
  BY <1>6, <1>7, <1>8, <1>10, TotalWithin
<1>12. IsFiniteSet(D)
  BY <1>6, <1>8, FS_Injection
<1>13. QED
  BY <1>7, <1>8, <1>9, <1>11, <1>12, TotalFinite

\* The journal never records more shares of a ticker sold than were bought, in the
\* circumstances that JournalWithinBought names (_on_order_fill, _close_position).
THEOREM JournalStaysWithinBought == Spec => []JournalWithinBought
<1>1. ASSUME Posted PROVE JournalWithinBought
  <2> SUFFICES ASSUME Told, Barring({"rejected"}), NEW t \in Tickers PROVE Journalled(t) <= Bought(t)
    BY DEF JournalWithinBought, Told, Barring
  <2>1. Journalled(t) \in Nat /\ Journalled(t) <= Sold(t)
    BY <1>1, JournalledIsSold
  <2>2. Typed /\ held[t] + Sold(t) = Bought(t)
    BY <1>1 DEF Posted, Kept, Tidy, Sound, Balanced
  <2>3. held[t] \in Nat /\ Sold(t) \in Nat /\ Bought(t) \in Nat
    BY <2>2, TradesFinite DEF Typed, TypeOK
  <2>4. QED
    BY <2>1, <2>2, <2>3
<1>2. QED
  BY <1>1, PostedAlways, PTL

\* The journal is the account's history: entries stand for executions, have an entry
\* price, and never sell more than was bought.
THEOREM JournalIsBacked == Spec => []JournalBacked
<1>1. EntriesBacked /\ PricedJournal /\ JournalWithinBought => JournalBacked
  BY DEF JournalBacked
<1>2. QED
  BY <1>1, JournalEntriesBacked, JournalEntriesPriced, JournalStaysWithinBought, PTL

-----------------------------------------------------------------------------
(***************************************************************************)
(* The trading loop implements Positions: each of its steps is one move of *)
(* every position, or none.                                                *)
(***************************************************************************)
\* The moves of a position in terms of the account, the row and what is untold.
Stays(t) ==
    /\ held'[t] = held[t] /\ rows'[t].qty = rows[t].qty
    /\ held[t] = 0 /\ rows[t].qty = 0 =>
           (Untold(t)' <=> Untold(t)) \/ (~Untold(t)' /\ up' = "down")
Recorded(t) ==
    /\ held'[t] = held[t] /\ rows[t].qty = 0 /\ rows'[t].qty = 1
    /\ up # "down" /\ (held[t] = 0 => Untold(t))
Closed(t) ==
    /\ held'[t] = held[t] /\ rows[t].qty = 1 /\ rows'[t].qty = 0
    /\ up # "down" /\ held[t] = 0 /\ ~Untold(t)'
SoldAll(t) ==
    /\ held[t] = 1 /\ held'[t] = 0 /\ rows'[t].qty = rows[t].qty
    /\ rows[t].qty = 0 => Untold(t)' \/ up' = "down"
BoughtOne(t) ==
    /\ held[t] = 0 /\ held'[t] = 1 /\ rows[t].qty = 0 /\ rows'[t].qty = 0
    /\ up # "down" /\ ~Untold(t)
OneMove(t) == Stays(t) \/ Recorded(t) \/ Closed(t) \/ SoldAll(t) \/ BoughtOne(t)

\* Each of them is a move of Positions.
LEMMA SeenMoves ==
    ASSUME NEW t, OneMove(t),
           held[t] \in 0..1, rows[t].qty \in 0..1, held'[t] \in 0..1, rows'[t].qty \in 0..1
    PROVE  Followed!Moves(Seen(t), Seen(t)') /\ Seen(t)' \in Followed!Position
<1> DEFINE h == held[t]
           k == rows[t].qty
           n == Lag(t)
           hh == held'[t]
           kk == rows'[t].qty
           nn == Lag(t)'
<1>1. Seen(t) = [held |-> h, known |-> k, news |-> n] /\ Seen(t)' = [held |-> hh, known |-> kk, news |-> nn]
  BY DEF Seen
<1>2. /\ h \in 0..1 /\ k \in 0..1 /\ hh \in 0..1 /\ kk \in 0..1
      /\ n = (IF k # h THEN 1 ELSE IF h = 0 /\ Untold(t) THEN 2 ELSE 0)
      /\ nn = (IF kk # hh THEN 1 ELSE IF hh = 0 /\ Untold(t)' THEN 2 ELSE 0)
  BY DEF Lag
<1>3. n \in 0..2 /\ nn \in 0..2
  BY <1>2
<1>4. Seen(t)' \in Followed!Position
  BY <1>1, <1>2, <1>3 DEF Followed!Position
<1>5. \/ up # "down" /\ h = 0 /\ n = 0 /\ hh = 1 /\ kk = k /\ nn = 1
      \/ h = 1 /\ hh = 0 /\ kk = k /\ nn = n + 1
      \/ up # "down" /\ n > 0 /\ hh = h /\ kk = 1 - k /\ nn = n - 1
      \/ ~(up # "down")' /\ k = 0 /\ n > 0 /\ hh = 0 /\ kk = 0 /\ nn = 0
      \/ hh = h /\ kk = k /\ nn = n
  BY <1>2 DEF OneMove, Stays, Recorded, Closed, SoldAll, BoughtOne
<1> HIDE DEF h, k, n, hh, kk, nn
<1> DEFINE p == [held |-> h, known |-> k, news |-> n]
           q == [held |-> hh, known |-> kk, news |-> nn]
<1>6. Followed!Moves(p, q)
  <2>1. p.held = h /\ p.known = k /\ p.news = n /\ q = Followed!At(hh, kk, nn) /\ p = Followed!At(h, k, n)
    BY DEF Followed!At
  <2> HIDE DEF p, q
  <2>2. QED
    BY <1>5, <2>1 DEF Followed!Moves, Followed!Buys, Followed!Sells, Followed!Follows, Followed!Misses, Followed!Flat
<1>7. QED
  BY <1>1, <1>4, <1>6

\* What the layers below say of the account and the row of a ticker.
LEMMA SeenFacts ==
    ASSUME Kept, Faithful, NEW t \in Tickers
    PROVE  /\ Tidy /\ Books /\ Lone
           /\ held[t] \in 0..1 /\ rows[t].qty \in 0..1 /\ fetched[t] \in Nat
           /\ IsOpen(rows[t]) <=> rows[t].qty = 1
           /\ InHand("BUY", t) => rows[t].qty = 0
           /\ up = "up" => (held[t] = 1 => rows[t].qty = 1 \/ InHand("BUY", t))
           /\ up = "starting" => held[t] <= fetched[t] /\ fetched[t] <= 1
           /\ up # "up" => \A s : ~InHand(s, t)
           /\ InHand("SELL", t) => held[t] = 0
<1>1. Tidy /\ Books /\ Lone
  BY DEF Kept, Books, Tidy, Lone, Faithful
<1>2. held[t] \in 0..1 /\ rows[t].qty \in 0..1 /\ fetched[t] \in Nat
  BY <1>1, AccountTypes DEF Books, AtMostOne
<1>3. IsOpen(rows[t]) <=> rows[t].qty = 1
  BY <1>1, <1>2 DEF IsOpen, Tidy, AbsentEmpty
<1>4. InHand("BUY", t) => rows[t].qty = 0
  <2> SUFFICES ASSUME InHand("BUY", t) PROVE ~IsOpen(rows[t])
    BY <1>2, <1>3
  <2>1. drain.pc \notin SalePcs \cup {"idle", "market"}
    BY <1>1, AccountTypes DEF InHand
  <2>2. drain.id \in Unrecorded /\ orders[drain.id].side = "BUY" /\ orders[drain.id].ticker = t
    BY <1>1, <2>1, TidyTypes, AccountTypes DEF InHand, Order, Unrecorded, SalePcs, DrainRecord, DrainPcs
  <2>3. QED
    BY <1>1, <2>2 DEF Lone, EntriesAlone
<1>5. /\ up = "up" => (held[t] = 1 => rows[t].qty = 1 \/ InHand("BUY", t))
      /\ up = "starting" => held[t] <= fetched[t] /\ fetched[t] <= 1
  BY <1>1, <1>2, <1>3 DEF Books, HeldRecorded
<1>6. up # "up" => \A s : ~InHand(s, t)
  BY <1>1 DEF Tidy, Stopped, InHand
<1>7. InHand("SELL", t) => held[t] = 0
  BY <1>1 DEF Books, SaleTrue
<1>8. QED
  BY <1>1, <1>2, <1>3, <1>4, <1>5, <1>6, <1>7

\* A tick neither trades nor writes a row.
LEMMA SeenTicks ==
    ASSUME Kept, Faithful, Ticks, NEW t \in Tickers
    PROVE  OneMove(t)
<1>1. UNCHANGED <<held, rows, drain, up, fetched>>
  BY DEF Ticks, TickStarts, TickEnds, exchangeVars, dbVars, envVars
<1>2. drain.pc = "idle" \/ UNCHANGED orders
  <2>1. ASSUME NEW i \in Intervals, TickEnds(i) PROVE drain.pc = "idle"
    BY <2>1 DEF TickEnds, Kept, Tidy, Faithful, TicksAlone, Quiet
  <2>2. ASSUME NEW i \in Intervals, TickStarts(i) PROVE UNCHANGED orders
    BY <2>2 DEF TickStarts, dbVars
  <2>3. QED
    BY <2>1, <2>2 DEF Ticks
<1>3. Untold(t)' <=> Untold(t)
  BY <1>1, <1>2 DEF Untold, InHand, Order
<1>4. QED
  BY <1>1, <1>3 DEF OneMove, Stays

\* What a monitor closes has been sold.
LEMMA SeenMonitor ==
    ASSUME Kept, Faithful, NEW n \in Ids, Monitor(n), NEW t \in Tickers
    PROVE  OneMove(t)
<1>1. UNCHANGED <<held, drain, orders, up, fetched>> /\ up = "up"
  BY MonitorKeeps DEF envVars
<1>2. Untold(t)' <=> Untold(t)
  BY <1>1 DEF Untold, InHand, Order
<1>3. /\ rows \in [Tickers -> Row] /\ rows[t].qty \in 0..1
      /\ IsOpen(rows[t]) <=> rows[t].qty = 1
      /\ Untold(t) => rows[t].qty = 0
  BY <1>1, SeenFacts, TidyTypes DEF Untold
<1>4. rows' = rows \/ rows' = [rows EXCEPT ![orders[n].ticker] = ClosedRow]
  BY DEF Monitor, ReadStop, ReadLimit, CancelOther, ClosePosition, CloseRow, dbVars
<1>5. ClosedRow.qty = 0
  BY DEF ClosedRow, NoRow
<1>6. rows'[t] = rows[t] \/ rows'[t].qty = 0
  BY <1>3, <1>4, <1>5
<1>7. CASE rows'[t].qty = rows[t].qty
  BY <1>1, <1>2, <1>7 DEF OneMove, Stays
<1>8. CASE rows'[t].qty # rows[t].qty
  <2>1. rows[t].qty = 1 /\ rows'[t].qty = 0
    BY <1>3, <1>6, <1>8
  <2>2. Closes(t)
    BY <1>3, <2>1 DEF Closes, IsOpen
  <2>3. held[t] = 0
    BY <2>2, ClosesSold DEF Next
  <2>4. QED
    BY <1>1, <1>2, <1>3, <2>1, <2>3 DEF OneMove, Closed
<1>9. QED
  BY <1>7, <1>8

\* A leg that fills sells all that is held.
LEMMA SeenEnvironment ==
    ASSUME Kept, Faithful, Environment, NEW t \in Tickers
    PROVE  OneMove(t)
<1>1. UNCHANGED <<drain, orders, up, fetched>>
  BY EnvironmentKeeps DEF taskVars
<1>2. Untold(t)' <=> Untold(t)
  BY <1>1 DEF Untold, InHand, Order
<1>3. Tidy /\ Books /\ held \in [Tickers -> Nat] /\ rows \in [Tickers -> Row] /\ held[t] \in 0..1
  BY SeenFacts, AccountTypes, TidyTypes
<1>4. CASE UNCHANGED <<held, rows>>
  BY <1>2, <1>4 DEF OneMove, Stays
<1>5. ASSUME NEW u \in Tickers, CooldownExpires(u) PROVE OneMove(t)
  <2>1. held' = held /\ rows'[t].qty = rows[t].qty
    BY <1>3, <1>5 DEF CooldownExpires, exchangeVars, Row
  <2>2. QED
    BY <1>2, <2>1 DEF OneMove, Stays
<1>6. ASSUME NEW n \in Ids, NEW k \in LegKinds, LegFills(n, k) PROVE OneMove(t)
  <2>1. /\ held' = [held EXCEPT ![orders[n].ticker] = @ - orders[n].qty] /\ UNCHANGED rows
        /\ held[orders[n].ticker] >= orders[n].qty /\ HasLeg(n, "open")
    BY <1>6 DEF LegFills, dbVars, HasLeg
  <2>2. n \in 1..Len(orders)
    BY <1>3, <1>6, TidyTypes DEF LegFills, Typed, References
  <2>3. orders[n].qty = 1
    BY <1>3, <2>2 DEF Books, AtMostOne
  <2>4. CASE orders[n].ticker # t
    <3>1. held'[t] = held[t]
      BY <1>3, <2>1, <2>4
    <3>2. QED
      BY <1>2, <2>1, <3>1 DEF OneMove, Stays
  <2>5. CASE orders[n].ticker = t
    <3>1. held[t] = 1 /\ held'[t] = 0
      BY <1>3, <2>1, <2>3, <2>5
    <3>2. rows[t].qty = 0 => Untold(t) \/ up = "down"
      BY <3>1, SeenFacts DEF Untold, Typed, TypeOK, Tidy, Sound
    <3>3. QED
      BY <1>1, <1>2, <2>1, <3>1, <3>2 DEF OneMove, SoldAll
  <2>6. QED
    BY <2>4, <2>5
<1>7. QED
  BY <1>4, <1>5, <1>6 DEF Environment, Exchange, LegBounces, LegRevoked, SetHalt, exchangeVars, dbVars

\* A market order: a BUY finds nothing held and the row up to date, a SELL sells
\* all that is held.
LEMMA SeenMarket ==
    ASSUME Kept, Faithful, Market, NEW t \in Tickers
    PROVE  OneMove(t)
<1> DEFINE n == drain.id
           u == Order.ticker
<1>1. /\ Tidy /\ Books /\ Lone /\ held \in [Tickers -> Nat] /\ held[t] \in 0..1
      /\ n \in 1..Len(orders) /\ n \in Unrecorded /\ u \in Tickers /\ u = orders[n].ticker
      /\ Order = orders[n] /\ Order.side \in Sides /\ orders[n].qty = 1
      /\ up = "up" /\ drain.pc = "market" /\ UNCHANGED <<rows, orders, up, fetched>>
  BY SeenFacts, AccountTypes, DrainTypes, TidyTypes, OrderTypes, UnrecordedTypes
     DEF Market, dbVars, envVars, Order, Tidy, Sound, Typed, Books, AtMostOne
<1>2. ~Untold(t)
  BY <1>1 DEF Untold, InHand
<1>3. \/ CanExecute(n) /\ Execute(n) /\ AfterMarket("filled")
      \/ AfterMarket("failed") /\ UNCHANGED held
  BY DEF Market, Barring, exchangeVars, Faithful
<1>4. CASE AfterMarket("failed") /\ UNCHANGED held
  <2>1. drain'.status = "failed"
    BY <1>1, <1>4, TidyTypes DEF AfterMarket, DrainRecord
  <2>2. ~Untold(t)'
    BY <1>1, <2>1 DEF Untold, InHand
  <2>3. QED
    BY <1>1, <1>2, <1>4, <2>2 DEF OneMove, Stays
<1>5. CASE CanExecute(n) /\ Execute(n) /\ AfterMarket("filled")
  <2>1. Order' = Order
    BY <1>1, <1>5, TidyTypes DEF AfterMarket, DrainRecord, Order
  <2>2. held' = [held EXCEPT ![u] = IF Order.side = "BUY" THEN @ + 1 ELSE @ - 1]
    BY <1>1, <1>5 DEF Execute
  <2>3. CASE u # t
    <3>1. held'[t] = held[t]
      BY <1>1, <2>2, <2>3
    <3>2. ~Untold(t)'
      BY <1>1, <2>1, <2>3 DEF Untold, InHand
    <3>3. QED
      BY <1>1, <1>2, <3>1, <3>2 DEF OneMove, Stays
  <2>4. CASE u = t /\ Order.side = "BUY"
    <3>1. rows[t].qty = 0
      BY <1>1, <2>4, SeenFacts DEF Lone, EntriesAlone
    <3>2. held[t] = 0
      BY <1>1, <1>2, <3>1, SeenFacts DEF Untold
    <3>3. held'[t] = 1
      BY <1>1, <2>2, <2>4, <3>2
    <3>4. QED
      BY <1>1, <1>2, <3>1, <3>2, <3>3 DEF OneMove, BoughtOne
  <2>5. CASE u = t /\ Order.side = "SELL"
    <3>1. held[t] = 1
      BY <1>1, <1>5, <2>5 DEF CanExecute
    <3>2. held'[t] = 0
      BY <1>1, <2>2, <2>5, <3>1
    <3>3. rows[t].qty = 1
      BY <1>1, <1>2, <3>1, SeenFacts DEF Untold
    <3>4. QED
      BY <1>1, <3>1, <3>2, <3>3 DEF OneMove, SoldAll
  <2>6. QED
    BY <1>1, <2>3, <2>4, <2>5 DEF Sides
<1>6. QED
  BY <1>3, <1>4, <1>5

\* The callback of a BUY records it, sold again or not.
LEMMA SeenBuyFilled ==
    ASSUME Kept, Faithful, BuyFilled, NEW t \in Tickers
    PROVE  OneMove(t)
<1> DEFINE n == drain.id
           u == Order.ticker
<1>1. /\ Tidy /\ Books /\ Lone /\ n \in 1..Len(orders) /\ u \in Tickers
      /\ InHand("BUY", u) /\ up = "up" /\ drain'.pc = "idle" /\ UNCHANGED <<held, up, fetched>>
      /\ orders[n].qty = 1
  BY SeenFacts, DrainTypes, TidyTypes, ConstantTypes
     DEF BuyFilled, exchangeVars, envVars, InHand, Books, AtMostOne
<1>2. rows[u].qty = 0 /\ ~IsOpen(rows[u])
  BY <1>1, SeenFacts DEF IsOpen
<1>3. ~Untold(t)'
  BY <1>1 DEF Untold, InHand
<1>4. rows'[u].qty = 1 /\ (t # u => rows'[t] = rows[t])
  <2> DEFINE row == RowAfterBuy(rows[u], n)
             r == IF drain.placed = LegKinds THEN [row EXCEPT !.oco = n] ELSE row
  <2>1. row \in Row /\ row.qty = 1
    BY <1>1, <1>2, TidyTypes, RowAfterBuyTypes
  <2>2. rows' = [rows EXCEPT ![u] = r]
    BY DEF BuyFilled
  <2> HIDE DEF row
  <2>3. r.qty = 1
    BY <2>1 DEF Row
  <2> HIDE DEF r
  <2>4. QED
    BY <1>1, <2>2, <2>3, TidyTypes
<1>5. CASE t = u
  BY <1>1, <1>2, <1>4, <1>5 DEF OneMove, Recorded, Untold
<1>6. CASE t # u
  <2>1. ~Untold(t)
    BY <1>1, <1>6 DEF Untold, InHand
  <2>2. QED
    BY <1>1, <1>3, <1>4, <1>6, <2>1 DEF OneMove, Stays
<1>7. QED
  BY <1>5, <1>6

\* The end of a SELL closes the row of a ticker of which nothing is held.
LEMMA SeenSale ==
    ASSUME Kept, Faithful, Drain, SellFilled \/ SellRecorded, NEW t \in Tickers
    PROVE  OneMove(t)
<1> DEFINE u == Order.ticker
<1>1. /\ Tidy /\ rows \in [Tickers -> Row] /\ rows[t].qty \in 0..1
      /\ InHand("SELL", u) /\ u \in Tickers /\ up = "up" /\ UNCHANGED <<held, up, fetched>>
  BY SeenFacts, TidyTypes, AccountTypes
     DEF SellFilled, SellRecorded, exchangeVars, envVars, InHand, SalePcs
<1>2. ~Untold(t)
  BY <1>1 DEF Untold, InHand
<1>3. ~Untold(t)'
  <2>1. drain'.pc = "idle" \/ (drain'.pc = "cancelStop" /\ drain'.id = drain.id)
    BY <1>1, TidyTypes, ConstantTypes DEF SellFilled, SellRecorded, DrainRecord
  <2>2. drain'.id = drain.id => Order'.side = "SELL"
    BY <1>1, DrainKeeps, TidyTypes, AccountTypes DEF Order, InHand
  <2>3. QED
    BY <1>1, <2>1, <2>2 DEF Untold, InHand
<1>4. rows' = rows \/ rows' = [rows EXCEPT ![u] = ClosedRow]
  BY DEF SellFilled, SellRecorded, RecordSale, CloseRow, Order
<1>5. ClosedRow.qty = 0
  BY DEF ClosedRow, NoRow
<1>6. rows'[t] = rows[t] \/ (t = u /\ rows'[t].qty = 0)
  BY <1>1, <1>4, <1>5
<1>7. held[u] = 0
  BY <1>1, SeenFacts
<1>8. QED
  BY <1>1, <1>2, <1>3, <1>6, <1>7 DEF OneMove, Stays, Closed

\* The other steps of the drain task neither trade nor record.
LEMMA SeenDrain ==
    ASSUME Kept, Faithful, Drain, NEW t \in Tickers
    PROVE  OneMove(t)
<1>1. CASE Market \/ BuyFilled \/ SellFilled \/ SellRecorded
  BY <1>1, SeenMarket, SeenBuyFilled, SeenSale
<1>2. CASE ~Market /\ ~BuyFilled /\ ~SellFilled /\ ~SellRecorded
  <2>1. Tidy /\ Typed /\ up = "up" /\ UNCHANGED <<rows, orders, up, fetched>> /\ drain \in DrainRecord
    BY <1>2, SeenFacts, TidyTypes, DrainKeeps, PlainDrain DEF envVars
  <2>2. UNCHANGED held /\ (InHand("BUY", t)' <=> InHand("BUY", t))
    <3>1. ASSUME NEW n \in Ids, Take(n) PROVE UNCHANGED held /\ ~InHand("BUY", t)' /\ ~InHand("BUY", t)
      BY <3>1 DEF Take, exchangeVars, IdleDrain, InHand
    <3>2. CASE ResultNotFilled
      BY <2>1, <3>2, ConstantTypes DEF ResultNotFilled, exchangeVars, InHand
    <3>3. ASSUME NEW k \in LegKinds, PlaceLeg(k) PROVE UNCHANGED held /\ (InHand("BUY", t)' <=> InHand("BUY", t))
      <4>1. /\ drain'.id = drain.id /\ drain'.status = drain.status /\ drain.pc \in LegKinds
            /\ drain'.pc \in {"limit", "survivor", "result"} /\ UNCHANGED held
        BY <2>1, <3>3 DEF PlaceLeg, AfterLeg, DrainRecord, LegKinds
      <4>2. QED
        BY <2>1, <4>1 DEF InHand, Order, LegKinds
    <3>4. CASE CancelSurvivor \/ CancelStopOnSale \/ CancelLimitOnSale
      BY <2>1, <3>4 DEF CancelSurvivor, CancelStopOnSale, CancelLimitOnSale, CancelOnSale, DrainRecord, InHand, Order
    <3>5. QED
      BY <1>2, <3>1, <3>2, <3>3, <3>4 DEF Drain, LegKinds
  <2>3. QED
    BY <2>1, <2>2 DEF OneMove, Stays, Untold
<1>3. QED
  BY <1>1, <1>2

\* A crash forgets what was in hand; between two commits it leaves a row that one
\* of them has written.
LEMMA SeenCrash ==
    ASSUME Kept, Faithful, Crash \/ CrashMidway, NEW t \in Tickers
    PROVE  OneMove(t)
<1>1. /\ UNCHANGED <<held, fetched>> /\ up' = "down" /\ up # "down" /\ drain'.pc = "idle"
  BY SeenFacts, TidyTypes, DieTypes DEF Crash, CrashMidway, Die, exchangeVars
<1>2. ~Untold(t)'
  BY <1>1 DEF Untold, InHand
<1>3. /\ Tidy /\ rows \in [Tickers -> Row] /\ rows[t].qty \in 0..1 /\ held[t] \in 0..1
  BY SeenFacts, TidyTypes
<1>4. CASE rows'[t].qty = rows[t].qty
  BY <1>1, <1>2, <1>4 DEF OneMove, Stays
<1>5. ASSUME rows'[t].qty = 0, rows[t].qty # 0 PROVE OneMove(t)
  <2>1. Closes(t)
    BY <1>3, <1>5, SeenFacts DEF Closes, IsOpen
  <2>2. held[t] = 0
    BY <2>1, ClosesSold DEF Next
  <2>3. QED
    BY <1>1, <1>2, <1>3, <1>5, <2>2 DEF OneMove, Closed
<1>6. ASSUME NEW u \in Tickers, rows' \in PartlyClosed(u) PROVE rows'[t].qty \in {0, rows[t].qty}
  <2>1. NoRow.qty = 0 /\ ClosedRow.qty = 0
    BY DEF ClosedRow, NoRow
  <2>2. QED
    BY <1>3, <1>6, <2>1 DEF PartlyClosed
<1>7. CASE BuyCutShort
  <2> DEFINE u == Order.ticker
             row == RowAfterBuy(rows[u], drain.id)
  <2>1. /\ drain.id \in 1..Len(orders) /\ u \in Tickers /\ InHand("BUY", u) /\ orders[drain.id].qty = 1
    BY <1>3, <1>7, DrainTypes, TidyTypes, SeenFacts DEF BuyCutShort, InHand, Books, AtMostOne
  <2>2. rows[u].qty = 0 /\ ~IsOpen(rows[u])
    BY <2>1, SeenFacts DEF IsOpen
  <2>3. row.qty = 1
    BY <1>3, <2>1, <2>2, TidyTypes, RowAfterBuyTypes
  <2>4. rows' = rows \/ rows' = [rows EXCEPT ![u] = row]
    BY <1>7 DEF BuyCutShort
  <2> HIDE DEF row
  <2>5. rows'[t].qty = rows[t].qty \/ (t = u /\ rows'[t].qty = 1)
    BY <1>3, <2>3, <2>4
  <2>6. QED
    BY <1>1, <1>4, <2>1, <2>2, <2>5 DEF OneMove, Recorded, Untold
<1>8. CASE SaleCutShort
  <2>1. Order.ticker \in Tickers
    BY <1>3, <1>8, DrainTypes, TidyTypes, ConstantTypes DEF SaleCutShort
  <2>2. rows' = rows \/ rows' \in PartlyClosed(Order.ticker)
    BY <1>8 DEF SaleCutShort
  <2>3. QED
    BY <1>4, <1>5, <1>6, <2>1, <2>2
<1>9. ASSUME NEW n \in Ids, CloseCutShort(n) PROVE OneMove(t)
  <2>1. orders[n].ticker \in Tickers
    BY <1>3, <1>9, TidyTypes DEF CloseCutShort
  <2>2. rows' \in PartlyClosed(orders[n].ticker)
    BY <1>9 DEF CloseCutShort
  <2>3. QED
    BY <1>4, <1>5, <1>6, <2>1, <2>2
<1>10. CASE Crash
  BY <1>4, <1>10 DEF Crash, dbVars
<1>11. QED
  BY <1>7, <1>8, <1>9, <1>10 DEF CrashMidway

\* Start-up fetches what the account holds and writes it into the rows.
LEMMA SeenRestart ==
    ASSUME Kept, Faithful, Restart, NEW t \in Tickers
    PROVE  OneMove(t)
<1>1. /\ Tidy /\ rows[t] \in Row /\ rows[t].qty \in 0..1 /\ held[t] \in 0..1
      /\ UNCHANGED <<held, drain, orders>> /\ ~InHand("BUY", t)
  BY SeenFacts, TidyTypes DEF Restart, StartUp, StartedUp, exchangeVars, dbVars, taskVars
<1>2. ~InHand("BUY", t)'
  BY <1>1 DEF InHand, Order
<1>3. CASE StartUp
  <2>1. rows' = rows /\ up = "down" /\ up' = "starting" /\ fetched' = held
    BY <1>3 DEF StartUp, dbVars
  <2>2. held[t] = 0 => ~Untold(t) /\ ~Untold(t)'
    BY <1>1, <1>2, <2>1 DEF Untold
  <2>3. QED
    BY <1>1, <2>1, <2>2 DEF OneMove, Stays
<1>4. CASE StartedUp
  <2>1. up = "starting" /\ up' = "up" /\ ~Untold(t)' /\ ~NoCrash
    BY <1>1, <1>2, <1>4 DEF StartedUp, Untold, Tidy, Stopped
  <2>2. rows'[t] = Reconciled(rows[t], fetched[t])
    BY <1>4, <2>1 DEF StartedUp, Barring, Faithful
  <2>3. held[t] <= fetched[t] /\ fetched[t] \in 0..1
    BY <2>1, SeenFacts
  <2>4. CASE fetched[t] = 1
    <3>1. rows'[t].qty = 1
      BY <1>1, <2>2, <2>4, ReconciledTypes
    <3>2. Untold(t)
      BY <2>1, <2>4 DEF Untold
    <3>3. QED
      BY <1>1, <2>1, <3>1, <3>2 DEF OneMove, Stays, Recorded
  <2>5. CASE fetched[t] = 0
    <3>1. rows'[t].qty = 0
      <4>1. rows[t].qty = 1 => IsOpen(rows[t])
        BY SeenFacts
      <4>2. QED
        BY <1>1, <2>2, <2>5, <4>1 DEF Reconciled, NoRow
    <3>2. held[t] = 0 /\ ~Untold(t)
      BY <1>1, <2>1, <2>3, <2>5 DEF Untold
    <3>3. QED
      BY <1>1, <2>1, <3>1, <3>2 DEF OneMove, Stays, Closed
  <2>6. QED
    BY <2>3, <2>4, <2>5
<1>5. QED
  BY <1>3, <1>4 DEF Restart

\* Positions are bought, sold and recorded one change after the other: the
\* trading loop implements Positions (run_gates, _process_one, _on_order_fill,
\* _close_position, reconcile_positions).
THEOREM TradingFollowsAccount == Spec => RowsFollowAccount
<1>1. Init => Followed!Init
  <2> SUFFICES ASSUME Init PROVE Followed!Init
    OBVIOUS
  <2>1. up = "up"
    BY DEF Init
  <2>2. ASSUME NEW t \in Tickers PROVE Seen(t) = Followed!Flat /\ Unseen = Followed!Flat
    <3>1. held[t] = 0 /\ rows[t].qty = 0 /\ ~Untold(t)
      BY <2>1, ConstantTypes DEF Init, NoRow, Untold, InHand
    <3>2. QED
      BY <3>1 DEF Seen, Lag, Unseen, Followed!Flat, Followed!At
  <2>3. QED
    BY <2>1, <2>2 DEF Followed!Init
<1>2. ASSUME Kept, Kept', [Next]_vars PROVE [Followed!Next]_(Followed!positionVars)
  <2>1. Faithful' <=> Faithful
    BY <1>2, SceneKept DEF Faithful, Orderly, Barring, NoCrash
  <2>2. Unseen \in Followed!Position
    BY DEF Unseen, Followed!Position
  <2>3. ASSUME Faithful, NEW t \in Tickers
        PROVE  Followed!Moves(Seen(t), Seen(t)') /\ Seen(t)' \in Followed!Position
    <3>1. held[t] \in 0..1 /\ rows[t].qty \in 0..1 /\ Tidy
      BY <1>2, <2>3, SeenFacts
    <3>2. held'[t] \in 0..1 /\ rows'[t].qty \in 0..1
      <4>1. AtMostOne'
        BY <1>2, <2>1, <2>3 DEF Kept
      <4>2. held' \in [Tickers -> Nat] /\ rows' \in [Tickers -> Row]
        BY <1>2 DEF Kept, Tidy, Sound, Typed, TypeOK
      <4>3. held'[t] \in Nat /\ rows'[t].qty \in Nat
        BY <4>2 DEF Row
      <4>4. QED
        BY <4>1, <4>3 DEF AtMostOne
    <3>3. OneMove(t)
      <4>1. CASE UNCHANGED vars
        BY <4>1 DEF vars, exchangeVars, dbVars, taskVars, envVars, OneMove, Stays, Untold, InHand, Order
      <4>2. CASE Environment
        BY <1>2, <2>3, <4>2, SeenEnvironment
      <4>3. QED
        BY <1>2, <2>3, <4>1, <4>2, SeenTicks, SeenMonitor, SeenDrain, SeenCrash, SeenRestart DEF Next
    <3>4. QED
      BY <3>1, <3>2, <3>3, SeenMoves
  <2>4. CASE Faithful
    BY <2>1, <2>3, <2>4 DEF Followed!Next
  <2>5. CASE ~Faithful
    BY <2>1, <2>2, <2>5 DEF Followed!Next, Followed!Moves
  <2>6. QED
    BY <2>4, <2>5
<1>3. QED
  BY <1>1, <1>2, KeptAlways, PTL DEF Spec, RowsFollowAccount, Followed!Spec
=============================================================================
