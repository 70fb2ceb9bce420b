---------------------------- MODULE TradingProofs ----------------------------
(***************************************************************************)
(* The trading loop, for every set of tickers and intervals, every bound   *)
(* on positions and orders, and every scene.                               *)
(***************************************************************************)
EXTENDS TradingSafety, FiniteSetTheorems, SequenceTheorems, TLAPS

OrderRecord == [ticker : Tickers, side : Sides, qty : Nat \ {0}, status : {"pending", "filled"}]
MonitorRecord == [pc : MonitorPcs, seen : LegStates, qty : Nat, model : BOOLEAN]
DrainRecord == [pc : DrainPcs, id : {0} \cup Ids, placed : SUBSET LegKinds,
                status : {"none", "filled", "failed", "stale_dropped"}, pos : Row]

\* What is in use belongs to an order that exists.
References ==
    /\ executed \subseteq 1..Len(orders)
    /\ drain.pc # "idle" => drain.id \in 1..Len(orders)
    /\ \A n \in Ids : monitors[n].pc # "none" => n \in 1..Len(orders)
    /\ \A n \in Ids : n \notin 1..Len(orders) => legs[n] = [k \in LegKinds |-> "none"]
    /\ \A t \in Tickers : rows[t].oco # 0 => OfTicker(rows[t].oco, t)
    /\ RegisteredTaskAlive

Typed == TypeOK /\ References

\* The table of orders is a function on the ids given out so far.
LEMMA OrderTypes ==
    ASSUME TypeOK
    PROVE  /\ Len(orders) \in Nat /\ Len(orders) <= MaxOrders
           /\ 1..Len(orders) \subseteq Ids
           /\ \A n \in 1..Len(orders) :
                /\ orders[n] \in OrderRecord
                /\ orders[n].ticker \in Tickers /\ orders[n].side \in Sides
                /\ orders[n].qty \in Nat /\ orders[n].qty > 0
<1>1. orders \in Seq(OrderRecord)
  BY DEF TypeOK, OrderRecord
<1>2. Len(orders) \in Nat
  BY <1>1, LenProperties
<1>3. \A n \in 1..Len(orders) : orders[n] \in OrderRecord
  BY <1>1, ElementOfSeq
<1>4. Len(orders) <= MaxOrders /\ MaxOrders \in Nat
  BY TradingAssumption DEF TypeOK
<1>5. 1..Len(orders) \subseteq Ids
  BY <1>2, <1>4 DEF Ids
<1>6. QED
  BY <1>2, <1>3, <1>4, <1>5 DEF OrderRecord

\* The values that the actions write have their types.
LEMMA ConstantTypes ==
    /\ NoRow \in Row /\ OpenRow \in Row /\ ClosedRow \in Row
    /\ NoRow.oco = 0 /\ OpenRow.oco = 0 /\ ClosedRow.oco = 0
    /\ NoMonitor \in MonitorRecord /\ NoMonitor.pc = "none"
    /\ IdleDrain \in DrainRecord /\ IdleDrain.pc = "idle"
<1>1. NoRow \in Row /\ OpenRow \in Row /\ ClosedRow \in Row
  BY DEF NoRow, OpenRow, ClosedRow, Row
<1>2. NoRow.oco = 0 /\ OpenRow.oco = 0 /\ ClosedRow.oco = 0
  BY DEF NoRow, OpenRow, ClosedRow
<1>3. NoMonitor \in MonitorRecord /\ NoMonitor.pc = "none"
  BY DEF NoMonitor, MonitorRecord, MonitorPcs, LegStates
<1>4. IdleDrain \in DrainRecord /\ IdleDrain.pc = "idle"
  BY <1>1 DEF IdleDrain, DrainRecord, DrainPcs
<1>5. QED
  BY <1>1, <1>2, <1>3, <1>4

\* Marking an order filled changes nothing else of the table.
LEMMA RecordFillTypes ==
    ASSUME TypeOK, drain.id \in 1..Len(orders), RecordFill
    PROVE  /\ orders' \in Seq(OrderRecord) /\ Len(orders') = Len(orders)
           /\ \A n \in 1..Len(orders) :
                /\ orders'[n].ticker = orders[n].ticker
                /\ orders'[n].side = orders[n].side /\ orders'[n].qty = orders[n].qty
<1> DEFINE o == [orders[drain.id] EXCEPT !.status = "filled"]
<1>1. orders \in Seq(OrderRecord) /\ orders[drain.id] \in OrderRecord
  BY OrderTypes DEF TypeOK, OrderRecord
<1>2. o \in OrderRecord
  BY <1>1 DEF OrderRecord
<1>3. orders' = [orders EXCEPT ![drain.id] = o]
  BY DEF RecordFill
<1> HIDE DEF o
<1>4. /\ orders' \in Seq(OrderRecord) /\ Len(orders') = Len(orders)
      /\ \A j \in 1..Len(orders) : orders'[j] = IF j = drain.id THEN o ELSE orders[j]
  BY <1>1, <1>2, <1>3, ExceptSeq
<1>5. o.ticker = orders[drain.id].ticker /\ o.side = orders[drain.id].side /\ o.qty = orders[drain.id].qty
  BY <1>1 DEF o, OrderRecord
<1>6. QED
  BY <1>4, <1>5

\* Before the first order.
LEMMA TypedInit == Init => Typed
<1> SUFFICES ASSUME Init PROVE Typed
  OBVIOUS
<1> USE TradingAssumption
<1>1. scene \in Scenes /\ scene \in Scene
  BY DEF Init
<1>2. crashes \in 0..scene.crashes
  BY <1>1 DEF Init, Scene
<1>3. orders \in Seq(OrderRecord) /\ Len(orders) = 0
  BY EmptySeq DEF Init
<1>4. Len(orders) <= MaxOrders
  BY <1>3
<1>5. rows \in [Tickers -> Row] /\ \A t \in Tickers : rows[t].oco = 0
  BY ConstantTypes DEF Init
<1>6. monitors \in [Ids -> MonitorRecord] /\ \A n \in Ids : monitors[n].pc = "none"
  BY ConstantTypes DEF Init
<1>7. drain \in DrainRecord /\ drain.pc = "idle"
  BY ConstantTypes DEF Init
<1>8. legs \in [Ids -> [LegKinds -> LegStates]]
  BY DEF Init, LegStates
<1>9. taskOf \in [Tickers -> {0} \cup Ids] /\ \A t \in Tickers : taskOf[t] = 0
  BY DEF Init
<1>10. TypeOK
  BY <1>1, <1>2, <1>3, <1>4, <1>5, <1>6, <1>7, <1>8, <1>9 DEF Init, TypeOK, OrderRecord, MonitorRecord, DrainRecord
<1>11. References
  BY <1>5, <1>6, <1>7, <1>9 DEF Init, References, RegisteredTaskAlive
<1>12. QED
  BY <1>10, <1>11 DEF Typed

-----------------------------------------------------------------------------
\* The exchange moves legs and shares only.
LEMMA TypedExchange == Typed /\ Exchange => Typed'
<1> SUFFICES ASSUME Typed, NEW n \in Ids, NEW k \in LegKinds,
                    LegFills(n, k) \/ LegBounces(n, k) \/ LegRevoked(n, k)
             PROVE  Typed'
  BY DEF Exchange
<1> USE DEF Typed
<1>1. legs[n][k] = "open" /\ UNCHANGED <<executed, dbVars, taskVars, envVars>>
  BY DEF LegFills, LegBounces, LegRevoked
<1>2. legs \in [Ids -> [LegKinds -> LegStates]] /\ held \in [Tickers -> Nat]
  BY DEF TypeOK
<1>3. n \in 1..Len(orders)
  BY <1>1 DEF References
<1>4. PICK s \in {"filled", "dead"} : legs' = [legs EXCEPT ![n][k] = s]
  BY DEF LegFills, LegBounces, LegRevoked
<1>5. legs' \in [Ids -> [LegKinds -> LegStates]]
  BY <1>2, <1>4 DEF LegStates
<1>6. held' \in [Tickers -> Nat]
  <2>1. CASE LegFills(n, k)
    <3>1. orders[n].ticker \in Tickers /\ orders[n].qty \in Nat
      BY <1>3, OrderTypes
    <3>2. held[orders[n].ticker] - orders[n].qty \in Nat
      BY <2>1, <1>2, <3>1 DEF LegFills
    <3>3. QED
      BY <2>1, <1>2, <3>1, <3>2 DEF LegFills
  <2>2. QED
    BY <1>2, <2>1 DEF LegBounces, LegRevoked
<1>7. TypeOK'
  BY <1>1, <1>5, <1>6 DEF TypeOK, dbVars, taskVars, envVars
<1>8. \A m \in Ids : m \notin 1..Len(orders) => legs'[m] = legs[m]
  BY <1>2, <1>3, <1>4
<1>9. References'
  BY <1>1, <1>8 DEF References, RegisteredTaskAlive, OfTicker, dbVars, taskVars, envVars
<1>10. QED
  BY <1>7, <1>9

\* A cancellation changes one leg, and never opens one.
LEMMA CancelTypes ==
    ASSUME TypeOK, NEW n, NEW k \in LegKinds, Cancel(n, k)
    PROVE  /\ legs' \in [Ids -> [LegKinds -> LegStates]]
           /\ \A m \in Ids : m # n => legs'[m] = legs[m]
           /\ \A m \in Ids, j \in LegKinds :
                legs'[m][j] = legs[m][j] \/ (m = n /\ j = k /\ legs[m][j] = "open" /\ legs'[m][j] = "dead")
           /\ "uncancelled" \notin scene.faults => (n \in Ids => legs'[n][k] # "open")
<1>1. legs \in [Ids -> [LegKinds -> LegStates]]
  BY DEF TypeOK
<1>2. CASE legs' = legs
  BY <1>1, <1>2 DEF Cancel, LegStates
<1>3. CASE legs' = [legs EXCEPT ![n][k] = IF @ = "open" THEN "dead" ELSE @]
  BY <1>1, <1>3 DEF LegStates
<1>4. QED
  BY <1>2, <1>3 DEF Cancel

\* Legs that are not used are not there after a cancellation either.
LEMMA CancelKeepsUnused ==
    ASSUME Typed, NEW n, NEW k \in LegKinds, Cancel(n, k)
    PROVE  \A m \in Ids : m \notin 1..Len(orders) => legs'[m] = [j \in LegKinds |-> "none"]
<1> SUFFICES ASSUME NEW m \in Ids, m \notin 1..Len(orders)
             PROVE  legs'[m] = [j \in LegKinds |-> "none"]
  OBVIOUS
<1>1. legs[m] = [j \in LegKinds |-> "none"]
  BY DEF Typed, References
<1>2. \A j \in LegKinds : legs'[m][j] = "none"
  BY <1>1, CancelTypes DEF Typed
<1>3. legs'[m] \in [LegKinds -> LegStates]
  BY CancelTypes DEF Typed
<1>4. QED
  BY <1>2, <1>3

\* The monitor of a bracket reads the legs, closes the position and cancels.
LEMMA TypedMonitor == Typed /\ (\E n \in Ids : Monitor(n)) => Typed'
<1> SUFFICES ASSUME Typed, NEW n \in Ids, Monitor(n) PROVE Typed'
  OBVIOUS
<1> USE DEF Typed
<1>1. /\ monitors \in [Ids -> MonitorRecord] /\ legs \in [Ids -> [LegKinds -> LegStates]]
      /\ rows \in [Tickers -> Row] /\ taskOf \in [Tickers -> {0} \cup Ids]
  BY DEF TypeOK, MonitorRecord
<1>2. monitors[n].pc # "none"
  BY DEF Monitor, ReadStop, ReadLimit, CancelOther
<1>3. n \in 1..Len(orders) /\ orders[n].ticker \in Tickers
  BY <1>2, OrderTypes DEF References
<1>4. CASE ReadStop(n)
  <2> DEFINE m == [monitors[n] EXCEPT !.pc = "read", !.seen = legs[n]["stop"]]
  <2>1. monitors' = [monitors EXCEPT ![n] = m]
    BY <1>4, <1>1 DEF ReadStop, MonitorRecord
  <2>2. m \in MonitorRecord /\ m.pc = "read"
    <3>1. legs[n]["stop"] \in LegStates
      BY <1>1 DEF LegKinds
    <3>2. QED
      BY ZenonT(60), <1>1, <3>1 DEF MonitorRecord, MonitorPcs
  <2> HIDE DEF m
  <2>3. monitors' \in [Ids -> MonitorRecord]
    BY <1>1, <2>1, <2>2
  <2>4. UNCHANGED <<exchangeVars, dbVars, queue, drain, taskOf, tick, envVars>>
    BY <1>4 DEF ReadStop
  <2>5. TypeOK'
    BY <2>3, <2>4 DEF TypeOK, MonitorRecord, exchangeVars, dbVars, envVars
  <2>6. References'
    BY <1>1, <1>2, <1>3, <2>1, <2>2, <2>4 DEF References, RegisteredTaskAlive, OfTicker, exchangeVars, dbVars, envVars
  <2>7. QED
    BY <2>5, <2>6
<1>5. CASE ReadLimit(n)
  <2> DEFINE d == Decision(monitors[n].seen, legs[n]["limit"])
             m == [monitors[n] EXCEPT !.pc = d.pc, !.seen = "none"]
  <2>1. monitors' = [monitors EXCEPT ![n] = m]
    BY <1>5, <1>1 DEF ReadLimit, MonitorRecord
  <2>2. d.pc \in {"poll", "cancelStop", "cancelLimit"}
    BY DEF Decision
  <2>3. m \in MonitorRecord /\ m.pc # "none"
    BY ZenonT(60), <1>1, <2>2 DEF MonitorRecord, MonitorPcs, LegStates
  <2> HIDE DEF d, m
  <2>4. monitors' \in [Ids -> MonitorRecord]
    BY <1>1, <2>1, <2>3
  <2>5. UNCHANGED <<exchangeVars, orders, queue, drain, taskOf, tick, envVars>>
    <3>1. UNCHANGED <<exchangeVars, queue, drain, taskOf, tick, envVars>>
      BY <1>5 DEF ReadLimit
    <3>2. ClosePosition(n) \/ UNCHANGED dbVars
      BY <1>5 DEF ReadLimit
    <3>3. UNCHANGED orders
      BY <3>2 DEF ClosePosition, dbVars
    <3>4. QED
      BY <3>1, <3>3
  <2>6. rows' \in {rows, [rows EXCEPT ![orders[n].ticker] = ClosedRow]}
    BY <1>5 DEF ReadLimit, ClosePosition, CloseRow, dbVars
  <2>7. journal' \subseteq journal \cup {JournalEntry("OCO", n, monitors[n].qty, TRUE)}
    BY <1>5 DEF ReadLimit, ClosePosition, dbVars
  <2>8. rows' \in [Tickers -> Row]
    BY <1>1, <2>6, ConstantTypes
  <2>9. JournalEntry("OCO", n, monitors[n].qty, TRUE)
          \in [how : {"OCO", "SELL"}, id : Ids, qty : Nat, priced : BOOLEAN]
    BY <1>1 DEF JournalEntry, MonitorRecord
  <2>10. TypeOK'
    BY <2>4, <2>5, <2>7, <2>8, <2>9 DEF TypeOK, MonitorRecord, exchangeVars, envVars
  <2>11. \A t \in Tickers : rows'[t].oco # 0 => OfTicker(rows[t].oco, t) /\ rows'[t].oco = rows[t].oco
    BY <1>1, <2>6, ConstantTypes DEF References
  <2>12. References'
    BY <1>1, <1>2, <1>3, <2>1, <2>3, <2>5, <2>11 DEF References, RegisteredTaskAlive, OfTicker, exchangeVars, envVars
  <2>13. QED
    BY <2>10, <2>12
<1>6. CASE CancelOther(n)
  <2> DEFINE k == IF monitors[n].pc = "cancelStop" THEN "stop" ELSE "limit"
  <2>1. Cancel(n, k) /\ k \in LegKinds
    BY <1>6 DEF CancelOther, LegKinds
  <2> HIDE DEF k
  <2>2. legs' \in [Ids -> [LegKinds -> LegStates]]
    BY <2>1, CancelTypes
  <2>3. \A j \in Ids : j \notin 1..Len(orders) => legs'[j] = [i \in LegKinds |-> "none"]
    BY <2>1, CancelKeepsUnused
  <2>4. UNCHANGED <<held, executed, dbVars, queue, drain, tick, envVars>>
    BY <1>6 DEF CancelOther
  <2>5. /\ monitors' = [monitors EXCEPT ![n] = NoMonitor]
        /\ taskOf' = [taskOf EXCEPT ![orders[n].ticker] = 0]
    BY <1>6 DEF CancelOther, EndMonitor
  <2>6. monitors' \in [Ids -> MonitorRecord] /\ taskOf' \in [Tickers -> {0} \cup Ids]
    BY <1>1, <1>3, <2>5, ConstantTypes
  <2>7. TypeOK'
    BY <2>2, <2>4, <2>6 DEF TypeOK, MonitorRecord, dbVars, envVars
  <2>8. RegisteredTaskAlive'
    BY <1>1, <1>3, <2>4, <2>5 DEF References, RegisteredTaskAlive, OfTicker, dbVars
  <2>9. References'
    BY <1>1, <1>3, <2>3, <2>4, <2>5, <2>8, ConstantTypes DEF References, OfTicker, dbVars
  <2>10. QED
    BY <2>7, <2>9
<1>7. QED
  BY <1>4, <1>5, <1>6 DEF Monitor

\* Where the drain task is, it works on an order that exists.
LEMMA DrainTypes ==
    ASSUME Typed, drain.pc # "idle"
    PROVE  /\ drain.id \in 1..Len(orders) /\ drain.id \in Ids
           /\ Order \in OrderRecord /\ Order.ticker \in Tickers /\ Order.qty \in Nat
           /\ drain \in DrainRecord /\ drain.pos \in Row /\ drain.placed \subseteq LegKinds
<1>1. drain.id \in 1..Len(orders)
  BY DEF Typed, References
<1>2. Order \in OrderRecord /\ drain.id \in Ids /\ Order.ticker \in Tickers /\ Order.qty \in Nat
  BY <1>1, OrderTypes DEF Order, Typed
<1>3. drain \in DrainRecord
  BY DEF Typed, TypeOK, DrainRecord
<1>4. drain.pos \in Row /\ drain.placed \subseteq LegKinds
  BY <1>3 DEF DrainRecord
<1>5. QED
  BY <1>1, <1>2, <1>3, <1>4

\* Steps that touch the drain task and leave the tables alone.
LEMMA TypedDrainOnly ==
    ASSUME Typed, drain' \in DrainRecord, drain'.pc = "idle" \/ drain'.id \in 1..Len(orders),
           queue' \subseteq queue,
           UNCHANGED <<exchangeVars, dbVars, monitors, taskOf, tick, envVars>>
    PROVE  Typed'
<1>1. TypeOK'
  BY DEF Typed, TypeOK, DrainRecord, exchangeVars, dbVars, envVars
<1>2. References'
  BY DEF Typed, References, RegisteredTaskAlive, OfTicker, exchangeVars, dbVars, envVars
<1>3. QED
  BY <1>1, <1>2 DEF Typed

\* Steps of the drain task that change legs of the order's bracket.
LEMMA TypedLegs ==
    ASSUME Typed, drain' \in DrainRecord, drain'.pc = "idle" \/ drain'.id \in 1..Len(orders),
           legs' \in [Ids -> [LegKinds -> LegStates]],
           \A m \in Ids : m \notin 1..Len(orders) => legs'[m] = [j \in LegKinds |-> "none"],
           UNCHANGED <<held, executed, dbVars, queue, monitors, taskOf, tick, envVars>>
    PROVE  Typed'
<1>1. TypeOK'
  BY DEF Typed, TypeOK, DrainRecord, dbVars, envVars
<1>2. References'
  BY DEF Typed, References, RegisteredTaskAlive, OfTicker, dbVars, envVars
<1>3. QED
  BY <1>1, <1>2 DEF Typed

\* Taking an order off the queue keeps the types (the head of _process_one,
\* with its stale check).
LEMMA TypedTake == Typed /\ (\E n \in Ids : Take(n)) => Typed'
<1> SUFFICES ASSUME Typed, NEW n \in Ids, Take(n) PROVE Typed'
  OBVIOUS
<1>1. n \in queue /\ n \in 1..Len(orders)
  BY DEF Take, Typed, TypeOK
<1>2. drain' \in DrainRecord /\ drain'.id = n
  BY ConstantTypes DEF Take, DrainRecord, DrainPcs
<1>3. QED
  BY <1>1, <1>2, TypedDrainOnly DEF Take

\* So does the market order, however it is answered (place_market_order and
\* the fill poll).
LEMMA TypedMarket == Typed /\ Market => Typed'
<1> SUFFICES ASSUME Typed, Market PROVE Typed'
  OBVIOUS
<1>1. drain.pc # "idle"
  BY DEF Market
<1>2. PICK status \in {"filled", "failed"} : AfterMarket(status)
  BY DEF Market
<1>3. drain' \in DrainRecord /\ drain'.id \in 1..Len(orders)
  BY <1>1, <1>2, DrainTypes DEF AfterMarket, DrainRecord, DrainPcs
<1>4. CASE UNCHANGED exchangeVars
  BY <1>3, <1>4, TypedDrainOnly DEF Market
<1>5. CASE CanExecute(drain.id) /\ Execute(drain.id)
  <2>1. /\ held \in [Tickers -> Nat] /\ executed \subseteq 1..Len(orders)
    BY DEF Typed, TypeOK, References
  <2>2. held' \in [Tickers -> Nat]
    <3> DEFINE t == orders[drain.id].ticker
               q == orders[drain.id].qty
    <3>1. t \in Tickers /\ q \in Nat
      BY <1>1, DrainTypes DEF Order
    <3>2. orders[drain.id].side # "BUY" => held[t] - q \in Nat
      BY <1>5, <2>1, <3>1 DEF CanExecute
    <3>3. held' = [held EXCEPT ![t] = IF orders[drain.id].side = "BUY" THEN held[t] + q ELSE held[t] - q]
      BY <1>5 DEF Execute
    <3> HIDE DEF t, q
    <3>4. QED
      BY <2>1, <3>1, <3>2, <3>3
  <2>3. executed' \subseteq 1..Len(orders) /\ executed' \subseteq Ids
    BY <1>1, <1>5, <2>1, DrainTypes, OrderTypes DEF Execute, Typed
  <2>4. UNCHANGED <<legs, dbVars, queue, monitors, taskOf, tick, envVars>>
    BY DEF Market
  <2>5. TypeOK'
    BY <1>3, <2>2, <2>3, <2>4 DEF Typed, TypeOK, DrainRecord, dbVars, envVars
  <2>6. References'
    BY <1>3, <2>3, <2>4 DEF Typed, References, RegisteredTaskAlive, OfTicker, dbVars, envVars
  <2>7. QED
    BY <2>5, <2>6 DEF Typed
<1>6. QED
  BY <1>4, <1>5 DEF Market, exchangeVars

\* So does the placement of a protective leg, refused and lost ones included.
LEMMA TypedPlaceLeg == ASSUME NEW k \in LegKinds, Typed, PlaceLeg(k) PROVE Typed'
<1>1. drain.pc # "idle"
  BY DEF PlaceLeg, LegKinds
<1>2. PICK sent \in BOOLEAN, answered \in BOOLEAN :
        /\ legs' = IF sent THEN [legs EXCEPT ![drain.id][k] = "open"] ELSE legs
        /\ LET placed == IF answered THEN drain.placed \cup {k} ELSE drain.placed
           IN drain' = [drain EXCEPT !.placed = placed, !.pc = AfterLeg(k, placed)]
  BY DEF PlaceLeg
<1> DEFINE placed == IF answered THEN drain.placed \cup {k} ELSE drain.placed
<1>3. placed \subseteq LegKinds /\ AfterLeg(k, placed) \in DrainPcs
  BY <1>1, DrainTypes DEF AfterLeg, DrainPcs, LegKinds
<1>4. drain' = [drain EXCEPT !.placed = placed, !.pc = AfterLeg(k, placed)]
  BY <1>2
<1> HIDE DEF placed
<1>5. drain' \in DrainRecord /\ drain'.id \in 1..Len(orders)
  BY <1>1, <1>3, <1>4, DrainTypes DEF DrainRecord
<1>6. legs \in [Ids -> [LegKinds -> LegStates]]
  BY DEF Typed, TypeOK
<1>7. legs' \in [Ids -> [LegKinds -> LegStates]]
  BY <1>2, <1>6 DEF LegStates
<1>8. \A m \in Ids : m \notin 1..Len(orders) => legs'[m] = legs[m]
  BY <1>1, <1>2, <1>6, DrainTypes
<1>9. QED
  BY <1>5, <1>7, <1>8, TypedLegs DEF PlaceLeg, Typed, References

\* So do the three cancellations: of the leg that survived a refusal, and of
\* the two legs of a position that is sold.
LEMMA TypedCancels ==
    Typed /\ (CancelSurvivor \/ CancelStopOnSale \/ CancelLimitOnSale) => Typed'
<1> SUFFICES ASSUME Typed, CancelSurvivor \/ CancelStopOnSale \/ CancelLimitOnSale PROVE Typed'
  OBVIOUS
<1>1. drain.pc # "idle"
  BY DEF CancelSurvivor, CancelStopOnSale, CancelLimitOnSale
<1>2. \E n \in {0} \cup Ids, k \in LegKinds : Cancel(n, k)
  <2>1. drain.id \in Ids /\ drain.pos.oco \in {0} \cup Ids /\ drain.placed \subseteq LegKinds
    BY <1>1, DrainTypes DEF Row
  <2>2. QED
    BY <2>1 DEF CancelSurvivor, CancelStopOnSale, CancelLimitOnSale, CancelOnSale, LegKinds
<1>3. drain' \in DrainRecord /\ drain'.id \in 1..Len(orders)
  <2>1. CASE CancelSurvivor
    BY <1>1, <2>1, DrainTypes DEF CancelSurvivor, DrainRecord, DrainPcs
  <2>2. CASE CancelStopOnSale
    BY <1>1, <2>2, DrainTypes DEF CancelStopOnSale, CancelOnSale, DrainRecord, DrainPcs
  <2>3. CASE CancelLimitOnSale
    BY <1>1, <2>3, DrainTypes DEF CancelLimitOnSale, CancelOnSale, DrainRecord, DrainPcs
  <2>4. QED
    BY <2>1, <2>2, <2>3
<1>4. legs' \in [Ids -> [LegKinds -> LegStates]]
  BY <1>2, CancelTypes DEF Typed
<1>5. \A m \in Ids : m \notin 1..Len(orders) => legs'[m] = [j \in LegKinds |-> "none"]
  BY <1>2, CancelKeepsUnused
<1>6. UNCHANGED <<held, executed, dbVars, queue, monitors, taskOf, tick, envVars>>
  BY DEF CancelSurvivor, CancelStopOnSale, CancelLimitOnSale, CancelOnSale
<1>7. QED
  BY <1>3, <1>4, <1>5, <1>6, TypedLegs

\* Steps of the drain task that record a result.
LEMMA TypedRecords ==
    ASSUME Typed, drain.id \in 1..Len(orders),
           RecordFill \/ UNCHANGED orders,
           drain' = IdleDrain \/ (drain' \in DrainRecord /\ drain'.id = drain.id),
           NEW t \in Tickers, NEW r \in Row, r.oco # 0 => OfTicker(r.oco, t),
           rows' \in {rows, [rows EXCEPT ![t] = r]},
           journal' \subseteq [how : {"OCO", "SELL"}, id : Ids, qty : Nat, priced : BOOLEAN],
           monitors' \in [Ids -> MonitorRecord],
           \A n \in Ids : monitors'[n].pc # "none" => monitors[n].pc # "none" \/ n = drain.id,
           taskOf' \in [Tickers -> {0} \cup Ids],
           \A u \in Tickers : taskOf'[u] # 0 =>
               OfTicker(taskOf'[u], u) /\ monitors'[taskOf'[u]].pc # "none",
           legs' \in [Ids -> [LegKinds -> LegStates]],
           \A m \in Ids : m \notin 1..Len(orders) => legs'[m] = [j \in LegKinds |-> "none"],
           UNCHANGED <<held, executed, queue, tick, envVars>>
    PROVE  Typed'
<1>1. /\ orders' \in Seq(OrderRecord) /\ Len(orders') = Len(orders)
      /\ \A n \in 1..Len(orders) : orders'[n].ticker = orders[n].ticker
  BY RecordFillTypes DEF Typed, TypeOK, OrderRecord
<1>2. drain' \in DrainRecord /\ (drain'.pc # "idle" => drain'.id \in 1..Len(orders))
  BY ConstantTypes
<1>3. rows' \in [Tickers -> Row]
  BY ZenonT(60) DEF Typed, TypeOK
<1>4. \A u \in Tickers : rows'[u].oco # 0 => OfTicker(rows'[u].oco, u)
  BY ZenonT(60) DEF Typed, TypeOK, References
<1>5. TypeOK'
  BY <1>1, <1>2, <1>3 DEF Typed, TypeOK, OrderRecord, MonitorRecord, DrainRecord, envVars
<1>6. \A n, u : OfTicker(n, u) => OfTicker(n, u)'
  BY <1>1 DEF OfTicker
<1>7. \A n \in Ids : monitors'[n].pc # "none" => n \in 1..Len(orders)
  BY DEF Typed, References
<1>8. References'
  BY <1>1, <1>2, <1>4, <1>6, <1>7 DEF Typed, References, RegisteredTaskAlive
<1>9. QED
  BY <1>5, <1>8 DEF Typed

\* The row after a BUY: of its type, with the bracket it had.
LEMMA RowAfterBuyTypes ==
    ASSUME Typed, NEW n \in 1..Len(orders), NEW row \in Row
    PROVE  /\ RowAfterBuy(row, n) \in Row
           /\ RowAfterBuy(row, n).oco \in {row.oco, 0}
           /\ RowAfterBuy(row, n).present
           /\ RowAfterBuy(row, n).qty = IF IsOpen(row) THEN row.qty + orders[n].qty ELSE orders[n].qty
           /\ row.present => RowAfterBuy(row, n).oco = row.oco
           /\ ~row.present => RowAfterBuy(row, n).oco = 0
           /\ ~RowAfterBuy(row, n).cooling
           /\ IsOpen(RowAfterBuy(row, n))
<1> DEFINE q == IF IsOpen(row) THEN row.qty + orders[n].qty ELSE orders[n].qty
           new == [OpenRow EXCEPT !.qty = q]
<1>1. q \in Nat
  BY OrderTypes DEF Typed, Row
<1>2. RowAfterBuy(row, n) = IF row.present THEN [row EXCEPT !.qty = new.qty, !.cooling = new.cooling] ELSE new
  BY DEF RowAfterBuy, Upsert
<1> HIDE DEF q
<1>3. /\ new \in Row /\ new.qty = q /\ new.cooling = FALSE /\ new.present = TRUE /\ new.oco = 0
  BY <1>1 DEF OpenRow, NoRow, Row
<1> HIDE DEF new
<1>4. q > 0 /\ q = IF IsOpen(row) THEN row.qty + orders[n].qty ELSE orders[n].qty
  BY OrderTypes DEF Typed, Row, q
<1>5. /\ RowAfterBuy(row, n) \in Row /\ RowAfterBuy(row, n).present /\ RowAfterBuy(row, n).qty = q
      /\ RowAfterBuy(row, n).oco = IF row.present THEN row.oco ELSE 0
      /\ ~RowAfterBuy(row, n).cooling
  BY <1>2, <1>3 DEF Row
<1>6. QED
  BY <1>4, <1>5 DEF IsOpen

\* The callback of an order that was not filled touches only the drain task.
LEMMA TypedResultNotFilled == Typed /\ ResultNotFilled => Typed'
BY ConstantTypes, TypedDrainOnly DEF ResultNotFilled

\* The callback of a filled BUY keeps the types: order, position, bracket ids
\* and the new monitor (_on_order_fill).
LEMMA TypedBuyFilled == Typed /\ BuyFilled => Typed'
<1> SUFFICES ASSUME Typed, BuyFilled PROVE Typed'
  OBVIOUS
<1> DEFINE n == drain.id
           t == Order.ticker
           row == RowAfterBuy(rows[t], n)
           whole == drain.placed = LegKinds
           r == IF whole THEN [row EXCEPT !.oco = n] ELSE row
<1>1. n \in 1..Len(orders) /\ n \in Ids /\ t \in Tickers /\ orders[n].qty \in Nat /\ t = orders[n].ticker
  BY DrainTypes DEF BuyFilled, Order
<1>2. /\ rows \in [Tickers -> Row] /\ monitors \in [Ids -> MonitorRecord]
      /\ taskOf \in [Tickers -> {0} \cup Ids] /\ legs \in [Ids -> [LegKinds -> LegStates]]
      /\ journal \subseteq [how : {"OCO", "SELL"}, id : Ids, qty : Nat, priced : BOOLEAN]
  BY DEF Typed, TypeOK, MonitorRecord
<1>3. row \in Row /\ row.oco \in {rows[t].oco, 0}
  BY <1>1, <1>2, RowAfterBuyTypes
<1>4. rows[t].oco # 0 => OfTicker(rows[t].oco, t)
  BY <1>1 DEF Typed, References
<1>5. /\ UNCHANGED <<exchangeVars, journal, queue, tick, envVars>> /\ drain' = IdleDrain /\ RecordFill
      /\ rows' = [rows EXCEPT ![t] = r]
      /\ IF whole THEN Watch(n) ELSE UNCHANGED <<monitors, taskOf>>
  BY DEF BuyFilled
<1>6. r \in Row /\ (r.oco # 0 => OfTicker(r.oco, t))
  <2> HIDE DEF row
  <2>1. CASE whole
    BY <1>1, <1>3, <2>1 DEF Row, OfTicker
  <2>2. CASE ~whole
    BY <1>3, <1>4, <2>2
  <2>3. QED
    BY <2>1, <2>2
<1>7. /\ monitors' \in [Ids -> MonitorRecord] /\ taskOf' \in [Tickers -> {0} \cup Ids]
      /\ \A m \in Ids : monitors'[m].pc # "none" => monitors[m].pc # "none" \/ m = n
      /\ \A m \in Ids : monitors[m].pc # "none" => monitors'[m].pc # "none"
      /\ \A u \in Tickers : taskOf'[u] = taskOf[u] \/ (u = t /\ taskOf'[u] = n /\ monitors'[n].pc # "none")
  <2>1. CASE ~whole
    BY <1>2, <1>5, <2>1
  <2>2. CASE whole
    <3> DEFINE m == [NoMonitor EXCEPT !.pc = "poll", !.qty = orders[n].qty, !.model = TRUE]
    <3>1. m \in MonitorRecord /\ m.pc = "poll"
      BY <1>1 DEF MonitorRecord, NoMonitor, MonitorPcs, LegStates
    <3>2. monitors' = [monitors EXCEPT ![n] = m] /\ taskOf' = [taskOf EXCEPT ![t] = n]
      BY <1>1, <1>5, <2>2 DEF Watch
    <3> HIDE DEF m, n, t
    <3>3. QED
      BY <1>1, <1>2, <3>1, <3>2
  <2>3. QED
    BY <2>1, <2>2
<1>8. \A u \in Tickers : taskOf'[u] # 0 => OfTicker(taskOf'[u], u) /\ monitors'[taskOf'[u]].pc # "none"
  BY <1>1, <1>2, <1>7 DEF Typed, References, RegisteredTaskAlive, OfTicker
<1>9. /\ legs' = legs /\ held' = held /\ executed' = executed
      /\ \A m \in Ids : m \notin 1..Len(orders) => legs[m] = [j \in LegKinds |-> "none"]
  BY <1>5 DEF exchangeVars, Typed, References
<1> HIDE DEF n, t, r, row, whole
<1>10. QED
  BY <1>1, <1>2, <1>5, <1>6, <1>7, <1>8, <1>9, TypedRecords DEF n

\* What a SELL writes to the journal has the type of an entry.
LEMMA SaleTypes ==
    ASSUME Typed, NEW n \in 1..Len(orders), NEW pos \in Row, RecordSale(n, pos)
    PROVE  /\ rows' = [rows EXCEPT ![orders[n].ticker] = ClosedRow]
           /\ journal' \subseteq [how : {"OCO", "SELL"}, id : Ids, qty : Nat, priced : BOOLEAN]
<1>1. /\ journal \subseteq [how : {"OCO", "SELL"}, id : Ids, qty : Nat, priced : BOOLEAN]
      /\ orders[n].qty \in Nat /\ n \in Ids
  BY OrderTypes DEF Typed, TypeOK
<1>2. JournalEntry("SELL", n, orders[n].qty, pos.qty > 0)
        \in [how : {"OCO", "SELL"}, id : Ids, qty : Nat, priced : BOOLEAN]
  BY <1>1 DEF JournalEntry
<1>3. QED
  BY <1>1, <1>2 DEF RecordSale, CloseRow

\* The end of a SELL keeps the types: the row goes and the journal grows.
LEMMA TypedSellRecorded == Typed /\ SellRecorded => Typed'
<1> SUFFICES ASSUME Typed, SellRecorded PROVE Typed'
  OBVIOUS
<1>1. /\ drain.id \in 1..Len(orders) /\ Order.ticker \in Tickers /\ drain.pos \in Row
  BY DrainTypes DEF SellRecorded
<1>2. PICK pos \in Row : RecordSale(drain.id, pos)
  BY <1>1, ConstantTypes DEF SellRecorded
<1>3. /\ rows' = [rows EXCEPT ![Order.ticker] = ClosedRow]
      /\ journal' \subseteq [how : {"OCO", "SELL"}, id : Ids, qty : Nat, priced : BOOLEAN]
  BY <1>1, <1>2, SaleTypes DEF Order
<1>4. /\ monitors \in [Ids -> MonitorRecord]
      /\ taskOf \in [Tickers -> {0} \cup Ids] /\ legs \in [Ids -> [LegKinds -> LegStates]]
      /\ \A m \in Ids : m \notin 1..Len(orders) => legs[m] = [j \in LegKinds |-> "none"]
      /\ \A u \in Tickers : taskOf[u] # 0 => OfTicker(taskOf[u], u) /\ monitors[taskOf[u]].pc # "none"
  BY DEF Typed, TypeOK, MonitorRecord, References, RegisteredTaskAlive
<1>5. UNCHANGED <<exchangeVars, orders, queue, monitors, taskOf, tick, envVars>> /\ drain' = IdleDrain
  BY DEF SellRecorded
<1>6. UNCHANGED <<legs, held, executed>>
  BY <1>5 DEF exchangeVars
<1>7. QED
  BY <1>1, <1>3, <1>4, <1>5, <1>6, ConstantTypes, TypedRecords

\* The start of a SELL's callback keeps the types: it reads the row and
\* cancels the registered monitor.
LEMMA TypedSellFilled == Typed /\ SellFilled => Typed'
<1> SUFFICES ASSUME Typed, SellFilled PROVE Typed'
  OBVIOUS
<1> DEFINE t == Order.ticker
<1>1. drain.id \in 1..Len(orders) /\ t \in Tickers /\ drain \in DrainRecord /\ t = orders[drain.id].ticker
  BY DrainTypes DEF SellFilled, Order
<1>2. /\ monitors \in [Ids -> MonitorRecord] /\ rows \in [Tickers -> Row]
      /\ taskOf \in [Tickers -> {0} \cup Ids] /\ legs \in [Ids -> [LegKinds -> LegStates]]
      /\ journal \subseteq [how : {"OCO", "SELL"}, id : Ids, qty : Nat, priced : BOOLEAN]
      /\ \A m \in Ids : m \notin 1..Len(orders) => legs[m] = [j \in LegKinds |-> "none"]
      /\ \A u \in Tickers : taskOf[u] # 0 => OfTicker(taskOf[u], u) /\ monitors[taskOf[u]].pc # "none"
  BY DEF Typed, TypeOK, MonitorRecord, References, RegisteredTaskAlive
<1>3. /\ taskOf' = [taskOf EXCEPT ![t] = 0] /\ RecordFill
      /\ UNCHANGED <<held, executed, queue, tick, envVars>>
      /\ IF taskOf[t] = 0 THEN UNCHANGED <<monitors, legs>> ELSE AbandonMonitor(taskOf[t])
      /\ IF rows[t].oco # 0
         THEN drain' = [drain EXCEPT !.pc = "cancelStop", !.pos = rows[t]] /\ UNCHANGED <<rows, journal>>
         ELSE drain' = IdleDrain /\ RecordSale(drain.id, rows[t])
  BY DEF SellFilled
<1>4. /\ monitors' = monitors \/ (taskOf[t] # 0 /\ monitors' = [monitors EXCEPT ![taskOf[t]] = NoMonitor])
      /\ legs' = legs \/ (taskOf[t] # 0 /\ \E k \in LegKinds : Cancel(taskOf[t], k))
      /\ taskOf[t] = 0 => monitors' = monitors
  BY <1>3 DEF AbandonMonitor, LegKinds
<1>5. /\ monitors' \in [Ids -> MonitorRecord]
      /\ \A n \in Ids : monitors'[n].pc # "none" => monitors[n].pc # "none"
      /\ \A n \in Ids : n # taskOf[t] => monitors'[n] = monitors[n]
  BY <1>1, <1>2, <1>4, ConstantTypes
<1>6. /\ legs' \in [Ids -> [LegKinds -> LegStates]]
      /\ \A m \in Ids : m \notin 1..Len(orders) => legs'[m] = [j \in LegKinds |-> "none"]
  BY <1>2, <1>4, CancelTypes, CancelKeepsUnused DEF Typed
<1>7. taskOf' \in [Tickers -> {0} \cup Ids]
  BY <1>1, <1>2, <1>3
<1>8. \A u \in Tickers : taskOf'[u] # 0 => OfTicker(taskOf'[u], u) /\ monitors'[taskOf'[u]].pc # "none"
  BY SMTT(60), <1>1, <1>2, <1>3, <1>5 DEF OfTicker
<1>9. drain' = IdleDrain \/ (drain' \in DrainRecord /\ drain'.id = drain.id)
  <2> DEFINE d == [drain EXCEPT !.pc = "cancelStop", !.pos = rows[t]]
  <2>1. rows[t] \in Row
    BY <1>1, <1>2
  <2>2. d \in DrainRecord /\ d.id = drain.id
    BY <1>1, <2>1 DEF DrainRecord, DrainPcs
  <2>3. drain' = d \/ drain' = IdleDrain
    BY <1>3
  <2>4. QED
    BY <2>2, <2>3
<1>10. /\ rows' \in {rows, [rows EXCEPT ![t] = ClosedRow]}
       /\ journal' \subseteq [how : {"OCO", "SELL"}, id : Ids, qty : Nat, priced : BOOLEAN]
  BY <1>1, <1>2, <1>3, SaleTypes
<1> HIDE DEF t
<1>11. QED
  BY <1>1, <1>3, <1>5, <1>6, <1>7, <1>8, <1>9, <1>10, ConstantTypes, TypedRecords

\* Every step of the drain task keeps the types.
LEMMA TypedDrain == Typed /\ Drain => Typed'
BY TypedTake, TypedMarket, TypedPlaceLeg, TypedCancels, TypedResultNotFilled, TypedBuyFilled,
   TypedSellFilled, TypedSellRecorded DEF Drain, LegKinds

-----------------------------------------------------------------------------
\* The orders of one tick: well typed, and listed once.
LEMMA OrdersOfTick ==
    ASSUME Typed, NEW signal \in [scene.tickers -> Signals],
           NEW S, S = {} \/ S = Approvals(signal), NEW ts \in Listings(S)
    PROVE  /\ S \subseteq Tickers /\ S \subseteq scene.tickers
           /\ ts \in Seq(S) /\ Len(ts) \in Nat
           /\ \A k \in 1..Len(ts) : ts[k] \in S
           /\ \A k, j \in 1..Len(ts) : ts[k] = ts[j] => k = j
           /\ \A k \in 1..Len(ts) : OrderFor(ts[k], signal[ts[k]]) \in OrderRecord
           /\ [k \in 1..Len(ts) |-> OrderFor(ts[k], signal[ts[k]])] \in Seq(OrderRecord)
           /\ Len([k \in 1..Len(ts) |-> OrderFor(ts[k], signal[ts[k]])]) = Len(ts)
<1>1. scene \in Scene /\ scene.tickers \subseteq Tickers
  BY TradingAssumption DEF Typed, TypeOK, Scene
<1>2. S \subseteq scene.tickers /\ S \subseteq Tickers
  BY <1>1 DEF Approvals
<1>3. IsFiniteSet(S)
  BY <1>2, TradingAssumption, FS_Subset
<1>4. Cardinality(S) \in Nat
  BY <1>3, FS_CardinalityType
<1>5. ts \in [1..Cardinality(S) -> S] /\ \A t \in S : \E k \in 1..Cardinality(S) : ts[k] = t
  BY DEF Listings
<1>6. ts \in Seq(S) /\ Len(ts) = Cardinality(S)
  BY <1>4, <1>5
<1>7. \A k \in 1..Len(ts) : ts[k] \in S
  BY <1>5, <1>6
<1>8. ts \in Surjection(1..Cardinality(S), S)
  BY <1>5 DEF Surjection
<1>9. IsFiniteSet(1..Cardinality(S)) /\ Cardinality(1..Cardinality(S)) = Cardinality(S)
  BY <1>4, FS_Interval
<1>10. ts \in Injection(1..Cardinality(S), S)
  BY <1>8, <1>9, FS_SurjSameCardinalityImpliesInj
<1>11. \A k, j \in 1..Len(ts) : ts[k] = ts[j] => k = j
  BY <1>6, <1>10 DEF Injection, IsInjective
<1>12. \A t \in S : OrderFor(t, signal[t]) \in OrderRecord
  <2> SUFFICES ASSUME NEW t \in S PROVE OrderFor(t, signal[t]) \in OrderRecord
    OBVIOUS
  <2>1. Approved(t, signal[t]) /\ t \in Tickers /\ signal[t] \in Signals
    BY <1>2 DEF Approvals
  <2>2. rows[t] \in Row /\ signal[t] \in Sides
    BY <2>1 DEF Typed, TypeOK, Approved, Signals, Sides
  <2>3. signal[t] = "SELL" => rows[t].qty \in Nat /\ rows[t].qty > 0
    BY <2>1, <2>2 DEF Approved, IsOpen, Row
  <2>4. QED
    BY <2>1, <2>2, <2>3 DEF OrderFor, OrderRecord
<1>13. \A k \in 1..Len(ts) : OrderFor(ts[k], signal[ts[k]]) \in OrderRecord
  BY <1>7, <1>12
<1> DEFINE os == [k \in 1..Len(ts) |-> OrderFor(ts[k], signal[ts[k]])]
<1>14. os \in [1..Len(ts) -> OrderRecord]
  BY <1>13
<1> HIDE DEF os
<1>15. os \in Seq(OrderRecord) /\ Len(os) = Len(ts)
  BY <1>4, <1>6, <1>14
<1>16. QED
  BY <1>2, <1>4, <1>6, <1>7, <1>11, <1>13, <1>15 DEF os

\* A tick appends new orders and enqueues them; the others stay as they are.
LEMMA TickAppends ==
    ASSUME Typed, NEW i \in Intervals, TickEnds(i)
    PROVE  \E signal \in [scene.tickers -> Signals], S \in SUBSET Tickers : \E ts \in Seq(S) :
             /\ ts \in Listings(S) /\ (S = {} \/ S = Approvals(signal))
             /\ Len(ts) \in Nat
             /\ orders' \in Seq(OrderRecord) /\ Len(orders') = Len(orders) + Len(ts)
             /\ Len(orders') <= MaxOrders
             /\ \A n \in 1..Len(orders) : orders'[n] = orders[n]
             /\ \A k \in 1..Len(ts) : /\ ts[k] \in S
                                      /\ orders'[Len(orders) + k] = OrderFor(ts[k], signal[ts[k]])
             /\ \A k, j \in 1..Len(ts) : ts[k] = ts[j] => k = j
             /\ queue' = queue \cup (Len(orders) + 1)..Len(orders')
<1>1. PICK signal \in [scene.tickers -> Signals] :
        \E ts \in Listings(IF tick[i] = "clear" THEN Approvals(signal) ELSE {}) :
        /\ Len(orders) + Len(ts) <= scene.orders
        /\ orders' = orders \o [k \in 1..Len(ts) |-> OrderFor(ts[k], signal[ts[k]])]
        /\ queue' = queue \cup {Len(orders) + k : k \in 1..Len(ts)}
  BY DEF TickEnds
<1> DEFINE S == IF tick[i] = "clear" THEN Approvals(signal) ELSE {}
<1>2. PICK ts \in Listings(S) :
        /\ Len(orders) + Len(ts) <= scene.orders
        /\ orders' = orders \o [k \in 1..Len(ts) |-> OrderFor(ts[k], signal[ts[k]])]
        /\ queue' = queue \cup {Len(orders) + k : k \in 1..Len(ts)}
  BY <1>1
<1>3. S = {} \/ S = Approvals(signal)
  OBVIOUS
<1> HIDE DEF S
<1> DEFINE os == [k \in 1..Len(ts) |-> OrderFor(ts[k], signal[ts[k]])]
<1>4. /\ S \subseteq Tickers /\ ts \in Seq(S) /\ Len(ts) \in Nat
      /\ \A k \in 1..Len(ts) : ts[k] \in S
      /\ \A k, j \in 1..Len(ts) : ts[k] = ts[j] => k = j
      /\ os \in Seq(OrderRecord) /\ Len(os) = Len(ts)
  BY <1>2, <1>3, OrdersOfTick
<1>5. \A k \in 1..Len(ts) : os[k] = OrderFor(ts[k], signal[ts[k]])
  OBVIOUS
<1>6. orders' = orders \o os
  BY <1>2
<1> HIDE DEF os
<1>7. orders \in Seq(OrderRecord) /\ Len(orders) \in Nat
  BY OrderTypes DEF Typed, TypeOK, OrderRecord
<1>8. /\ orders' \in Seq(OrderRecord) /\ Len(orders') = Len(orders) + Len(os)
      /\ \A n \in 1..(Len(orders) + Len(os)) :
            orders'[n] = IF n <= Len(orders) THEN orders[n] ELSE os[n - Len(orders)]
  <2>1. os \in Seq(OrderRecord) /\ orders \in Seq(OrderRecord)
    BY <1>4, <1>7
  <2>2. /\ (orders \o os) \in Seq(OrderRecord) /\ Len(orders \o os) = Len(orders) + Len(os)
        /\ \A n \in 1..(Len(orders) + Len(os)) :
              (orders \o os)[n] = IF n <= Len(orders) THEN orders[n] ELSE os[n - Len(orders)]
    BY <2>1, ConcatProperties
  <2>3. QED
    BY <1>6, <2>2, Zenon
<1>9. Len(orders') <= MaxOrders
  <2>1. scene.orders \in 0..MaxOrders
    BY TradingAssumption DEF Typed, TypeOK, Scene
  <2>2. QED
    BY <1>2, <1>4, <1>7, <1>8, <2>1, TradingAssumption
<1>10. \A n \in 1..Len(orders) : orders'[n] = orders[n]
  BY <1>4, <1>7, <1>8
<1>11. \A k \in 1..Len(ts) : orders'[Len(orders) + k] = OrderFor(ts[k], signal[ts[k]])
  <2> SUFFICES ASSUME NEW k \in 1..Len(ts) PROVE orders'[Len(orders) + k] = os[k]
    BY <1>5
  <2>1. /\ Len(orders) + k \in 1..(Len(orders) + Len(os)) /\ ~(Len(orders) + k <= Len(orders))
        /\ (Len(orders) + k) - Len(orders) = k
    BY <1>4, <1>7
  <2>2. QED
    BY <1>8, <2>1
<1>12. queue' = queue \cup (Len(orders) + 1)..Len(orders')
  <2>1. {Len(orders) + k : k \in 1..Len(ts)} = (Len(orders) + 1)..Len(orders')
    <3>1. ASSUME NEW m \in (Len(orders) + 1)..Len(orders')
          PROVE  m - Len(orders) \in 1..Len(ts) /\ m = Len(orders) + (m - Len(orders))
      BY <1>4, <1>7, <1>8
    <3>2. ASSUME NEW k \in 1..Len(ts) PROVE Len(orders) + k \in (Len(orders) + 1)..Len(orders')
      BY <1>4, <1>7, <1>8
    <3>3. QED
      BY <3>1, <3>2
  <2>2. QED
    BY <1>2, <2>1
<1>13. S \in SUBSET Tickers /\ ts \in Seq(S)
  BY <1>4
<1>14. QED
  BY ZenonT(60), <1>2, <1>3, <1>4, <1>8, <1>9, <1>10, <1>11, <1>12, <1>13

\* The two halves of a tick keep the types: an approved order is a new row with
\* a positive quantity (tick, run_gates).
LEMMA TypedTicks == Typed /\ Ticks => Typed'
<1> SUFFICES ASSUME Typed, NEW i \in Intervals, TickStarts(i) \/ TickEnds(i) PROVE Typed'
  BY DEF Ticks
<1>1. CASE TickStarts(i)
  <2>1. UNCHANGED <<exchangeVars, dbVars, queue, drain, monitors, taskOf, envVars>>
    BY <1>1 DEF TickStarts
  <2>2. tick' \in [Intervals -> {"idle", "clear", "halted"}]
    BY <1>1 DEF TickStarts, Typed, TypeOK
  <2>3. TypeOK'
    BY <2>1, <2>2 DEF Typed, TypeOK, exchangeVars, dbVars, envVars
  <2>4. References'
    BY <2>1 DEF Typed, References, RegisteredTaskAlive, OfTicker, exchangeVars, dbVars
  <2>5. QED
    BY <2>3, <2>4 DEF Typed
<1>2. CASE TickEnds(i)
  <2>1. /\ orders' \in Seq(OrderRecord) /\ Len(orders') \in Nat /\ Len(orders') >= Len(orders)
        /\ Len(orders') <= MaxOrders
        /\ \A n \in 1..Len(orders) : orders'[n] = orders[n]
        /\ queue' = queue \cup (Len(orders) + 1)..Len(orders')
    BY <1>2, TickAppends, OrderTypes DEF Typed
  <2>2. tick' \in [Intervals -> {"idle", "clear", "halted"}]
    BY <1>2 DEF TickEnds, Typed, TypeOK
  <2>3. UNCHANGED <<exchangeVars, rows, journal, drain, monitors, taskOf, envVars>>
    BY <1>2 DEF TickEnds
  <2>4. Len(orders) \in Nat
    BY OrderTypes DEF Typed
  <2>5. queue' \subseteq 1..Len(orders')
    <3>1. queue \subseteq 1..Len(orders)
      BY DEF Typed, TypeOK
    <3>2. 1..Len(orders) \subseteq 1..Len(orders') /\ (Len(orders) + 1)..Len(orders') \subseteq 1..Len(orders')
      BY <2>1, <2>4
    <3>3. queue' = queue \cup (Len(orders) + 1)..Len(orders')
      BY <2>1
    <3>4. QED
      BY <3>1, <3>2, <3>3
  <2>6. TypeOK'
    BY <2>1, <2>2, <2>3, <2>5 DEF Typed, TypeOK, OrderRecord, exchangeVars, envVars
  <2>7. 1..Len(orders) \subseteq 1..Len(orders')
    BY <2>1, <2>4
  <2>8. \A n, u : OfTicker(n, u) => OfTicker(n, u)'
    BY <2>1, <2>7 DEF OfTicker
  <2>9. References'
    BY <2>3, <2>7, <2>8 DEF Typed, References, RegisteredTaskAlive, exchangeVars
  <2>10. QED
    BY <2>6, <2>9 DEF Typed
<1>3. QED
  BY <1>1, <1>2

\* Cooldowns end; the kill switch is set and released.
LEMMA TypedEnvironment == Typed /\ Environment => Typed'
<1> SUFFICES ASSUME Typed, Environment PROVE Typed'
  OBVIOUS
<1>1. ASSUME NEW t \in Tickers, CooldownExpires(t) PROVE Typed'
  <2> DEFINE r == [rows[t] EXCEPT !.cooling = FALSE]
  <2>1. rows \in [Tickers -> Row]
    BY DEF Typed, TypeOK
  <2>2. rows' = [rows EXCEPT ![t] = r] /\ UNCHANGED <<exchangeVars, orders, journal, taskVars, envVars>>
    BY <1>1, <2>1 DEF CooldownExpires, Row
  <2>3. r \in Row /\ r.oco = rows[t].oco
    BY <2>1 DEF Row
  <2> HIDE DEF r
  <2>4. rows' \in [Tickers -> Row] /\ \A u \in Tickers : rows'[u].oco = rows[u].oco
    BY <2>1, <2>2, <2>3
  <2>5. TypeOK'
    BY <2>2, <2>4 DEF Typed, TypeOK, exchangeVars, taskVars, envVars
  <2>6. References'
    BY <2>2, <2>4 DEF Typed, References, RegisteredTaskAlive, OfTicker, exchangeVars, taskVars
  <2>7. QED
    BY <2>5, <2>6 DEF Typed
<1>2. ASSUME NEW on \in BOOLEAN, SetHalt(on) PROVE Typed'
  <2>1. UNCHANGED <<exchangeVars, dbVars, taskVars, up, fetched, crashes, scene>> /\ halt' = on
    BY <1>2 DEF SetHalt
  <2>2. TypeOK'
    BY <2>1 DEF Typed, TypeOK, exchangeVars, dbVars, taskVars
  <2>3. References'
    BY <2>1 DEF Typed, References, RegisteredTaskAlive, OfTicker, exchangeVars, dbVars, taskVars
  <2>4. QED
    BY <2>2, <2>3 DEF Typed
<1>3. QED
  BY <1>1, <1>2, TypedExchange DEF Environment

\* The process dies, at once or between two commits.
LEMMA DieTypes ==
    ASSUME Typed, Die
    PROVE  /\ UNCHANGED <<exchangeVars, halt, fetched, scene>>
           /\ queue' = {} /\ drain' = IdleDrain /\ drain'.pc = "idle" /\ drain' \in DrainRecord
           /\ monitors' \in [Ids -> MonitorRecord] /\ \A n \in Ids : monitors'[n].pc = "none"
           /\ taskOf' \in [Tickers -> {0} \cup Ids] /\ \A t \in Tickers : taskOf'[t] = 0
           /\ tick' \in [Intervals -> {"idle", "clear", "halted"}]
           /\ up' = "down" /\ crashes' \in 0..scene.crashes
<1>1. crashes \in 0..scene.crashes /\ scene.crashes \in Nat /\ crashes < scene.crashes
  BY TradingAssumption DEF Typed, TypeOK, Scene, Die
<1>2. crashes' \in 0..scene.crashes
  BY <1>1 DEF Die
<1>3. monitors' \in [Ids -> MonitorRecord] /\ \A n \in Ids : monitors'[n].pc = "none"
  BY ConstantTypes DEF Die
<1>4. QED
  BY <1>2, <1>3, ConstantTypes DEF Die

\* What a crash between two commits leaves of the tables.
LEMMA CutShortTypes ==
    ASSUME Typed, BuyCutShort \/ SaleCutShort \/ \E n \in Ids : CloseCutShort(n)
    PROVE  /\ orders' \in Seq(OrderRecord) /\ Len(orders') = Len(orders)
           /\ \A n \in 1..Len(orders) :
                /\ orders'[n].ticker = orders[n].ticker
                /\ orders'[n].side = orders[n].side /\ orders'[n].qty = orders[n].qty
           /\ rows' \in [Tickers -> Row]
           /\ \A t \in Tickers : rows'[t].oco # 0 =>
                rows'[t].oco = rows[t].oco /\ (IsOpen(rows[t]) => IsOpen(rows'[t]))
<1>1. rows \in [Tickers -> Row] /\ orders \in Seq(OrderRecord)
  BY DEF Typed, TypeOK, OrderRecord
<1>2. CASE BuyCutShort
  <2>1. drain.id \in 1..Len(orders) /\ Order.ticker \in Tickers
    BY <1>2, DrainTypes DEF BuyCutShort
  <2> DEFINE r == RowAfterBuy(rows[Order.ticker], drain.id)
  <2>2. r \in Row /\ r.oco \in {rows[Order.ticker].oco, 0} /\ (IsOpen(rows[Order.ticker]) => IsOpen(r))
    <3>1. rows[Order.ticker] \in Row /\ orders[drain.id].qty \in Nat
      BY <1>1, <2>1, OrderTypes DEF Typed
    <3>2. QED
      BY <1>1, <2>1, <3>1, RowAfterBuyTypes DEF IsOpen, Row
  <2>3. rows' \in {rows, [rows EXCEPT ![Order.ticker] = r]} /\ RecordFill
    BY <1>2 DEF BuyCutShort
  <2> HIDE DEF r
  <2>4. QED
    BY <1>1, <2>1, <2>2, <2>3, RecordFillTypes DEF Typed
<1>3. ASSUME NEW t, rows' \in {rows} \cup PartlyClosed(t)
      PROVE  /\ rows' \in [Tickers -> Row]
             /\ \A u \in Tickers : rows'[u].oco # 0 => rows'[u] = rows[u]
  BY <1>1, <1>3, ConstantTypes DEF PartlyClosed
<1>4. CASE SaleCutShort
  <2>1. drain.id \in 1..Len(orders)
    BY <1>4, DrainTypes DEF SaleCutShort
  <2>2. RecordFill \/ UNCHANGED orders
    BY <1>4 DEF SaleCutShort
  <2>3. rows' \in {rows} \cup PartlyClosed(Order.ticker)
    BY <1>4 DEF SaleCutShort
  <2>4. QED
    BY <1>1, <1>3, <2>1, <2>2, <2>3, RecordFillTypes DEF Typed
<1>5. ASSUME NEW n \in Ids, CloseCutShort(n)
      PROVE  rows' \in {rows} \cup PartlyClosed(orders[n].ticker) /\ UNCHANGED orders
  BY <1>5 DEF CloseCutShort
<1>6. QED
  BY <1>1, <1>2, <1>3, <1>4, <1>5

\* A crash, between steps or between the commits of one, keeps the types.
LEMMA TypedCrashes == Typed /\ (Crash \/ CrashMidway) => Typed'
<1> SUFFICES ASSUME Typed, Crash \/ CrashMidway PROVE Typed'
  OBVIOUS
<1>1. Die
  BY DEF Crash, CrashMidway
<1>2. /\ orders' \in Seq(OrderRecord) /\ Len(orders') = Len(orders)
      /\ \A n \in 1..Len(orders) : orders'[n].ticker = orders[n].ticker
      /\ rows' \in [Tickers -> Row]
      /\ \A t \in Tickers : rows'[t].oco # 0 => rows'[t].oco = rows[t].oco
      /\ journal' = journal
  <2>1. CASE Crash
    BY <2>1 DEF Crash, dbVars, Typed, TypeOK, OrderRecord
  <2>2. CASE CrashMidway
    BY <2>2, CutShortTypes DEF CrashMidway
  <2>3. QED
    BY <2>1, <2>2
<1>3. TypeOK'
  BY ZenonT(60), <1>1, <1>2, DieTypes DEF Typed, TypeOK, OrderRecord, MonitorRecord, DrainRecord, exchangeVars
<1>4. \A n, u : OfTicker(n, u) => OfTicker(n, u)'
  BY <1>2 DEF OfTicker
<1>5. References'
  BY <1>1, <1>2, <1>4, DieTypes DEF Typed, References, RegisteredTaskAlive, exchangeVars
<1>6. QED
  BY <1>3, <1>5 DEF Typed

\* Reconciliation keeps a row's bracket or deletes it with the row.
LEMMA ReconciledTypes ==
    ASSUME NEW row \in Row, NEW q \in Nat
    PROVE  /\ Reconciled(row, q) \in Row
           /\ Reconciled(row, q).oco \in {row.oco, 0}
           /\ row.present /\ q # 0 => Reconciled(row, q).oco = row.oco
           /\ row.qty > 0 /\ row.present => Reconciled(row, q).qty = q
           /\ q > 0 => Reconciled(row, q).qty = q /\ Reconciled(row, q).present
           /\ Reconciled(row, q).cooling => row.cooling
           /\ Reconciled(row, q) \in {NoRow, row} \/ Reconciled(row, q).present
           /\ (row.oco # 0 => IsOpen(row)) => (Reconciled(row, q).oco # 0 => IsOpen(Reconciled(row, q)))
<1> DEFINE new == [NoRow EXCEPT !.present = TRUE, !.qty = q, !.cooling = row.cooling]
<1>1. new \in Row /\ new.oco = 0 /\ new.qty = q /\ new.cooling = row.cooling /\ new.present
  BY DEF NoRow, Row
<1>2. Reconciled(row, q) =
        IF q = 0 THEN IF IsOpen(row) THEN NoRow ELSE row
        ELSE IF row.present /\ row.qty = q THEN row
        ELSE IF row.present THEN [row EXCEPT !.qty = new.qty, !.cooling = new.cooling] ELSE new
  BY DEF Reconciled, Upsert
<1> HIDE DEF new
<1>3. /\ NoRow \in Row /\ NoRow.oco = 0 /\ NoRow.qty = 0 /\ NoRow.cooling = FALSE
  BY ConstantTypes DEF NoRow
<1>4. CASE q = 0
  BY <1>2, <1>3, <1>4 DEF IsOpen, Row
<1>5. CASE q # 0
  <2>1. IsOpen(Reconciled(row, q)) /\ Reconciled(row, q).qty = q
    BY <1>1, <1>2, <1>5 DEF IsOpen, Row
  <2>2. /\ Reconciled(row, q) \in Row /\ Reconciled(row, q).present
        /\ Reconciled(row, q).oco = IF row.present THEN row.oco ELSE 0
        /\ Reconciled(row, q).cooling = row.cooling
    BY <1>1, <1>2, <1>5 DEF Row
  <2>3. QED
    BY <1>5, <2>1, <2>2 DEF IsOpen
<1>6. QED
  BY <1>4, <1>5

\* Start-up watches the bracket of every row, each under its ticker.
LEMMA ReattachTypes ==
    ASSUME Typed, up = "starting", rows' \in [Tickers -> Row],
           \A t \in Tickers : rows'[t].oco # 0 => OfTicker(rows'[t].oco, t), Reattach
    PROVE  /\ monitors' \in [Ids -> MonitorRecord] /\ taskOf' \in [Tickers -> {0} \cup Ids]
           /\ \A t \in Tickers : taskOf'[t] = rows'[t].oco
           /\ \A n \in Ids : monitors'[n].pc \in {"none", "poll"}
           /\ \A n \in Ids : monitors'[n].pc # "none" =>
                \E t \in Tickers : rows'[t].oco = n /\ monitors'[n].qty = rows'[t].qty
           /\ \A t \in Tickers : rows'[t].oco # 0 => monitors'[rows'[t].oco].pc = "poll"
<1>1. taskOf' \in [Tickers -> {0} \cup Ids] /\ \A t \in Tickers : taskOf'[t] = rows'[t].oco
  BY DEF Reattach, Row
<1>2. ASSUME NEW n \in Ids, NEW t \in Tickers, rows'[t].oco = n
      PROVE  /\ monitors'[n] \in MonitorRecord /\ monitors'[n].pc = "poll"
             /\ monitors'[n].qty = rows'[t].qty
  <2>1. n # 0
    BY TradingAssumption DEF Ids
  <2>2. PICK u \in Tickers : /\ rows'[u].oco = n
                             /\ monitors'[n] = [NoMonitor EXCEPT !.pc = "poll", !.qty = rows'[u].qty,
                                                                 !.model = rows'[u].model]
    BY <1>2 DEF Reattach
  <2>3. u = t
    BY <1>2, <2>1, <2>2 DEF OfTicker
  <2>4. rows'[u].qty \in Nat /\ rows'[u].model \in BOOLEAN
    BY SMTT(60) DEF Row
  <2>5. QED
    BY <2>2, <2>3, <2>4 DEF NoMonitor, MonitorRecord, MonitorPcs, LegStates
<1>3. ASSUME NEW n \in Ids, ~\E t \in Tickers : rows'[t].oco = n
      PROVE  monitors'[n] \in MonitorRecord /\ monitors'[n].pc = "none"
  BY <1>3, ConstantTypes DEF Reattach
<1>4. monitors' \in [Ids -> MonitorRecord]
  <2>1. \A n \in Ids : monitors'[n] \in MonitorRecord
    BY <1>2, <1>3
  <2>2. \E f : monitors' = [n \in Ids |-> f[n]]
    <3>1. monitors' = [n \in Ids |-> monitors'[n]]
      BY DEF Reattach
    <3>2. QED
      BY SMTT(60), <3>1
  <2>3. QED
    BY <2>1, <2>2
<1>5. \A t \in Tickers : rows'[t].oco # 0 => rows'[t].oco \in Ids
  BY DEF Row
<1>6. QED
  BY <1>1, <1>2, <1>3, <1>4, <1>5

\* Start-up keeps the types: reconciled rows and re-attached monitors.
LEMMA TypedRestart == Typed /\ Restart => Typed'
<1> SUFFICES ASSUME Typed, Restart PROVE Typed'
  OBVIOUS
<1>1. CASE StartUp
  <2>1. UNCHANGED <<exchangeVars, dbVars, taskVars, crashes, scene>>
    BY <1>1 DEF StartUp
  <2>2. up' = "starting" /\ halt' = TRUE /\ fetched' \in [Tickers -> Nat]
    BY <1>1 DEF StartUp, Typed, TypeOK
  <2>3. TypeOK'
    BY <2>1, <2>2 DEF Typed, TypeOK, exchangeVars, dbVars, taskVars
  <2>4. References'
    BY <2>1 DEF Typed, References, RegisteredTaskAlive, OfTicker, exchangeVars, dbVars, taskVars
  <2>5. QED
    BY <2>3, <2>4 DEF Typed
<1>2. CASE StartedUp
  <2>1. rows \in [Tickers -> Row] /\ fetched \in [Tickers -> Nat]
    BY DEF Typed, TypeOK
  <2>2. rows' \in [Tickers -> Row] /\ \A t \in Tickers : rows'[t].oco \in {rows[t].oco, 0}
    <3>1. CASE rows' = rows
      BY <2>1, <3>1
    <3>2. CASE rows' = [t \in Tickers |-> Reconciled(rows[t], fetched[t])]
      BY <2>1, <3>2, ReconciledTypes
    <3>3. QED
      BY <1>2, <3>1, <3>2 DEF StartedUp
  <2>3. \A t \in Tickers : rows'[t].oco # 0 => OfTicker(rows'[t].oco, t)
    BY <2>2 DEF Typed, References
  <2>4. up = "starting" /\ Reattach
    BY <1>2 DEF StartedUp
  <2>5. UNCHANGED <<exchangeVars, orders, journal, queue, drain, tick, halt, fetched, crashes, scene>> /\ up' = "up"
    BY <1>2 DEF StartedUp
  <2>6. TypeOK'
    <3>1. monitors' \in [Ids -> MonitorRecord] /\ taskOf' \in [Tickers -> {0} \cup Ids]
      BY <2>2, <2>3, <2>4, ReattachTypes
    <3>2. QED
      BY <2>2, <2>5, <3>1 DEF Typed, TypeOK, MonitorRecord, exchangeVars
  <2>7. \A n \in Ids : monitors'[n].pc # "none" => n \in 1..Len(orders)
    <3> SUFFICES ASSUME NEW n \in Ids, monitors'[n].pc # "none" PROVE n \in 1..Len(orders)
      OBVIOUS
    <3>1. PICK t \in Tickers : rows'[t].oco = n
      BY <2>2, <2>3, <2>4, ReattachTypes
    <3>2. n # 0
      BY TradingAssumption DEF Ids
    <3>3. QED
      BY <2>3, <3>1, <3>2 DEF OfTicker
  <2>8. RegisteredTaskAlive'
    BY <2>2, <2>3, <2>4, <2>5, ReattachTypes DEF RegisteredTaskAlive, OfTicker
  <2>9. References'
    BY <2>3, <2>5, <2>7, <2>8 DEF Typed, References, OfTicker, exchangeVars
  <2>10. QED
    BY <2>6, <2>9 DEF Typed
<1>3. QED
  BY <1>1, <1>2 DEF Restart

\* The types hold, and ids refer to orders, in every step of the trading loop.
LEMMA TypedStep == Typed /\ [Next]_vars => Typed'
<1>1. Typed /\ UNCHANGED vars => Typed'
  BY ZenonT(60) DEF Typed, TypeOK, References, RegisteredTaskAlive, OfTicker, vars, exchangeVars, dbVars, taskVars, envVars
<1>2. QED
  <2> SUFFICES ASSUME Typed, Next PROVE Typed'
    BY <1>1
  <2>1. ASSUME NEW n \in Ids, Monitor(n) PROVE Typed'
    BY <2>1, TypedMonitor
  <2>2. Ticks \/ Drain \/ Environment \/ Crash \/ CrashMidway \/ Restart => Typed'
    BY TypedTicks, TypedDrain, TypedEnvironment, TypedCrashes, TypedRestart
  <2>3. QED
    BY <2>1, <2>2 DEF Next

\* Types: every order has a positive quantity and the account is never short.
THEOREM TradingTypes == Spec => []TypeOK
<1>1. Spec => []Typed
  BY TypedInit, TypedStep, PTL DEF Spec
<1>2. Typed => TypeOK
  BY DEF Typed
<1>3. QED
  BY <1>1, <1>2, PTL

-----------------------------------------------------------------------------
(***************************************************************************)
(* Execution.  The invariant says where an order is on its way through the *)
(* queue, the exchange and the tables, and what a monitor has seen.        *)
(***************************************************************************)
NoLegs(n) == legs[n] = [k \in LegKinds |-> "none"]

\* The orders that have not reached the tables yet.
Unrecorded ==
    queue \cup {n \in Ids : drain.id = n /\ drain.pc \in {"market", "stop", "limit", "survivor", "result"}}

\* An order is in the queue, with the drain task or behind it, never in two
\* places, and it is not executed before it is submitted.
ExecutedOnce ==
    /\ queue \cap executed = {}
    /\ drain.pc # "idle" => drain.id \notin queue
    /\ drain.pc = "market" => drain.id \notin executed

\* Legs are placed once, after the market order and before the row names them.
BracketOrder ==
    /\ \A n \in queue : NoLegs(n)
    /\ drain.pc \in {"market", "stop"} => NoLegs(drain.id)
    /\ drain.pc = "limit" => legs[drain.id]["limit"] = "none"
    /\ \A t \in Tickers : rows[t].oco \notin Unrecorded
    /\ \A n \in Ids : monitors[n].pc # "none" => n \notin Unrecorded

\* What a monitor remembers of a leg that is at its end is still so.
SeenTrue ==
    \A n \in Ids :
        /\ monitors[n].pc = "read" /\ monitors[n].seen \in {"filled", "dead"} =>
               legs[n]["stop"] = monitors[n].seen
        /\ monitors[n].pc = "cancelLimit" => legs[n]["stop"] \in {"filled", "dead"}
        /\ monitors[n].pc = "cancelStop" => legs[n]["limit"] \in {"filled", "dead"}

\* A recorded bracket protects a BUY of an open position, and its monitor knows
\* at least the quantity of that BUY.
BracketsProtect ==
    /\ \A n \in 1..Len(orders) : orders[n].side = "BUY" => orders[n].qty = 1
    /\ \A t \in Tickers : rows[t].oco # 0 => IsOpen(rows[t]) /\ orders[rows[t].oco].side = "BUY"
    /\ \A n \in Ids : monitors[n].pc # "none" => monitors[n].qty >= 1 /\ orders[n].side = "BUY"
    /\ drain.pc \in {"stop", "limit", "survivor"} => drain.status = "filled" /\ Order.side = "BUY"
    /\ drain.pc \in {"cancelStop", "cancelLimit", "closing"} =>
           drain.pos.oco # 0 /\ drain.status = "filled" /\ Order.side = "SELL"

\* A bracket without a monitor is being cancelled, stop first, then limit.
Watched ==
    Barring({"uncancelled"}) =>
        /\ BracketsWatched
        /\ drain.pc \in {"cancelLimit", "closing"} => legs[drain.pos.oco]["stop"] # "open"
        /\ drain.pc = "closing" => legs[drain.pos.oco]["limit"] # "open"

\* A result that is filled is an execution, and so is what is journalled.
Backed ==
    /\ \A e \in journal : e.id \in 1..Len(orders)
    /\ Barring({"rejected"}) => (drain.pc # "idle" /\ drain.status = "filled" => drain.id \in executed)
    /\ EntriesBacked

Sound ==
    Typed /\ ExecutedOnce /\ BracketOrder /\ SeenTrue /\ BracketsProtect /\ Watched /\ Backed

\* The layer holds at the start: there is no order yet.
LEMMA SoundInit == Init => Sound
<1> SUFFICES ASSUME Init PROVE Sound
  OBVIOUS
<1>1. Typed /\ drain.pc = "idle" /\ queue = {} /\ executed = {} /\ journal = {} /\ Len(orders) = 0
  BY TypedInit, ConstantTypes DEF Init
<1>2. \A t \in Tickers : rows[t].oco = 0
  BY ConstantTypes DEF Init
<1>3. \A n \in Ids : monitors[n].pc = "none"
  BY ConstantTypes DEF Init
<1>4. Unrecorded = {}
  BY <1>1 DEF Unrecorded
<1>5. ExecutedOnce /\ BracketOrder /\ SeenTrue
  BY <1>1, <1>2, <1>3, <1>4 DEF ExecutedOnce, BracketOrder, SeenTrue
<1>6. BracketsProtect
  BY <1>1, <1>2, <1>3 DEF BracketsProtect
<1>7. Watched /\ Backed
  BY <1>1, <1>2 DEF Watched, Backed, BracketsWatched, EntriesBacked
<1>8. QED
  BY <1>1, <1>5, <1>6, <1>7 DEF Sound

\* The exchange moves open legs only.
LEMMA ExchangeMoves ==
    ASSUME Typed, Exchange
    PROVE  /\ \A n \in Ids, k \in LegKinds :
                \/ legs'[n][k] = legs[n][k]
                \/ legs[n][k] = "open" /\ legs'[n][k] \in {"filled", "dead"}
           /\ \A n \in Ids : NoLegs(n) => NoLegs(n)'
           /\ \A n \in Ids : HasLeg(n, "filled") => HasLeg(n, "filled")'
           /\ UNCHANGED <<executed, dbVars, taskVars, envVars>>
<1> SUFFICES ASSUME NEW n \in Ids, NEW k \in LegKinds,
                    LegFills(n, k) \/ LegBounces(n, k) \/ LegRevoked(n, k)
             PROVE  /\ \A m \in Ids, j \in LegKinds :
                         \/ legs'[m][j] = legs[m][j]
                         \/ legs[m][j] = "open" /\ legs'[m][j] \in {"filled", "dead"}
                    /\ \A m \in Ids : NoLegs(m) => NoLegs(m)'
                    /\ \A m \in Ids : HasLeg(m, "filled") => HasLeg(m, "filled")'
                    /\ UNCHANGED <<executed, dbVars, taskVars, envVars>>
  BY DEF Exchange
<1>1. legs \in [Ids -> [LegKinds -> LegStates]]
  BY DEF Typed, TypeOK
<1>2. legs[n][k] = "open" /\ UNCHANGED <<executed, dbVars, taskVars, envVars>>
  BY DEF LegFills, LegBounces, LegRevoked
<1>3. PICK s \in {"filled", "dead"} : legs' = [legs EXCEPT ![n][k] = s]
  BY DEF LegFills, LegBounces, LegRevoked
<1>4. \A m \in Ids, j \in LegKinds :
        \/ legs'[m][j] = legs[m][j]
        \/ legs[m][j] = "open" /\ legs'[m][j] \in {"filled", "dead"}
  BY <1>1, <1>2, <1>3
<1>5. \A m \in Ids : NoLegs(m) => NoLegs(m)'
  BY <1>1, <1>2, <1>3 DEF NoLegs
<1>6. \A m \in Ids : HasLeg(m, "filled") => HasLeg(m, "filled")'
  BY <1>4 DEF HasLeg
<1>7. QED
  BY <1>2, <1>4, <1>5, <1>6

\* Steps in which legs come to an end and nothing else of these facts changes.
LEMMA SoundLegs ==
    ASSUME Sound, Typed',
           \A n \in Ids, k \in LegKinds :
                \/ legs'[n][k] = legs[n][k]
                \/ legs[n][k] = "open" /\ legs'[n][k] \in {"filled", "dead"},
           \A n \in Ids : NoLegs(n) => NoLegs(n)',
           UNCHANGED <<executed, orders, journal, queue, drain, monitors, up, scene>>,
           \A t \in Tickers : rows'[t].oco = rows[t].oco /\ (IsOpen(rows[t]) => IsOpen(rows[t])')
    PROVE  Sound'
<1>1. /\ rows \in [Tickers -> Row] /\ queue \subseteq Ids /\ executed \subseteq Ids
      /\ drain \in DrainRecord /\ drain.pos.oco \in {0} \cup Ids
      /\ \A t \in Tickers : rows[t].oco \in {0} \cup Ids
  BY OrderTypes DEF Sound, Typed, TypeOK, DrainRecord, Row
<1>2. drain.pc # "idle" => drain.id \in Ids
  BY DrainTypes DEF Sound
<1>3. ExecutedOnce'
  BY DEF Sound, ExecutedOnce
<1>4. Unrecorded' = Unrecorded
  BY DEF Unrecorded
<1>5. BracketOrder'
  <2>1. \A n \in queue : NoLegs(n)'
    BY <1>1 DEF Sound, BracketOrder
  <2>2. drain.pc \in {"market", "stop"} => NoLegs(drain.id)'
    BY <1>2 DEF Sound, BracketOrder
  <2>3. drain.pc = "limit" => legs'[drain.id]["limit"] = "none"
    BY <1>2 DEF Sound, BracketOrder, LegKinds
  <2>4. /\ \A t \in Tickers : rows'[t].oco \notin Unrecorded
        /\ \A n \in Ids : monitors[n].pc # "none" => n \notin Unrecorded
    BY DEF Sound, BracketOrder
  <2>5. QED
    BY <1>4, <2>1, <2>2, <2>3, <2>4 DEF BracketOrder, NoLegs
<1>6. SeenTrue'
  BY DEF Sound, SeenTrue, LegKinds
<1>7. BracketsProtect'
  BY DEF Sound, BracketsProtect, Order
<1>8. \A n \in Ids : (HasLeg(n, "open")' => HasLeg(n, "open")) /\ (HasLeg(n, "filled") => HasLeg(n, "filled")')
  BY DEF HasLeg
<1>9. Watched'
  <2> SUFFICES ASSUME Barring({"uncancelled"})' PROVE
        /\ BracketsWatched'
        /\ drain.pc \in {"cancelLimit", "closing"} => legs'[drain.pos.oco]["stop"] # "open"
        /\ drain.pc = "closing" => legs'[drain.pos.oco]["limit"] # "open"
    BY DEF Watched
  <2>1. Barring({"uncancelled"})
    BY DEF Barring
  <2>2. BracketsWatched'
    BY <1>1, <1>8, <2>1 DEF Sound, Watched, BracketsWatched, CancellingBracket, Barring
  <2>3. drain.pc \in {"cancelLimit", "closing"} => drain.pos.oco \in Ids
    BY <1>1 DEF Sound, BracketsProtect
  <2>4. QED
    BY <2>1, <2>2, <2>3 DEF Sound, Watched, LegKinds
<1>10. Backed'
  <2>1. \A e \in journal : e.id \in Ids
    BY DEF Sound, Typed, TypeOK
  <2>2. QED
    BY <1>8, <2>1 DEF Sound, Backed, EntriesBacked, Barring
<1>11. QED
  BY <1>3, <1>5, <1>6, <1>7, <1>9, <1>10 DEF Sound

\* What the exchange and the operator do on their own keeps it.
LEMMA SoundEnvironment == Sound /\ Environment => Sound'
<1> SUFFICES ASSUME Sound, Environment PROVE Sound'
  OBVIOUS
<1>1. Typed /\ Typed'
  BY TypedEnvironment DEF Sound
<1>2. CASE Exchange
  BY <1>1, <1>2, ExchangeMoves, SoundLegs DEF dbVars, taskVars, envVars
<1>3. ASSUME NEW t \in Tickers, CooldownExpires(t) PROVE Sound'
  <2>1. UNCHANGED <<exchangeVars, orders, journal, taskVars, envVars>>
    BY <1>3 DEF CooldownExpires
  <2>2. \A u \in Tickers : rows'[u].oco = rows[u].oco /\ (IsOpen(rows[u]) => IsOpen(rows[u])')
    BY SMTT(60), <1>1, <1>3 DEF CooldownExpires, IsOpen, Typed, TypeOK, Row
  <2>3. QED
    BY <1>1, <2>1, <2>2, SoundLegs DEF exchangeVars, taskVars, envVars, NoLegs
<1>4. ASSUME NEW on \in BOOLEAN, SetHalt(on) PROVE Sound'
  BY <1>1, <1>4, SoundLegs DEF SetHalt, exchangeVars, dbVars, taskVars, NoLegs
<1>5. QED
  BY <1>2, <1>3, <1>4 DEF Environment

\* Ticks keep it: a new order has no history.
LEMMA SoundTicks == Sound /\ Ticks => Sound'
<1> SUFFICES ASSUME Sound, NEW i \in Intervals, TickStarts(i) \/ TickEnds(i) PROVE Sound'
  BY DEF Ticks
<1>1. Typed /\ Typed'
  BY TypedTicks DEF Sound, Ticks
<1>2. CASE TickStarts(i)
  BY <1>1, <1>2, SoundLegs DEF TickStarts, exchangeVars, dbVars, envVars, NoLegs
<1>3. CASE TickEnds(i)
  <2>1. PICK signal \in [scene.tickers -> Signals], S \in SUBSET Tickers : \E ts \in Seq(S) :
             /\ Len(ts) \in Nat
             /\ Len(orders') = Len(orders) + Len(ts)
             /\ \A n \in 1..Len(orders) : orders'[n] = orders[n]
             /\ \A k \in 1..Len(ts) : /\ ts[k] \in S
                                      /\ orders'[Len(orders) + k] = OrderFor(ts[k], signal[ts[k]])
             /\ queue' = queue \cup (Len(orders) + 1)..Len(orders')
    BY <1>1, <1>3, TickAppends
  <2>2. PICK ts \in Seq(S) :
             /\ Len(ts) \in Nat
             /\ Len(orders') = Len(orders) + Len(ts)
             /\ \A n \in 1..Len(orders) : orders'[n] = orders[n]
             /\ \A k \in 1..Len(ts) : /\ ts[k] \in S
                                      /\ orders'[Len(orders) + k] = OrderFor(ts[k], signal[ts[k]])
             /\ queue' = queue \cup (Len(orders) + 1)..Len(orders')
    BY <2>1
  <2>3. UNCHANGED <<exchangeVars, rows, journal, drain, monitors, taskOf, envVars>>
    BY <1>3 DEF TickEnds
  <2> DEFINE New == (Len(orders) + 1)..Len(orders')
  <2>4. /\ Len(orders) \in Nat /\ Len(orders') \in Nat
        /\ \A n \in New : n \notin 1..Len(orders)
        /\ 1..Len(orders) \subseteq 1..Len(orders')
        /\ \A n \in 1..Len(orders') : n \in 1..Len(orders) \/ n \in New
        /\ 1..Len(orders') \subseteq Ids /\ New \subseteq 1..Len(orders')
    <3>1. Len(orders) \in Nat /\ Len(orders') \in Nat /\ Len(orders) <= Len(orders')
      BY <1>1, <2>2, OrderTypes DEF Typed
    <3>2. 1..Len(orders') \subseteq Ids
      <4>1. TypeOK'
        BY <1>1 DEF Typed
      <4>2. Len(orders') <= MaxOrders /\ MaxOrders \in Nat
        BY <4>1, TradingAssumption DEF TypeOK
      <4>3. QED
        BY <3>1, <4>2 DEF Ids
    <3>3. QED
      BY <3>1, <3>2
  <2>5. queue' = queue \cup New
    BY <2>2
  <2>6. \A n \in New : orders'[n].side = "BUY" => orders'[n].qty = 1
    <3> SUFFICES ASSUME NEW n \in New, orders'[n].side = "BUY" PROVE orders'[n].qty = 1
      OBVIOUS
    <3>1. n - Len(orders) \in 1..Len(ts) /\ n = Len(orders) + (n - Len(orders))
      BY <2>2, <2>4
    <3>2. orders'[n] = OrderFor(ts[n - Len(orders)], signal[ts[n - Len(orders)]])
      BY <2>2, <3>1
    <3>3. QED
      BY <3>2 DEF OrderFor
  <2> HIDE DEF New
  <2>7. executed \subseteq 1..Len(orders) /\ (drain.pc # "idle" => drain.id \in 1..Len(orders))
    BY <1>1 DEF Typed, References
  <2>8. ExecutedOnce'
    BY <2>3, <2>4, <2>5, <2>7 DEF Sound, ExecutedOnce, exchangeVars
  <2>9. Unrecorded' = Unrecorded \cup New
    BY <2>3, <2>5 DEF Unrecorded
  <2>10. \A n \in New : NoLegs(n)
    BY <1>1, <2>4 DEF Typed, References, NoLegs
  <2>11. BracketOrder'
    <3>1. \A t \in Tickers : rows[t].oco # 0 => rows[t].oco \in 1..Len(orders)
      BY <1>1 DEF Typed, References, OfTicker
    <3>2. \A t \in Tickers : rows'[t].oco \notin Unrecorded'
      BY <2>3, <2>4, <2>9, <3>1 DEF Sound, BracketOrder
    <3>3. \A n \in Ids : monitors'[n].pc # "none" => n \notin Unrecorded'
      BY <1>1, <2>3, <2>4, <2>9 DEF Sound, BracketOrder, Typed, References
    <3>4. QED
      BY <2>3, <2>5, <2>10, <3>2, <3>3 DEF Sound, BracketOrder, NoLegs, exchangeVars
  <2>12. SeenTrue'
    BY <2>3 DEF Sound, SeenTrue, exchangeVars
  <2>13. BracketsProtect'
    <3>1. \A n \in 1..Len(orders') : orders'[n].side = "BUY" => orders'[n].qty = 1
      BY <2>2, <2>4, <2>6 DEF Sound, BracketsProtect
    <3>2. \A t \in Tickers : rows[t].oco # 0 => rows[t].oco \in 1..Len(orders)
      BY <1>1 DEF Typed, References, OfTicker
    <3>3. \A n \in Ids : monitors[n].pc # "none" => n \in 1..Len(orders)
      BY <1>1 DEF Typed, References
    <3>4. QED
      BY <2>2, <2>3, <2>7, <3>1, <3>2, <3>3 DEF Sound, BracketsProtect, Order
  <2>14. Watched'
    BY <2>3 DEF Sound, Watched, BracketsWatched, CancellingBracket, HasLeg, Barring, exchangeVars, envVars
  <2>15. Backed'
    BY <2>2, <2>3, <2>4 DEF Sound, Backed, EntriesBacked, HasLeg, Barring, exchangeVars, envVars
  <2>16. QED
    BY <1>1, <2>8, <2>11, <2>12, <2>13, <2>14, <2>15 DEF Sound
<1>4. QED
  BY <1>2, <1>3

\* A step of one monitor: the reading it keeps is true, a bracket it leaves is
\* resolved, and what it journals is backed by a filled leg.
LEMMA SoundMonitors ==
    ASSUME Sound, Typed', NEW n \in Ids, monitors[n].pc # "none",
           \A m \in Ids, k \in LegKinds :
                \/ legs'[m][k] = legs[m][k]
                \/ legs[m][k] = "open" /\ legs'[m][k] \in {"filled", "dead"},
           UNCHANGED <<executed, orders, queue, drain, up, scene>>,
           \A m \in Ids : m # n => monitors'[m] = monitors[m],
           monitors'[n].pc # "none" => monitors'[n].qty >= 1,
           monitors'[n].pc = "read" /\ monitors'[n].seen \in {"filled", "dead"} =>
               legs'[n]["stop"] = monitors'[n].seen,
           monitors'[n].pc = "cancelLimit" => legs'[n]["stop"] \in {"filled", "dead"},
           monitors'[n].pc = "cancelStop" => legs'[n]["limit"] \in {"filled", "dead"},
           Barring({"uncancelled"}) /\ monitors'[n].pc = "none" => ~HasLeg(n, "open")',
           \A t \in Tickers : rows'[t] = rows[t] \/ rows'[t].oco = 0,
           \A e \in journal' : \/ e \in journal
                               \/ e.how = "OCO" /\ e.id = n /\ HasLeg(n, "filled")' /\ e.qty >= 1
    PROVE  Sound'
<1>1. /\ rows \in [Tickers -> Row] /\ queue \subseteq Ids /\ executed \subseteq Ids
      /\ drain \in DrainRecord /\ drain.pos.oco \in {0} \cup Ids
      /\ \A t \in Tickers : rows[t].oco \in {0} \cup Ids
      /\ legs \in [Ids -> [LegKinds -> LegStates]] /\ legs' \in [Ids -> [LegKinds -> LegStates]]
      /\ 1..Len(orders) \subseteq Ids
  BY OrderTypes DEF Sound, Typed, TypeOK, DrainRecord, Row
<1>2. n \in 1..Len(orders) /\ orders[n].side = "BUY" /\ orders[n].qty = 1
  BY DEF Sound, Typed, References, BracketsProtect
<1>3. drain.pc # "idle" => drain.id \in Ids
  BY DrainTypes DEF Sound
<1>4. \A m \in Ids : /\ NoLegs(m) => NoLegs(m)'
                     /\ HasLeg(m, "open")' => HasLeg(m, "open")
                     /\ HasLeg(m, "filled") => HasLeg(m, "filled")'
  BY <1>1 DEF NoLegs, HasLeg
<1>5. Unrecorded' = Unrecorded
  BY DEF Unrecorded
<1>6. ExecutedOnce'
  BY DEF Sound, ExecutedOnce
<1>7. BracketOrder'
  <2>1. \A m \in queue : NoLegs(m)'
    BY <1>1, <1>4 DEF Sound, BracketOrder
  <2>2. drain.pc \in {"market", "stop"} => NoLegs(drain.id)'
    BY <1>3, <1>4 DEF Sound, BracketOrder
  <2>3. drain.pc = "limit" => legs'[drain.id]["limit"] = "none"
    BY <1>3 DEF Sound, BracketOrder, LegKinds
  <2>4. 0 \notin Unrecorded
    BY <1>1, TradingAssumption DEF Unrecorded, Ids
  <2>5. \A t \in Tickers : rows'[t].oco \notin Unrecorded
    BY <2>4 DEF Sound, BracketOrder
  <2>6. \A m \in Ids : monitors'[m].pc # "none" => m \notin Unrecorded
    BY DEF Sound, BracketOrder
  <2>7. QED
    BY <1>5, <2>1, <2>2, <2>3, <2>5, <2>6 DEF BracketOrder, NoLegs
<1>8. SeenTrue'
  BY DEF Sound, SeenTrue, LegKinds
<1>9. BracketsProtect'
  BY <1>2 DEF Sound, BracketsProtect, Order
<1>10. Watched'
  <2> SUFFICES ASSUME Barring({"uncancelled"}) PROVE
        /\ BracketsWatched'
        /\ drain.pc \in {"cancelLimit", "closing"} => legs'[drain.pos.oco]["stop"] # "open"
        /\ drain.pc = "closing" => legs'[drain.pos.oco]["limit"] # "open"
    BY DEF Watched, Barring
  <2>1. BracketsWatched'
    <3> SUFFICES ASSUME up = "up", NEW t \in Tickers, rows'[t].oco # 0,
                        NEW k \in LegKinds, legs'[rows'[t].oco][k] = "open"
                 PROVE  monitors'[rows'[t].oco].pc # "none" \/ CancellingBracket(rows'[t].oco)
      BY DEF BracketsWatched, CancellingBracket, HasLeg
    <3>1. rows'[t] = rows[t] /\ rows[t].oco \in Ids
      BY <1>1
    <3>2. CASE rows[t].oco = n
      BY <3>1, <3>2 DEF HasLeg
    <3>3. CASE rows[t].oco # n
      <4>1. HasLeg(rows[t].oco, "open")
        BY <3>1 DEF HasLeg
      <4>2. monitors[rows[t].oco].pc # "none" \/ CancellingBracket(rows[t].oco)
        BY <3>1, <4>1 DEF Sound, Watched, BracketsWatched
      <4>3. QED
        BY <3>1, <3>3, <4>2
    <3>4. QED
      BY <3>2, <3>3
  <2>2. drain.pc \in {"cancelLimit", "closing"} => drain.pos.oco \in Ids
    BY <1>1 DEF Sound, BracketsProtect
  <2>3. QED
    BY <2>1, <2>2 DEF Sound, Watched, LegKinds
<1>11. Backed'
  <2>1. \A e \in journal' : e.id \in 1..Len(orders)
    BY <1>2 DEF Sound, Backed
  <2>2. ASSUME Barring({"rejected"}), NEW e \in journal'
        PROVE  /\ e.how = "SELL" => e.id \in executed
               /\ e.how = "OCO" => HasLeg(e.id, "filled")' /\ e.qty >= orders[e.id].qty
    <3>1. CASE e \in journal
      BY <1>1, <1>4, <2>1, <2>2, <3>1 DEF Sound, Backed, EntriesBacked
    <3>2. CASE e \notin journal
      BY <1>2, <3>2
    <3>3. QED
      BY <3>1, <3>2
  <2>3. EntriesBacked'
    BY <2>2 DEF EntriesBacked, Barring
  <2>4. QED
    BY <2>1, <2>3 DEF Sound, Backed, Barring
<1>12. QED
  BY <1>6, <1>7, <1>8, <1>9, <1>10, <1>11 DEF Sound

\* Polling, the decision on the two readings, and the cancellation that ends it.
LEMMA SoundMonitor == Sound /\ (\E n \in Ids : Monitor(n)) => Sound'
<1> SUFFICES ASSUME Sound, NEW n \in Ids, Monitor(n) PROVE Sound'
  OBVIOUS
<1>1. Typed /\ Typed'
  BY TypedMonitor DEF Sound
<1>2. monitors[n].pc # "none" /\ monitors \in [Ids -> MonitorRecord] /\ legs \in [Ids -> [LegKinds -> LegStates]]
  BY <1>1 DEF Monitor, ReadStop, ReadLimit, CancelOther, Typed, TypeOK, MonitorRecord
<1>3. monitors[n].qty >= 1
  BY <1>2 DEF Sound, BracketsProtect
<1>4. CASE ReadStop(n)
  <2>1. UNCHANGED <<exchangeVars, dbVars, queue, drain, taskOf, tick, envVars>>
    BY <1>4 DEF ReadStop
  <2>2. /\ monitors'[n].pc = "read" /\ monitors'[n].seen = legs[n]["stop"] /\ monitors'[n].qty = monitors[n].qty
        /\ \A m \in Ids : m # n => monitors'[m] = monitors[m]
    BY <1>2, <1>4 DEF ReadStop, MonitorRecord
  <2>3. QED
    BY <1>1, <1>2, <1>3, <2>1, <2>2, SoundMonitors DEF exchangeVars, dbVars, envVars
<1>5. CASE ReadLimit(n)
  <2> DEFINE d == Decision(monitors[n].seen, legs[n]["limit"])
  <2>1. /\ UNCHANGED <<exchangeVars, orders, queue, drain, taskOf, tick, envVars>>
        /\ IF d.close THEN ClosePosition(n) ELSE UNCHANGED dbVars
        /\ monitors[n].pc = "read"
    BY <1>5 DEF ReadLimit, ClosePosition, dbVars
  <2>2. /\ monitors'[n].pc = d.pc /\ monitors'[n].qty = monitors[n].qty
        /\ \A m \in Ids : m # n => monitors'[m] = monitors[m]
    BY <1>2, <1>5 DEF ReadLimit, MonitorRecord
  <2>3. /\ d.pc \in {"poll", "cancelStop", "cancelLimit"}
        /\ d.pc = "cancelLimit" => monitors[n].seen \in {"filled", "dead"}
        /\ d.pc = "cancelStop" => legs[n]["limit"] \in {"filled", "dead"}
        /\ d.close => monitors[n].seen = "filled" \/ legs[n]["limit"] = "filled"
    BY DEF Decision
  <2> HIDE DEF d
  <2>4. monitors[n].seen \in {"filled", "dead"} => legs[n]["stop"] = monitors[n].seen
    BY <2>1 DEF Sound, SeenTrue
  <2>5. d.close => HasLeg(n, "filled")
    BY <2>3, <2>4 DEF HasLeg, LegKinds
  <2>6. \A t \in Tickers : rows'[t] = rows[t] \/ rows'[t].oco = 0
    BY <1>1, <2>1, ConstantTypes DEF ClosePosition, CloseRow, dbVars, Typed, TypeOK
  <2>7. \A e \in journal' : e \in journal \/ (e.how = "OCO" /\ e.id = n /\ HasLeg(n, "filled") /\ e.qty >= 1)
    BY <1>3, <2>1, <2>5 DEF ClosePosition, JournalEntry, dbVars
  <2>8. UNCHANGED <<legs, executed, up, scene>>
    BY <2>1 DEF exchangeVars, envVars
  <2>9. HasLeg(n, "filled")' = HasLeg(n, "filled")
    BY <2>8 DEF HasLeg
  <2>10. QED
    BY <1>1, <1>2, <1>3, <2>1, <2>2, <2>3, <2>4, <2>6, <2>7, <2>8, <2>9, SoundMonitors
<1>6. CASE CancelOther(n)
  <2> DEFINE k == IF monitors[n].pc = "cancelStop" THEN "stop" ELSE "limit"
  <2>1. Cancel(n, k) /\ k \in LegKinds /\ monitors[n].pc \in {"cancelStop", "cancelLimit"}
    BY <1>6 DEF CancelOther, LegKinds
  <2>2. UNCHANGED <<executed, dbVars, queue, drain, up, scene>>
    BY <1>6 DEF CancelOther, envVars
  <2>3. monitors'[n].pc = "none" /\ \A m \in Ids : m # n => monitors'[m] = monitors[m]
    BY <1>2, <1>6, ConstantTypes DEF CancelOther, EndMonitor
  <2>4. \A m \in Ids, j \in LegKinds :
           \/ legs'[m][j] = legs[m][j]
           \/ legs[m][j] = "open" /\ legs'[m][j] \in {"filled", "dead"}
    BY <1>1, <2>1, CancelTypes DEF Typed
  <2>5. Barring({"uncancelled"}) => ~HasLeg(n, "open")'
    <3> SUFFICES ASSUME Barring({"uncancelled"}), NEW j \in LegKinds PROVE legs'[n][j] # "open"
      BY DEF HasLeg
    <3>1. legs'[n][k] # "open"
      BY <1>1, <2>1, CancelTypes DEF Barring, Typed
    <3>2. j # k => legs[n][j] \in {"filled", "dead"}
      BY <2>1 DEF Sound, SeenTrue, LegKinds
    <3>3. QED
      BY <2>4, <3>1, <3>2
  <2> HIDE DEF k
  <2>6. QED
    BY <1>1, <1>2, <2>2, <2>3, <2>4, <2>5, SoundMonitors DEF dbVars
<1>7. QED
  BY <1>4, <1>5, <1>6 DEF Monitor

\* A step of the drain task that leaves the tables and the monitors alone: it may
\* use the legs of the order it works on, and bring other legs to their end.
LEMMA SoundDrainMoves ==
    ASSUME Sound, Typed', queue' \subseteq queue, Unrecorded' \subseteq Unrecorded,
           UNCHANGED <<rows, orders, journal, monitors, up, scene>>, executed \subseteq executed',
           \A m \in Ids, k \in LegKinds : m \notin Unrecorded =>
                \/ legs'[m][k] = legs[m][k]
                \/ legs[m][k] = "open" /\ legs'[m][k] \in {"filled", "dead"},
           \A m \in Ids : HasLeg(m, "filled") => HasLeg(m, "filled")',
           \A m \in queue' : NoLegs(m)',
           ExecutedOnce',
           drain'.pc \in {"market", "stop"} => NoLegs(drain.id)',
           drain'.pc = "limit" => legs'[drain'.id]["limit"] = "none",
           drain'.pc \in {"stop", "limit", "survivor"} => drain'.status = "filled" /\ Order'.side = "BUY",
           drain'.pc \in {"cancelStop", "cancelLimit", "closing"} =>
               drain'.pos.oco # 0 /\ drain'.status = "filled" /\ Order'.side = "SELL",
           Barring({"uncancelled"}) =>
               /\ drain'.pc \in {"cancelLimit", "closing"} => legs'[drain'.pos.oco]["stop"] # "open"
               /\ drain'.pc = "closing" => legs'[drain'.pos.oco]["limit"] # "open"
               /\ \A m \in Ids : CancellingBracket(m) => CancellingBracket(m)' \/ ~HasLeg(m, "open")',
           Barring({"rejected"}) =>
               (drain'.pc # "idle" /\ drain'.status = "filled" => drain'.id \in executed')
    PROVE  Sound'
<1>1. /\ rows \in [Tickers -> Row] /\ \A t \in Tickers : rows[t].oco \in {0} \cup Ids
      /\ 1..Len(orders) \subseteq Ids
  BY OrderTypes DEF Sound, Typed, TypeOK, Row
<1>2. /\ \A t \in Tickers : rows[t].oco \notin Unrecorded
      /\ \A m \in Ids : monitors[m].pc # "none" => m \notin Unrecorded
  BY DEF Sound, BracketOrder
<1>3. BracketOrder'
  BY <1>2 DEF BracketOrder, NoLegs
<1>4. SeenTrue'
  BY <1>2 DEF Sound, SeenTrue, LegKinds
<1>5. BracketsProtect'
  BY DEF Sound, BracketsProtect
<1>6. ASSUME Barring({"uncancelled"}), up = "up", NEW t \in Tickers, rows[t].oco # 0,
             NEW k \in LegKinds, legs'[rows[t].oco][k] = "open"
      PROVE  monitors[rows[t].oco].pc # "none" \/ CancellingBracket(rows[t].oco)'
  <2>1. rows[t].oco \in Ids
    BY <1>1, <1>6
  <2>2. HasLeg(rows[t].oco, "open") /\ HasLeg(rows[t].oco, "open")'
    BY <1>2, <1>6, <2>1 DEF HasLeg
  <2>3. monitors[rows[t].oco].pc # "none" \/ CancellingBracket(rows[t].oco)
    BY <1>6, <2>2 DEF Sound, Watched, BracketsWatched
  <2>4. CASE CancellingBracket(rows[t].oco)
    <3>1. CancellingBracket(rows[t].oco)' \/ ~HasLeg(rows[t].oco, "open")'
      BY <1>6, <2>1, <2>4
    <3>2. QED
      BY <2>2, <3>1
  <2>5. QED
    BY <2>3, <2>4
<1>7. Barring({"uncancelled"}) => BracketsWatched'
  BY <1>6 DEF BracketsWatched, HasLeg, CancellingBracket
<1>8. Watched'
  BY <1>7 DEF Watched, Barring
<1>9. Backed'
  <2>1. \A e \in journal : e.id \in Ids
    BY <1>1 DEF Sound, Backed
  <2>2. ASSUME Barring({"rejected"}), NEW e \in journal
        PROVE  /\ e.how = "SELL" => e.id \in executed'
               /\ e.how = "OCO" => HasLeg(e.id, "filled")' /\ e.qty >= orders[e.id].qty
    BY <2>1, <2>2 DEF Sound, Backed, EntriesBacked
  <2>3. EntriesBacked'
    BY <2>2 DEF EntriesBacked, Barring
  <2>4. QED
    BY <2>3 DEF Sound, Backed, Barring
<1>10. QED
  BY <1>3, <1>4, <1>5, <1>8, <1>9 DEF Sound

\* Where an order is in the hands of the drain task.
LEMMA UnrecordedTypes ==
    ASSUME Typed
    PROVE  /\ queue \subseteq Ids /\ queue \subseteq Unrecorded /\ Unrecorded \subseteq Ids /\ 0 \notin Unrecorded
           /\ drain.pc \in {"market", "stop", "limit", "survivor", "result"} =>
                drain.id \in Ids /\ drain.id \in Unrecorded
<1>1. queue \subseteq Ids /\ 0 \notin Ids
  BY OrderTypes, TradingAssumption DEF Typed, TypeOK, Ids
<1>2. drain.pc \in {"market", "stop", "limit", "survivor", "result"} => drain.id \in Ids
  BY DrainTypes
<1>3. QED
  BY <1>1, <1>2 DEF Unrecorded

\* The drain task takes the next order.
LEMMA SoundTake == Sound /\ (\E n \in Ids : Take(n)) => Sound'
<1> SUFFICES ASSUME Sound, NEW n \in Ids, Take(n) PROVE Sound'
  OBVIOUS
<1>1. Typed /\ Typed'
  BY TypedTake DEF Sound
<1>2. /\ drain.pc = "idle" /\ n \in queue /\ queue' = queue \ {n}
      /\ UNCHANGED <<exchangeVars, dbVars, monitors, taskOf, tick, envVars>>
  BY DEF Take
<1>3. drain'.id = n /\ drain'.pc \in {"market", "result"} /\ drain'.status \in {"none", "stale_dropped"}
  BY DEF Take, IdleDrain
<1>4. Unrecorded' = Unrecorded
  BY <1>2, <1>3 DEF Unrecorded
<1>5. n \notin executed /\ ExecutedOnce'
  BY <1>2, <1>3 DEF Sound, ExecutedOnce, exchangeVars
<1>6. \A m \in queue : NoLegs(m)'
  BY <1>2 DEF Sound, BracketOrder, NoLegs, exchangeVars
<1>7. UNCHANGED <<legs, executed, rows, orders, journal, monitors, up, scene>>
  BY <1>2 DEF exchangeVars, dbVars, envVars
<1>8. \A m \in Ids : (HasLeg(m, "filled") => HasLeg(m, "filled")') /\ ~CancellingBracket(m)
  BY <1>2, <1>7 DEF HasLeg, CancellingBracket
<1>9. QED
  BY <1>1, <1>2, <1>3, <1>4, <1>5, <1>6, <1>7, <1>8, SoundDrainMoves

\* The market order.
LEMMA SoundMarket == Sound /\ Market => Sound'
<1> SUFFICES ASSUME Sound, Market PROVE Sound'
  OBVIOUS
<1>1. Typed /\ Typed' /\ drain.pc = "market" /\ drain.id \in Ids
  BY TypedMarket, UnrecordedTypes DEF Sound, Market
<1>2. UNCHANGED <<legs, queue, rows, orders, journal, monitors, up, scene>>
  BY DEF Market, exchangeVars, dbVars, envVars
<1>3. PICK status \in {"filled", "failed"} :
        /\ AfterMarket(status)
        /\ executed' = executed \/ executed' = executed \cup {drain.id}
        /\ status = "filled" /\ Barring({"rejected"}) => drain.id \in executed'
  BY DEF Market, Execute, Barring, exchangeVars
<1>4. drain'.id = drain.id /\ drain'.pc \in {"stop", "result"} /\ drain'.status = status
  BY <1>1, <1>3 DEF AfterMarket, Typed, TypeOK
<1>5. Unrecorded' = Unrecorded
  BY <1>1, <1>2, <1>4 DEF Unrecorded
<1>6. ExecutedOnce'
  BY <1>1, <1>2, <1>3, <1>4 DEF Sound, ExecutedOnce
<1>7. (\A m \in queue : NoLegs(m)') /\ NoLegs(drain.id)'
  BY <1>1, <1>2, <1>4 DEF Sound, BracketOrder, NoLegs
<1>8. \A m \in Ids : (HasLeg(m, "filled") => HasLeg(m, "filled")') /\ ~CancellingBracket(m)
  BY <1>1, <1>2 DEF HasLeg, CancellingBracket
<1>9. drain'.pc = "stop" => drain'.status = "filled" /\ Order'.side = "BUY"
  BY <1>1, <1>2, <1>3 DEF AfterMarket, Order, Typed, TypeOK
<1>10. QED
  BY <1>1, <1>2, <1>3, <1>4, <1>5, <1>6, <1>7, <1>8, <1>9, SoundDrainMoves

\* The stop order and the limit order of a BUY.
LEMMA SoundPlaceLeg == ASSUME NEW k \in LegKinds, Sound, PlaceLeg(k) PROVE Sound'
<1>1. Typed /\ Typed' /\ drain.pc = k /\ drain.id \in Ids /\ legs \in [Ids -> [LegKinds -> LegStates]]
  BY TypedPlaceLeg, UnrecordedTypes DEF Sound, PlaceLeg, LegKinds, Typed, TypeOK
<1>2. PICK sent \in BOOLEAN, placed \in SUBSET LegKinds :
        /\ legs' = IF sent THEN [legs EXCEPT ![drain.id][k] = "open"] ELSE legs
        /\ drain' = [drain EXCEPT !.placed = placed, !.pc = AfterLeg(k, placed)]
  <2>1. drain.placed \subseteq LegKinds
    BY <1>1, DrainTypes DEF LegKinds
  <2>2. QED
    BY ZenonT(60), <2>1 DEF PlaceLeg
<1>3. /\ drain'.pc \in {"limit", "result", "survivor"} /\ (k = "limit" => drain'.pc # "limit")
      /\ drain'.id = drain.id /\ drain'.status = drain.status
  BY <1>2 DEF AfterLeg, LegKinds, Sound, Typed, TypeOK
<1>4. UNCHANGED <<executed, queue, rows, orders, journal, monitors, up, scene>>
  BY DEF PlaceLeg, dbVars, envVars
<1>5. Unrecorded' = Unrecorded /\ drain.id \in Unrecorded
  BY <1>1, <1>3, <1>4 DEF Unrecorded, LegKinds
<1>6. drain.id \notin queue /\ ExecutedOnce'
  BY <1>1, <1>3, <1>4 DEF Sound, ExecutedOnce, LegKinds
<1>7. \A m \in Ids : m # drain.id => legs'[m] = legs[m]
  BY <1>1, <1>2
<1>8. legs[drain.id][k] = "none" /\ (k = "stop" => legs[drain.id]["limit"] = "none")
  BY <1>1 DEF Sound, BracketOrder, NoLegs, LegKinds
<1>9. drain'.pc = "limit" => legs'[drain.id]["limit"] = "none"
  BY <1>1, <1>2, <1>3, <1>8 DEF LegKinds
<1>10. \A m \in queue : NoLegs(m)'
  BY <1>1, <1>6, <1>7, UnrecordedTypes DEF Sound, BracketOrder, NoLegs
<1>11. \A m \in Ids, j \in LegKinds : legs[m][j] = "filled" => legs'[m][j] = "filled"
  BY <1>1, <1>2, <1>8
<1>12. \A m \in Ids : (HasLeg(m, "filled") => HasLeg(m, "filled")') /\ ~CancellingBracket(m)
  BY <1>1, <1>11 DEF HasLeg, CancellingBracket, LegKinds
<1>13. Barring({"rejected"}) => (drain'.status = "filled" => drain'.id \in executed')
  BY <1>1, <1>3, <1>4 DEF Sound, Backed, LegKinds
<1>14. drain'.status = "filled" /\ Order'.side = "BUY"
  BY <1>1, <1>3, <1>4 DEF Sound, BracketsProtect, Order, LegKinds
<1>15. QED
  BY <1>1, <1>3, <1>4, <1>5, <1>6, <1>7, <1>9, <1>10, <1>12, <1>13, <1>14, SoundDrainMoves

\* The cancellations of the drain task.
LEMMA SoundCancels ==
    Sound /\ (CancelSurvivor \/ CancelStopOnSale \/ CancelLimitOnSale) => Sound'
<1> SUFFICES ASSUME Sound, CancelSurvivor \/ CancelStopOnSale \/ CancelLimitOnSale PROVE Sound'
  OBVIOUS
<1>1. Typed /\ Typed' /\ drain \in DrainRecord /\ drain.pos.oco \in {0} \cup Ids
  BY TypedCancels DEF Sound, Typed, TypeOK, DrainRecord, Row
<1>2. UNCHANGED <<executed, queue, rows, orders, journal, monitors, up, scene>>
  BY DEF CancelSurvivor, CancelStopOnSale, CancelLimitOnSale, CancelOnSale, dbVars, envVars
<1>3. \E n : \E k \in LegKinds : Cancel(n, k)
  <2>1. drain.placed \subseteq LegKinds
    BY <1>1 DEF DrainRecord
  <2>2. QED
    BY <2>1 DEF CancelSurvivor, CancelStopOnSale, CancelLimitOnSale, CancelOnSale, LegKinds
<1>4. /\ legs \in [Ids -> [LegKinds -> LegStates]] /\ legs' \in [Ids -> [LegKinds -> LegStates]]
      /\ \A m \in Ids, j \in LegKinds :
           legs'[m][j] = legs[m][j] \/ (legs[m][j] = "open" /\ legs'[m][j] = "dead")
  <2>1. TypeOK /\ legs \in [Ids -> [LegKinds -> LegStates]]
    BY <1>1 DEF Typed, TypeOK
  <2>2. PICK n : \E k \in LegKinds : Cancel(n, k)
    BY <1>3
  <2>3. PICK k \in LegKinds : Cancel(n, k)
    BY <2>2
  <2>4. legs' \in [Ids -> [LegKinds -> LegStates]]
    BY <2>1, <2>3, CancelTypes
  <2>5. \A m \in Ids, j \in LegKinds :
           legs'[m][j] = legs[m][j] \/ (legs[m][j] = "open" /\ legs'[m][j] = "dead")
    BY <2>1, <2>3, CancelTypes
  <2>6. QED
    BY <2>1, <2>4, <2>5
<1>5. \A m \in Ids : (HasLeg(m, "filled") => HasLeg(m, "filled")') /\ (NoLegs(m) => NoLegs(m)')
  BY SMTT(60), <1>4 DEF HasLeg, NoLegs
<1>6. \A m \in queue : NoLegs(m)'
  BY <1>1, <1>5, UnrecordedTypes DEF Sound, BracketOrder
<1>7. drain'.id = drain.id /\ drain'.status = drain.status /\ drain'.pos = drain.pos
  BY <1>1 DEF CancelSurvivor, CancelStopOnSale, CancelLimitOnSale, CancelOnSale, DrainRecord
<1>8. drain'.pc \in {"result", "cancelLimit", "closing"} /\ drain.pc # "idle"
  BY <1>1 DEF CancelSurvivor, CancelStopOnSale, CancelLimitOnSale, CancelOnSale, DrainRecord
<1>9. ExecutedOnce'
  BY <1>2, <1>7, <1>8 DEF Sound, ExecutedOnce
<1>10. Barring({"rejected"}) => (drain'.status = "filled" => drain'.id \in executed')
  BY <1>2, <1>7, <1>8 DEF Sound, Backed
<1>11. CASE CancelSurvivor
  <2>1. drain.pc = "survivor" /\ drain'.pc = "result"
    BY <1>1, <1>11 DEF CancelSurvivor, DrainRecord
  <2>2. Unrecorded' = Unrecorded
    BY <1>2, <1>7, <2>1 DEF Unrecorded
  <2>3. \A m \in Ids : ~CancellingBracket(m)
    BY <2>1 DEF CancellingBracket
  <2>4. QED
    BY <1>1, <1>2, <1>4, <1>5, <1>6, <1>9, <1>10, <2>1, <2>2, <2>3, SoundDrainMoves
<1>12. CASE CancelStopOnSale
  <2>1. drain.pc = "cancelStop" /\ drain'.pc = "cancelLimit" /\ Cancel(drain.pos.oco, "stop")
    BY <1>1, <1>12 DEF CancelStopOnSale, CancelOnSale, DrainRecord
  <2>2. Unrecorded' = Unrecorded
    BY <1>2, <1>7, <2>1 DEF Unrecorded
  <2>3. \A m \in Ids : CancellingBracket(m) => CancellingBracket(m)'
    BY <1>7, <2>1 DEF CancellingBracket
  <2>4. drain.pos.oco # 0 /\ drain'.status = "filled" /\ Order'.side = "SELL"
    BY <1>2, <1>7, <2>1 DEF Sound, BracketsProtect, Order
  <2>5. Barring({"uncancelled"}) => legs'[drain.pos.oco]["stop"] # "open"
    BY <1>1, <2>1, <2>4, CancelTypes DEF Barring, Typed, LegKinds
  <2>6. QED
    BY <1>1, <1>2, <1>4, <1>5, <1>6, <1>7, <1>9, <1>10, <2>1, <2>2, <2>3, <2>4, <2>5, SoundDrainMoves
<1>13. CASE CancelLimitOnSale
  <2>1. drain.pc = "cancelLimit" /\ drain'.pc = "closing" /\ Cancel(drain.pos.oco, "limit")
    BY <1>1, <1>13 DEF CancelLimitOnSale, CancelOnSale, DrainRecord
  <2>2. Unrecorded' = Unrecorded
    BY <1>2, <1>7, <2>1 DEF Unrecorded
  <2>3. drain.pos.oco # 0 /\ drain'.status = "filled" /\ Order'.side = "SELL"
    BY <1>2, <1>7, <2>1 DEF Sound, BracketsProtect, Order
  <2>4. Barring({"uncancelled"}) =>
          legs'[drain.pos.oco]["stop"] # "open" /\ legs'[drain.pos.oco]["limit"] # "open"
    <3>1. Barring({"uncancelled"}) => legs'[drain.pos.oco]["limit"] # "open"
      BY <1>1, <2>1, <2>3, CancelTypes DEF Barring, Typed, LegKinds
    <3>2. Barring({"uncancelled"}) => legs[drain.pos.oco]["stop"] # "open"
      BY <2>1 DEF Sound, Watched
    <3>3. QED
      BY <1>1, <1>4, <2>3, <3>1, <3>2 DEF LegKinds
  <2>5. Barring({"uncancelled"}) => \A m \in Ids : CancellingBracket(m) => ~HasLeg(m, "open")'
    BY <2>1, <2>4 DEF CancellingBracket, HasLeg, LegKinds
  <2>6. QED
    BY <1>1, <1>2, <1>4, <1>5, <1>6, <1>7, <1>9, <1>10, <2>1, <2>2, <2>3, <2>4, <2>5, SoundDrainMoves
<1>14. QED
  BY <1>11, <1>12, <1>13

\* An order that did not fill leaves the drain task.
LEMMA SoundResultNotFilled == Sound /\ ResultNotFilled => Sound'
<1> SUFFICES ASSUME Sound, ResultNotFilled PROVE Sound'
  OBVIOUS
<1>1. Typed /\ Typed'
  BY TypedResultNotFilled DEF Sound
<1>2. /\ drain.pc = "result" /\ drain' = IdleDrain /\ drain'.pc = "idle"
      /\ UNCHANGED <<exchangeVars, dbVars, queue, monitors, taskOf, tick, envVars>>
  BY ConstantTypes DEF ResultNotFilled
<1>3. UNCHANGED <<legs, executed, queue, rows, orders, journal, monitors, up, scene>>
  BY <1>2 DEF exchangeVars, dbVars, envVars
<1>4. Unrecorded' \subseteq Unrecorded /\ ExecutedOnce'
  BY <1>2, <1>3 DEF Sound, ExecutedOnce, Unrecorded
<1>5. \A m \in queue : NoLegs(m)'
  BY <1>3 DEF Sound, BracketOrder, NoLegs
<1>6. \A m \in Ids : (HasLeg(m, "filled") => HasLeg(m, "filled")') /\ ~CancellingBracket(m)
  BY <1>2, <1>3 DEF HasLeg, CancellingBracket
<1>7. QED
  BY <1>1, <1>2, <1>3, <1>4, <1>5, <1>6, SoundDrainMoves

\* The fill of a BUY is recorded: the row names the bracket in the same step in
\* which its monitor starts.
LEMMA SoundBuyFilled == Sound /\ BuyFilled => Sound'
<1> SUFFICES ASSUME Sound, BuyFilled PROVE Sound'
  OBVIOUS
<1> DEFINE n == drain.id
           t == Order.ticker
           row == RowAfterBuy(rows[t], n)
           whole == drain.placed = LegKinds
           r == IF whole THEN [row EXCEPT !.oco = n] ELSE row
<1>1. Typed /\ Typed'
  BY TypedBuyFilled DEF Sound
<1>2. /\ n \in 1..Len(orders) /\ n \in Ids /\ t \in Tickers /\ orders[n].qty \in Nat /\ orders[n].qty > 0
      /\ t = orders[n].ticker /\ orders[n].side = "BUY" /\ drain.pc = "result" /\ drain.status = "filled"
  BY <1>1, DrainTypes, OrderTypes DEF BuyFilled, Order, Typed
<1>3. /\ UNCHANGED <<exchangeVars, journal, queue, tick, envVars>> /\ drain' = IdleDrain /\ RecordFill
      /\ rows' = [rows EXCEPT ![t] = r]
      /\ IF whole THEN Watch(n) ELSE UNCHANGED <<monitors, taskOf>>
  BY DEF BuyFilled
<1>4. /\ rows \in [Tickers -> Row] /\ monitors \in [Ids -> MonitorRecord]
      /\ 1..Len(orders) \subseteq Ids
  BY <1>1, OrderTypes DEF Typed, TypeOK, MonitorRecord
<1>5. /\ Len(orders') = Len(orders)
      /\ \A m \in 1..Len(orders) : orders'[m].side = orders[m].side /\ orders'[m].qty = orders[m].qty
  BY <1>1, <1>2, <1>3, RecordFillTypes DEF Typed
<1>6. row \in Row /\ row.oco \in {rows[t].oco, 0} /\ IsOpen(row)
  <2>1. rows[t] \in Row
    BY <1>2, <1>4
  <2>2. QED
    BY <1>1, <1>2, <2>1, RowAfterBuyTypes
<1>7. r \in Row /\ IsOpen(r) /\ r.oco = IF whole THEN n ELSE row.oco
  <2> HIDE DEF row
  <2>1. QED
    BY <1>2, <1>6 DEF Row, IsOpen
<1>8. /\ \A m \in Ids : m # n => monitors'[m] = monitors[m]
      /\ whole => monitors'[n].pc = "poll" /\ monitors'[n].qty = orders[n].qty
      /\ ~whole => monitors' = monitors
  <2> HIDE DEF n, t
  <2>1. QED
    BY <1>2, <1>3, <1>4 DEF Watch, NoMonitor
<1>9. /\ rows'[t] = r /\ \A u \in Tickers : u # t => rows'[u] = rows[u]
      /\ \A u \in Tickers : rows[u].oco \in {0} \cup Ids
  <2> HIDE DEF t, r
  <2>1. QED
    BY <1>2, <1>3, <1>4 DEF Row
<1>10. UNCHANGED <<legs, executed, queue, journal, up, scene>> /\ drain'.pc = "idle"
  BY <1>3, ConstantTypes DEF exchangeVars, envVars
<1> HIDE DEF row, r, t
<1>11. /\ Unrecorded' = queue /\ n \in Unrecorded /\ queue \subseteq Unrecorded /\ queue \subseteq Ids
       /\ 0 \notin Unrecorded
  BY <1>1, <1>2, <1>10, UnrecordedTypes DEF Unrecorded
<1>12. n \notin queue /\ ExecutedOnce'
  BY <1>2, <1>10 DEF Sound, ExecutedOnce
<1>13. BracketOrder'
  <2>1. \A u \in Tickers : rows'[u].oco \notin queue
    BY <1>6, <1>7, <1>9, <1>11, <1>12, <1>2 DEF Sound, BracketOrder
  <2>2. \A m \in Ids : monitors'[m].pc # "none" => m \notin queue
    BY <1>8, <1>11, <1>12 DEF Sound, BracketOrder
  <2>3. QED
    BY <1>10, <1>11, <2>1, <2>2 DEF Sound, BracketOrder, NoLegs
<1>14. SeenTrue'
  BY <1>8, <1>10 DEF Sound, SeenTrue
<1>15. BracketsProtect'
  <2>1. \A m \in 1..Len(orders') : orders'[m].side = "BUY" => orders'[m].qty = 1
    BY <1>5 DEF Sound, BracketsProtect
  <2>2. ASSUME NEW u \in Tickers, rows'[u].oco # 0
        PROVE  IsOpen(rows'[u]) /\ orders'[rows'[u].oco].side = "BUY"
    <3>1. rows'[u].oco = n \/ rows'[u].oco = rows[u].oco
      BY <1>6, <1>7, <1>9, <2>2
    <3>2. rows[u].oco # 0 => rows[u].oco \in 1..Len(orders) /\ orders[rows[u].oco].side = "BUY" /\ IsOpen(rows[u])
      BY <1>1 DEF Sound, BracketsProtect, Typed, References, OfTicker
    <3>3. orders'[rows'[u].oco].side = "BUY"
      BY <1>2, <1>5, <2>2, <3>1, <3>2
    <3>4. IsOpen(rows'[u])
      BY <1>7, <1>9, <2>2, <3>2
    <3>5. QED
      BY <3>3, <3>4
  <2>3. ASSUME NEW m \in Ids, monitors'[m].pc # "none"
        PROVE  monitors'[m].qty >= 1 /\ orders'[m].side = "BUY"
    <3>1. CASE m = n /\ whole
      BY <1>2, <1>5, <1>8, <3>1
    <3>2. CASE m # n \/ ~whole
      BY <1>1, <1>5, <1>8, <2>3, <3>2 DEF Sound, BracketsProtect, Typed, References
    <3>3. QED
      BY <3>1, <3>2
  <2>4. QED
    BY <1>10, <2>1, <2>2, <2>3 DEF BracketsProtect
<1>16. Watched'
  <2> SUFFICES ASSUME Barring({"uncancelled"}), up = "up", NEW u \in Tickers, rows'[u].oco # 0,
                      HasLeg(rows[u].oco, "open") \/ rows'[u].oco # rows[u].oco
               PROVE  monitors'[rows'[u].oco].pc # "none"
    BY <1>10 DEF Watched, BracketsWatched, Barring, HasLeg
  <2>1. CASE rows'[u].oco = rows[u].oco
    <3>1. monitors[rows[u].oco].pc # "none"
      BY <1>2, <2>1 DEF Sound, Watched, BracketsWatched, CancellingBracket
    <3>2. rows[u].oco \in Ids /\ rows[u].oco # n
      BY <1>9, <1>11, <2>1 DEF Sound, BracketOrder
    <3>3. QED
      BY <1>8, <2>1, <3>1, <3>2
  <2>2. CASE rows'[u].oco # rows[u].oco
    BY <1>6, <1>7, <1>8, <1>9, <2>2
  <2>3. QED
    BY <2>1, <2>2
<1>17. Backed'
  <2>1. \A e \in journal : e.id \in 1..Len(orders)
    BY DEF Sound, Backed
  <2>2. Barring({"rejected"}) => \A e \in journal :
           /\ e.how = "SELL" => e.id \in executed
           /\ e.how = "OCO" => HasLeg(e.id, "filled")' /\ e.qty >= orders'[e.id].qty
    BY <1>5, <1>10, <2>1 DEF Sound, Backed, EntriesBacked, HasLeg
  <2>3. EntriesBacked'
    BY <1>10, <2>2 DEF EntriesBacked, Barring
  <2>4. QED
    BY <1>5, <1>10, <2>1, <2>3 DEF Backed, Barring
<1>18. QED
  BY <1>1, <1>12, <1>13, <1>14, <1>15, <1>16, <1>17 DEF Sound

\* The fill of a SELL: the registered monitor is cancelled, and a recorded bracket
\* passes from it to the drain task.
LEMMA SoundSellFilled == Sound /\ SellFilled => Sound'
<1> SUFFICES ASSUME Sound, SellFilled PROVE Sound'
  OBVIOUS
<1> DEFINE n == drain.id
           t == Order.ticker
<1>1. Typed /\ Typed'
  BY TypedSellFilled DEF Sound
<1>2. /\ n \in 1..Len(orders) /\ n \in Ids /\ t \in Tickers /\ drain \in DrainRecord
      /\ t = orders[n].ticker /\ drain.pc = "result" /\ drain.status = "filled"
  BY <1>1, DrainTypes DEF SellFilled, Order
<1>3. /\ taskOf' = [taskOf EXCEPT ![t] = 0] /\ RecordFill
      /\ UNCHANGED <<held, executed, queue, tick, envVars>>
      /\ IF taskOf[t] = 0 THEN UNCHANGED <<monitors, legs>> ELSE AbandonMonitor(taskOf[t])
      /\ IF rows[t].oco # 0
         THEN drain' = [drain EXCEPT !.pc = "cancelStop", !.pos = rows[t]] /\ UNCHANGED <<rows, journal>>
         ELSE drain' = IdleDrain /\ RecordSale(n, rows[t])
  BY DEF SellFilled
<1>4. /\ rows \in [Tickers -> Row] /\ monitors \in [Ids -> MonitorRecord]
      /\ legs \in [Ids -> [LegKinds -> LegStates]]
      /\ 1..Len(orders) \subseteq Ids /\ \A u \in Tickers : rows[u].oco \in {0} \cup Ids
  BY <1>1, OrderTypes DEF Typed, TypeOK, MonitorRecord, Row
<1>5. /\ Len(orders') = Len(orders)
      /\ \A m \in 1..Len(orders) : orders'[m].side = orders[m].side /\ orders'[m].qty = orders[m].qty
  BY <1>1, <1>2, <1>3, RecordFillTypes DEF Typed
<1>6. \A m \in Ids : monitors'[m] = monitors[m] \/ (m = taskOf[t] /\ monitors'[m].pc = "none")
  BY <1>3, <1>4, ConstantTypes DEF AbandonMonitor
<1>7. \A m \in Ids, j \in LegKinds :
        legs'[m][j] = legs[m][j] \/ (legs[m][j] = "open" /\ legs'[m][j] \in {"filled", "dead"})
  <2>1. legs' = legs \/ Cancel(taskOf[t], "stop") \/ Cancel(taskOf[t], "limit")
    BY <1>3 DEF AbandonMonitor
  <2>2. QED
    BY <1>1, <2>1, CancelTypes DEF Typed, LegKinds
<1>8. /\ \A m \in Ids : NoLegs(m) => NoLegs(m)'
      /\ \A m \in Ids : HasLeg(m, "open")' => HasLeg(m, "open")
      /\ \A m \in Ids : HasLeg(m, "filled") => HasLeg(m, "filled")'
  <2>1. legs' \in [Ids -> [LegKinds -> LegStates]]
    BY <1>1 DEF Typed, TypeOK
  <2>2. QED
    BY <1>4, <1>7, <2>1 DEF NoLegs, HasLeg
<1>9. /\ drain'.pc \in {"idle", "cancelStop"}
      /\ drain'.pc = "cancelStop" => /\ drain'.id = n /\ drain'.pos = rows[t] /\ rows[t].oco # 0
                                     /\ UNCHANGED <<rows, journal>>
      /\ drain'.pc = "idle" => /\ rows[t].oco = 0 /\ RecordSale(n, rows[t])
  BY <1>2, <1>3, ConstantTypes DEF DrainRecord
<1>10. /\ rows' = rows \/ rows' = [rows EXCEPT ![t] = ClosedRow]
       /\ \A e \in journal' : e \in journal \/ (e.how = "SELL" /\ e.id = n)
  BY <1>2, <1>9 DEF RecordSale, CloseRow, JournalEntry
<1>11. UNCHANGED <<executed, queue, up, scene>>
  BY <1>3 DEF envVars
<1> HIDE DEF t
<1>12. \A u \in Tickers : rows'[u] = rows[u] \/ rows'[u].oco = 0
  BY <1>2, <1>4, <1>10, ConstantTypes
<1>13. /\ Unrecorded' = queue /\ queue \subseteq Unrecorded /\ queue \subseteq Ids /\ 0 \notin queue
  BY <1>1, <1>9, <1>11, UnrecordedTypes DEF Unrecorded
<1>14. ExecutedOnce'
  BY <1>2, <1>9, <1>11 DEF Sound, ExecutedOnce
<1>15. BracketOrder'
  <2>1. \A m \in queue : NoLegs(m)'
    BY <1>8, <1>13 DEF Sound, BracketOrder
  <2>2. \A u \in Tickers : rows'[u].oco \notin queue
    BY <1>12, <1>13 DEF Sound, BracketOrder
  <2>3. \A m \in Ids : monitors'[m].pc # "none" => m \notin queue
    BY <1>6, <1>13 DEF Sound, BracketOrder
  <2>4. QED
    BY <1>9, <1>11, <1>13, <2>1, <2>2, <2>3 DEF BracketOrder
<1>16. SeenTrue'
  BY <1>6, <1>7 DEF Sound, SeenTrue, LegKinds
<1>17. BracketsProtect'
  <2>1. \A m \in 1..Len(orders') : orders'[m].side = "BUY" => orders'[m].qty = 1
    BY <1>5 DEF Sound, BracketsProtect
  <2>2. ASSUME NEW u \in Tickers, rows'[u].oco # 0
        PROVE  IsOpen(rows'[u]) /\ orders'[rows'[u].oco].side = "BUY"
    <3>1. rows[u].oco \in 1..Len(orders) /\ orders[rows[u].oco].side = "BUY" /\ IsOpen(rows[u])
      BY <1>1, <1>12, <2>2 DEF Sound, BracketsProtect, Typed, References, OfTicker
    <3>2. QED
      BY <1>5, <1>12, <2>2, <3>1
  <2>3. ASSUME NEW m \in Ids, monitors'[m].pc # "none"
        PROVE  monitors'[m].qty >= 1 /\ orders'[m].side = "BUY"
    BY <1>1, <1>5, <1>6, <2>3 DEF Sound, BracketsProtect, Typed, References
  <2>4. drain'.pc = "cancelStop" => drain'.pos.oco # 0 /\ drain'.status = "filled" /\ Order'.side = "SELL"
    <3>1. orders[n].side = "SELL"
      BY DEF SellFilled, Order
    <3>2. drain'.pc = "cancelStop" => Order'.side = "SELL"
      BY <1>2, <1>5, <1>9, <3>1 DEF Order
    <3>3. drain'.pc = "cancelStop" => drain'.pos.oco # 0 /\ drain'.status = "filled"
      BY <1>2, <1>3, <1>9, ConstantTypes DEF DrainRecord
    <3>4. QED
      BY <3>2, <3>3
  <2>5. QED
    BY <1>9, <2>1, <2>2, <2>3, <2>4 DEF BracketsProtect
<1>18. Watched'
  <2> SUFFICES ASSUME Barring({"uncancelled"}), up = "up", NEW u \in Tickers, rows'[u].oco # 0,
                      NEW k \in LegKinds, legs'[rows'[u].oco][k] = "open"
               PROVE  monitors'[rows'[u].oco].pc # "none" \/ CancellingBracket(rows[u].oco)'
    <3>1. \A u \in Tickers : rows'[u].oco # 0 => rows'[u] = rows[u]
      BY <1>12
    <3>2. QED
      BY <1>9, <1>11, <3>1 DEF Watched, BracketsWatched, Barring, HasLeg, CancellingBracket
  <2>1. rows'[u] = rows[u] /\ rows[u].oco \in Ids
    BY <1>4, <1>12
  <2>2. HasLeg(rows[u].oco, "open")
    BY <1>7, <2>1 DEF HasLeg
  <2>3. monitors[rows[u].oco].pc # "none"
    BY <1>2, <2>1, <2>2 DEF Sound, Watched, BracketsWatched, CancellingBracket
  <2>4. CASE rows[u].oco = taskOf[t]
    <3>1. OfTicker(rows[u].oco, u) /\ OfTicker(taskOf[t], t)
      BY <1>1, <1>2, <2>1, <2>4 DEF Typed, References, RegisteredTaskAlive
    <3>2. u = t
      BY <2>4, <3>1 DEF OfTicker
    <3>3. drain'.pc = "cancelStop" /\ drain'.pos = rows'[u]
      BY <1>9, <2>1, <3>2
    <3>4. QED
      BY <3>3 DEF CancellingBracket
  <2>5. CASE rows[u].oco # taskOf[t]
    BY <1>6, <2>1, <2>3, <2>5
  <2>6. QED
    BY <2>4, <2>5
<1>19. Backed'
  <2>1. \A e \in journal' : e.id \in 1..Len(orders)
    BY <1>2, <1>10 DEF Sound, Backed
  <2>2. Barring({"rejected"}) => n \in executed
    BY <1>2 DEF Sound, Backed
  <2>3. ASSUME Barring({"rejected"}), NEW e \in journal'
        PROVE  /\ e.how = "SELL" => e.id \in executed
               /\ e.how = "OCO" => HasLeg(e.id, "filled")' /\ e.qty >= orders'[e.id].qty
    BY <1>4, <1>5, <1>8, <1>10, <2>1, <2>2, <2>3 DEF Sound, Backed, EntriesBacked
  <2>4. EntriesBacked'
    BY <1>11, <2>3 DEF EntriesBacked, Barring
  <2>5. QED
    BY <1>5, <1>9, <1>11, <2>1, <2>2, <2>4 DEF Backed, Barring
<1>20. QED
  BY <1>1, <1>14, <1>15, <1>16, <1>17, <1>18, <1>19 DEF Sound

\* The end of a sale whose bracket has been cancelled.
LEMMA SoundSellRecorded == Sound /\ SellRecorded => Sound'
<1> SUFFICES ASSUME Sound, SellRecorded PROVE Sound'
  OBVIOUS
<1>1. Typed /\ Typed'
  BY TypedSellRecorded DEF Sound
<1>2. /\ drain.pc = "closing" /\ drain' = IdleDrain /\ drain'.pc = "idle"
      /\ drain.id \in 1..Len(orders) /\ Order.ticker \in Tickers /\ Order.ticker = orders[drain.id].ticker
      /\ UNCHANGED <<exchangeVars, orders, queue, monitors, taskOf, tick, envVars>>
  BY <1>1, ConstantTypes, DrainTypes DEF SellRecorded, Order
<1>3. /\ rows' = [rows EXCEPT ![Order.ticker] = ClosedRow]
      /\ \A e \in journal' : e \in journal \/ (e.how = "SELL" /\ e.id = drain.id)
  BY <1>2 DEF SellRecorded, RecordSale, CloseRow, JournalEntry
<1>4. UNCHANGED <<legs, executed, orders, queue, monitors, up, scene>>
  BY <1>2 DEF exchangeVars, envVars
<1>5. \A u \in Tickers : rows'[u] = rows[u] \/ rows'[u].oco = 0
  BY <1>1, <1>2, <1>3, ConstantTypes DEF Typed, TypeOK
<1>6. Unrecorded' = queue /\ queue \subseteq Unrecorded /\ 0 \notin queue
  BY <1>1, <1>2, UnrecordedTypes DEF Unrecorded
<1>7. ExecutedOnce'
  BY <1>2, <1>4 DEF Sound, ExecutedOnce
<1>8. BracketOrder'
  BY <1>2, <1>4, <1>5, <1>6 DEF Sound, BracketOrder, NoLegs
<1>9. SeenTrue' /\ BracketsProtect'
  BY <1>2, <1>4, <1>5 DEF Sound, SeenTrue, BracketsProtect
<1>10. Watched'
  BY <1>2, <1>4, <1>5 DEF Sound, Watched, BracketsWatched, CancellingBracket, HasLeg, Barring
<1>11. Barring({"rejected"}) => drain.id \in executed
  <2>1. drain.status = "filled"
    BY <1>2 DEF Sound, BracketsProtect
  <2>2. QED
    BY <1>2, <2>1 DEF Sound, Backed
<1>12. Backed'
  BY <1>2, <1>3, <1>4, <1>11 DEF Sound, Backed, EntriesBacked, HasLeg, Barring
<1>13. QED
  BY <1>1, <1>7, <1>8, <1>9, <1>10, <1>12 DEF Sound

\* A crash loses the tasks, and what it leaves of the tables still refers to
\* brackets that protect open positions.
LEMMA SoundCrashes == Sound /\ (Crash \/ CrashMidway) => Sound'
<1> SUFFICES ASSUME Sound, Crash \/ CrashMidway PROVE Sound'
  OBVIOUS
<1>1. Typed /\ Typed' /\ Die
  BY TypedCrashes DEF Sound, Crash, CrashMidway
<1>2. /\ UNCHANGED <<held, legs, executed, scene>> /\ queue' = {} /\ drain'.pc = "idle" /\ up' = "down"
      /\ \A n \in Ids : monitors'[n].pc = "none"
  BY <1>1, DieTypes DEF exchangeVars
<1>3. /\ Len(orders') = Len(orders) /\ journal' = journal
      /\ \A n \in 1..Len(orders) : orders'[n].side = orders[n].side /\ orders'[n].qty = orders[n].qty
      /\ \A t \in Tickers : rows'[t].oco # 0 =>
            rows'[t].oco = rows[t].oco /\ (IsOpen(rows[t]) => IsOpen(rows'[t]))
  <2>1. CASE Crash
    BY <2>1 DEF Crash, dbVars
  <2>2. CASE CrashMidway
    BY <1>1, <2>2, CutShortTypes DEF CrashMidway
  <2>3. QED
    BY <2>1, <2>2
<1>4. Unrecorded' = {}
  BY <1>2 DEF Unrecorded
<1>5. ExecutedOnce' /\ BracketOrder' /\ SeenTrue'
  BY <1>2, <1>4 DEF ExecutedOnce, BracketOrder, SeenTrue
<1>6. BracketsProtect'
  <2>1. \A t \in Tickers : rows[t].oco # 0 => rows[t].oco \in 1..Len(orders)
    BY <1>1 DEF Typed, References, OfTicker
  <2>2. \A t \in Tickers : rows'[t].oco # 0 => IsOpen(rows'[t]) /\ orders'[rows'[t].oco].side = "BUY"
    BY <1>3, <2>1 DEF Sound, BracketsProtect
  <2>3. QED
    BY <1>2, <1>3, <2>2 DEF Sound, BracketsProtect
<1>7. Watched'
  BY <1>2 DEF Watched, BracketsWatched
<1>8. Backed'
  BY <1>2, <1>3 DEF Sound, Backed, EntriesBacked, HasLeg, Barring
<1>9. QED
  BY <1>1, <1>5, <1>6, <1>7, <1>8 DEF Sound

\* Start-up: the rows are reconciled and the recorded brackets watched again.
LEMMA SoundRestart == Sound /\ Restart => Sound'
<1> SUFFICES ASSUME Sound, Restart PROVE Sound'
  OBVIOUS
<1>1. Typed /\ Typed' /\ rows \in [Tickers -> Row] /\ rows' \in [Tickers -> Row] /\ fetched \in [Tickers -> Nat]
  BY TypedRestart DEF Sound, Typed, TypeOK
<1>2. CASE StartUp
  <2>1. UNCHANGED <<legs, executed, rows, orders, journal, queue, drain, monitors, scene>> /\ up' = "starting"
    BY <1>2 DEF StartUp, exchangeVars, dbVars, taskVars
  <2>2. ExecutedOnce' /\ SeenTrue' /\ BracketsProtect'
    BY <2>1 DEF Sound, ExecutedOnce, SeenTrue, BracketsProtect, Order
  <2>3. Unrecorded' = Unrecorded
    BY <2>1 DEF Unrecorded
  <2>4. BracketOrder'
    BY <2>1, <2>3 DEF Sound, BracketOrder, NoLegs
  <2>5. Watched'
    BY <2>1 DEF Sound, Watched, BracketsWatched, Barring
  <2>6. Backed'
    BY <2>1 DEF Sound, Backed, EntriesBacked, HasLeg, Barring
  <2>7. QED
    BY <1>1, <2>2, <2>4, <2>5, <2>6 DEF Sound
<1>3. CASE StartedUp
  <2>1. /\ UNCHANGED <<legs, executed, orders, journal, queue, drain, scene>>
        /\ up = "starting" /\ up' = "up" /\ Reattach
    BY <1>3 DEF StartedUp, exchangeVars
  <2>2. \A t \in Tickers : rows'[t].oco # 0 => rows'[t].oco = rows[t].oco /\ IsOpen(rows'[t])
    <3> SUFFICES ASSUME NEW t \in Tickers, rows'[t].oco # 0
                 PROVE  rows'[t].oco = rows[t].oco /\ IsOpen(rows'[t])
      OBVIOUS
    <3>1. rows[t].oco # 0 => IsOpen(rows[t])
      BY DEF Sound, BracketsProtect
    <3>2. CASE rows' = rows
      BY <3>1, <3>2
    <3>3. CASE rows' = [u \in Tickers |-> Reconciled(rows[u], fetched[u])]
      <4>1. rows'[t] = Reconciled(rows[t], fetched[t]) /\ rows[t] \in Row /\ fetched[t] \in Nat
        BY <1>1, <3>3
      <4>2. QED
        BY <3>1, <4>1, ReconciledTypes
    <3>4. QED
      BY <1>3, <3>2, <3>3 DEF StartedUp
  <2>3. \A t \in Tickers : rows'[t].oco # 0 =>
           /\ rows'[t].oco \in 1..Len(orders) /\ OfTicker(rows'[t].oco, t)
           /\ orders[rows'[t].oco].side = "BUY"
    BY <1>1, <2>2 DEF Sound, BracketsProtect, Typed, References, OfTicker
  <2>4. /\ \A n \in Ids : monitors'[n].pc \in {"none", "poll"}
        /\ \A n \in Ids : monitors'[n].pc # "none" =>
             \E t \in Tickers : rows'[t].oco = n /\ monitors'[n].qty = rows'[t].qty
        /\ \A t \in Tickers : rows'[t].oco # 0 => monitors'[rows'[t].oco].pc = "poll"
    BY <1>1, <2>1, <2>3, ReattachTypes
  <2>5. 0 \notin Ids /\ 0 \notin Unrecorded /\ Unrecorded' = Unrecorded
    BY <1>1, <2>1, UnrecordedTypes, TradingAssumption DEF Unrecorded, Ids
  <2>6. ExecutedOnce' /\ SeenTrue'
    BY <2>1, <2>4 DEF Sound, ExecutedOnce, SeenTrue
  <2>7. BracketOrder'
    <3>1. \A t \in Tickers : rows'[t].oco \notin Unrecorded
      BY <2>2, <2>5 DEF Sound, BracketOrder
    <3>2. \A n \in Ids : monitors'[n].pc # "none" => n \notin Unrecorded
      BY <2>4, <3>1
    <3>3. QED
      BY <2>1, <2>5, <3>1, <3>2 DEF Sound, BracketOrder, NoLegs
  <2>8. BracketsProtect'
    <3>1. ASSUME NEW n \in Ids, monitors'[n].pc # "none"
          PROVE  monitors'[n].qty >= 1 /\ orders[n].side = "BUY"
      <4>1. PICK t \in Tickers : rows'[t].oco = n /\ monitors'[n].qty = rows'[t].qty
        BY <2>4, <3>1
      <4>2. n # 0
        BY <2>5
      <4>3. rows'[t].qty > 0 /\ rows'[t].qty \in Nat
        BY <1>1, <2>2, <4>1, <4>2 DEF IsOpen, Row
      <4>4. QED
        BY <2>3, <4>1, <4>2, <4>3
    <3>2. QED
      BY <2>1, <2>2, <2>3, <3>1 DEF Sound, BracketsProtect, Order
  <2>9. Watched'
    BY <2>1, <2>4 DEF Sound, Watched, BracketsWatched, Barring
  <2>10. Backed'
    BY <2>1 DEF Sound, Backed, EntriesBacked, HasLeg, Barring
  <2>11. QED
    BY <1>1, <2>6, <2>7, <2>8, <2>9, <2>10 DEF Sound
<1>4. QED
  BY <1>2, <1>3 DEF Restart

\* Every step keeps the invariant.
LEMMA SoundStep == Sound /\ [Next]_vars => Sound'
<1>1. Sound /\ UNCHANGED vars => Sound'
  <2> SUFFICES ASSUME Sound, UNCHANGED vars PROVE Sound'
    OBVIOUS
  <2>1. UNCHANGED <<legs, executed, rows, orders, journal, queue, drain, monitors, up, scene>>
    BY DEF vars, exchangeVars, dbVars, taskVars, envVars
  <2>2. Typed'
    BY TypedStep DEF Sound
  <2>3. \A n \in Ids : NoLegs(n) => NoLegs(n)'
    BY <2>1 DEF NoLegs
  <2>4. QED
    BY <2>1, <2>2, <2>3, SoundLegs DEF IsOpen
<1>2. Sound /\ Drain => Sound'
  BY SoundTake, SoundMarket, SoundPlaceLeg, SoundCancels, SoundResultNotFilled, SoundBuyFilled,
     SoundSellFilled, SoundSellRecorded DEF Drain, LegKinds
<1>3. QED
  BY <1>1, <1>2, SoundTicks, SoundMonitor, SoundEnvironment, SoundCrashes, SoundRestart DEF Next

\* The inductive invariant holds throughout.
LEMMA SoundAlways == Spec => []Sound
BY SoundInit, SoundStep, PTL DEF Spec

\* Whatever fails, the broker never submits an order twice: no order that waits, or
\* is about to be submitted, has been executed (AsyncBroker._process_one).
THEOREM OrdersExecutedOnce == Spec => []NeverExecutedTwice
<1>1. Sound => NeverExecutedTwice
  BY DEF Sound, ExecutedOnce, NeverExecutedTwice, Pending
<1>2. QED
  BY <1>1, SoundAlways, PTL

\* The registered task of a ticker is alive and watches that ticker, in every
\* scene (_oco_task_by_ticker).
THEOREM RegisterTrue == Spec => []RegisteredTaskAlive
<1>1. Sound => RegisteredTaskAlive
  BY DEF Sound, Typed, References
<1>2. QED
  BY <1>1, SoundAlways, PTL

\* While a recorded bracket protects a position, a task watches it, after every
\* crash and restart (monitor_oco, the re-attachment in run).
THEOREM RecordedBracketsWatched == Spec => []BracketsWatched
<1>1. Sound => BracketsWatched
  BY DEF Sound, Watched, BracketsWatched
<1>2. QED
  BY <1>1, SoundAlways, PTL

\* Every journal entry stands for an execution or a filled leg, in scenes without
\* rejected orders (_on_order_fill, _close_position).
THEOREM JournalEntriesBacked == Spec => []EntriesBacked
<1>1. Sound => EntriesBacked
  BY DEF Sound, Backed
<1>2. QED
  BY <1>1, SoundAlways, PTL

=============================================================================
