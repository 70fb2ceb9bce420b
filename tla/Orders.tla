-------------------------------- MODULE Orders --------------------------------
(***************************************************************************)
(* Order requests, their priority and their identity                       *)
(* (alphaTrade/broker/order_queue.py, the dedup key of async_broker.py).   *)
(* A request is a record whose interval is the position of the model's     *)
(* interval in _INTERVAL_ORDER = 1m, 5m, 15m, 1h, 4h, 1d, 1wk.             *)
(***************************************************************************)
EXTENDS Integers

CONSTANT Requests   \* the order requests that ticks may submit

\* interval 3 (1h) also stands for an interval the list does not know
RequestRecord(r) ==
    /\ DOMAIN r = {"ticker", "side", "bar", "interval"}
    /\ r.side \in {"BUY", "SELL"}
    /\ r.interval \in 0..6

ASSUME RequestAssumption == \A r \in Requests : RequestRecord(r)

Item == [seq : Nat, req : Requests]

\* Mutant: exits queue behind entries
SellLastPriority(r) == IF r.side = "SELL" THEN 7 ELSE r.interval

\* SELL before every BUY; a BUY on a shorter interval before one on a longer
Priority(r) == IF r.side = "SELL" THEN 0 ELSE 1 + r.interval

\* dedup_key: neither the interval nor the model is part of it
Key(r) == <<r.ticker, r.side, r.bar>>

\* the order of the heap's tuples: (priority, seq)
Before(i, j) ==
    \/ Priority(i.req) < Priority(j.req)
    \/ Priority(i.req) = Priority(j.req) /\ i.seq < j.seq
=============================================================================
