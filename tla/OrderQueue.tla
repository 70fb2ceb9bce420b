------------------------------ MODULE OrderQueue ------------------------------
(***************************************************************************)
(* AsyncBroker's order queue (alphaTrade/broker/async_broker.py).          *)
(*                                                                         *)
(* Ticks call enqueue(); one drain task takes the orders out in priority   *)
(* order, executes them and reports each result to a callback.  The queue  *)
(* is a binary heap that cannot delete from its middle, so an order evicted *)
(* when the queue is full stays in the heap and is only marked.  What is   *)
(* really waiting is therefore spread over five pieces of state: the heap, *)
(* the marks (_evicted), a counter (_active), a list that mirrors the heap *)
(* (_heap_mirror) and the deduplication set (_seen); an asyncio.Event tells *)
(* the drain task when to look.  This module is about their agreement.     *)
(*                                                                         *)
(* Everything between two awaits is one atomic step: asyncio runs one      *)
(* callback at a time and enqueue() has no await.                          *)
(***************************************************************************)
EXTENDS Orders, FiniteSets

CONSTANTS
    MaxDepth,   \* risk.order_queue_max_depth
    MaxSeq      \* bound: how many sequence numbers a behaviour draws

ASSUME QueueAssumption ==
    /\ MaxDepth \in Nat
    /\ MaxSeq \in Nat

VARIABLES
    heap,       \* _EvictablePriorityQueue._heap
    evicted,    \* ._evicted: sequence numbers of dead heap entries
    active,     \* ._active
    event,      \* ._event.is_set()
    mirror,     \* AsyncBroker._heap_mirror
    seen,       \* ._seen
    nextSeq,    \* ._seq
    pc,         \* where the drain task is
    current,    \* {the item the drain task holds}, or {}
    stopping    \* ._stopping

queueVars == <<heap, evicted, active, event>>
vars == <<heap, evicted, active, event, mirror, seen, nextSeq, pc, current, stopping>>

-----------------------------------------------------------------------------
Live == {i \in heap : i.seq \notin evicted}

\* Mutant: the counter is not clamped
DecrementUnclamped(n) == n - 1

\* task_done(): never below zero
Decrement(n) == IF n > 0 THEN n - 1 ELSE 0

-----------------------------------------------------------------------------
Init ==
    /\ heap = {} /\ evicted = {} /\ active = 0 /\ event = FALSE
    /\ mirror = {} /\ seen = {} /\ nextSeq = 0
    /\ pc = "off" /\ current = {} /\ stopping = FALSE

\* Mutant: the victim of an eviction is not marked
PutWithoutMark(item, count, marks) ==
    /\ heap' = heap \cup {item}
    /\ evicted' = evicted
    /\ active' = count + 1
    /\ event' = TRUE

\* Mutant: the event is not set
PutSilently(item, count, marks) ==
    /\ heap' = heap \cup {item}
    /\ evicted' = marks
    /\ active' = count + 1
    /\ event' = event

\* put_nowait, after the counters have been adjusted to `count` and `marks`
PutNowait(item, count, marks) ==
    /\ heap' = heap \cup {item}
    /\ evicted' = marks
    /\ active' = count + 1
    /\ event' = TRUE

\* Mutant: no deduplication
FreshUnchecked(r) == ~stopping /\ nextSeq < MaxSeq

\* A request whose key is outstanding is skipped and changes nothing.
\* run() awaits the tick tasks before stop_drain: nothing arrives after it.
Fresh(r) ==
    /\ ~stopping
    /\ nextSeq < MaxSeq
    /\ Key(r) \notin seen

\* qsize() counts the order being executed too
HasRoom == active < MaxDepth

EnqueueWithRoom(r) ==
    /\ Fresh(r)
    /\ HasRoom
    /\ LET item == [seq |-> nextSeq, req |-> r] IN
       /\ PutNowait(item, active, evicted)
       /\ mirror' = mirror \cup {item}
    /\ seen' = seen \cup {Key(r)}
    /\ nextSeq' = nextSeq + 1
    /\ UNCHANGED <<pc, current, stopping>>

\* Full, and nothing waiting is worse: the new request is dropped
EnqueueRefused(r) ==
    /\ Fresh(r)
    /\ ~HasRoom
    /\ \A m \in mirror : Priority(m.req) <= Priority(r)
    /\ nextSeq' = nextSeq + 1
    /\ UNCHANGED <<queueVars, mirror, seen, pc, current, stopping>>

\* Mutant: the victim is the order that has waited longest
IsOldest(w) == w \in mirror /\ \A m \in mirror : w.seq <= m.seq

\* max() over the mirror by priority: the first added among the worst
IsWorst(w) ==
    /\ w \in mirror
    /\ \A m \in mirror :
        \/ Priority(m.req) < Priority(w.req)
        \/ Priority(m.req) = Priority(w.req) /\ w.seq <= m.seq

EnqueueEvicting(r) ==
    /\ Fresh(r)
    /\ ~HasRoom
    /\ \E w \in mirror :
        /\ IsWorst(w)
        /\ Priority(w.req) > Priority(r)
        /\ LET item == [seq |-> nextSeq, req |-> r] IN
           /\ PutNowait(item, active - 1, evicted \cup {w.seq})
           /\ mirror' = (mirror \ {w}) \cup {item}
        /\ seen' = (seen \ {Key(w.req)}) \cup {Key(r)}
    /\ nextSeq' = nextSeq + 1
    /\ UNCHANGED <<pc, current, stopping>>

-----------------------------------------------------------------------------
StartDrain ==
    /\ pc = "off"
    /\ pc' = "get"
    /\ UNCHANGED <<queueVars, mirror, seen, nextSeq, current, stopping>>

\* Mutant: the event is cleared although entries remain
PopAndClear(rest) ==
    /\ heap' = rest
    /\ evicted' = evicted \ {h.seq : h \in heap \ rest}
    /\ event' = FALSE

\* Pop the heap down to `rest`: the marks of the popped entries are consumed
PopDownTo(rest) ==
    /\ heap' = rest
    /\ evicted' = evicted \ {h.seq : h \in heap \ rest}
    /\ event' = (rest # {})

\* get() returns the least live entry; the loop then updates the mirror and
\* skips the order if its key is no longer seen
GetItem ==
    /\ pc = "get" /\ event
    /\ \E i \in Live :
        /\ \A j \in Live \ {i} : Before(i, j)
        /\ PopDownTo({h \in heap : Before(i, h)})
        /\ mirror' = mirror \ {i}
        /\ IF Key(i.req) \in seen
           THEN /\ pc' = "process"
                /\ current' = {i}
                /\ active' = active
           ELSE /\ active' = Decrement(active)
                /\ UNCHANGED <<pc, current>>
    /\ UNCHANGED <<seen, nextSeq, stopping>>

\* Only dead entries: get() pops them all and waits for the event again
GetNothing ==
    /\ pc = "get" /\ event
    /\ Live = {}
    /\ PopDownTo({})
    /\ UNCHANGED <<active, mirror, seen, nextSeq, pc, current, stopping>>

\* Mutant: task_done is forgotten
LoopBackWithoutTaskDone ==
    /\ active' = active
    /\ current' = {}
    /\ pc' = IF stopping /\ active' = 0 THEN "done" ELSE "get"

\* After an order: leave the loop if stopping and empty, else get() again
LoopBack ==
    /\ active' = Decrement(active)
    /\ current' = {}
    /\ pc' = IF stopping /\ active' = 0 THEN "done" ELSE "get"

CurrentKeys == {Key(i.req) : i \in current}

\* _process_one returned a result: the key is freed before the callback runs
ProcessReturns ==
    /\ pc = "process"
    /\ pc' = "callback"
    /\ seen' = seen \ CurrentKeys
    /\ UNCHANGED <<queueVars, mirror, nextSeq, current, stopping>>

\* _process_one raised: no callback
ProcessRaises ==
    /\ pc = "process"
    /\ seen' = seen \ CurrentKeys
    /\ LoopBack
    /\ UNCHANGED <<heap, evicted, event, mirror, nextSeq, stopping>>

\* The callback returned, or raised and was logged
CallbackReturns ==
    /\ pc = "callback"
    /\ LoopBack
    /\ UNCHANGED <<heap, evicted, event, mirror, seen, nextSeq, stopping>>

-----------------------------------------------------------------------------
StopDrain ==
    /\ pc # "off" /\ ~stopping
    /\ stopping' = TRUE
    /\ UNCHANGED <<queueVars, mirror, seen, nextSeq, pc, current>>

\* Mutant: stop_drain waits but never cancels the task
DrainNotCancelled ==
    /\ stopping /\ pc \notin {"off", "done"}
    /\ UNCHANGED vars

\* The drain task is cancelled.  If it held an order, the CancelledError
\* handler and the finally block both call task_done.
CancelDrain ==
    /\ stopping /\ pc \notin {"off", "done"}
    /\ pc' = "done"
    /\ current' = {}
    /\ seen' = seen \ CurrentKeys
    /\ active' = IF current = {} THEN active ELSE Decrement(Decrement(active))
    /\ UNCHANGED <<heap, evicted, event, mirror, nextSeq, stopping>>

\* join() saw nothing active
JoinReturns == active = 0 /\ CancelDrain

\* 30 seconds passed first
JoinTimesOut == active > 0 /\ CancelDrain

\* The drain task has ended: nothing more happens
Ended ==
    /\ pc = "done"
    /\ UNCHANGED vars

Drain == GetItem \/ GetNothing \/ ProcessReturns \/ ProcessRaises \/ CallbackReturns

Next ==
    \/ \E r \in Requests : EnqueueWithRoom(r) \/ EnqueueRefused(r) \/ EnqueueEvicting(r)
    \/ StartDrain \/ Drain
    \/ StopDrain \/ JoinReturns \/ JoinTimesOut
    \/ Ended

\* The event loop runs the drain task whenever it is ready, and every await
\* in it ends: the HTTP calls and the fill poll have timeouts.  stop_drain's
\* wait_for ends too.  Nothing forces a tick to enqueue or run() to stop.
Fairness ==
    /\ WF_vars(StartDrain)
    /\ WF_vars(Drain)
    /\ WF_vars(JoinReturns \/ JoinTimesOut)

Spec == Init /\ [][Next]_vars
FairSpec == Spec /\ Fairness

-----------------------------------------------------------------------------
TypeOK ==
    /\ heap \in SUBSET Item /\ IsFiniteSet(heap)
    /\ evicted \in SUBSET Nat
    /\ active \in Nat
    /\ event \in BOOLEAN
    /\ mirror \in SUBSET Item
    /\ seen \in SUBSET {Key(r) : r \in Requests}
    /\ nextSeq \in 0..MaxSeq
    /\ pc \in {"off", "get", "process", "callback", "done"}
    /\ current \in SUBSET Item
    /\ stopping \in BOOLEAN

\* A sequence number identifies one order, in the heap or in the drain task's
\* hands but not in both; the drain task holds an order just while it executes
\* one.
HeapWellFormed ==
    /\ \A i \in heap \cup current : i.seq < nextSeq
    /\ \A i, j \in heap \cup current : i.seq = j.seq => i = j
    /\ heap \cap current = {}
    /\ IF pc \in {"process", "callback"} THEN \E i \in current : current = {i} ELSE current = {}

\* qsize() is what it claims to be: the entries that get() would return plus
\* the order the drain task holds, however many dead entries the heap carries.
\* Every admission decision and join() rest on it.
Accounting ==
    pc # "done" => active = Cardinality(Live) + Cardinality(current)

\* The mirror from which the eviction victim is chosen lists exactly the
\* orders that get() can still return.
MirrorExact == mirror = Live

\* An order is never left waiting behind a cleared event, which would block
\* get() until the next enqueue.
NoLostWakeup == Live # {} => event

\* Every mark names an entry still in the heap: no mark is left behind to hit
\* a later order, and the order being executed is never marked.
MarksResolved == \A s \in evicted : \E i \in heap : i.seq = s

Outstanding == Live \cup (IF pc = "process" THEN current ELSE {})

\* The deduplication set holds exactly the keys of the orders that wait or
\* are being executed, and no two of those share a key; in particular the
\* drain loop's "if evicted, skip silently" branch is never taken.  (After
\* the drain task is cancelled in the callback it does not hold: the handler
\* discards a key that a newer order may have taken since.)
OneOutstandingPerKey ==
    pc # "done" =>
        /\ seen = {Key(i.req) : i \in Outstanding}
        /\ \A i, j \in Outstanding : Key(i.req) = Key(j.req) => i = j

\* Counter, mirror, event and deduplication set never drift from the heap they
\* stand for, whatever enqueues, evictions, failures and callbacks interleave
\* (_EvictablePriorityQueue, AsyncBroker.enqueue, _drain_loop).
Bookkeeping == Accounting /\ MirrorExact /\ NoLostWakeup /\ OneOutstandingPerKey

\* order_queue_max_depth bounds what really waits and executes, not only the
\* counter.
DepthBounded == Cardinality(mirror) + Cardinality(current) <= MaxDepth

\* A SELL that was accepted leaves the queue only into the hands of the
\* drain task: it is never evicted and never skipped.
SellsAreKept ==
    [][\A i \in mirror : i.req.side = "SELL" /\ i \notin mirror' => i \in current']_vars

\* The queue behaves as a bounded priority buffer (PriorityBuffer.tla): its
\* heap, marks, event and counters add nothing to what callers can see.
Buffer == INSTANCE PriorityBuffer WITH
    Capacity <- MaxDepth, waiting <- Live, serving <- current,
    answered <- (pc = "callback"), issued <- nextSeq, closed <- (pc = "done")
ImplementsBuffer == Buffer!Spec

\* The drain task ends only during a shutdown.
EndsOnlyWhenStopping == pc = "done" => stopping

\* The inductive invariant behind all of these
QueueInv ==
    /\ TypeOK /\ EndsOnlyWhenStopping /\ HeapWellFormed /\ MirrorExact /\ MarksResolved /\ NoLostWakeup
    /\ OneOutstandingPerKey /\ Accounting /\ DepthBounded

\* While the drain task lives, no waiting order is left waiting for ever: it
\* is dispatched or evicted, or the drain task is cancelled at shutdown.
\* (MaxSeq makes the arrivals finite: an endless stream of SELLs would starve
\* a BUY.)
EveryOrderLeaves ==
    \A s \in 0..(MaxSeq - 1) :
        (\E i \in mirror : i.seq = s) ~> (pc = "done" \/ ~\E i \in mirror : i.seq = s)

\* Once stop_drain is called the drain task ends, whatever it was doing and
\* however many orders were waiting.
ShutdownEnds == stopping ~> pc = "done"
=============================================================================
