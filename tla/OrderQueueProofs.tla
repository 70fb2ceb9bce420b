-------------------------- MODULE OrderQueueProofs --------------------------
(***************************************************************************)
(* The order queue, for every set of requests, every depth and every bound *)
(* on the sequence numbers.                                                *)
(***************************************************************************)
EXTENDS OrderQueue, FiniteSetTheorems, TLAPS

\* Requests have a natural priority and their keys are in the set of keys.
LEMMA RequestTypes ==
    ASSUME NEW r \in Requests
    PROVE  /\ Priority(r) \in 0..7
           /\ r.side = "SELL" <=> Priority(r) = 0
           /\ Key(r) \in {Key(q) : q \in Requests}
BY RequestAssumption DEF RequestRecord, Priority

\* The order of the heap's tuples is irreflexive and asymmetric.
LEMMA BeforeIsStrict ==
    ASSUME NEW i \in Item, NEW j \in Item
    PROVE  /\ ~Before(i, i)
           /\ Before(i, j) => ~Before(j, i)
BY RequestTypes DEF Before, Item

\* The empty queue of AsyncBroker.__init__ is well typed.
LEMMA TypeInit == Init => TypeOK
<1> SUFFICES ASSUME Init PROVE TypeOK
  OBVIOUS
<1>1. IsFiniteSet(heap)
  BY FS_EmptySet, Zenon DEF Init
<1>2. nextSeq \in 0..MaxSeq /\ active \in Nat
  BY QueueAssumption DEF Init
<1>3. QED
  BY <1>1, <1>2 DEF Init, TypeOK

\* Every step of enqueue, the drain loop and stop_drain keeps the types.
LEMMA TypeStep == TypeOK /\ [Next]_vars => TypeOK'
<1> SUFFICES ASSUME TypeOK, [Next]_vars PROVE TypeOK'
  OBVIOUS
<1> USE QueueAssumption DEF TypeOK
<1>1. ASSUME NEW r \in Requests, EnqueueWithRoom(r) PROVE TypeOK'
  <2> DEFINE item == [seq |-> nextSeq, req |-> r]
  <2>1. item \in Item
    BY DEF Item
  <2>2. IsFiniteSet(heap \cup {item})
    BY FS_AddElement
  <2>3. QED
    BY <1>1, <2>1, <2>2, RequestTypes DEF EnqueueWithRoom, Fresh, PutNowait
<1>2. ASSUME NEW r \in Requests, EnqueueRefused(r) PROVE TypeOK'
  BY <1>2 DEF EnqueueRefused, Fresh, queueVars
<1>3. ASSUME NEW r \in Requests, EnqueueEvicting(r) PROVE TypeOK'
  <2> DEFINE item == [seq |-> nextSeq, req |-> r]
  <2>1. item \in Item
    BY DEF Item
  <2>2. IsFiniteSet(heap \cup {item})
    BY FS_AddElement
  <2>3. PICK w \in mirror : /\ PutNowait(item, active - 1, evicted \cup {w.seq})
                            /\ mirror' = (mirror \ {w}) \cup {item}
                            /\ seen' = (seen \ {Key(w.req)}) \cup {Key(r)}
    BY <1>3 DEF EnqueueEvicting
  <2>4. w.seq \in Nat
    BY DEF Item
  <2>5. QED
    BY <1>3, <2>1, <2>2, <2>3, <2>4, RequestTypes DEF EnqueueEvicting, Fresh, PutNowait
<1>4. CASE StartDrain
  BY <1>4 DEF StartDrain, queueVars
<1>5. CASE GetItem
  <2>1. PICK i \in Live :
            /\ PopDownTo({h \in heap : Before(i, h)})
            /\ mirror' = mirror \ {i}
            /\ \/ pc' = "process" /\ current' = {i} /\ active' = active
               \/ active' = Decrement(active) /\ UNCHANGED <<pc, current>>
    BY <1>5 DEF GetItem
  <2>2. IsFiniteSet({h \in heap : Before(i, h)})
    BY FS_Subset
  <2>3. heap' \in SUBSET Item /\ IsFiniteSet(heap') /\ evicted' \in SUBSET Nat
    BY <2>1, <2>2, Zenon DEF PopDownTo
  <2>4. event' \in BOOLEAN
    BY <2>1 DEF PopDownTo
  <2>5. active' \in Nat
    BY <2>1 DEF Decrement
  <2>6. mirror' \in SUBSET Item /\ current' \in SUBSET Item
    BY <2>1 DEF Live
  <2>7. pc' \in {"off", "get", "process", "callback", "done"}
    BY <2>1
  <2>8. UNCHANGED <<seen, nextSeq, stopping>>
    BY <1>5 DEF GetItem
  <2>9. QED
    BY <2>3, <2>4, <2>5, <2>6, <2>7, <2>8
<1>6. CASE GetNothing
  BY <1>6, FS_EmptySet DEF GetNothing, PopDownTo
<1>7. CASE ProcessReturns
  BY <1>7 DEF ProcessReturns, queueVars
<1>8. CASE ProcessRaises
  BY <1>8 DEF ProcessRaises, LoopBack, Decrement
<1>9. CASE CallbackReturns
  BY <1>9 DEF CallbackReturns, LoopBack, Decrement
<1>10. CASE StopDrain
  BY <1>10 DEF StopDrain, queueVars
<1>11. CASE CancelDrain
  BY <1>11 DEF CancelDrain, Decrement
<1>12. CASE UNCHANGED vars
  BY <1>12 DEF vars
<1>13. QED
  BY <1>1, <1>2, <1>3, <1>4, <1>5, <1>6, <1>7, <1>8, <1>9, <1>10, <1>11, <1>12
     DEF Next, Drain, JoinReturns, JoinTimesOut, Ended

\* The type invariant: TypeOK is inductive on its own.
THEOREM TypeCorrect == Spec => []TypeOK
BY TypeInit, TypeStep, PTL DEF Spec
-----------------------------------------------------------------------------

\* The waiting orders and the held order are finite; at most one is held.
LEMMA Counts ==
    ASSUME QueueInv
    PROVE  /\ IsFiniteSet(Live) /\ Cardinality(Live) \in Nat
           /\ IsFiniteSet(current)
           /\ Cardinality(current) = IF pc \in {"process", "callback"} THEN 1 ELSE 0
<1>1. IsFiniteSet(Live) /\ Cardinality(Live) \in Nat
  BY FS_Subset, FS_CardinalityType DEF QueueInv, TypeOK, Live
<1>2. CASE pc \in {"process", "callback"}
  <2>1. PICK i \in current : current = {i}
    BY <1>2 DEF QueueInv, HeapWellFormed
  <2>2. IsFiniteSet({i}) /\ Cardinality({i}) = 1
    BY FS_Singleton
  <2>3. QED
    BY <1>1, <1>2, <2>1, <2>2
<1>3. CASE pc \notin {"process", "callback"}
  <2>1. current = {}
    BY <1>3 DEF QueueInv, HeapWellFormed
  <2>2. QED
    BY <1>1, <1>3, <2>1, FS_EmptySet
<1>4. QED
  BY <1>2, <1>3

\* A new heap entry carries a sequence number that nothing else carries.
LEMMA NewItem ==
    ASSUME QueueInv, NEW r \in Requests
    PROVE  LET item == [seq |-> nextSeq, req |-> r] IN
           /\ item \in Item /\ item \notin heap /\ item \notin current /\ item.seq = nextSeq
           /\ nextSeq \notin evicted
           /\ \A i \in heap \cup current : i \in Item /\ i.seq # nextSeq
<1>1. nextSeq \in Nat
  BY QueueAssumption DEF QueueInv, TypeOK
<1>2. \A i \in heap \cup current : i \in Item /\ i.seq \in Nat /\ i.seq < nextSeq
  BY DEF QueueInv, TypeOK, HeapWellFormed, Item
<1>3. nextSeq \notin evicted
  BY <1>1, <1>2 DEF QueueInv, MarksResolved
<1>4. QED
  BY <1>1, <1>2, <1>3 DEF Item

\* enqueue() with room for the order keeps the invariant.
LEMMA RoomStep ==
    ASSUME QueueInv, TypeOK', NEW r \in Requests, EnqueueWithRoom(r)
    PROVE  QueueInv'
<1> DEFINE item == [seq |-> nextSeq, req |-> r]
<1>1. /\ heap' = heap \cup {item} /\ evicted' = evicted /\ active' = active + 1 /\ event' = TRUE
      /\ mirror' = mirror \cup {item} /\ seen' = seen \cup {Key(r)} /\ nextSeq' = nextSeq + 1
      /\ UNCHANGED <<pc, current>>
  BY DEF EnqueueWithRoom, PutNowait
<1>2. /\ item \in Item /\ item \notin heap /\ item \notin current /\ item.seq = nextSeq /\ item.req = r
      /\ nextSeq \notin evicted
      /\ \A i \in heap \cup current : i \in Item /\ i.seq # nextSeq
  BY NewItem
<1>3. Live' = Live \cup {item} /\ item \notin Live
  BY <1>1, <1>2 DEF Live
<1> HIDE DEF item
<1>4. HeapWellFormed'
  <2>1. \A i \in heap' \cup current' : i.seq < nextSeq'
    BY <1>1, <1>2 DEF QueueInv, HeapWellFormed, TypeOK, Item
  <2>2. \A i, j \in heap' \cup current' : i.seq = j.seq => i = j
    BY <1>1, <1>2 DEF QueueInv, HeapWellFormed
  <2>3. QED
    BY <1>1, <1>2, <2>1, <2>2 DEF QueueInv, HeapWellFormed
<1>5. MirrorExact' /\ NoLostWakeup' /\ MarksResolved'
  BY <1>1, <1>3 DEF QueueInv, MirrorExact, NoLostWakeup, MarksResolved
<1>6. Outstanding' = Outstanding \cup {item}
  BY <1>1, <1>3 DEF Outstanding
<1>7. OneOutstandingPerKey'
  BY <1>1, <1>2, <1>6 DEF QueueInv, OneOutstandingPerKey, EnqueueWithRoom, Fresh
<1>8. IsFiniteSet(Live) /\ Cardinality(Live) \in Nat /\ Cardinality(current) \in Nat
  BY Counts
<1>9. Cardinality(Live') = Cardinality(Live) + 1
  BY <1>3, <1>8, FS_AddElement
<1>10. Accounting'
  BY <1>1, <1>8, <1>9 DEF QueueInv, Accounting
<1>11. pc # "done"
  BY DEF EnqueueWithRoom, Fresh, QueueInv, EndsOnlyWhenStopping
<1>12. DepthBounded'
  <2>1. Cardinality(mirror') = Cardinality(Live) + 1
    BY <1>5, <1>9 DEF MirrorExact
  <2>2. Cardinality(Live) + Cardinality(current) < MaxDepth
    BY <1>11 DEF QueueInv, Accounting, EnqueueWithRoom, HasRoom
  <2>3. QED
    BY <1>1, <1>8, <2>1, <2>2, QueueAssumption DEF DepthBounded
<1>13. QED
  BY <1>1, <1>4, <1>5, <1>7, <1>10, <1>11, <1>12 DEF QueueInv, EndsOnlyWhenStopping

\* enqueue() of a full queue that evicts a worse order keeps the invariant.
LEMMA EvictStep ==
    ASSUME QueueInv, TypeOK', NEW r \in Requests, EnqueueEvicting(r)
    PROVE  QueueInv'
<1> DEFINE item == [seq |-> nextSeq, req |-> r]
<1>1. PICK w \in mirror :
          /\ heap' = heap \cup {item} /\ evicted' = evicted \cup {w.seq}
          /\ active' = (active - 1) + 1 /\ event' = TRUE
          /\ mirror' = (mirror \ {w}) \cup {item}
          /\ seen' = (seen \ {Key(w.req)}) \cup {Key(r)}
  BY DEF EnqueueEvicting, PutNowait
<1>2. nextSeq' = nextSeq + 1 /\ UNCHANGED <<pc, current>> /\ ~stopping /\ Key(r) \notin seen
  BY DEF EnqueueEvicting, Fresh
<1>3. /\ item \in Item /\ item \notin heap /\ item \notin current /\ item.seq = nextSeq /\ item.req = r
      /\ nextSeq \notin evicted
      /\ \A i \in heap \cup current : i \in Item /\ i.seq # nextSeq
  BY NewItem
<1>4. w \in Live /\ w \in heap /\ w \notin current
  BY DEF QueueInv, MirrorExact, Live, HeapWellFormed
<1>5. Live' = (Live \ {w}) \cup {item} /\ item \notin Live
  <2>1. w.seq # nextSeq
    BY <1>3, <1>4
  <2>2. \A i \in heap : i.seq = w.seq => i = w
    BY <1>4 DEF QueueInv, HeapWellFormed
  <2>3. QED
    BY <1>1, <1>3, <1>4, <2>1, <2>2 DEF Live
<1> HIDE DEF item
<1>6. HeapWellFormed'
  <2>1. \A i \in heap' \cup current' : i.seq < nextSeq'
    BY <1>1, <1>2, <1>3 DEF QueueInv, HeapWellFormed, TypeOK, Item
  <2>2. \A i, j \in heap' \cup current' : i.seq = j.seq => i = j
    BY <1>1, <1>2, <1>3 DEF QueueInv, HeapWellFormed
  <2>3. QED
    BY <1>1, <1>2, <1>3, <2>1, <2>2 DEF QueueInv, HeapWellFormed
<1>7. MirrorExact' /\ NoLostWakeup' /\ MarksResolved'
  BY <1>1, <1>4, <1>5 DEF QueueInv, MirrorExact, NoLostWakeup, MarksResolved
<1>8. Outstanding' = (Outstanding \ {w}) \cup {item} /\ w \in Outstanding
  BY <1>2, <1>4, <1>5 DEF Outstanding
<1>9. pc # "done"
  BY <1>2 DEF QueueInv, EndsOnlyWhenStopping
<1>10. OneOutstandingPerKey'
  BY <1>1, <1>2, <1>3, <1>8, <1>9 DEF QueueInv, OneOutstandingPerKey
<1>11. IsFiniteSet(Live) /\ Cardinality(Live) \in Nat /\ Cardinality(current) \in Nat
  BY Counts
<1>12. Cardinality(Live') = Cardinality(Live)
  <2>1. IsFiniteSet(Live \ {w}) /\ Cardinality(Live \ {w}) = Cardinality(Live) - 1
    BY <1>4, <1>11, FS_RemoveElement
  <2>2. item \notin Live \ {w}
    BY <1>5
  <2>3. Cardinality((Live \ {w}) \cup {item}) = (Cardinality(Live) - 1) + 1
    BY <2>1, <2>2, FS_AddElement
  <2>4. QED
    BY <1>5, <1>11, <2>3
<1>13. active' = active
  BY <1>1 DEF QueueInv, TypeOK
<1>14. Accounting'
  BY <1>2, <1>9, <1>12, <1>13 DEF QueueInv, Accounting
<1>15. DepthBounded'
  BY <1>2, <1>7, <1>12 DEF QueueInv, DepthBounded, MirrorExact
<1>16. EndsOnlyWhenStopping'
  BY <1>2, <1>9 DEF EndsOnlyWhenStopping
<1>17. QED
  BY <1>6, <1>7, <1>10, <1>14, <1>15, <1>16 DEF QueueInv

\* get(): popping down to the least live entry makes just that entry not live.
LEMMA PopLive ==
    ASSUME QueueInv, NEW i \in Live, \A j \in Live \ {i} : Before(i, j),
           PopDownTo({h \in heap : Before(i, h)})
    PROVE  /\ Live' = Live \ {i}
           /\ i \notin heap'
           /\ heap' \subseteq heap
           /\ MarksResolved'
           /\ heap' # {} => event'
<1>1. /\ heap' = {h \in heap : Before(i, h)}
      /\ evicted' = evicted \ {h.seq : h \in heap \ heap'}
      /\ event' = (heap' # {})
  BY DEF PopDownTo
<1>2. i \in heap /\ i \in Item /\ ~Before(i, i)
  BY BeforeIsStrict DEF QueueInv, TypeOK, Live
<1>3. i \notin heap'
  BY <1>1, <1>2
<1>4. \A h \in heap' : h.seq \in evicted <=> h.seq \in evicted'
  BY <1>1 DEF QueueInv, HeapWellFormed
<1>5. Live' = Live \ {i}
  BY <1>1, <1>2, <1>3, <1>4 DEF Live
<1>6. MarksResolved'
  <2> SUFFICES ASSUME NEW s \in evicted' PROVE \E h \in heap' : h.seq = s
    BY DEF MarksResolved
  <2>1. PICK h \in heap : h.seq = s
    BY <1>1 DEF QueueInv, MarksResolved
  <2>2. QED
    BY <1>1, <2>1
<1>7. QED
  BY <1>1, <1>3, <1>5, <1>6

\* get() with a live entry keeps the invariant: the entries it pops before
\* the one it returns are all dead.
LEMMA GetItemStep ==
    ASSUME QueueInv, TypeOK', GetItem
    PROVE  /\ QueueInv'
           /\ \E i \in Live : /\ \A j \in Live \ {i} : Before(i, j)
                              /\ Live' = Live \ {i}
                              /\ current = {} /\ current' = {i}
                              /\ pc = "get" /\ pc' = "process"
<1>1. PICK i \in Live :
          /\ \A j \in Live \ {i} : Before(i, j)
          /\ PopDownTo({h \in heap : Before(i, h)})
          /\ mirror' = mirror \ {i}
          /\ IF Key(i.req) \in seen
             THEN pc' = "process" /\ current' = {i} /\ active' = active
             ELSE active' = Decrement(active) /\ UNCHANGED <<pc, current>>
  BY DEF GetItem
<1>2. pc = "get" /\ UNCHANGED <<seen, nextSeq, stopping>>
  BY DEF GetItem
<1>3. Key(i.req) \in seen
  BY <1>2 DEF QueueInv, OneOutstandingPerKey, Outstanding
<1>4. pc' = "process" /\ current' = {i} /\ active' = active
  BY <1>1, <1>3
<1>5. Live' = Live \ {i} /\ i \notin heap' /\ heap' \subseteq heap /\ MarksResolved' /\ (heap' # {} => event')
  BY <1>1, PopLive
<1>6. current = {} /\ i \in heap
  BY <1>2 DEF QueueInv, HeapWellFormed, Live
<1>7. HeapWellFormed'
  BY <1>2, <1>4, <1>5, <1>6 DEF QueueInv, HeapWellFormed
<1>8. MirrorExact' /\ NoLostWakeup'
  BY <1>1, <1>5 DEF QueueInv, MirrorExact, NoLostWakeup, Live
<1>9. Outstanding' = Outstanding
  BY <1>2, <1>4, <1>5 DEF Outstanding
<1>10. OneOutstandingPerKey'
  BY <1>2, <1>4, <1>9 DEF QueueInv, OneOutstandingPerKey
<1>11. /\ IsFiniteSet(Live) /\ Cardinality(Live) \in Nat /\ Cardinality(current) = 0
       /\ Cardinality(current') = 1
  BY <1>2, <1>4, Counts, FS_Singleton
<1>12. Cardinality(Live') = Cardinality(Live) - 1
  BY <1>5, <1>11, FS_RemoveElement
<1>13. Accounting'
  BY <1>2, <1>4, <1>11, <1>12 DEF QueueInv, Accounting
<1>14. DepthBounded'
  <2>1. Cardinality(Live') + Cardinality(current') = Cardinality(Live) + Cardinality(current)
    BY <1>11, <1>12
  <2>2. mirror = Live /\ mirror' = Live'
    BY <1>8 DEF QueueInv, MirrorExact
  <2>3. QED
    BY <2>1, <2>2 DEF QueueInv, DepthBounded
<1>15. EndsOnlyWhenStopping'
  BY <1>4 DEF EndsOnlyWhenStopping
<1>16. QED
  BY <1>1, <1>2, <1>4, <1>5, <1>6, <1>7, <1>8, <1>10, <1>13, <1>14, <1>15 DEF QueueInv

\* get() that meets only dead entries keeps the invariant.
LEMMA GetNothingStep ==
    ASSUME QueueInv, TypeOK', GetNothing
    PROVE  QueueInv' /\ Live' = Live
<1>1. /\ heap' = {} /\ evicted' = evicted \ {h.seq : h \in heap}
      /\ Live = {} /\ pc = "get"
      /\ UNCHANGED <<active, mirror, seen, nextSeq, pc, current, stopping>>
  BY DEF GetNothing, PopDownTo
<1>2. Live' = {}
  BY <1>1 DEF Live
<1>3. evicted' = {}
  BY <1>1 DEF QueueInv, MarksResolved
<1>4. HeapWellFormed' /\ MirrorExact' /\ MarksResolved' /\ NoLostWakeup'
  BY <1>1, <1>2, <1>3
     DEF QueueInv, HeapWellFormed, MirrorExact, MarksResolved, NoLostWakeup
<1>5. OneOutstandingPerKey' /\ EndsOnlyWhenStopping' /\ DepthBounded' /\ Accounting'
  BY <1>1, <1>2
     DEF QueueInv, OneOutstandingPerKey, Outstanding, EndsOnlyWhenStopping, DepthBounded, Accounting
<1>6. QED
  BY <1>1, <1>2, <1>4, <1>5 DEF QueueInv

\* The return of _process_one keeps the invariant: its key is freed as the
\* order stops being outstanding.
LEMMA AnswerStep ==
    ASSUME QueueInv, TypeOK', ProcessReturns
    PROVE  QueueInv'
<1>1. /\ pc = "process" /\ pc' = "callback" /\ seen' = seen \ CurrentKeys
      /\ UNCHANGED <<heap, evicted, active, event, mirror, nextSeq, current, stopping>>
  BY DEF ProcessReturns, queueVars
<1>2. Live' = Live
  BY <1>1 DEF Live
<1>3. HeapWellFormed' /\ MirrorExact' /\ MarksResolved' /\ NoLostWakeup'
  BY <1>1, <1>2
     DEF QueueInv, HeapWellFormed, MirrorExact, MarksResolved, NoLostWakeup
<1>4. EndsOnlyWhenStopping' /\ DepthBounded' /\ Accounting'
  BY <1>1, <1>2 DEF QueueInv, EndsOnlyWhenStopping, DepthBounded, Accounting
<1>5. Outstanding = Live \cup current /\ Outstanding' = Live /\ Live \cap current = {}
  BY <1>1, <1>2 DEF Outstanding, QueueInv, HeapWellFormed, Live
<1>6. OneOutstandingPerKey'
  BY <1>1, <1>5 DEF QueueInv, OneOutstandingPerKey, CurrentKeys
<1>7. QED
  BY <1>3, <1>4, <1>6 DEF QueueInv

\* The order leaves the drain task's hands: after the callback, after an
\* exception in _process_one, or because the task is cancelled.
LEMMA ReleaseStep ==
    ASSUME QueueInv, TypeOK', pc \in {"process", "callback"}, LoopBack,
           seen' = (IF pc = "process" THEN seen \ CurrentKeys ELSE seen),
           UNCHANGED <<heap, evicted, event, mirror, nextSeq, stopping>>
    PROVE  QueueInv'
<1>1. Live' = Live
  BY DEF Live
<1>2. current' = {} /\ pc' \in {"get", "done"} /\ (pc' = "done" => stopping)
  BY DEF LoopBack
<1>3. HeapWellFormed' /\ MirrorExact' /\ MarksResolved' /\ NoLostWakeup' /\ EndsOnlyWhenStopping'
  BY <1>1, <1>2
     DEF QueueInv, HeapWellFormed, MirrorExact, MarksResolved, NoLostWakeup, EndsOnlyWhenStopping
<1>4. /\ Cardinality(Live) \in Nat /\ Cardinality(current) = 1
      /\ Cardinality(current') = 0
  BY <1>2, Counts, FS_EmptySet
<1>5. active = Cardinality(Live) + 1
  BY <1>4 DEF QueueInv, Accounting
<1>6. active' = Cardinality(Live)
  BY <1>4, <1>5 DEF LoopBack, Decrement
<1>7. Accounting'
  BY <1>1, <1>4, <1>6 DEF Accounting
<1>8. DepthBounded'
  <2>1. mirror = Live /\ mirror' = Live
    BY <1>1, <1>3 DEF QueueInv, MirrorExact
  <2>2. QED
    BY <1>4, <2>1, QueueAssumption DEF QueueInv, DepthBounded
<1>9. Outstanding' = Live /\ Live \cap current = {}
  BY <1>1, <1>2 DEF Outstanding, QueueInv, HeapWellFormed, Live
<1>10. OneOutstandingPerKey'
  BY <1>9 DEF QueueInv, OneOutstandingPerKey, Outstanding, CurrentKeys
<1>11. QED
  BY <1>3, <1>7, <1>8, <1>10 DEF QueueInv

\* The cancellation of the drain task keeps what the invariant says of an
\* ended drain task.
LEMMA CancelStep ==
    ASSUME QueueInv, TypeOK', CancelDrain
    PROVE  QueueInv'
<1>1. /\ stopping /\ pc' = "done" /\ current' = {}
      /\ UNCHANGED <<heap, evicted, event, mirror, nextSeq, stopping>>
  BY DEF CancelDrain
<1>2. Live' = Live
  BY <1>1 DEF Live
<1>3. HeapWellFormed' /\ MirrorExact' /\ MarksResolved' /\ NoLostWakeup'
  BY <1>1, <1>2
     DEF QueueInv, HeapWellFormed, MirrorExact, MarksResolved, NoLostWakeup
<1>4. EndsOnlyWhenStopping' /\ Accounting' /\ OneOutstandingPerKey'
  BY <1>1 DEF EndsOnlyWhenStopping, Accounting, OneOutstandingPerKey
<1>5. DepthBounded'
  <2>1. Cardinality(Live) \in Nat /\ Cardinality(current) \in Nat /\ Cardinality(current') = 0
    BY <1>1, Counts, FS_EmptySet
  <2>2. mirror = Live /\ mirror' = Live
    BY <1>1 DEF QueueInv, MirrorExact
  <2>3. QED
    BY <2>1, <2>2, QueueAssumption DEF QueueInv, DepthBounded
<1>6. QED
  BY <1>3, <1>4, <1>5 DEF QueueInv

\* Steps that leave the orders where they are.
LEMMA FrameStep ==
    ASSUME QueueInv, TypeOK',
           UNCHANGED <<heap, evicted, active, event, mirror, seen, current>>,
           \/ nextSeq' = nextSeq + 1 /\ UNCHANGED <<pc, stopping>>
           \/ UNCHANGED nextSeq /\ pc = "off" /\ pc' = "get"
           \/ UNCHANGED <<nextSeq, pc>> /\ stopping'
           \/ UNCHANGED <<nextSeq, pc, stopping>>
    PROVE  QueueInv' /\ Live' = Live
<1>1. Live' = Live
  BY DEF Live
<1>2. Outstanding' = Outstanding
  BY <1>1 DEF Outstanding
<1>3. nextSeq' = nextSeq \/ nextSeq' = nextSeq + 1
  OBVIOUS
<1>4. HeapWellFormed'
  <2>1. \A i \in heap \cup current : i.seq < nextSeq'
    BY <1>3 DEF QueueInv, TypeOK, HeapWellFormed, Item
  <2>2. QED
    BY <2>1 DEF QueueInv, HeapWellFormed
<1>5. MirrorExact' /\ MarksResolved' /\ NoLostWakeup'
  BY <1>1 DEF QueueInv, MirrorExact, MarksResolved, NoLostWakeup
<1>6. Accounting' /\ DepthBounded' /\ EndsOnlyWhenStopping'
  BY <1>1 DEF QueueInv, Accounting, DepthBounded, EndsOnlyWhenStopping
<1>7. OneOutstandingPerKey'
  BY <1>2 DEF QueueInv, OneOutstandingPerKey
<1>8. QED
  BY <1>1, <1>4, <1>5, <1>6, <1>7 DEF QueueInv

\* The empty queue satisfies the invariant.
LEMMA InvInit == Init => QueueInv
<1> SUFFICES ASSUME Init PROVE QueueInv
  OBVIOUS
<1>1. TypeOK
  BY TypeInit
<1>2. Live = {} /\ Outstanding = {}
  BY DEF Init, Live, Outstanding
<1>3. Cardinality({}) = 0
  BY FS_EmptySet
<1>4. HeapWellFormed /\ MirrorExact /\ MarksResolved /\ NoLostWakeup /\ EndsOnlyWhenStopping
  BY <1>2 DEF Init, HeapWellFormed, MirrorExact, MarksResolved, NoLostWakeup, EndsOnlyWhenStopping
<1>5. OneOutstandingPerKey
  BY <1>2 DEF Init, OneOutstandingPerKey
<1>6. Accounting /\ DepthBounded
  BY <1>2, <1>3, QueueAssumption DEF Init, Accounting, DepthBounded
<1>7. QED
  BY <1>1, <1>4, <1>5, <1>6 DEF QueueInv

\* Every step of the queue keeps the invariant.
LEMMA InvStep == QueueInv /\ [Next]_vars => QueueInv'
<1> SUFFICES ASSUME QueueInv, [Next]_vars PROVE QueueInv'
  OBVIOUS
<1>0. TypeOK'
  BY TypeStep DEF QueueInv
<1>1. ASSUME NEW r \in Requests, EnqueueWithRoom(r) PROVE QueueInv'
  BY <1>0, <1>1, RoomStep
<1>2. ASSUME NEW r \in Requests, EnqueueRefused(r) PROVE QueueInv'
  BY <1>0, <1>2, FrameStep DEF EnqueueRefused, queueVars
<1>3. ASSUME NEW r \in Requests, EnqueueEvicting(r) PROVE QueueInv'
  BY <1>0, <1>3, EvictStep
<1>4. CASE StartDrain
  BY <1>0, <1>4, FrameStep DEF StartDrain, queueVars
<1>5. CASE GetItem
  BY <1>0, <1>5, GetItemStep
<1>6. CASE GetNothing
  BY <1>0, <1>6, GetNothingStep
<1>7. CASE ProcessReturns
  BY <1>0, <1>7, AnswerStep
<1>8. CASE ProcessRaises
  BY <1>0, <1>8, ReleaseStep DEF ProcessRaises
<1>9. CASE CallbackReturns
  BY <1>0, <1>9, ReleaseStep DEF CallbackReturns
<1>10. CASE StopDrain
  BY <1>0, <1>10, FrameStep DEF StopDrain, queueVars
<1>11. CASE CancelDrain
  BY <1>0, <1>11, CancelStep
<1>12. CASE UNCHANGED vars
  BY <1>0, <1>12, FrameStep DEF vars
<1>13. QED
  BY <1>1, <1>2, <1>3, <1>4, <1>5, <1>6, <1>7, <1>8, <1>9, <1>10, <1>11, <1>12
     DEF Next, Drain, JoinReturns, JoinTimesOut, Ended

\* The inductive invariant: heap, marks, counter, event, mirror and
\* deduplication set agree in every reachable state of every queue.
THEOREM QueueCorrect == Spec => []QueueInv
BY InvInit, InvStep, PTL DEF Spec

\* Counter, mirror, event and deduplication set agree with the heap.
THEOREM QueueBookkeeping == Spec => []Bookkeeping
<1>1. QueueInv => Bookkeeping
  BY DEF QueueInv, Bookkeeping
<1> QED
  BY QueueCorrect, <1>1, PTL

\* An accepted SELL is never evicted and never skipped.
THEOREM SellsSurvive == Spec => SellsAreKept
<1> DEFINE Kept == \A i \in mirror : i.req.side = "SELL" /\ i \notin mirror' => i \in current'
<1>1. QueueInv /\ [Next]_vars => [Kept]_vars
  <2> SUFFICES ASSUME QueueInv, [Next]_vars,
                      NEW i \in mirror, i.req.side = "SELL", i \notin mirror'
               PROVE  i \in current'
    OBVIOUS
  <2>1. ASSUME NEW r \in Requests, EnqueueEvicting(r) PROVE FALSE
    <3>1. PICK w \in mirror : Priority(w.req) > Priority(r) /\ mirror \ {w} \subseteq mirror'
      BY <2>1 DEF EnqueueEvicting
    <3>2. i = w /\ i.req \in Requests
      BY <3>1 DEF QueueInv, TypeOK, Item
    <3>3. Priority(i.req) = 0 /\ Priority(r) \in 0..7
      BY <3>2, RequestTypes
    <3>4. QED
      BY <3>1, <3>2, <3>3
  <2>2. CASE GetItem
    <3>1. TypeOK'
      BY TypeStep DEF QueueInv
    <3>2. PICK j \in Live : Live' = Live \ {j} /\ current' = {j} /\ QueueInv'
      BY <2>2, <3>1, GetItemStep
    <3>3. QED
      BY <3>2 DEF QueueInv, MirrorExact
  <2>3. CASE ~GetItem /\ \A r \in Requests : ~EnqueueEvicting(r)
    <3>1. mirror \subseteq mirror'
      BY <2>3 DEF Next, Drain, EnqueueWithRoom, EnqueueRefused, StartDrain, GetNothing,
                  ProcessReturns, ProcessRaises, CallbackReturns, StopDrain, JoinReturns,
                  JoinTimesOut, CancelDrain, Ended, vars
    <3>2. QED
      BY <3>1
  <2>4. QED
    BY <2>1, <2>2, <2>3
<1>2. QED
  BY <1>1, QueueCorrect, PTL DEF Spec, SellsAreKept
-----------------------------------------------------------------------------
\* Refinement, one lemma per kind of step.
LEMMA KeysTaken ==
    ASSUME QueueInv, pc # "done"
    PROVE  Buffer!Taken = seen
<1>1. Live \cup (IF pc = "callback" THEN {} ELSE current) = Outstanding
  BY DEF Outstanding, QueueInv, HeapWellFormed
<1>2. QED
  BY <1>1 DEF QueueInv, OneOutstandingPerKey, Buffer!Taken, Buffer!Key, Key

\* The counter says "full" just when the abstract buffer is full.
LEMMA FullMeansNoRoom ==
    ASSUME QueueInv, pc # "done"
    PROVE  Buffer!Full <=> ~HasRoom
<1>1. \A S : Buffer!Cardinality(S) = Cardinality(S)
  BY Zenon DEF Buffer!Cardinality, Cardinality
<1>2. QED
  BY <1>1, Counts, QueueAssumption DEF Buffer!Full, HasRoom, QueueInv, Accounting, TypeOK

\* enqueue(), however it ends, is a Submit of the abstract buffer.
LEMMA SubmitRefines ==
    ASSUME QueueInv, QueueInv', NEW r \in Requests,
           EnqueueWithRoom(r) \/ EnqueueRefused(r) \/ EnqueueEvicting(r)
    PROVE  Buffer!Submit(r)
<1> DEFINE item == [seq |-> nextSeq, req |-> r]
<1>1. Fresh(r) /\ nextSeq' = nextSeq + 1 /\ UNCHANGED <<pc, current>>
  BY DEF EnqueueWithRoom, EnqueueRefused, EnqueueEvicting
<1>2. pc # "done"
  BY <1>1 DEF Fresh, QueueInv, EndsOnlyWhenStopping
<1>3. Key(r) \notin Buffer!Taken
  BY <1>1, <1>2, KeysTaken DEF Fresh
<1>4. mirror = Live /\ mirror' = Live'
  BY DEF QueueInv, MirrorExact
<1>5. \/ ~Buffer!Full /\ Live' = Live \cup {item}
      \/ Buffer!Full /\ (\A w \in Live : Priority(w.req) <= Priority(r)) /\ Live' = Live
      \/ /\ Buffer!Full
         /\ \E w \in Live : /\ Priority(w.req) > Priority(r)
                            /\ \A v \in Live : Priority(v.req) <= Priority(w.req)
                            /\ Live' = (Live \ {w}) \cup {item}
  <2>1. CASE EnqueueWithRoom(r)
    BY <2>1, <1>2, <1>4, FullMeansNoRoom DEF EnqueueWithRoom
  <2>2. CASE EnqueueRefused(r)
    BY <2>2, <1>2, <1>4, FullMeansNoRoom DEF EnqueueRefused
  <2>3. CASE EnqueueEvicting(r)
    <3>1. PICK w \in mirror : IsWorst(w) /\ Priority(w.req) > Priority(r)
                              /\ mirror' = (mirror \ {w}) \cup {item}
      BY <2>3 DEF EnqueueEvicting
    <3>2. \A v \in mirror : v.req \in Requests
      BY DEF QueueInv, TypeOK, Item
    <3>3. \A v \in mirror : Priority(v.req) <= Priority(w.req)
      BY <3>1, <3>2, RequestTypes DEF IsWorst
    <3>4. QED
      BY <2>3, <3>1, <3>3, <1>2, <1>4, FullMeansNoRoom DEF EnqueueEvicting
  <2>4. QED
    BY <2>1, <2>2, <2>3
<1>6. QED
  BY <1>1, <1>2, <1>3, <1>5 DEF Buffer!Submit, Buffer!Key, Key, Buffer!Priority, Priority

\* The end of an order is a Release of the abstract buffer.
LEMMA ReleaseRefines ==
    ASSUME QueueInv, pc # "done", pc' \in {"get", "done"}, current' = {},
           UNCHANGED <<heap, evicted, nextSeq>>
    PROVE  Buffer!Release
BY DEF Buffer!Release, Live

\* AsyncBroker's queue implements the bounded priority buffer.
THEOREM QueueImplementsBuffer == Spec => ImplementsBuffer
<1>1. Init => Buffer!Init
  BY DEF Init, Buffer!Init, Live
<1>2. QueueInv /\ QueueInv' /\ [Next]_vars => [Buffer!Next]_(Buffer!bufferVars)
  <2> SUFFICES ASSUME QueueInv, QueueInv', [Next]_vars
               PROVE  Buffer!Next \/ UNCHANGED Buffer!bufferVars
    OBVIOUS
  <2>0. TypeOK'
    BY DEF QueueInv
  <2>1. ASSUME NEW r \in Requests,
               EnqueueWithRoom(r) \/ EnqueueRefused(r) \/ EnqueueEvicting(r)
        PROVE  Buffer!Next
    BY <2>1, SubmitRefines DEF Buffer!Next
  <2>2. CASE GetItem
    <3>1. PICK i \in Live : /\ \A j \in Live \ {i} : Before(i, j)
                            /\ Live' = Live \ {i}
                            /\ current = {} /\ current' = {i}
                            /\ pc = "get" /\ pc' = "process"
      BY <2>0, <2>2, GetItemStep
    <3>2. nextSeq' = nextSeq
      BY <2>2 DEF GetItem
    <3>3. Buffer!Serve
      BY <3>1, <3>2 DEF Buffer!Serve, Buffer!Before, Before, Buffer!Priority, Priority
    <3>4. QED
      BY <3>3 DEF Buffer!Next
  <2>3. CASE GetNothing
    <3>1. Live' = Live
      BY <2>0, <2>3, GetNothingStep
    <3>2. QED
      BY <2>3, <3>1 DEF GetNothing, Buffer!bufferVars
  <2>4. CASE ProcessReturns
    <3>1. current # {} /\ Live' = Live
      BY <2>4 DEF ProcessReturns, queueVars, QueueInv, HeapWellFormed, Live
    <3>2. Buffer!Answer
      BY <2>4, <3>1 DEF ProcessReturns, Buffer!Answer
    <3>3. QED
      BY <3>2 DEF Buffer!Next
  <2>5. CASE ProcessRaises \/ CallbackReturns
    BY <2>5, ReleaseRefines DEF ProcessRaises, CallbackReturns, LoopBack, Buffer!Next
  <2>6. CASE CancelDrain
    BY <2>6, ReleaseRefines DEF CancelDrain, Buffer!Next
  <2>7. CASE StartDrain \/ StopDrain \/ UNCHANGED vars
    BY <2>7 DEF StartDrain, StopDrain, queueVars, vars, Buffer!bufferVars, Live
  <2>8. QED
    BY <2>1, <2>2, <2>3, <2>4, <2>5, <2>6, <2>7
       DEF Next, Drain, JoinReturns, JoinTimesOut, Ended
<1>3. QED
  BY <1>1, <1>2, QueueCorrect, PTL DEF Spec, ImplementsBuffer, Buffer!Spec
=============================================================================
