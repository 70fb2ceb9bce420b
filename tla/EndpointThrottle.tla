--------------------------- MODULE EndpointThrottle ---------------------------
(***************************************************************************)
(* EndpointThrottle (alphaTrade/broker/throttle.py) and the tasks that     *)
(* call the exchange through it: the drain task of the broker and the      *)
(* ticks.  One asyncio.Lock serves every endpoint and is held while the    *)
(* holder sleeps.                                                          *)
(*                                                                         *)
(* Time is discrete.  Instead of the clock and _last_call the module keeps *)
(* the age of each endpoint's last call, which stops counting at the       *)
(* endpoint's gap: an older call makes no difference to acquire().         *)
(***************************************************************************)
EXTENDS Integers, Sequences

CONSTANTS
    Tasks,
    Endpoints,
    Unthrottled,    \* endpoints that are called without acquire()
    Gap             \* Gap[e]: the configured minimum gap of e

ASSUME ThrottleAssumption ==
    /\ Endpoints # {} /\ Unthrottled \subseteq Endpoints
    /\ Gap \in [Endpoints -> Nat]

VARIABLES
    age,        \* age[e]: time since the last call to e, at most Gap[e]
    line,       \* the lock: its holder, then the waiters, first come first served
    pc,         \* pc[w]: what task w is doing
    want,       \* want[w]: the endpoint it wants or calls
    sleep       \* sleep[w]: what is left of its asyncio.sleep

vars == <<age, line, pc, want, sleep>>

\* An endpoint that was never called counts as called at monotonic time 0,
\* long before the process started
Init ==
    /\ age = Gap
    /\ line = <<>>
    /\ pc = [w \in Tasks |-> "idle"]
    /\ want = [w \in Tasks |-> CHOOSE e \in Endpoints : TRUE]
    /\ sleep = [w \in Tasks |-> 0]

Holds(w) == Len(line) > 0 /\ line[1] = w

\* The line without its p-th member
Without(p) == [i \in 1..(Len(line) - 1) |-> IF i < p THEN line[i] ELSE line[i + 1]]

\* acquire() begins: an endpoint without a gap is not throttled
Acquire(w, e) ==
    /\ pc[w] = "idle" /\ e \notin Unthrottled
    /\ want' = [want EXCEPT ![w] = e]
    /\ IF Gap[e] = 0
       THEN pc' = [pc EXCEPT ![w] = "calling"] /\ UNCHANGED line
       ELSE pc' = [pc EXCEPT ![w] = "waiting"] /\ line' = Append(line, w)
    /\ UNCHANGED <<age, sleep>>

\* The end of acquire(): the call is recorded and the lock released
Grant(w) ==
    /\ age' = [age EXCEPT ![want[w]] = 0]
    /\ line' = Tail(line)
    /\ pc' = [pc EXCEPT ![w] = "calling"]

\* Mutant: the lock is released during the sleep
LockedUnlocked(w) ==
    /\ pc[w] = "waiting" /\ Holds(w)
    /\ LET wait == Gap[want[w]] - age[want[w]] IN
       IF wait > 0
       THEN /\ sleep' = [sleep EXCEPT ![w] = wait]
            /\ pc' = [pc EXCEPT ![w] = "sleeping"]
            /\ line' = Append(Tail(line), w)
            /\ UNCHANGED age
       ELSE Grant(w) /\ UNCHANGED sleep
    /\ UNCHANGED want

\* The lock is free: the remaining wait is computed
Locked(w) ==
    /\ pc[w] = "waiting" /\ Holds(w)
    /\ LET wait == Gap[want[w]] - age[want[w]] IN
       IF wait > 0
       THEN /\ sleep' = [sleep EXCEPT ![w] = wait]
            /\ pc' = [pc EXCEPT ![w] = "sleeping"]
            /\ UNCHANGED <<age, line>>
       ELSE Grant(w) /\ UNCHANGED sleep
    /\ UNCHANGED want

Awake(w) ==
    /\ pc[w] = "sleeping" /\ sleep[w] = 0
    /\ Grant(w)
    /\ UNCHANGED <<want, sleep>>

\* The tasks that never ask: get_order, cancel_order, get_positions
CallDirectly(w, e) ==
    /\ pc[w] = "idle" /\ e \in Unthrottled
    /\ want' = [want EXCEPT ![w] = e]
    /\ pc' = [pc EXCEPT ![w] = "calling"]
    /\ age' = [age EXCEPT ![e] = 0]
    /\ UNCHANGED <<line, sleep>>

CallReturns(w) ==
    /\ pc[w] = "calling"
    /\ pc' = [pc EXCEPT ![w] = "idle"]
    /\ UNCHANGED <<age, line, want, sleep>>

\* Mutant: a cancelled task keeps the lock
CancelledHolding(w) ==
    /\ pc[w] \in {"waiting", "sleeping"}
    /\ pc' = [pc EXCEPT ![w] = "idle"]
    /\ sleep' = [sleep EXCEPT ![w] = 0]
    /\ UNCHANGED <<age, line, want>>

\* The task is cancelled (a shutdown): it leaves the lock and records nothing
Cancelled(w) ==
    /\ pc[w] \in {"waiting", "sleeping"}
    /\ \E p \in 1..Len(line) : line[p] = w /\ line' = Without(p)
    /\ pc' = [pc EXCEPT ![w] = "idle"]
    /\ sleep' = [sleep EXCEPT ![w] = 0]
    /\ UNCHANGED <<age, want>>

\* Time passes.  A task that is ready to run may be late.
Tick ==
    /\ age' = [e \in Endpoints |-> IF age[e] < Gap[e] THEN age[e] + 1 ELSE age[e]]
    /\ sleep' = [w \in Tasks |-> IF sleep[w] > 0 THEN sleep[w] - 1 ELSE 0]
    /\ UNCHANGED <<line, pc, want>>

Progress(w) == Locked(w) \/ Awake(w) \/ CallReturns(w)

Next ==
    \/ \E w \in Tasks :
        \/ \E e \in Endpoints : Acquire(w, e) \/ CallDirectly(w, e)
        \/ Progress(w) \/ Cancelled(w)
    \/ Tick

Spec == Init /\ [][Next]_vars

\* Time passes, and the event loop runs a task that is ready
FairSpec == Spec /\ WF_vars(Tick) /\ \A w \in Tasks : WF_vars(Progress(w))

-----------------------------------------------------------------------------
TypeOK ==
    /\ age \in [Endpoints -> Nat] /\ \A e \in Endpoints : age[e] <= Gap[e]
    /\ line \in Seq(Tasks)
    /\ pc \in [Tasks -> {"idle", "waiting", "sleeping", "calling"}]
    /\ want \in [Tasks -> Endpoints]
    /\ sleep \in [Tasks -> Nat]

\* Only the holder of the lock sleeps, and its sleep ends when the gap does:
\* no other task can call the endpoint in between.
SleepCoversGap ==
    \A w \in Tasks : pc[w] = "sleeping" =>
        Holds(w) /\ sleep[w] + age[want[w]] >= Gap[want[w]]

\* Only endpoints that are asked for are waited for
WaitsAreThrottled ==
    \A w \in Tasks : pc[w] \in {"waiting", "sleeping"} => want[w] \notin Unthrottled

Calls(w) == pc[w] # "calling" /\ pc'[w] = "calling"

\* Two calls that acquire() admits to one endpoint are at least its gap apart.
GapRespected ==
    [][\A w \in Tasks : Calls(w) /\ want'[w] \notin Unthrottled
        => age[want'[w]] >= Gap[want'[w]]]_vars

\* A task that waits for its turn gets it, however long others sleep.
WaitEnds == \A w \in Tasks : pc[w] = "waiting" ~> pc[w] # "waiting"
=============================================================================
