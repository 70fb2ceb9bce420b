------------------------ MODULE EndpointThrottleProofs ------------------------
(***************************************************************************)
(* EndpointThrottle keeps every endpoint's calls apart, for any tasks,     *)
(* endpoints and gaps.  The invariant: whoever sleeps holds the lock, and  *)
(* its sleep lasts until the gap is over.                                  *)
(***************************************************************************)
EXTENDS EndpointThrottle, TLAPS

Inv == TypeOK /\ SleepCoversGap /\ WaitsAreThrottled

\* Leaving the line keeps it a sequence of tasks, and keeps a holder who stays.
LEMMA WithoutKeeps ==
    ASSUME line \in Seq(Tasks), NEW p \in 1..Len(line)
    PROVE  /\ Without(p) \in Seq(Tasks)
           /\ p # 1 => Len(Without(p)) > 0 /\ Without(p)[1] = line[1]
<1>1. Len(line) \in Nat /\ \A i \in 1..Len(line) : line[i] \in Tasks
  OBVIOUS
<1>2. \A i \in 1..(Len(line) - 1) : (IF i < p THEN line[i] ELSE line[i + 1]) \in Tasks
  BY <1>1
<1>3. Without(p) \in [1..(Len(line) - 1) -> Tasks]
  BY <1>2 DEF Without
<1>4. Without(p) \in Seq(Tasks) /\ Len(Without(p)) = Len(line) - 1
  BY <1>1, <1>3
<1>5. p # 1 => 1 \in 1..(Len(line) - 1) /\ 1 < p
  BY <1>1
<1>6. p # 1 => Without(p)[1] = line[1]
  BY <1>5 DEF Without
<1> QED
  BY <1>1, <1>4, <1>5, <1>6

\* Every step of the throttle keeps the types and the meaning of a sleep.
LEMMA InvStep == Inv /\ [Next]_vars => Inv'
<1> SUFFICES ASSUME Inv, [Next]_vars PROVE Inv'
  OBVIOUS
<1> USE ThrottleAssumption DEF Inv, TypeOK, SleepCoversGap, WaitsAreThrottled, Holds
<1>1. ASSUME NEW w \in Tasks, NEW e \in Endpoints, Acquire(w, e) PROVE Inv'
  <2>1. CASE Gap[e] = 0
    BY <1>1, <2>1 DEF Acquire
  <2>2. CASE Gap[e] # 0
    <3>1. line' = Append(line, w)
      BY <1>1, <2>2 DEF Acquire
    <3>2. /\ line' \in Seq(Tasks)
          /\ Len(line) > 0 => Len(line') > 0 /\ line'[1] = line[1]
      BY <3>1
    <3> QED
      BY <1>1, <2>2, <3>1, <3>2 DEF Acquire
  <2> QED
    BY <2>1, <2>2
<1>2. ASSUME NEW w \in Tasks, NEW e \in Endpoints, CallDirectly(w, e) PROVE Inv'
  <2>1. TypeOK' /\ WaitsAreThrottled'
    BY <1>2 DEF CallDirectly
  <2>2. ASSUME NEW v \in Tasks, pc'[v] = "sleeping"
        PROVE  pc[v] = "sleeping" /\ want'[v] = want[v] /\ age'[want[v]] = age[want[v]]
    BY <1>2, <2>2 DEF CallDirectly
  <2> QED
    BY <1>2, <2>1, <2>2 DEF CallDirectly
<1>3. ASSUME NEW w \in Tasks, Grant(w), Holds(w), UNCHANGED <<want, sleep>> PROVE Inv'
  <2>1. line' \in Seq(Tasks)
    BY <1>3 DEF Grant
  <2>2. \A v \in Tasks : pc'[v] # "sleeping"
    BY <1>3 DEF Grant
  <2>3. /\ age' \in [Endpoints -> Nat] /\ \A e \in Endpoints : age'[e] <= Gap[e]
        /\ pc' \in [Tasks -> {"idle", "waiting", "sleeping", "calling"}]
        /\ \A v \in Tasks : pc'[v] \in {"waiting", "sleeping"} => pc'[v] = pc[v]
    BY <1>3 DEF Grant
  <2>4. TypeOK'
    BY <1>3, <2>1, <2>3
  <2>5. SleepCoversGap'
    BY <2>2
  <2>6. WaitsAreThrottled'
    BY <1>3, <2>3
  <2> QED
    BY <2>4, <2>5, <2>6 DEF Inv
<1>4. ASSUME NEW w \in Tasks, Locked(w) PROVE Inv'
  <2> DEFINE wait == Gap[want[w]] - age[want[w]]
  <2>1. CASE wait > 0
    <3>1. /\ sleep' = [sleep EXCEPT ![w] = wait] /\ wait \in Nat
          /\ pc' = [pc EXCEPT ![w] = "sleeping"]
          /\ UNCHANGED <<age, line, want>>
          /\ pc[w] = "waiting" /\ Holds(w)
      BY <1>4, <2>1 DEF Locked
    <3> HIDE DEF wait
    <3>2. TypeOK' /\ WaitsAreThrottled'
      BY <3>1
    <3>3. sleep'[w] + age'[want'[w]] >= Gap[want'[w]]
      BY <3>1 DEF wait
    <3>4. SleepCoversGap'
      BY <3>1, <3>3
    <3> QED
      BY <3>2, <3>4
  <2>2. CASE ~(wait > 0)
    BY <1>3, <1>4, <2>2 DEF Locked
  <2> QED
    BY <2>1, <2>2
<1>5. ASSUME NEW w \in Tasks, Awake(w) PROVE Inv'
  BY <1>3, <1>5 DEF Awake
<1>6. ASSUME NEW w \in Tasks, CallReturns(w) PROVE Inv'
  BY <1>6 DEF CallReturns
<1>7. ASSUME NEW w \in Tasks, Cancelled(w) PROVE Inv'
  <2>1. PICK p \in 1..Len(line) : line[p] = w /\ line' = Without(p)
    BY <1>7 DEF Cancelled
  <2>2. /\ line' \in Seq(Tasks)
        /\ p # 1 => Len(line') > 0 /\ line'[1] = line[1]
    BY <2>1, WithoutKeeps
  <2>3. ASSUME NEW v \in Tasks, pc'[v] = "sleeping"
        PROVE  /\ Len(line') > 0 /\ line'[1] = v
               /\ sleep'[v] + age'[want'[v]] >= Gap[want'[v]]
    <3>1. v # w /\ pc[v] = "sleeping"
      BY <1>7, <2>3 DEF Cancelled
    <3>2. p # 1
      BY <2>1, <3>1
    <3> QED
      BY <1>7, <2>2, <3>1, <3>2 DEF Cancelled
  <2> QED
    BY <1>7, <2>2, <2>3 DEF Cancelled
<1>8. CASE Tick
  <2>1. age' \in [Endpoints -> Nat] /\ (\A e \in Endpoints : age'[e] <= Gap[e])
    BY <1>8 DEF Tick
  <2>2. sleep' \in [Tasks -> Nat]
    BY <1>8 DEF Tick
  <2>3. ASSUME NEW v \in Tasks, pc[v] = "sleeping"
        PROVE  sleep'[v] + age'[want[v]] >= Gap[want[v]]
    BY <1>8, <2>3 DEF Tick
  <2> QED
    BY <1>8, <2>1, <2>2, <2>3 DEF Tick
<1>9. CASE UNCHANGED vars
  BY <1>9 DEF vars
<1> QED
  BY <1>1, <1>2, <1>4, <1>5, <1>6, <1>7, <1>8, <1>9 DEF Next, Progress

\* A throttle that nobody has used satisfies the invariant.
LEMMA InvInit == Init => Inv
  BY ThrottleAssumption DEF Init, Inv, TypeOK, SleepCoversGap, WaitsAreThrottled

\* A step that admits a call finds the endpoint's gap over.
LEMMA GapStep ==
    ASSUME Inv, Next, NEW w \in Tasks, Calls(w), want'[w] \notin Unthrottled
    PROVE  age[want'[w]] >= Gap[want'[w]]
<1> USE ThrottleAssumption DEF Inv, TypeOK, SleepCoversGap, Calls
<1>1. ASSUME NEW v \in Tasks, NEW e \in Endpoints, Acquire(v, e)
      PROVE  age[want'[w]] >= Gap[want'[w]]
  BY <1>1 DEF Acquire
<1>2. ASSUME NEW v \in Tasks, NEW e \in Endpoints, CallDirectly(v, e) PROVE FALSE
  BY <1>2 DEF CallDirectly
<1>3. ASSUME NEW v \in Tasks, Locked(v) PROVE age[want'[w]] >= Gap[want'[w]]
  BY <1>3 DEF Locked, Grant
<1>4. ASSUME NEW v \in Tasks, Awake(v) PROVE age[want'[w]] >= Gap[want'[w]]
  BY <1>4 DEF Awake, Grant
<1>5. ASSUME NEW v \in Tasks, CallReturns(v) PROVE FALSE
  BY <1>5 DEF CallReturns
<1>6. ASSUME NEW v \in Tasks, Cancelled(v) PROVE FALSE
  BY <1>6 DEF Cancelled
<1>7. ~Tick
  BY DEF Tick
<1> QED
  BY <1>1, <1>2, <1>3, <1>4, <1>5, <1>6, <1>7 DEF Next, Progress

\* Whoever sleeps in acquire() holds the lock and sleeps until the gap is over.
THEOREM SleepIsCovered == Spec => []SleepCoversGap
<1>1. Inv => SleepCoversGap
  BY DEF Inv
<1> QED
  BY InvInit, InvStep, <1>1, PTL DEF Spec

\* Two calls that acquire() admits to one endpoint are at least its gap apart.
THEOREM ThrottleSpacesCalls == Spec => GapRespected
<1>1. Inv /\ [Next]_vars =>
        [\A w \in Tasks : Calls(w) /\ want'[w] \notin Unthrottled
            => age[want'[w]] >= Gap[want'[w]]]_vars
  BY GapStep
<1> QED
  BY InvInit, InvStep, <1>1, PTL DEF Spec, GapRespected
=============================================================================
