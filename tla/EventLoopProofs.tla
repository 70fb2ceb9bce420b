---------------------------- MODULE EventLoopProofs ----------------------------
(***************************************************************************)
(* What EventLoop promises, for every value of its constants: of the       *)
(* closes of the bars, of the runs of backtests and their rows, of the     *)
(* simulated trades, and of the schedule and its file.                     *)
(***************************************************************************)
EXTENDS EventLoop, TLAPS, FiniteSetTheorems

-----------------------------------------------------------------------------
\* The arithmetic of multiples.
LEMMA Quotient ==
    ASSUME NEW a \in Nat, NEW n \in Nat \ {0}
    PROVE  a \div n \in Nat /\ (a \div n) * n <= a /\ a < (a \div n + 1) * n
OBVIOUS

\* A number below has no larger quotient.
LEMMA QuotientGrows ==
    ASSUME NEW a \in Nat, NEW b \in Nat, NEW n \in Nat \ {0}, a <= b
    PROVE  a \div n <= b \div n
OBVIOUS

\* Different multiples are a unit apart.
LEMMA MultiplesApart ==
    ASSUME NEW k \in Nat, NEW l \in Nat, NEW n \in Nat \ {0}, k * n < l * n
    PROVE  k * n + n <= l * n
OBVIOUS

\* The end of the unit that a number lies in is the next multiple.
LEMMA NextMultiple ==
    ASSUME NEW k \in Nat, NEW a \in Nat, NEW n \in Nat \ {0}, a < k * n
    PROVE  (a \div n + 1) * n <= k * n
<1> DEFINE q == a \div n
<1>1. q \in Nat /\ q * n <= a
  BY Quotient
<1> HIDE DEF q
<1>2. q * n < k * n
  BY <1>1
<1>3. q * n + n <= k * n
  BY <1>1, <1>2, MultiplesApart
<1>4. QED
  BY <1>1, <1>3 DEF q

\* A set of numbers has a least one.
LEMMA Least ==
    ASSUME NEW T \in SUBSET Nat, T # {}
    PROVE  \E m \in T : \A k \in T : m <= k
<1> DEFINE Below == {0..(x - 1) : x \in T}
<1>1. Below \subseteq FiniteSubsetsOf(Nat) /\ Below # {}
  <2>1. ASSUME NEW x \in T PROVE 0..(x - 1) \in SUBSET Nat /\ IsFiniteSet(0..(x - 1))
    <3>1. x - 1 \in Int
      OBVIOUS
    <3>2. IsFiniteSet(0..(x - 1))
      BY <3>1, FS_Interval
    <3>3. QED
      BY <3>2
  <2>2. QED
    BY <2>1 DEF FiniteSubsetsOf
<1>2. IsWellFoundedOn(StrictSubsetOrdering(Nat), FiniteSubsetsOf(Nat))
  BY FS_StrictSubsetOrderingWellFounded
<1>3. PICK a \in Below : \A b \in Below : ~(<<b, a>> \in StrictSubsetOrdering(Nat))
  BY <1>1, <1>2, WFMin
<1>4. PICK m \in T : a = 0..(m - 1)
  OBVIOUS
<1>5. ASSUME NEW k \in T, k < m PROVE FALSE
  <2>1. 0..(k - 1) \in Below
    OBVIOUS
  <2>2. 0..(k - 1) \in SUBSET Nat /\ a \in SUBSET Nat /\ 0..(k - 1) \subseteq a /\ k \in a /\ k \notin 0..(k - 1)
    BY <1>4, <1>5
  <2>3. QED
    BY <1>3, <2>1, <2>2 DEF StrictSubsetOrdering
<1>6. QED
  BY <1>5

\* CHOOSE finds it.
LEMMA FirstIsLeast ==
    ASSUME NEW T \in SUBSET Nat, T # {}
    PROVE  First(T) \in T /\ \A d \in T : First(T) <= d
BY Least DEF First

-----------------------------------------------------------------------------
\* The next close is the first one after the time it is asked for; with its
\* margin it lies ahead, and the margins of the closes do not overlap.
NextOf(F, S, t) ==
    /\ F \in Nat \ {0} /\ t < F + Margin
    /\ \A c \in S : t < c => F = c \/ F + Margin < c

\* The constants of the clock.
LEMMA ClockConstants ==
    /\ Period \in Nat \ {0} /\ Margin \in Nat /\ Margin < Period /\ Period <= Day /\ Day \in Nat \ {0}
    /\ MarketClose \in Nat \ {0} /\ Sessions \in SUBSET Nat /\ Fridays \in SUBSET Nat /\ Horizon \in Nat
BY BarCloseAssumption

\* Multiples: the intraday closes, and all closes while the calendar is unknown.
LEMMA NextOfMultiples ==
    ASSUME NEW t \in Nat, NEW n \in Nat \ {0}, Margin < n, NEW S, \A c \in S : \E k \in Nat : c = k * n
    PROVE  NextOf((t \div n + 1) * n, S, t)
<1> DEFINE F == (t \div n + 1) * n
<1>1. t \div n \in Nat /\ t < F
  BY Quotient
<1>2. F \in Nat \ {0} /\ t < F + Margin
  BY <1>1, ClockConstants
<1>3. ASSUME NEW c \in S, t < c PROVE F = c \/ F + Margin < c
  <2>1. PICK k \in Nat : c = k * n
    OBVIOUS
  <2>2. F <= c
    BY <1>3, <2>1, NextMultiple
  <2>3. F < c => F + n <= c
    <3> DEFINE m == t \div n + 1
    <3>1. m \in Nat /\ F = m * n
      BY <1>1
    <3> HIDE DEF m
    <3>2. m * n < k * n => m * n + n <= k * n
      BY <3>1, MultiplesApart
    <3>3. QED
      BY <2>1, <3>1, <3>2
  <2>4. c \in Nat
    BY <2>1
  <2> HIDE DEF F
  <2>5. QED
    BY <1>2, <2>2, <2>3, <2>4, ClockConstants
<1>4. QED
  BY <1>2, <1>3 DEF NextOf

\* Sessions: their closes are a day apart.
LEMMA NextOfSessions ==
    ASSUME NEW days \in SUBSET Nat, NEW w \in Nat \ {0}, NEW reach \in Nat, w + 2 <= reach,
           NEW length, length = w * Day, hours # "unknown", NEW t \in Nat
    PROVE  NextOf(NextSessionClose(days, reach, length, t), Closes(days), t)
<1> DEFINE F == NextSessionClose(days, reach, length, t)
           q == t \div Day
           ahead == {c \in Closes(days) : /\ c + Margin > t
                                          /\ c \div Day \in (t \div Day)..(t \div Day + reach - 1)}
<1>0. Day \in Nat \ {0} /\ Margin \in Nat /\ Margin < Day /\ MarketClose \in Nat \ {0}
  BY ClockConstants
<1>1. q \in Nat /\ t < (q + 1) * Day
  BY <1>0, Quotient
<1>2. \A c \in Closes(days) : c \in Nat \ {0} /\ \E d \in Nat : c = d * Day + MarketClose
  BY <1>0 DEF Closes
<1>3. ASSUME NEW c \in Closes(days), t < c, c \notin ahead PROVE q + reach <= c \div Day
  <2>1. c \in Nat
    BY <1>2
  <2>2. q <= c \div Day /\ c \div Day \in Nat
    BY <1>0, <1>3, <2>1, QuotientGrows, Quotient
  <2>3. c + Margin > t
    BY <1>0, <1>3, <2>1
  <2>4. ~(c \div Day \in q..(q + reach - 1))
    BY <1>3, <2>3
  <2> HIDE DEF q
  <2>5. QED
    BY <1>1, <2>2, <2>4
<1>4. CASE ahead = {}
  <2>1. F = (t \div length + 1) * length /\ length \in Nat \ {0}
    BY <1>0, <1>4 DEF NextSessionClose
  <2>2. t \div length \in Nat /\ t < F /\ (t \div length) * length <= t
    BY <2>1, Quotient
  <2>3. F \in Nat \ {0} /\ F <= t + length
    BY <2>1, <2>2
  <2>4. ASSUME NEW c \in Closes(days), t < c PROVE F + Margin < c
    <3>1. q + reach <= c \div Day /\ c \in Nat
      BY <1>2, <1>3, <1>4, <2>4
    <3>2. c \div Day \in Nat /\ (c \div Day) * Day <= c
      BY <1>0, <3>1, Quotient
    <3>3. (q + reach) * Day <= (c \div Day) * Day
      BY <1>0, <1>1, <3>1, <3>2
    <3>4. (q + 1) * Day + w * Day + Day <= (q + reach) * Day
      BY <1>0, <1>1
    <3> HIDE DEF q, F
    <3>5. QED
      BY <1>0, <1>1, <2>3, <3>1, <3>2, <3>3, <3>4
  <2>5. QED
    BY <1>0, <2>2, <2>3, <2>4 DEF NextOf
<1>5. CASE ahead # {}
  <2>1. F = First(ahead) /\ ahead \in SUBSET Nat
    BY <1>2, <1>5 DEF NextSessionClose
  <2>2. F \in ahead /\ \A d \in ahead : F <= d
    BY <1>5, <2>1, FirstIsLeast
  <2>3. F \in Closes(days) /\ F \in Nat \ {0} /\ t < F + Margin /\ F \div Day <= q + reach - 1
    BY <1>1, <1>2, <2>2
  <2>4. ASSUME NEW c \in Closes(days), t < c, F # c PROVE F + Margin < c
    <3>1. c \in Nat
      BY <1>2
    <3>2. F < c
      <4>1. CASE c \in ahead
        BY <2>2, <2>3, <2>4, <3>1, <4>1
      <4>2. CASE c \notin ahead
        <5>1. q + reach <= c \div Day /\ c \div Day \in Nat /\ F \div Day \in Nat
          BY <1>0, <1>3, <2>3, <2>4, <3>1, <4>2, Quotient
        <5>2. F \div Day < c \div Day
          BY <1>1, <2>3, <5>1
        <5>3. c <= F => c \div Day <= F \div Day
          BY <1>0, <2>3, <3>1, QuotientGrows
        <5>4. QED
          BY <2>3, <3>1, <5>1, <5>2, <5>3
      <4>3. QED
        BY <4>1, <4>2
    <3>3. PICK d \in Nat : F = d * Day + MarketClose
      BY <1>2, <2>3
    <3>4. PICK e \in Nat : c = e * Day + MarketClose
      BY <1>2
    <3>5. d * Day < e * Day
      BY <1>0, <3>2, <3>3, <3>4
    <3>6. d * Day + Day <= e * Day
      BY <1>0, <3>5, MultiplesApart
    <3>7. QED
      BY <1>0, <3>3, <3>4, <3>6
  <2>5. QED
    BY <2>3, <2>4 DEF NextOf
<1>6. QED
  BY <1>4, <1>5

\* So it is for every interval.
LEMMA NextCloseIsNext ==
    ASSUME NEW i \in BarIntervals, NEW t \in Nat
    PROVE  NextOf(NextClose(i, t), ClosesOf(i), t)
<1>1. Period \in Nat \ {0} /\ Margin \in Nat /\ Day \in Nat \ {0} /\ Margin < Period /\ Margin < Day /\ Margin < 7 * Day
  BY ClockConstants
<1>2. ASSUME NEW n PROVE \A c \in {k * n : k \in 0..Horizon} : \E k \in Nat : c = k * n
  BY ClockConstants
<1>3. CASE i = "intraday"
  <2>1. NextClose(i, t) = (t \div Period + 1) * Period /\ ClosesOf(i) = {k * Period : k \in 0..Horizon}
    BY <1>3 DEF NextClose, NextIntradayClose, ClosesOf
  <2>2. QED
    BY ZenonT(60), <1>1, <1>2, <2>1, NextOfMultiples
<1>4. CASE i = "daily" /\ hours = "unknown"
  <2>1. NextClose(i, t) = (t \div Day + 1) * Day /\ ClosesOf(i) = {k * Day : k \in 0..Horizon}
    BY <1>4 DEF NextClose, NextSessionClose, ClosesOf
  <2>2. QED
    BY ZenonT(60), <1>1, <1>2, <2>1, NextOfMultiples
<1>5. CASE i = "weekly" /\ hours = "unknown"
  <2>1. NextClose(i, t) = (t \div (7 * Day) + 1) * (7 * Day) /\ ClosesOf(i) = {k * (7 * Day) : k \in 0..Horizon}
    BY <1>5 DEF NextClose, NextSessionClose, ClosesOf
  <2>2. 7 * Day \in Nat \ {0}
    BY <1>1
  <2>3. QED
    BY ZenonT(60), <1>1, <1>2, <2>1, <2>2, NextOfMultiples
<1>6. CASE i = "daily" /\ hours # "unknown"
  <2>1. NextClose(i, t) = NextSessionClose(Sessions, 10, Day, t) /\ ClosesOf(i) = Closes(Sessions)
    BY <1>6 DEF NextClose, ClosesOf
  <2>2. Day = 1 * Day
    BY <1>1
  <2>3. QED
    BY <1>6, <2>1, <2>2, NextOfSessions, ClockConstants
<1>7. CASE i = "weekly" /\ hours # "unknown"
  <2>1. NextClose(i, t) = NextSessionClose(Fridays, 14, 7 * Day, t) /\ ClosesOf(i) = Closes(Fridays)
    BY <1>7 DEF NextClose, ClosesOf
  <2>2. QED
    BY <1>7, <2>1, NextOfSessions, ClockConstants
<1>8. QED
  BY <1>3, <1>4, <1>5, <1>6, <1>7 DEF BarIntervals

-----------------------------------------------------------------------------
\* The clock.
Sleeper == [pc : {"top", "sleep", "tick", "done"}, close : Nat]

ClockTyped ==
    /\ now \in Nat /\ sleeper \in [BarIntervals -> Sleeper]
    /\ lastTick \in [BarIntervals -> Nat] /\ answered \in [BarIntervals -> SUBSET Nat]

\* A task sleeps until the first close after it fell asleep, which is later than
\* that of its last tick; all closes before have been answered.
OnTime(i) ==
    /\ lastTick[i] = 0 \/ lastTick[i] + Margin <= now
    /\ sleeper[i].pc \in {"sleep", "tick"} => lastTick[i] <= sleeper[i].close
    /\ sleeper[i].pc = "sleep" =>
        /\ lastTick[i] < sleeper[i].close
        /\ \A c \in ClosesOf(i) : now < c => sleeper[i].close = c \/ sleeper[i].close + Margin < c
    /\ sleeper[i].pc # "done" => \A c \in ClosesOf(i) :
        Period < c /\ c <= now => c \in answered[i] \/ (sleeper[i].pc = "sleep" /\ sleeper[i].close = c)

Punctual == ClockTyped /\ \A i \in BarIntervals : OnTime(i)

\* A step of one task leaves the others alone.
LEMMA TaskStep ==
    ASSUME Punctual, NEW i \in BarIntervals, TaskSteps(i), NEW j \in BarIntervals
    PROVE  /\ UNCHANGED <<now, hours>> /\ ClockTyped'
           /\ j # i => sleeper'[j] = sleeper[j] /\ lastTick'[j] = lastTick[j] /\ answered'[j] = answered[j]
<1>1. ClockTyped
  BY DEF Punctual
<1>2. CASE GoToSleep(i)
  <2>1. NextClose(i, now) \in Nat
    BY <1>1, NextCloseIsNext DEF NextOf, ClockTyped
  <2>2. QED
    BY SMTT(60), <1>1, <1>2, <2>1 DEF ClockTyped, GoToSleep, Put, Sleeper
<1>3. CASE StopsAsleep(i) \/ TickReturns(i)
  BY <1>1, <1>3 DEF ClockTyped, StopsAsleep, TickReturns, Put, Sleeper
<1>4. CASE Wake(i)
  <2>1. sleeper[i].close \in Nat /\ sleeper \in [BarIntervals -> Sleeper] /\ 0 \in Nat
    BY <1>1 DEF ClockTyped, Sleeper
  <2>2. \E pc \in {"top", "tick"}, close \in {0, sleeper[i].close} : sleeper' = [sleeper EXCEPT ![i] = [pc |-> pc, close |-> close]]
    BY <1>4 DEF Wake, Put
  <2>3. sleeper' \in [BarIntervals -> Sleeper] /\ \A k \in BarIntervals : k # i => sleeper'[k] = sleeper[k]
    BY <2>1, <2>2 DEF Sleeper
  <2>4. /\ lastTick' \in [BarIntervals -> Nat] /\ answered' \in [BarIntervals -> SUBSET Nat]
        /\ \A k \in BarIntervals : k # i => lastTick'[k] = lastTick[k] /\ answered'[k] = answered[k]
    BY <1>1, <1>4, <2>1 DEF ClockTyped, Wake
  <2>5. UNCHANGED <<now, hours>>
    BY <1>4 DEF Wake
  <2>6. QED
    BY <1>1, <2>3, <2>4, <2>5 DEF ClockTyped
<1>5. QED
  BY <1>2, <1>3, <1>4 DEF TaskSteps

\* The same closes are asked about.
LEMMA ClosesStay == ASSUME UNCHANGED hours PROVE \A i : ClosesOf(i)' = ClosesOf(i)
BY DEF ClosesOf, Closes

\* The task that takes the step.
LEMMA TaskOnTime ==
    ASSUME Punctual, NEW i \in BarIntervals, TaskSteps(i)
    PROVE  OnTime(i)'
<1>1. ClockTyped /\ OnTime(i) /\ UNCHANGED <<now, hours>> /\ ClosesOf(i)' = ClosesOf(i)
  BY TaskStep, ClosesStay DEF Punctual
<1>2. CASE GoToSleep(i)
  <2> DEFINE F == NextClose(i, now)
  <2>1. NextOf(F, ClosesOf(i), now)
    BY <1>1, NextCloseIsNext DEF ClockTyped
  <2>2. F \in Nat \ {0} /\ now < F + Margin /\ \A c \in ClosesOf(i) : now < c => F = c \/ F + Margin < c
    BY <2>1 DEF NextOf
  <2>3. lastTick' = lastTick /\ answered' = answered /\ sleeper[i].pc = "top"
    BY <1>2 DEF GoToSleep
  <2>4. sleeper'[i] \in {[pc |-> "done", close |-> 0], [pc |-> "sleep", close |-> F]}
    BY <1>1, <1>2 DEF GoToSleep, Put, ClockTyped
  <2>5. lastTick[i] < F
    BY <1>1, <2>2, ClockConstants DEF OnTime, ClockTyped
  <2> HIDE DEF F
  <2>6. QED
    BY <1>1, <2>2, <2>3, <2>4, <2>5 DEF OnTime, ClockTyped
<1>3. CASE StopsAsleep(i) \/ TickReturns(i)
  BY <1>1, <1>3 DEF OnTime, ClockTyped, StopsAsleep, TickReturns, Put
<1>4. CASE Wake(i)
  <2>1. sleeper[i].pc = "sleep" /\ sleeper[i].close + Margin <= now /\ sleeper[i].close \in Nat
    BY <1>1, <1>4, ClockConstants DEF Wake, Overdue, ClockTyped, Sleeper
  <2>2. sleeper'[i] \in {[pc |-> "top", close |-> 0], [pc |-> "tick", close |-> sleeper[i].close]}
        /\ answered'[i] = answered[i] \cup {sleeper[i].close}
    BY <1>1, <1>4 DEF Wake, Put, ClockTyped
  <2>3. lastTick'[i] = lastTick[i] \/ lastTick'[i] = sleeper[i].close
    BY <1>1, <1>4 DEF Wake, Put, ClockTyped
  <2>4. sleeper'[i].pc = "tick" => sleeper'[i].close = sleeper[i].close
    BY <2>2
  <2>5. QED
    BY <1>1, <2>1, <2>2, <2>3, <2>4, ClockConstants DEF OnTime, ClockTyped
<1>5. QED
  BY <1>2, <1>3, <1>4 DEF TaskSteps

\* A unit passes: a close that comes up is that of the sleeping task, or noted.
LEMMA UnitPasses ==
    ASSUME Punctual, NEW free \in BOOLEAN, TimePasses(free)
    PROVE  Punctual'
<1>1. ClockTyped /\ now' = now + 1 /\ UNCHANGED <<hours, sleeper, lastTick>>
  BY DEF Punctual, TimePasses
<1>2. \A i \in BarIntervals : answered'[i] =
        IF now + 1 \in ClosesOf(i) /\ (sleeper[i].pc # "sleep" \/ Overdue(i))
        THEN answered[i] \cup {now + 1} ELSE answered[i]
  BY DEF TimePasses
<1>3. ClockTyped'
  BY <1>1 DEF ClockTyped, TimePasses
<1>4. ASSUME NEW i \in BarIntervals PROVE OnTime(i)'
  <2>1. OnTime(i) /\ ClosesOf(i)' = ClosesOf(i) /\ now \in Nat
    BY <1>1, ClosesStay DEF Punctual, ClockTyped
  <2>2. lastTick'[i] = 0 \/ lastTick'[i] + Margin <= now'
    BY <1>1, <2>1, ClockConstants DEF OnTime, ClockTyped
  <2>3. sleeper[i].pc = "sleep" => \A c \in ClosesOf(i) : now' < c => sleeper[i].close = c \/ sleeper[i].close + Margin < c
    <3>1. ASSUME NEW c \in ClosesOf(i), now' < c PROVE now < c
      <4>1. c \in Int
        BY ClockConstants DEF ClosesOf, Closes, BarIntervals
      <4>2. QED
        BY <1>1, <2>1, <3>1, <4>1
    <3>2. QED
      BY <2>1, <3>1 DEF OnTime
  <2>4. ASSUME sleeper[i].pc # "done", NEW c \in ClosesOf(i), Period < c, c <= now'
        PROVE  c \in answered'[i] \/ (sleeper[i].pc = "sleep" /\ sleeper[i].close = c)
    <3>1. c \in Int
      BY ClockConstants DEF ClosesOf, Closes, BarIntervals
    <3>2. CASE c <= now
      BY <1>2, <2>1, <2>4, <3>2 DEF OnTime
    <3>3. CASE c = now + 1
      <4>1. CASE sleeper[i].pc # "sleep" \/ Overdue(i)
        BY <1>2, <3>3, <4>1
      <4>2. CASE sleeper[i].pc = "sleep" /\ ~Overdue(i)
        <5>1. now < sleeper[i].close + Margin /\ sleeper[i].close \in Nat
          BY <1>1, <4>2, ClockConstants DEF Overdue, ClockTyped, Sleeper
        <5>2. sleeper[i].close = c \/ sleeper[i].close + Margin < c
          BY <2>1, <3>3, <4>2 DEF OnTime
        <5>3. QED
          BY <2>1, <3>3, <4>2, <5>1, <5>2, ClockConstants
      <4>3. QED
        BY <4>1, <4>2
    <3>4. QED
      BY <1>1, <2>1, <2>4, <3>1, <3>2, <3>3
  <2>5. QED
    BY <1>1, <2>1, <2>2, <2>3, <2>4 DEF OnTime
<1>5. QED
  BY <1>3, <1>4 DEF Punctual

\* No step of the event loop disturbs the clock.
LEMMA PunctualStep == Punctual /\ [Next]_vars => Punctual'
<1> SUFFICES ASSUME Punctual, [Next]_vars PROVE Punctual'
  OBVIOUS
<1>1. CASE UNCHANGED clockVars
  BY <1>1, ClosesStay DEF Punctual, ClockTyped, OnTime, clockVars
<1>2. ASSUME NEW i \in BarIntervals, TaskSteps(i) PROVE Punctual'
  <2>1. ASSUME NEW j \in BarIntervals, j # i PROVE OnTime(j)'
    <3>1. /\ sleeper'[j] = sleeper[j] /\ lastTick'[j] = lastTick[j] /\ answered'[j] = answered[j]
          /\ UNCHANGED <<now, hours>> /\ ClosesOf(j)' = ClosesOf(j) /\ OnTime(j)
      BY <1>2, <2>1, TaskStep, ClosesStay DEF Punctual
    <3>2. QED
      BY <3>1 DEF OnTime
  <2>2. QED
    BY <1>2, <2>1, TaskOnTime, TaskStep DEF Punctual
<1>3. CASE SignalStop
  BY <1>3, ClosesStay DEF SignalStop, Punctual, ClockTyped, OnTime
<1>4. CASE TimePasses(LoopFree)
  BY <1>4, UnitPasses DEF LoopFree
<1>5. QED
  BY <1>1, <1>2, <1>3, <1>4 DEF Next, Progress, TaskProgress, ClockEvents, vars

\* Tasks are always on time.
LEMMA PunctualAlways == Spec => []Punctual
<1>1. Start => Punctual
  <2> SUFFICES ASSUME Start PROVE Punctual
    OBVIOUS
  <2>1. now \in 0..(Period - 1) /\ sleeper = [i \in BarIntervals |-> [pc |-> "top", close |-> 0]]
        /\ lastTick = [i \in BarIntervals |-> 0] /\ answered = [i \in BarIntervals |-> {}]
    BY DEF Start, ClockInit
  <2>2. ClockTyped
    BY <2>1, ClockConstants DEF ClockTyped, Sleeper
  <2>3. \A i \in BarIntervals : \A c \in ClosesOf(i) : c \in Int
    BY ClockConstants DEF ClosesOf, Closes, BarIntervals
  <2>4. QED
    BY <2>1, <2>2, <2>3, ClockConstants DEF Punctual, OnTime
<1>2. QED
  BY <1>1, PunctualStep, PTL DEF Spec

\* Since its task first slept, every close of an interval got its tick, unless
\* the tick before was still running, something held the event loop past the
\* margin, or the market was closed when the task woke up (schedule_bar_close).
THEOREM ClosesAreServed == Spec => []EveryCloseServed
<1>1. Punctual => EveryCloseServed
  <2> SUFFICES ASSUME Punctual, NEW i \in BarIntervals, NEW c \in ClosesOf(i), Period < c, c + Margin < now,
                      sleeper[i].pc # "done", c \notin answered[i]
               PROVE  Overdue(i) /\ sleeper[i].close = c
    BY ClockConstants DEF EveryCloseServed
  <2>1. c \in Int /\ now \in Nat
    BY ClockConstants DEF ClosesOf, Closes, BarIntervals, Punctual, ClockTyped
  <2>2. sleeper[i].pc = "sleep" /\ sleeper[i].close = c
    BY <2>1, ClockConstants DEF Punctual, OnTime
  <2>3. QED
    BY <2>1, <2>2, ClockConstants DEF Overdue
<1>2. QED
  BY <1>1, PunctualAlways, PTL

\* No close is served twice, and none after a later one (schedule_bar_close).
THEOREM ClosesServedInOrder == Spec => OnlyLaterCloses
<1>1. Punctual /\ [Next]_vars =>
        [\A i \in BarIntervals : sleeper[i].pc # "tick" /\ sleeper'[i].pc = "tick" =>
            lastTick[i] < sleeper'[i].close]_vars
  <2> SUFFICES ASSUME Punctual, [Next]_vars, NEW i \in BarIntervals, sleeper[i].pc # "tick", sleeper'[i].pc = "tick"
               PROVE  lastTick[i] < sleeper'[i].close
    OBVIOUS
  <2>1. sleeper' # sleeper
    OBVIOUS
  <2>2. PICK j \in BarIntervals : TaskSteps(j)
    BY <2>1 DEF Next, Progress, TaskProgress, ClockEvents, vars, clockVars, SignalStop, TimePasses
  <2>3. j = i
    BY <2>2, TaskStep
  <2>4. ClockTyped /\ OnTime(i)
    BY DEF Punctual
  <2>5. Wake(i)
    BY <2>2, <2>3, <2>4 DEF TaskSteps, GoToSleep, StopsAsleep, TickReturns, Put, ClockTyped
  <2>6. sleeper[i].pc = "sleep" /\ sleeper'[i].close = sleeper[i].close
    BY <2>4, <2>5 DEF Wake, Overdue, Put, ClockTyped
  <2>7. QED
    BY <2>4, <2>6 DEF OnTime
<1>2. QED
  BY <1>1, PunctualAlways, PTL DEF Spec, OnlyLaterCloses

-----------------------------------------------------------------------------
\* The runs, the tasks that wait and the one that holds the event loop.
Outcomes == {"none", "ran", "no_data", "failed"}
Row == [status : Outcomes, count : Nat]
RunRecord == [status : Statuses, models : Seq(Models), hurt : BOOLEAN, rows : [Models -> Row],
              trades : [Models -> Nat]]
Task == [job : BOOLEAN, run : Nat, model : Models \cup {"none"}, late : BOOLEAN]
LoopRecord == [pc : {"idle", "create", "begin", "select", "model", "walk", "trades", "row", "fail"},
               run : Nat, model : Models \cup {"none"}, todo : Seq(Models), found : Nat, saved : Nat,
               status : Outcomes, broken : BOOLEAN]

RunsTyped ==
    /\ runs \in Seq(RunRecord) /\ ready \in Seq(Task) /\ loop \in LoopRecord
    /\ IF loop.pc \in {"idle", "create"} THEN loop.run = 0 ELSE loop.run \in DOMAIN runs
    /\ loop.pc \in {"create", "walk", "trades", "row"} => loop.model \in Models
    /\ \A k \in DOMAIN ready :
        IF ready[k].job THEN ready[k].model \in Models ELSE ready[k].run \in DOMAIN runs
    /\ ~up => loop = IdleLoop /\ ready = <<>>

\* The simulation in progress.  The levels have been looked at up to bar `last`,
\* the positions that were closed were closed at bar `latest` or before.
Position == [side : {"BUY", "SELL", "NONE"}, price : Int, bar : Nat]
TradeRecord == [side : {"BUY", "SELL"}, entry : Nat, exit : Nat, price : Int,
                reason : {"SL", "TP", "SIGNAL", "END_OF_DATA"}, pnl : Int]
SimRecord == [bars : Seq(Bar), lag : Nat, i : Nat, position : Position, trades : Seq(TradeRecord),
              equity : Int, delayed : SUBSET Nat]

ReachedIn(s, p, b) == CheckSlTp(p, s.bars[b].high, s.bars[b].low)
Survived(s, p, last) == \A b \in p.bar..last : b \in s.delayed \/ ReachedIn(s, p, b) = "NONE"
Honoured(s, t) ==
    /\ Survived(s, PositionOf(t), t.exit - 1)
    /\ t.reason \in {"SL", "TP"} =>
        \/ ReachedIn(s, PositionOf(t), t.exit) = t.reason
        \/ t.exit \in s.delayed /\ ReachedIn(s, PositionOf(t), t.exit) # "NONE"

Consistent(s, last, latest) ==
    /\ s \in SimRecord
    /\ \A b \in DOMAIN s.bars : s.bars[b].open \in s.bars[b].low..s.bars[b].high
    /\ \A k \in DOMAIN s.trades :
        /\ s.trades[k].entry <= s.trades[k].exit
        /\ s.trades[k].exit <= latest /\ s.trades[k].exit <= Len(s.bars)
        /\ k > 1 => s.trades[k - 1].exit < s.trades[k].entry
        /\ Honoured(s, s.trades[k])
    /\ s.position # Flat =>
        /\ s.position.side \in {"BUY", "SELL"} /\ s.position.bar \in 1..(last + 1) /\ last + 1 <= Len(s.bars)
        /\ Survived(s, s.position, last)
        /\ \A k \in DOMAIN s.trades : s.trades[k].exit < s.position.bar

Simulated == Consistent(sim, sim.i - 1, sim.i)

\* The constants of the backtests.
LEMMA BacktestConstants ==
    ASSUME scene \in Scenes
    PROVE  /\ scene.lag \in Nat /\ scene.triggers \subseteq Seq(Models) /\ scene.histories \subseteq Seq(Bar)
           /\ scene.threads \subseteq Threads /\ scene.changes \subseteq Change
           /\ \A q \in scene.triggers : \A j, k \in DOMAIN q : q[j] = q[k] => j = k
           /\ \A h \in scene.histories : \A k \in DOMAIN h : h[k].open \in h[k].low..h[k].high
BY BacktestAssumption DEF Scene

\* The constants of the engine.
LEMMA EngineConstants ==
    StopDistance \in Nat \ {0} /\ TargetDistance \in Nat \ {0} /\ Slippage \in Nat /\ Commission \in Nat
    /\ BarUnits \in Nat \ {0}
BY EngineAssumption

\* A part of a distance is not longer than the distance.
LEMMA PartOf ==
    ASSUME NEW d \in Nat, NEW u \in Nat \ {0}, NEW s \in Nat, s <= u
    PROVE  (d * s) \div u \in 0..d
OBVIOUS

\* What a bracket that came late misses, the whole range of the bar shows
\* (_check_sl_tp_with_lag).
LEMMA LateReachesLess ==
    ASSUME NEW p \in Position, NEW bar \in Bar, bar.open \in bar.low..bar.high, NEW share \in 0..BarUnits,
           CheckWithLag(p, bar, share) # "NONE"
    PROVE  CheckSlTp(p, bar.high, bar.low) # "NONE"
<1>1. BarUnits \in Nat \ {0} /\ bar.high \in Int /\ bar.low \in Int /\ bar.open \in Int /\ share \in Nat /\ share <= BarUnits
  BY EngineConstants DEF Bar
<1>2. CASE share >= BarUnits
  BY <1>2 DEF CheckWithLag
<1>3. CASE share < BarUnits
  <2> DEFINE high == bar.open + ((bar.high - bar.open) * share) \div BarUnits
             low == bar.open - ((bar.open - bar.low) * share) \div BarUnits
  <2>1. bar.high - bar.open \in Nat /\ bar.open - bar.low \in Nat
    BY <1>1
  <2>2. ((bar.high - bar.open) * share) \div BarUnits \in 0..(bar.high - bar.open)
    BY <1>1, <2>1, PartOf
  <2>3. ((bar.open - bar.low) * share) \div BarUnits \in 0..(bar.open - bar.low)
    BY <1>1, <2>1, PartOf
  <2>4. high \in Int /\ high <= bar.high /\ low \in Int /\ low >= bar.low
    BY <1>1, <2>2, <2>3
  <2>5. CheckSlTp(p, high, low) # "NONE"
    BY <1>1, <1>3 DEF CheckWithLag
  <2>6. StopPrice(p) \in Int /\ TargetPrice(p) \in Int
    BY EngineConstants DEF StopPrice, TargetPrice, Direction, Position
  <2> HIDE DEF high, low
  <2>7. QED
    BY <1>1, <2>4, <2>5, <2>6 DEF CheckSlTp, StopReached, TargetReached
<1>4. QED
  BY <1>1, <1>2, <1>3

\* A bar that has been cut stays so, and what was honoured stays honoured.
LEMMA HonouredKept ==
    ASSUME NEW s, NEW r, r.bars = s.bars, s.delayed \subseteq r.delayed
    PROVE  /\ \A p, n : Survived(s, p, n) => Survived(r, p, n)
           /\ \A t : Honoured(s, t) => Honoured(r, t)
BY DEF Survived, Honoured, ReachedIn

\* Closing the position.
LEMMA ClosedConsistent ==
    ASSUME NEW s, NEW last, NEW latest, latest \in Int, Consistent(s, last, latest), s.position # Flat,
           NEW exit \in Int, NEW bar, bar \in Nat, s.position.bar <= bar, bar <= Len(s.bars), latest <= bar,
           NEW reason \in {"SL", "TP", "SIGNAL", "END_OF_DATA"},
           Honoured(s, Trade(s.position, exit, bar, reason))
    PROVE  /\ \A l : Consistent(Closed(s, exit, bar, reason), l, bar)
           /\ Closed(s, exit, bar, reason).position = Flat
           /\ Closed(s, exit, bar, reason).bars = s.bars /\ Closed(s, exit, bar, reason).i = s.i
<1> DEFINE r == Closed(s, exit, bar, reason)
           t == Trade(s.position, exit, bar, reason)
<1>1. s \in SimRecord /\ s.position \in Position /\ s.position.side \in {"BUY", "SELL"}
  BY DEF Consistent, SimRecord
<1>2. Pnl(s.position, exit) \in Int
  BY SMTT(60), <1>1, EngineConstants DEF Pnl, Direction, Position
<1>3. t \in TradeRecord /\ t.entry = s.position.bar /\ t.exit = bar
  BY <1>1, <1>2 DEF Trade, TradeRecord, Position
<1>4. Flat \in Position
  BY DEF Flat, Position
<1>5. r = [s EXCEPT !.position = Flat, !.trades = Append(s.trades, t), !.equity = s.equity + Pnl(s.position, exit)]
  BY DEF Closed
<1> HIDE DEF t
<1>6. r \in SimRecord /\ r.position = Flat /\ r.bars = s.bars /\ r.i = s.i /\ r.delayed = s.delayed
      /\ r.trades = Append(s.trades, t)
  <2>1. Append(s.trades, t) \in Seq(TradeRecord) /\ s.equity + Pnl(s.position, exit) \in Int
    BY <1>1, <1>2, <1>3 DEF SimRecord
  <2>2. QED
    BY <1>1, <1>4, <1>5, <2>1 DEF SimRecord
<1> HIDE DEF r
<1>7. s.trades \in Seq(TradeRecord)
  BY <1>1 DEF SimRecord
<1>8. ASSUME NEW k \in DOMAIN r.trades
      PROVE  /\ r.trades[k].entry <= r.trades[k].exit
             /\ r.trades[k].exit <= bar /\ r.trades[k].exit <= Len(r.bars)
             /\ k > 1 => r.trades[k - 1].exit < r.trades[k].entry
             /\ Honoured(r, r.trades[k])
  <2>1. \A x : Honoured(s, x) => Honoured(r, x)
    BY <1>6, HonouredKept
  <2>2. CASE k \in DOMAIN s.trades
    <3>1. r.trades[k] = s.trades[k] /\ (k > 1 => r.trades[k - 1] = s.trades[k - 1])
      BY <1>6, <1>7, <2>2
    <3>2. s.trades[k] \in TradeRecord
      BY <1>7, <2>2
    <3>3. s.trades[k].exit \in Nat
      BY <3>2 DEF TradeRecord
    <3>4. /\ s.trades[k].entry <= s.trades[k].exit
          /\ s.trades[k].exit <= latest /\ s.trades[k].exit <= Len(s.bars)
          /\ k > 1 => s.trades[k - 1].exit < s.trades[k].entry
          /\ Honoured(s, s.trades[k])
      BY <2>2 DEF Consistent
    <3>5. QED
      BY SMTT(60), <1>6, <2>1, <3>1, <3>3, <3>4
  <2>3. CASE k = Len(s.trades) + 1
    <3>1. r.trades[k] = t /\ (k > 1 => r.trades[k - 1] = s.trades[k - 1] /\ k - 1 \in DOMAIN s.trades)
      BY <1>6, <1>7, <2>3
    <3>2. k > 1 => s.trades[k - 1].exit < s.position.bar
      BY <3>1 DEF Consistent
    <3>3. Honoured(s, t)
      BY DEF t
    <3>4. QED
      BY <1>3, <1>6, <2>1, <3>1, <3>2, <3>3
  <2>4. QED
    BY SMTT(60), <1>6, <1>7, <2>2, <2>3
<1>9. QED
  BY <1>6, <1>8 DEF Consistent, r

\* The levels of a bar.
LEMMA LevelsConsistent ==
    ASSUME NEW s, Consistent(s, s.i - 1, s.i), BarsLeft(s), NEW ahead \in Nat
    PROVE  /\ Consistent(AfterLevels(s, ahead), s.i, s.i)
           /\ AfterLevels(s, ahead).i = s.i /\ AfterLevels(s, ahead).bars = s.bars
<1> DEFINE p == s.position
           bar == s.bars[s.i]
           share == Protected(ahead, s.lag)
           hit == IF p = Flat THEN "NONE" ELSE CheckWithLag(p, bar, share)
           cut == IF p # Flat /\ share < BarUnits THEN [s EXCEPT !.delayed = @ \cup {s.i}] ELSE s
<1>1. s \in SimRecord /\ s.i \in Nat /\ s.i < Len(s.bars) /\ s.bars \in Seq(Bar) /\ s.trades \in Seq(TradeRecord)
  BY DEF Consistent, SimRecord, BarsLeft
<1>2. share \in 0..BarUnits
  <2>1. ahead * s.lag \in Nat
    BY <1>1 DEF SimRecord
  <2>2. QED
    BY <2>1, EngineConstants DEF Protected
<1>3. AfterLevels(s, ahead) = IF hit = "NONE" THEN cut
        ELSE Closed(cut, IF hit = "SL" THEN StopPrice(p) ELSE TargetPrice(p), s.i, hit)
  BY DEF AfterLevels
<1> HIDE DEF share
<1>4. cut \in SimRecord /\ cut.bars = s.bars /\ cut.i = s.i /\ cut.position = p /\ cut.trades = s.trades
      /\ s.delayed \subseteq cut.delayed
  <2>1. [s EXCEPT !.delayed = s.delayed \cup {s.i}] \in SimRecord
    BY <1>1 DEF SimRecord
  <2>2. QED
    BY <1>1, <2>1 DEF SimRecord
<1>5. p # Flat => s.i \in cut.delayed \/ share = BarUnits
  BY <1>1, <1>2, EngineConstants DEF SimRecord
<1> HIDE DEF cut, hit
<1>6. Consistent(cut, s.i - 1, s.i)
  <2>1. /\ \A q, n : Survived(s, q, n) => Survived(cut, q, n)
        /\ \A t : Honoured(s, t) => Honoured(cut, t)
    BY <1>4, HonouredKept
  <2>2. QED
    BY <1>4, <2>1 DEF Consistent, p
<1>7. CASE p = Flat
  <2>1. AfterLevels(s, ahead) = cut
    BY <1>3, <1>7 DEF hit
  <2>2. Consistent(cut, s.i, s.i)
    BY <1>4, <1>6, <1>7 DEF Consistent
  <2>3. QED
    BY <1>4, <2>1, <2>2
<1>8. CASE p # Flat
  <2>1. p \in Position /\ p.bar \in 1..s.i /\ s.i \in DOMAIN s.bars /\ bar \in Bar /\ bar.open \in bar.low..bar.high
    BY <1>1, <1>8 DEF Consistent, SimRecord
  <2>2. hit = CheckWithLag(p, bar, share) /\ hit \in {"NONE", "SL", "TP"}
    BY <1>8 DEF hit, CheckWithLag, CheckSlTp
  <2>3. hit # "NONE" => ReachedIn(cut, p, s.i) # "NONE"
    BY <1>2, <1>4, <2>1, <2>2, LateReachesLess DEF ReachedIn
  <2>4. share = BarUnits => hit = ReachedIn(cut, p, s.i)
    BY <1>4, <2>2, EngineConstants DEF CheckWithLag, ReachedIn
  <2>5. Survived(cut, p, s.i - 1)
    BY <1>4, <1>6, <1>8 DEF Consistent
  <2> HIDE DEF p, bar
  <2>6. CASE hit = "NONE"
    <3>1. Survived(cut, p, s.i)
      <4>1. s.i \in cut.delayed \/ ReachedIn(cut, p, s.i) = "NONE"
        BY <1>5, <1>8, <2>4, <2>6
      <4>2. \A b \in p.bar..s.i : b \in p.bar..(s.i - 1) \/ b = s.i
        BY <1>1, <2>1
      <4>3. QED
        BY <2>5, <4>1, <4>2 DEF Survived
    <3>2. p.bar \in 1..(s.i + 1) /\ s.i + 1 <= Len(cut.bars)
      BY <1>1, <1>4, <2>1
    <3>3. Consistent(cut, s.i, s.i)
      BY <1>4, <1>6, <1>8, <3>1, <3>2 DEF Consistent
    <3>4. QED
      BY <1>3, <1>4, <2>6, <3>3
  <2>7. CASE hit # "NONE"
    <3> DEFINE exit == IF hit = "SL" THEN StopPrice(p) ELSE TargetPrice(p)
    <3>1. exit \in Int
      BY <2>1, EngineConstants DEF StopPrice, TargetPrice, Direction, Position
    <3> HIDE DEF exit
    <3>2. Honoured(cut, Trade(p, exit, s.i, hit))
      <4>1. PositionOf(Trade(p, exit, s.i, hit)) = p
        BY <2>1 DEF PositionOf, Trade, Position
      <4>2. Trade(p, exit, s.i, hit).exit = s.i /\ Trade(p, exit, s.i, hit).reason = hit
        BY DEF Trade
      <4>3. QED
        BY <1>5, <1>8, <2>3, <2>4, <2>5, <2>7, <4>1, <4>2 DEF Honoured
    <3>3. AfterLevels(s, ahead) = Closed(cut, exit, s.i, hit)
      BY <1>3, <2>7 DEF exit
    <3> DEFINE n == s.i
               m == s.i - 1
               c == Closed(cut, exit, n, hit)
    <3>4. m \in Int /\ n \in Nat /\ n \in Int /\ cut.position.bar <= n /\ n <= Len(cut.bars) /\ n <= n
          /\ cut.position # Flat /\ Consistent(cut, m, n) /\ Honoured(cut, Trade(cut.position, exit, n, hit))
      BY <1>1, <1>4, <1>6, <1>8, <2>1, <3>2
    <3>5. hit \in {"SL", "TP", "SIGNAL", "END_OF_DATA"}
      BY <2>2, <2>7
    <3> HIDE DEF n, m
    <3>6. Consistent(c, n, n) /\ c.bars = cut.bars /\ c.i = cut.i
      BY <3>1, <3>4, <3>5, ClosedConsistent
    <3>7. QED
      BY <1>4, <3>3, <3>6 DEF n
  <2>8. QED
    BY <2>6, <2>7
<1>9. QED
  BY <1>7, <1>8

\* The signal of a bar.
LEMMA SignalConsistent ==
    ASSUME NEW s, Consistent(s, s.i, s.i), BarsLeft(s), NEW signal \in {"BUY", "SELL", "HOLD"}
    PROVE  /\ Consistent(AfterSignal(s, signal), s.i, s.i + 1)
           /\ AfterSignal(s, signal).i = s.i /\ AfterSignal(s, signal).bars = s.bars
<1> DEFINE fill == Fill(signal, s.bars[s.i + 1].open)
           new == [side |-> signal, price |-> fill, bar |-> s.i + 1]
<1>1. s \in SimRecord /\ s.i \in Nat /\ s.i < Len(s.bars) /\ s.bars \in Seq(Bar) /\ s.trades \in Seq(TradeRecord)
  BY DEF Consistent, SimRecord, BarsLeft
<1>2. fill \in Int
  <2>1. s.bars[s.i + 1] \in Bar
    BY <1>1
  <2>2. QED
    BY <2>1, EngineConstants DEF Fill, Direction, Bar
<1>3. AfterSignal(s, signal) =
        IF signal = "HOLD" \/ signal = s.position.side THEN s
        ELSE IF s.position = Flat THEN [s EXCEPT !.position = new] ELSE Closed(s, fill, s.i + 1, "SIGNAL")
  BY DEF AfterSignal
<1> HIDE DEF fill
<1>4. \A k \in DOMAIN s.trades : s.trades[k].exit \in Nat /\ s.trades[k].exit <= s.i
  <2>1. ASSUME NEW k \in DOMAIN s.trades PROVE s.trades[k].exit \in Nat
    <3>1. s.trades[k] \in TradeRecord
      BY <1>1
    <3>2. QED
      BY <3>1 DEF TradeRecord
  <2>2. QED
    BY <2>1 DEF Consistent
<1>5. CASE signal = "HOLD" \/ signal = s.position.side
  <2>1. Consistent(s, s.i, s.i + 1)
    BY <1>1, <1>4 DEF Consistent
  <2>2. QED
    BY <1>3, <1>5, <2>1
<1>6. CASE signal \in {"BUY", "SELL"} /\ signal # s.position.side /\ s.position = Flat
  <2> DEFINE r == [s EXCEPT !.position = new]
  <2>1. new \in Position /\ new.side = signal /\ new.bar = s.i + 1
    BY <1>1, <1>2, <1>6 DEF Position
  <2> HIDE DEF new
  <2>2. r \in SimRecord /\ r.position = new /\ r.bars = s.bars /\ r.i = s.i /\ r.trades = s.trades /\ r.delayed = s.delayed
    BY <1>1, <2>1 DEF SimRecord
  <2>3. \A t : Honoured(s, t) => Honoured(r, t)
    BY <2>2, HonouredKept
  <2> HIDE DEF r
  <2>4. Survived(r, new, s.i)
    BY <1>1, <2>1 DEF Survived
  <2>5. \A k \in DOMAIN r.trades : r.trades[k].exit <= s.i + 1 /\ r.trades[k].exit < new.bar
    BY <1>1, <1>4, <2>1, <2>2
  <2>6. new.bar \in 1..(s.i + 1) /\ s.i + 1 <= Len(r.bars)
    BY <1>1, <2>1, <2>2
  <2>7. \A k \in DOMAIN r.trades :
          /\ r.trades[k].entry <= r.trades[k].exit
          /\ r.trades[k].exit <= s.i + 1 /\ r.trades[k].exit <= Len(r.bars)
          /\ k > 1 => r.trades[k - 1].exit < r.trades[k].entry
          /\ Honoured(r, r.trades[k])
    BY <2>2, <2>3, <2>5 DEF Consistent
  <2>8. \A b \in DOMAIN r.bars : r.bars[b].open \in r.bars[b].low..r.bars[b].high
    BY <2>2 DEF Consistent
  <2>9. Consistent(r, s.i, s.i + 1)
    BY <1>6, <2>1, <2>2, <2>4, <2>5, <2>6, <2>7, <2>8 DEF Consistent
  <2>10. QED
    BY <1>3, <1>6, <2>2, <2>9 DEF r
<1>7. CASE signal \in {"BUY", "SELL"} /\ signal # s.position.side /\ s.position # Flat
  <2>1. AfterSignal(s, signal) = Closed(s, fill, s.i + 1, "SIGNAL")
    BY <1>3, <1>7
  <2>2. s.position \in Position /\ s.position.bar \in 1..(s.i + 1) /\ Survived(s, s.position, s.i)
    BY <1>1, <1>7 DEF Consistent, SimRecord
  <2>3. Honoured(s, Trade(s.position, fill, s.i + 1, "SIGNAL"))
    <3>1. PositionOf(Trade(s.position, fill, s.i + 1, "SIGNAL")) = s.position
      BY <2>2 DEF PositionOf, Trade, Position
    <3>2. Trade(s.position, fill, s.i + 1, "SIGNAL").exit - 1 = s.i
          /\ Trade(s.position, fill, s.i + 1, "SIGNAL").reason = "SIGNAL"
      BY <1>1 DEF Trade
    <3>3. QED
      BY <2>2, <3>1, <3>2 DEF Honoured
  <2> DEFINE n == s.i + 1
             c == Closed(s, fill, n, "SIGNAL")
             l == s.i
  <2>4. n \in Nat /\ n \in Int /\ s.position.bar <= n /\ n <= Len(s.bars) /\ l <= n /\ n <= n /\ l \in Int
    BY <1>1, <2>2
  <2>5. Honoured(s, Trade(s.position, fill, n, "SIGNAL")) /\ Consistent(s, l, l)
    BY <2>3
  <2> HIDE DEF n, l
  <2>6. Consistent(c, l, n) /\ c.bars = s.bars /\ c.i = s.i
    BY <1>2, <1>7, <2>4, <2>5, ClosedConsistent
  <2>7. QED
    BY <2>1, <2>6 DEF n, l
<1>8. QED
  BY <1>5, <1>6, <1>7

\* The end of the data.
LEMMA EndConsistent ==
    ASSUME NEW s, Consistent(s, s.i - 1, s.i), ~BarsLeft(s)
    PROVE  /\ Consistent(AtEnd(s), s.i - 1, s.i) /\ AtEnd(s).i = s.i
           /\ AtEnd(s).trades \in Seq(TradeRecord)
<1>1. s \in SimRecord /\ s.i \in Nat /\ s.bars \in Seq(Bar) /\ s.trades \in Seq(TradeRecord) /\ s.i >= Len(s.bars)
  BY DEF Consistent, SimRecord, BarsLeft
<1>2. CASE s.position = Flat
  BY <1>1, <1>2 DEF AtEnd
<1>3. CASE s.position # Flat
  <2> DEFINE n == Len(s.bars)
             exit == s.bars[Len(s.bars)].close
  <2>1. s.i = n /\ n \in DOMAIN s.bars /\ s.position.bar \in 1..n /\ n \in Nat /\ s.position \in Position
        /\ Survived(s, s.position, n - 1)
    BY <1>1, <1>3 DEF Consistent, SimRecord
  <2>2. exit \in Int
    <3>1. s.bars[n] \in Bar
      BY <1>1, <2>1
    <3>2. QED
      BY <3>1 DEF Bar
  <2>3. AtEnd(s) = Closed(s, exit, n, "END_OF_DATA")
    BY <1>3 DEF AtEnd
  <2> HIDE DEF exit
  <2>4. Honoured(s, Trade(s.position, exit, n, "END_OF_DATA"))
    <3>1. PositionOf(Trade(s.position, exit, n, "END_OF_DATA")) = s.position
      BY <2>1 DEF PositionOf, Trade, Position
    <3>2. Trade(s.position, exit, n, "END_OF_DATA").exit = n
          /\ Trade(s.position, exit, n, "END_OF_DATA").reason = "END_OF_DATA"
      BY DEF Trade
    <3>3. QED
      BY <2>1, <3>1, <3>2 DEF Honoured
  <2> DEFINE c == Closed(s, exit, n, "END_OF_DATA")
             m == s.i - 1
  <2>5. Consistent(s, m, n) /\ n \in Int /\ n <= n /\ s.position.bar <= n /\ n <= Len(s.bars)
    BY <2>1
  <2> HIDE DEF n, m
  <2>6. (\A l : Consistent(c, l, n)) /\ c.i = s.i
    BY <1>3, <2>1, <2>2, <2>4, <2>5, ClosedConsistent
  <2>7. c.trades \in Seq(TradeRecord)
    BY <2>6 DEF Consistent, SimRecord
  <2>8. QED
    BY <2>1, <2>3, <2>6, <2>7
<1>4. QED
  BY <1>2, <1>3

\* The next bar.
LEMMA NextBarConsistent ==
    ASSUME NEW s, NEW last, NEW latest, Consistent(s, last, latest), NEW n \in Nat
    PROVE  Consistent([s EXCEPT !.i = n], last, latest) /\ [s EXCEPT !.i = n].i = n
<1> DEFINE r == [s EXCEPT !.i = n]
<1>1. s \in SimRecord
  BY DEF Consistent
<1>2. r \in SimRecord /\ r.i = n /\ r.bars = s.bars /\ r.delayed = s.delayed /\ r.trades = s.trades /\ r.position = s.position
  BY <1>1 DEF SimRecord
<1> HIDE DEF r
<1>3. (\A p, m : Survived(s, p, m) => Survived(r, p, m)) /\ (\A t : Honoured(s, t) => Honoured(r, t))
  BY <1>2, HonouredKept
<1>4. Consistent(r, last, latest)
  BY <1>2, <1>3 DEF Consistent
<1>5. QED
  BY <1>2, <1>4 DEF r

\* One turn of the loop over the bars.
LEMMA WalkConsistent ==
    ASSUME Simulated, NEW signal \in {"BUY", "SELL", "HOLD"}, NEW ahead \in Nat, WalkBar(signal, ahead)
    PROVE  Simulated'
<1> DEFINE a == AfterLevels(sim, ahead)
           b == AfterSignal(a, signal)
<1>1. BarsLeft(sim) /\ sim' = [b EXCEPT !.i = b.i + 1]
  BY DEF WalkBar
<1>2. sim.i \in Nat
  BY DEF Simulated, Consistent, SimRecord
<1>3. Consistent(a, sim.i, sim.i) /\ a.i = sim.i /\ a.bars = sim.bars
  BY <1>1, LevelsConsistent DEF Simulated
<1> HIDE DEF a
<1>4. Consistent(a, a.i, a.i) /\ BarsLeft(a)
  BY <1>1, <1>3 DEF BarsLeft
<1>5. Consistent(b, a.i, a.i + 1) /\ b.i = a.i
  BY <1>4, SignalConsistent
<1> HIDE DEF b
<1> DEFINE n == sim.i + 1
<1>6. Consistent(b, sim.i, n) /\ b.i + 1 = n /\ n \in Nat
  BY <1>2, <1>3, <1>5
<1>7. sim' = [b EXCEPT !.i = n] /\ n - 1 = sim.i
  BY <1>1, <1>2, <1>6
<1> HIDE DEF n
<1>8. Consistent(sim', sim.i, n) /\ sim'.i = n
  BY <1>6, <1>7, NextBarConsistent
<1>9. Consistent(sim', sim'.i - 1, sim'.i)
  BY <1>7, <1>8
<1>10. QED
  BY <1>9 DEF Simulated, Consistent, Honoured, Survived, ReachedIn

\* A simulation begins, or is dropped.
LEMMA NewConsistent ==
    /\ Consistent(NoSim, NoSim.i - 1, NoSim.i)
    /\ \A bars \in Seq(Bar), lag \in Nat :
        (\A b \in DOMAIN bars : bars[b].open \in bars[b].low..bars[b].high) =>
            Consistent(NewSim(bars, lag), NewSim(bars, lag).i - 1, NewSim(bars, lag).i)
<1>1. Flat \in Position
  BY DEF Flat, Position
<1>2. <<>> \in Seq(Bar) /\ <<>> \in Seq(TradeRecord)
  OBVIOUS
<1>3. NoSim \in SimRecord /\ NoSim.position = Flat /\ NoSim.trades = <<>> /\ NoSim.bars = <<>>
  BY <1>1, <1>2 DEF NoSim, SimRecord
<1>4. ASSUME NEW bars \in Seq(Bar), NEW lag \in Nat
      PROVE  /\ NewSim(bars, lag) \in SimRecord /\ NewSim(bars, lag).position = Flat
             /\ NewSim(bars, lag).trades = <<>> /\ NewSim(bars, lag).bars = bars
  BY <1>3 DEF NewSim, SimRecord
<1>5. QED
  BY <1>3, <1>4 DEF Consistent

-----------------------------------------------------------------------------
\* What changes the runs, and what leaves them alone.
LEMMA EventLoopSteps ==
    ASSUME [Next]_vars
    PROVE  \/ RunSteps
           \/ \E models \in scene.triggers : Trigger(models)
           \/ \E m \in Models : Submit(m)
           \/ ProcessEnds \/ StartUp
           \/ UNCHANGED <<runs, ready, loop, sim, up, scene>>
<1>1. ASSUME NEW t, PatchSteps(t) PROVE UNCHANGED <<runs, ready, loop, sim, up, scene>>
  BY <1>1 DEF PatchSteps, ListJobs, RemoveJob, Removed, AddJob, Lock, Truncate, Write, KeptBySchedule
<1>2. ASSUME NEW t, NEW ask, PatchArrives(t, ask) PROVE UNCHANGED <<runs, ready, loop, sim, up, scene>>
  BY <1>2 DEF PatchArrives, KeptBySchedule
<1>3. ASSUME NEW c, Night(c) PROVE UNCHANGED <<runs, ready, loop, sim, up, scene>>
  BY <1>3 DEF Night, KeptBySchedule
<1>4. CASE UNCHANGED backtestVars
  BY SMTT(60), <1>4 DEF backtestVars, databaseVars, loopVars, environmentVars
<1>5. QED
  BY <1>1, <1>2, <1>3, <1>4 DEF Next, Progress, BacktestProgress, BacktestEvents, TaskProgress, ClockEvents, vars

\* The rest of the process stays.
LEMMA RunStepsKeep ==
    ASSUME RunSteps PROVE UNCHANGED <<up, scene, file, settings, jobs, patches>>
BY DEF RunSteps, StartTriggered, StartJob, CreateRun, Begin, Select, FetchModel, WalkOneBar, WalkEnds, RecordTrade,
   TradesRecorded, RecordModel, Finish, Fail, Kept, scheduleVars

\* The scene never changes.
LEMMA EventLoopScene == [Next]_vars => UNCHANGED scene
BY EventLoopSteps, RunStepsKeep DEF Trigger, Submit, ProcessEnds, StartUp, Kept

\* The fields of a run.
LEMMA RunFields ==
    ASSUME RunsTyped, NEW r \in DOMAIN runs
    PROVE  /\ runs[r] \in RunRecord
           /\ runs[r].status \in Statuses /\ runs[r].models \in Seq(Models) /\ runs[r].hurt \in BOOLEAN
           /\ runs[r].rows \in [Models -> Row] /\ runs[r].trades \in [Models -> Nat]
<1>1. runs[r] \in RunRecord
  BY DEF RunsTyped
<1>2. QED
  BY <1>1 DEF RunRecord

\* The simulation stays consistent.
LEMMA SimulatedStep ==
    ASSUME RunsTyped, scene \in Scenes, Simulated, [Next]_vars PROVE Simulated'
<1>1. sim' = sim => Simulated'
  BY SMTT(60) DEF Simulated, Consistent, Honoured, Survived, ReachedIn
<1>2. ASSUME NEW s, sim' = s, Consistent(s, s.i - 1, s.i) PROVE Simulated'
  <2>1. Consistent(sim', sim'.i - 1, sim'.i)
    BY <1>2
  <2>2. QED
    BY <2>1 DEF Simulated, Consistent, Honoured, Survived, ReachedIn
<1>3. sim' = NoSim => Simulated'
  BY <1>2, NewConsistent
<1>4. CASE WalkOneBar
  <2>1. PICK signal \in {"BUY", "SELL", "HOLD"} :
          \E ahead \in IF sim.lag > 0 THEN 0..(Len(runs[loop.run].models) - 1) ELSE {0} : WalkBar(signal, ahead)
    BY <1>4 DEF WalkOneBar
  <2>2. PICK ahead \in IF sim.lag > 0 THEN 0..(Len(runs[loop.run].models) - 1) ELSE {0} : WalkBar(signal, ahead)
    BY <2>1
  <2>3. loop.run \in DOMAIN runs
    BY <1>4 DEF WalkOneBar, At, RunsTyped
  <2>4. runs[loop.run].models \in Seq(Models)
    BY <2>3, RunFields
  <2>5. ahead \in Nat
    BY <2>2, <2>4
  <2>6. QED
    BY <2>2, <2>5, WalkConsistent
<1>5. CASE WalkEnds
  <2>1. sim' = AtEnd(sim) /\ ~BarsLeft(sim)
    BY <1>5 DEF WalkEnds
  <2>2. Consistent(AtEnd(sim), AtEnd(sim).i - 1, AtEnd(sim).i)
    BY <2>1, EndConsistent DEF Simulated
  <2>3. QED
    BY <1>2, <2>1, <2>2
<1>6. CASE FetchModel
  <2>1. CASE sim' = NoSim
    BY <1>3, <2>1
  <2>2. ASSUME NEW bars \in scene.histories, sim' = NewSim(bars, LagUsed) PROVE Simulated'
    <3>1. bars \in Seq(Bar) /\ (\A b \in DOMAIN bars : bars[b].open \in bars[b].low..bars[b].high) /\ LagUsed \in Nat
      BY BacktestConstants DEF LagUsed
    <3>2. QED
      BY <1>2, <2>2, <3>1, NewConsistent
  <2>3. QED
    BY <1>6, <2>1, <2>2 DEF FetchModel
<1>7. CASE RunSteps /\ ~(WalkOneBar \/ WalkEnds \/ FetchModel)
  <2>1. sim' = sim \/ sim' = NoSim
    BY <1>7 DEF RunSteps, StartTriggered, StartJob, CreateRun, Begin, Select, RecordTrade,
       TradesRecorded, RecordModel, Finish, Fail, Release
  <2>2. QED
    BY SMTT(60), <1>1, <1>3, <2>1
<1>8. CASE ProcessEnds
  BY <1>3, <1>8 DEF ProcessEnds
<1>9. CASE (\E models \in scene.triggers : Trigger(models)) \/ (\E m \in Models : Submit(m)) \/ StartUp
           \/ UNCHANGED <<runs, ready, loop, sim, up, scene>>
  BY <1>1, <1>9 DEF Trigger, Submit, StartUp
<1>10. QED
  BY SMTT(60), <1>4, <1>5, <1>6, <1>7, <1>8, <1>9, EventLoopSteps

-----------------------------------------------------------------------------
\* What waits for the event loop, when a long task leaves it behind.
LEMMA ReleaseKeeps ==
    ASSUME RunsTyped, Release
    PROVE  /\ loop' = IdleLoop /\ ready' \in Seq(Task) /\ DOMAIN ready' = DOMAIN ready /\ Len(ready') = Len(ready)
           /\ \A k \in DOMAIN ready : /\ ready'[k].job = ready[k].job /\ ready'[k].run = ready[k].run
                                      /\ ready'[k].model = ready[k].model
<1>1. ready \in Seq(Task)
  BY DEF RunsTyped
<1>2. PICK long \in BOOLEAN : ready' = [k \in DOMAIN ready |->
               IF long /\ ready[k].job THEN [ready[k] EXCEPT !.late = TRUE] ELSE ready[k]]
  BY DEF Release
<1>3. ASSUME NEW k \in DOMAIN ready
      PROVE  /\ ready'[k] \in Task /\ ready'[k].job = ready[k].job /\ ready'[k].run = ready[k].run
             /\ ready'[k].model = ready[k].model
  <2>1. ready[k] \in Task
    BY <1>1
  <2>2. QED
    BY <1>2, <2>1 DEF Task
<1>4. DOMAIN ready = 1..Len(ready) /\ Len(ready) \in Nat
  BY <1>1
<1>5. ready' \in [1..Len(ready) -> Task]
  BY <1>2, <1>3, <1>4
<1>6. ready' \in Seq(Task) /\ Len(ready') = Len(ready)
  BY <1>4, <1>5
<1>7. QED
  BY <1>3, <1>4, <1>5, <1>6 DEF Release

\* One run's record is replaced.
LEMMA RunReplaced ==
    ASSUME RunsTyped, NEW r \in DOMAIN runs, NEW x \in RunRecord, runs' = [runs EXCEPT ![r] = x]
    PROVE  /\ runs' \in Seq(RunRecord) /\ DOMAIN runs' = DOMAIN runs /\ Len(runs') = Len(runs) /\ runs'[r] = x
           /\ \A q \in DOMAIN runs : q # r => runs'[q] = runs[q]
<1>1. runs \in Seq(RunRecord)
  BY DEF RunsTyped
<1>2. QED
  BY <1>1

\* A run is created.
LEMMA NewRunTyped ==
    ASSUME RunsTyped, NEW models \in Seq(Models), runs' = Append(runs, NewRun(models))
    PROVE  /\ NewRun(models) \in RunRecord /\ runs' \in Seq(RunRecord) /\ Len(runs') = Len(runs) + 1
           /\ DOMAIN runs' = DOMAIN runs \cup {Len(runs) + 1} /\ runs'[Len(runs) + 1] = NewRun(models)
           /\ \A r \in DOMAIN runs : runs'[r] = runs[r]
           /\ Len(runs) + 1 \in Nat /\ Len(runs) + 1 \notin DOMAIN runs
<1>1. NoModelRow \in Row
  BY DEF NoModelRow, Row, Outcomes
<1>2. NewRun(models) \in RunRecord
  BY <1>1 DEF NewRun, RunRecord, Statuses
<1>3. runs \in Seq(RunRecord)
  BY DEF RunsTyped
<1> HIDE DEF NewRun
<1>4. QED
  BY <1>2, <1>3

\* A commit of a run, or its failure, changes the row of this run.
LEMMA CommitTyped ==
    ASSUME RunsTyped, loop.run \in DOMAIN runs,
           Fault \/ \E status \in Statuses : SetStatus(status)
    PROVE  \E x \in RunRecord :
             /\ runs' = [runs EXCEPT ![loop.run] = x]
             /\ x.models = runs[loop.run].models /\ x.rows = runs[loop.run].rows
             /\ x.trades = runs[loop.run].trades
             /\ Fault => x.hurt /\ x.status = runs[loop.run].status
             /\ \A status : SetStatus(status) => x.hurt = runs[loop.run].hurt /\ x.status = status
<1>1. runs[loop.run] \in RunRecord /\ loop.run # 0 /\ runs \in Seq(RunRecord)
  BY RunFields DEF RunsTyped
<1>2. CASE Fault
  <2> DEFINE x == [runs[loop.run] EXCEPT !.hurt = TRUE]
  <2>1. runs' = [runs EXCEPT ![loop.run] = x]
    BY <1>1, <1>2 DEF Fault
  <2>2. x \in RunRecord /\ x.models = runs[loop.run].models /\ x.rows = runs[loop.run].rows /\ x.hurt
        /\ x.trades = runs[loop.run].trades /\ x.status = runs[loop.run].status
    BY <1>1 DEF RunRecord
  <2>3. ASSUME NEW status, SetStatus(status) PROVE x.hurt = runs[loop.run].hurt /\ x.status = status
    <3>1. runs'[loop.run] = [runs[loop.run] EXCEPT !.status = status]
      BY <1>1, <2>3 DEF SetStatus
    <3>2. runs'[loop.run] = x
      BY <1>1, <2>1
    <3>3. x.status = status /\ x.hurt = runs[loop.run].hurt
      BY ZenonT(60), <1>1, <3>1, <3>2 DEF RunRecord
    <3>4. QED
      BY <3>3
  <2> HIDE DEF x
  <2>4. QED
    BY <2>1, <2>2, <2>3
<1>3. ASSUME NEW status \in Statuses, SetStatus(status), ~Fault
      PROVE  \E x \in RunRecord :
             /\ runs' = [runs EXCEPT ![loop.run] = x]
             /\ x.models = runs[loop.run].models /\ x.rows = runs[loop.run].rows
             /\ x.trades = runs[loop.run].trades
             /\ Fault => x.hurt /\ x.status = runs[loop.run].status
             /\ \A s : SetStatus(s) => x.hurt = runs[loop.run].hurt /\ x.status = s
  <2> DEFINE x == [runs[loop.run] EXCEPT !.status = status]
  <2>1. runs' = [runs EXCEPT ![loop.run] = x]
    BY <1>3 DEF SetStatus
  <2>2. x \in RunRecord /\ x.models = runs[loop.run].models /\ x.rows = runs[loop.run].rows
        /\ x.trades = runs[loop.run].trades /\ x.status = status /\ x.hurt = runs[loop.run].hurt
    BY <1>1 DEF RunRecord
  <2>3. ASSUME NEW s, SetStatus(s) PROVE x.status = s
    <3>1. runs'[loop.run] = [runs[loop.run] EXCEPT !.status = s]
      BY <1>1, <2>3 DEF SetStatus
    <3>2. runs'[loop.run] = x
      BY <1>1, <2>1
    <3>3. QED
      BY <1>1, <3>1, <3>2 DEF RunRecord
  <2> HIDE DEF x
  <2>4. QED
    BY <1>3, <2>1, <2>2, <2>3
<1>4. QED
  BY <1>2, <1>3

\* The fields of the task that holds the loop.
LEMMA LoopFields ==
    ASSUME RunsTyped
    PROVE  /\ IdleLoop \in LoopRecord
           /\ \A pc \in {"idle", "create", "begin", "select", "model", "walk", "trades", "row", "fail"} :
                [loop EXCEPT !.pc = pc] \in LoopRecord /\ [IdleLoop EXCEPT !.pc = pc] \in LoopRecord
           /\ loop.todo \in Seq(Models) /\ loop.found \in Nat /\ loop.saved \in Nat /\ loop.run \in Nat
<1>1. <<>> \in Seq(Models)
  OBVIOUS
<1>2. QED
  BY ZenonT(60), <1>1 DEF RunsTyped, LoopRecord, IdleLoop, Outcomes

\* Everything stays typed when the task gives the loop back, whatever it
\* changed of its run.
LEMMA TypedReleased ==
    ASSUME RunsTyped, Release, up, up' = up, runs' \in Seq(RunRecord), DOMAIN runs \subseteq DOMAIN runs'
    PROVE  RunsTyped'
<1>1. /\ loop' = IdleLoop /\ ready' \in Seq(Task) /\ DOMAIN ready' = DOMAIN ready
      /\ \A k \in DOMAIN ready : /\ ready'[k].job = ready[k].job /\ ready'[k].run = ready[k].run
                                 /\ ready'[k].model = ready[k].model
  BY ReleaseKeeps
<1>2. IdleLoop \in LoopRecord /\ IdleLoop.pc = "idle" /\ IdleLoop.run = 0
  BY LoopFields DEF IdleLoop
<1>3. QED
  BY <1>1, <1>2 DEF RunsTyped

\* Everything stays typed when the task goes on.
LEMMA TypedGoesOn ==
    ASSUME RunsTyped, up, up' = up, UNCHANGED ready, runs' \in Seq(RunRecord), DOMAIN runs \subseteq DOMAIN runs',
           loop' \in LoopRecord, loop'.pc \notin {"idle", "create"}, loop'.run \in DOMAIN runs',
           loop'.pc \in {"walk", "trades", "row"} => loop'.model \in Models
    PROVE  RunsTyped'
BY DEF RunsTyped

\* The end of a task's steps: they write the run's row.
LEMMA TypedStatus ==
    ASSUME RunsTyped, Begin \/ Finish \/ Fail
    PROVE  RunsTyped'
<1>1. up /\ up' = up /\ loop.run \in DOMAIN runs /\ loop \in LoopRecord
  BY DEF Begin, Finish, Fail, At, Kept, RunsTyped
<1>2. Fault \/ \E status \in Statuses : SetStatus(status)
  BY DEF Begin, Finish, Fail, Statuses
<1>3. runs' \in Seq(RunRecord) /\ DOMAIN runs' = DOMAIN runs
  BY <1>1, <1>2, CommitTyped, RunReplaced
<1>4. CASE Release
  BY <1>1, <1>3, <1>4, TypedReleased
<1>5. CASE ready' = ready /\ \E pc \in {"select", "fail"} : loop' = [loop EXCEPT !.pc = pc]
  <2>1. PICK pc \in {"select", "fail"} : loop' = [loop EXCEPT !.pc = pc]
    BY <1>5
  <2>2. loop' \in LoopRecord /\ loop'.pc = pc /\ loop'.run = loop.run
    BY <1>1, <2>1 DEF LoopRecord
  <2>3. QED
    BY <1>1, <1>3, <1>5, <2>1, <2>2, TypedGoesOn
<1>6. QED
  BY <1>4, <1>5 DEF Begin, Finish, Fail, Goto

\* The beginning of a task's steps.
LEMMA TypedStarts ==
    ASSUME RunsTyped, StartTriggered \/ StartJob
    PROVE  RunsTyped'
<1>1. up /\ up' = up /\ loop.pc = "idle" /\ loop.run = 0 /\ runs' = runs /\ ready # <<>> /\ ready' = Tail(ready)
      /\ loop \in LoopRecord
  BY DEF StartTriggered, StartJob, LoopFree, Kept, RunsTyped
<1>2. ready \in Seq(Task) /\ 1 \in DOMAIN ready /\ Head(ready) = ready[1] /\ Head(ready) \in Task
      /\ ready' \in Seq(Task) /\ \A k \in DOMAIN ready' : k + 1 \in DOMAIN ready /\ ready'[k] = ready[k + 1]
  BY <1>1 DEF RunsTyped
<1>3. \A k \in DOMAIN ready' : IF ready'[k].job THEN ready'[k].model \in Models ELSE ready'[k].run \in DOMAIN runs
  BY <1>2 DEF RunsTyped
<1>4. IF Head(ready).job THEN Head(ready).model \in Models ELSE Head(ready).run \in DOMAIN runs
  BY <1>2 DEF RunsTyped
<1>5. <<>> \in Seq(Models)
  OBVIOUS
<1>6. CASE StartTriggered
  <2>1. loop' = [IdleLoop EXCEPT !.pc = "begin", !.run = Head(ready).run] /\ Head(ready).run \in DOMAIN runs
        /\ Head(ready).run \in Nat
    BY <1>2, <1>4, <1>6 DEF StartTriggered, Task
  <2>2. loop' \in LoopRecord /\ loop'.pc = "begin" /\ loop'.run = Head(ready).run
    BY <1>5, <2>1 DEF IdleLoop, LoopRecord, Outcomes
  <2>3. QED
    BY <1>1, <1>2, <1>3, <2>1, <2>2 DEF RunsTyped
<1>7. CASE StartJob
  <2>1. loop' = loop \/ loop' = [IdleLoop EXCEPT !.pc = "create", !.model = Head(ready).model]
    BY <1>7 DEF StartJob
  <2>2. Head(ready).model \in Models
    BY <1>4, <1>7 DEF StartJob
  <2>3. loop' \in LoopRecord /\ loop'.run = 0
        /\ (loop'.pc = "idle" \/ (loop'.pc = "create" /\ loop'.model \in Models))
    BY <1>1, <1>5, <2>1, <2>2 DEF IdleLoop, LoopRecord, Outcomes
  <2>4. QED
    BY <1>1, <1>2, <1>3, <2>3 DEF RunsTyped
<1>8. QED
  BY <1>6, <1>7

\* A run is created, its models are selected and fetched.
LEMMA TypedSelects ==
    ASSUME RunsTyped, scene \in Scenes, CreateRun \/ Select \/ FetchModel
    PROVE  RunsTyped'
<1>1. up /\ up' = up /\ loop \in LoopRecord /\ runs \in Seq(RunRecord)
  BY DEF CreateRun, Select, FetchModel, At, Kept, RunsTyped
<1>2. CASE CreateRun /\ ~Release
  <2>1. runs' = Append(runs, NewRun(<<loop.model>>)) /\ loop' = [loop EXCEPT !.pc = "begin", !.run = Len(runs) + 1]
        /\ UNCHANGED ready
    BY <1>2 DEF CreateRun
  <2>2. <<loop.model>> \in Seq(Models)
    BY <1>2 DEF CreateRun, At, RunsTyped
  <2>3. runs' \in Seq(RunRecord) /\ Len(runs) + 1 \in DOMAIN runs' /\ DOMAIN runs \subseteq DOMAIN runs'
        /\ Len(runs) + 1 \in Nat
    BY <2>1, <2>2, NewRunTyped
  <2>4. loop' \in LoopRecord /\ loop'.pc = "begin" /\ loop'.run = Len(runs) + 1
    BY <1>1, <2>1, <2>3 DEF LoopRecord
  <2>5. QED
    BY <1>1, <2>1, <2>3, <2>4, TypedGoesOn
<1>3. CASE CreateRun /\ Release
  <2>1. runs' \in Seq(RunRecord) /\ DOMAIN runs \subseteq DOMAIN runs'
    <3>1. CASE runs' = Append(runs, NewRun(<<loop.model>>))
      <4>1. <<loop.model>> \in Seq(Models)
        BY <1>3 DEF CreateRun, At, RunsTyped
      <4>2. QED
        BY <3>1, <4>1, NewRunTyped
    <3>2. CASE Fault
      BY <1>1, <1>3, <3>2 DEF Fault, CreateRun, At, RunsTyped
    <3>3. QED
      BY <1>3, <3>1, <3>2 DEF CreateRun
  <2>2. QED
    BY <1>1, <1>3, <2>1, TypedReleased
<1>4. CASE Select
  <2>1. runs' = runs /\ ready' = ready /\ loop.run \in DOMAIN runs
    BY <1>4 DEF Select, At, RunsTyped
  <2>2. runs[loop.run].models \in Seq(Models)
    BY <2>1, RunFields
  <2>3. loop' \in LoopRecord /\ loop'.pc \in {"fail", "model"} /\ loop'.run = loop.run
    BY <1>1, <1>4, <2>2 DEF Select, LoopRecord
  <2>4. QED
    BY <1>1, <2>1, <2>3, TypedGoesOn
<1>5. CASE FetchModel
  <2>1. runs' = runs /\ ready' = ready /\ loop.run \in DOMAIN runs /\ loop.todo # <<>>
    BY <1>5 DEF FetchModel, At, RunsTyped
  <2>2. loop.todo \in Seq(Models)
    BY LoopFields
  <2>3. Head(loop.todo) \in Models /\ Tail(loop.todo) \in Seq(Models)
    BY <2>1, <2>2
  <2> DEFINE next == [loop EXCEPT !.model = Head(loop.todo), !.todo = Tail(loop.todo), !.found = 0, !.saved = 0]
  <2>4. next \in LoopRecord /\ next.run = loop.run /\ next.model \in Models
    BY <1>1, <2>3 DEF LoopRecord
  <2>5. \E pc \in {"walk", "row"}, status \in {"ran", "no_data", "failed"} :
          loop' = [next EXCEPT !.pc = pc, !.status = status]
    BY <1>5 DEF FetchModel
  <2> HIDE DEF next
  <2>6. loop' \in LoopRecord /\ loop'.pc \in {"walk", "row"} /\ loop'.run = loop.run /\ loop'.model \in Models
    BY <2>4, <2>5 DEF LoopRecord, Outcomes
  <2>7. QED
    BY <1>1, <2>1, <2>6, TypedGoesOn
<1>6. QED
  BY <1>2, <1>3, <1>4, <1>5

\* The trades are counted.
LEMMA TypedWalks ==
    ASSUME RunsTyped, Simulated, WalkOneBar \/ WalkEnds \/ TradesRecorded
    PROVE  RunsTyped'
<1>1. up /\ up' = up /\ loop \in LoopRecord /\ runs' = runs /\ ready' = ready /\ loop.run \in DOMAIN runs
      /\ loop.model \in Models /\ runs \in Seq(RunRecord)
  BY DEF WalkOneBar, WalkEnds, TradesRecorded, At, Kept, RunsTyped
<1>2. CASE WalkOneBar
  <2>1. loop' = loop /\ loop.pc = "walk"
    BY <1>2 DEF WalkOneBar, At
  <2>2. QED
    BY <1>1, <2>1, TypedGoesOn
<1>3. CASE WalkEnds
  <2>1. Len(AtEnd(sim).trades) \in Nat
    BY <1>3, EndConsistent DEF WalkEnds, Simulated
  <2>2. loop' \in LoopRecord /\ loop'.pc = "trades" /\ loop'.run = loop.run /\ loop'.model = loop.model
    BY <1>1, <1>3, <2>1 DEF WalkEnds, LoopRecord
  <2>3. QED
    BY <1>1, <2>2, TypedGoesOn
<1>4. CASE TradesRecorded
  <2>1. loop' \in LoopRecord /\ loop'.pc = "row" /\ loop'.run = loop.run /\ loop'.model = loop.model
    BY <1>1, <1>4 DEF TradesRecorded, Goto, LoopRecord
  <2>2. QED
    BY <1>1, <2>1, TypedGoesOn
<1>5. QED
  BY <1>2, <1>3, <1>4

\* One trade more of the model in progress.
LEMMA OneTradeMore ==
    ASSUME RunsTyped, loop.run \in DOMAIN runs, loop.model \in Models,
           runs' = [runs EXCEPT ![loop.run].trades[loop.model] = @ + 1]
    PROVE  \E x \in RunRecord :
             /\ runs' = [runs EXCEPT ![loop.run] = x]
             /\ x.models = runs[loop.run].models /\ x.rows = runs[loop.run].rows /\ x.hurt = runs[loop.run].hurt
             /\ x.status = runs[loop.run].status
             /\ x.trades = [runs[loop.run].trades EXCEPT ![loop.model] = runs[loop.run].trades[loop.model] + 1]
<1> DEFINE old == runs[loop.run]
           trades == [old.trades EXCEPT ![loop.model] = old.trades[loop.model] + 1]
           x == [old EXCEPT !.trades = trades]
<1>1. old \in RunRecord /\ old.trades \in [Models -> Nat]
  BY RunFields
<1>2. trades \in [Models -> Nat]
  BY <1>1
<1>3. runs' = [runs EXCEPT ![loop.run] = x]
  OBVIOUS
<1> HIDE DEF trades
<1>4. x \in RunRecord /\ x.models = old.models /\ x.rows = old.rows /\ x.hurt = old.hurt /\ x.status = old.status
      /\ x.trades = trades
  BY <1>1, <1>2 DEF RunRecord
<1>5. QED
  BY <1>3, <1>4 DEF trades

\* The row of the model in progress.
LEMMA RowWritten ==
    ASSUME RunsTyped, loop.run \in DOMAIN runs, loop.model \in Models, NEW row \in Row,
           runs' = [runs EXCEPT ![loop.run].rows[loop.model] = row]
    PROVE  \E x \in RunRecord :
             /\ runs' = [runs EXCEPT ![loop.run] = x]
             /\ x.models = runs[loop.run].models /\ x.trades = runs[loop.run].trades /\ x.hurt = runs[loop.run].hurt
             /\ x.status = runs[loop.run].status
             /\ x.rows = [runs[loop.run].rows EXCEPT ![loop.model] = row]
<1> DEFINE old == runs[loop.run]
           rows == [old.rows EXCEPT ![loop.model] = row]
           x == [old EXCEPT !.rows = rows]
<1>1. old \in RunRecord /\ old.rows \in [Models -> Row]
  BY RunFields
<1>2. rows \in [Models -> Row]
  BY <1>1
<1>3. runs' = [runs EXCEPT ![loop.run] = x]
  OBVIOUS
<1> HIDE DEF rows
<1>4. x \in RunRecord /\ x.models = old.models /\ x.trades = old.trades /\ x.hurt = old.hurt /\ x.status = old.status
      /\ x.rows = rows
  BY <1>1, <1>2 DEF RunRecord
<1>5. QED
  BY <1>3, <1>4 DEF rows

\* The rows of a model are written.
LEMMA TypedRecords ==
    ASSUME RunsTyped, RecordTrade \/ RecordModel
    PROVE  RunsTyped'
<1>1. up /\ up' = up /\ loop \in LoopRecord /\ ready' = ready /\ loop.run \in DOMAIN runs
      /\ loop.model \in Models /\ runs \in Seq(RunRecord)
  BY DEF RecordTrade, RecordModel, At, Kept, RunsTyped
<1>2. runs' \in Seq(RunRecord) /\ DOMAIN runs \subseteq DOMAIN runs'
  <2>1. CASE Fault \/ runs' = runs
    BY <1>1, <2>1, CommitTyped, RunReplaced
  <2>2. CASE RecordTrade /\ runs' = [runs EXCEPT ![loop.run].trades[loop.model] = @ + 1]
    BY <1>1, <2>2, OneTradeMore, RunReplaced
  <2>3. CASE RecordModel /\ runs' = [runs EXCEPT ![loop.run].rows[loop.model] =
                         [status |-> loop.status, count |-> loop.found]]
    <3>1. [status |-> loop.status, count |-> loop.found] \in Row
      BY <1>1 DEF LoopRecord, Row
    <3>2. QED
      BY <1>1, <2>3, <3>1, RowWritten, RunReplaced
  <2>4. QED
    BY <2>1, <2>2, <2>3 DEF RecordTrade, RecordModel
<1>3. loop' \in LoopRecord /\ loop'.run = loop.run /\ loop'.model = loop.model /\ loop'.pc \notin {"idle", "create"}
  <2>1. CASE RecordTrade
    <3>1. \/ loop' = [loop EXCEPT !.saved = loop.saved + 1]
          \/ \E broken \in BOOLEAN : loop' = [loop EXCEPT !.pc = "row", !.status = "failed", !.found = 0, !.broken = broken]
          \/ loop' = [loop EXCEPT !.pc = "row", !.status = "failed", !.found = 0]
      BY <2>1 DEF RecordTrade
    <3>2. loop.saved + 1 \in Nat
      BY SMTT(60), LoopFields
    <3>3. loop.pc = "trades"
      BY <2>1 DEF RecordTrade, At
    <3>4. CASE loop' = [loop EXCEPT !.saved = loop.saved + 1]
      BY <1>1, <3>2, <3>3, <3>4 DEF LoopRecord
    <3>5. ASSUME NEW broken \in BOOLEAN,
                 loop' = [loop EXCEPT !.pc = "row", !.status = "failed", !.found = 0, !.broken = broken]
          PROVE  loop' \in LoopRecord /\ loop'.run = loop.run /\ loop'.model = loop.model /\ loop'.pc = "row"
      BY <1>1, <3>5 DEF LoopRecord, Outcomes
    <3>6. ASSUME loop' = [loop EXCEPT !.pc = "row", !.status = "failed", !.found = 0]
          PROVE  loop' \in LoopRecord /\ loop'.run = loop.run /\ loop'.model = loop.model /\ loop'.pc = "row"
      BY <1>1, <3>6 DEF LoopRecord, Outcomes
    <3>7. QED
      BY ZenonT(60), <3>1, <3>4, <3>5, <3>6
  <2>2. CASE RecordModel
    BY ZenonT(60), <1>1, <2>2 DEF RecordModel, Goto, LoopRecord
  <2>3. QED
    BY <2>1, <2>2
<1>4. QED
  BY <1>1, <1>2, <1>3, TypedGoesOn

\* Tasks come to wait, the process ends and starts.
LEMMA TypedAround ==
    ASSUME RunsTyped, scene \in Scenes,
           \/ \E models \in scene.triggers : Trigger(models)
           \/ \E m \in Models : Submit(m)
           \/ ProcessEnds \/ StartUp
    PROVE  RunsTyped'
<1>1. ready \in Seq(Task) /\ runs \in Seq(RunRecord)
  BY DEF RunsTyped
<1>2. ASSUME NEW models \in scene.triggers, Trigger(models) PROVE RunsTyped'
  <2>1. models \in Seq(Models)
    BY BacktestConstants
  <2>2. runs' = Append(runs, NewRun(models)) /\ up' = up /\ loop' = loop /\ up
    BY <1>2 DEF Trigger, Kept, LoopFree
  <2> DEFINE task == [job |-> FALSE, run |-> Len(runs) + 1, model |-> "none", late |-> FALSE]
  <2>3. ready' = Append(ready, task)
    BY <1>2 DEF Trigger
  <2>4. runs' \in Seq(RunRecord) /\ DOMAIN runs' = DOMAIN runs \cup {Len(runs) + 1} /\ Len(runs) + 1 \in Nat
    BY <2>1, <2>2, NewRunTyped
  <2>5. task \in Task /\ ~task.job /\ task.run = Len(runs) + 1
    BY <2>4 DEF Task
  <2> HIDE DEF task
  <2>6. ready' \in Seq(Task)
    BY <1>1, <2>3, <2>5
  <2>7. ASSUME NEW k \in DOMAIN ready'
        PROVE  IF ready'[k].job THEN ready'[k].model \in Models ELSE ready'[k].run \in DOMAIN runs'
    <3>1. (k \in DOMAIN ready /\ ready'[k] = ready[k]) \/ ready'[k] = task
      BY <1>1, <2>3, <2>7
    <3>2. QED
      BY <2>4, <2>5, <3>1 DEF RunsTyped
  <2>8. QED
    BY <2>2, <2>4, <2>6, <2>7 DEF RunsTyped
<1>3. ASSUME NEW m \in Models, Submit(m) PROVE RunsTyped'
  <2> DEFINE task == [job |-> TRUE, run |-> 0, model |-> m, late |-> due[m] = "late"]
  <2>1. runs' = runs /\ up' = up /\ loop' = loop /\ up /\ ready' \in {ready, Append(ready, task)}
    BY <1>3 DEF Submit, LoopFree
  <2>2. task \in Task /\ task.job /\ task.model = m
    BY DEF Task
  <2> HIDE DEF task
  <2>3. ready' \in Seq(Task)
    BY <1>1, <2>1, <2>2
  <2>4. ASSUME NEW k \in DOMAIN ready'
        PROVE  IF ready'[k].job THEN ready'[k].model \in Models ELSE ready'[k].run \in DOMAIN runs'
    <3>1. (k \in DOMAIN ready /\ ready'[k] = ready[k]) \/ ready'[k] = task
      BY <1>1, <2>1, <2>4
    <3>2. QED
      BY <2>1, <2>2, <3>1 DEF RunsTyped
  <2>5. QED
    BY <2>1, <2>3, <2>4 DEF RunsTyped
<1>4. CASE ProcessEnds
  <2>1. IdleLoop \in LoopRecord /\ IdleLoop.pc = "idle" /\ IdleLoop.run = 0
    BY LoopFields DEF IdleLoop
  <2>2. <<>> \in Seq(Task) /\ DOMAIN <<>> = {}
    OBVIOUS
  <2>3. QED
    BY <1>1, <1>4, <2>1, <2>2 DEF ProcessEnds, RunsTyped
<1>5. CASE StartUp
  <2>1. up' /\ loop' = loop /\ ready' = ready /\ runs' = ResetInterrupted(runs)
    BY <1>5 DEF StartUp
  <2>2. ASSUME NEW r \in DOMAIN runs PROVE runs'[r] \in RunRecord
    <3>1. runs[r] \in RunRecord
      BY <1>1
    <3>2. runs'[r] \in {runs[r], [runs[r] EXCEPT !.status = "failed"]}
      BY <2>1 DEF ResetInterrupted
    <3>3. QED
      BY <3>1, <3>2 DEF RunRecord, Statuses
  <2>3. DOMAIN runs = 1..Len(runs) /\ Len(runs) \in Nat
    BY <1>1
  <2>4. runs' \in [1..Len(runs) -> RunRecord]
    BY <2>1, <2>2, <2>3 DEF ResetInterrupted
  <2>5. runs' \in Seq(RunRecord) /\ DOMAIN runs' = DOMAIN runs
    BY <2>3, <2>4
  <2>6. QED
    BY <2>1, <2>5 DEF RunsTyped
<1>6. QED
  BY <1>2, <1>3, <1>4, <1>5

\* The types of the runs and the consistency of the simulation go together.
BacktestTyped == scene \in Scenes /\ RunsTyped /\ Simulated

\* Every step of the loop, a request or the clock keeps both.
LEMMA BacktestTypedStep == BacktestTyped /\ [Next]_vars => BacktestTyped'
<1> SUFFICES ASSUME BacktestTyped, [Next]_vars PROVE BacktestTyped'
  OBVIOUS
<1>1. scene' = scene /\ scene \in Scenes /\ RunsTyped /\ Simulated
  BY EventLoopScene DEF BacktestTyped
<1>2. Simulated'
  BY <1>1, SimulatedStep
<1>3. ASSUME RunSteps PROVE RunsTyped'
  BY <1>1, <1>3, TypedStatus, TypedStarts, TypedSelects, TypedWalks, TypedRecords DEF RunSteps
<1>4. ASSUME (\E models \in scene.triggers : Trigger(models)) \/ (\E m \in Models : Submit(m)) \/ ProcessEnds \/ StartUp
      PROVE  RunsTyped'
  BY <1>1, <1>4, TypedAround
<1>5. ASSUME UNCHANGED <<runs, ready, loop, sim, up, scene>> PROVE RunsTyped'
  BY <1>1, <1>5 DEF RunsTyped
<1>6. RunsTyped'
  BY <1>3, <1>4, <1>5, EventLoopSteps
<1>7. QED
  BY <1>1, <1>2, <1>6 DEF BacktestTyped

\* They hold before any run was triggered.
LEMMA BacktestTypedInit == Start => BacktestTyped
<1> SUFFICES ASSUME Start PROVE BacktestTyped
  OBVIOUS
<1>1. scene \in Scenes /\ runs = <<>> /\ ready = <<>> /\ loop = IdleLoop /\ sim = NoSim
  BY DEF Start, Init
<1>2. <<>> \in Seq(Models) /\ <<>> \in Seq(RunRecord) /\ <<>> \in Seq(Task) /\ DOMAIN <<>> = {}
  OBVIOUS
<1>3. IdleLoop \in LoopRecord /\ IdleLoop.pc = "idle" /\ IdleLoop.run = 0
  BY <1>2 DEF IdleLoop, LoopRecord, Outcomes
<1>4. RunsTyped
  BY <1>1, <1>2, <1>3 DEF RunsTyped
<1>5. QED
  BY <1>1, <1>4, NewConsistent DEF BacktestTyped, Simulated

\* ... and therefore always.
LEMMA BacktestTypedAlways == Spec => []BacktestTyped
BY BacktestTypedInit, BacktestTypedStep, PTL DEF Spec

\* A position does not survive a bar whose range reaches its stop or its target,
\* and is closed at a level only by a bar that reaches it, at the stop when the
\* bar reaches both; the delay of the bracket is the only exception
\* (_check_sl_tp, _check_sl_tp_with_lag).
THEOREM LevelsAreHonoured == Spec => []LevelsHonoured
<1>1. BacktestTyped => LevelsHonoured
  <2> SUFFICES ASSUME BacktestTyped PROVE LevelsHonoured
    OBVIOUS
  <2>1. Consistent(sim, sim.i - 1, sim.i)
    BY DEF BacktestTyped, Simulated
  <2>2. \A k \in DOMAIN sim.trades : Honoured(sim, sim.trades[k])
    BY <2>1 DEF Consistent
  <2>3. sim.position # Flat => Survived(sim, sim.position, sim.i - 1)
    BY <2>1 DEF Consistent
  <2>4. QED
    BY <2>2, <2>3 DEF LevelsHonoured, Honoured, Survived, ReachedIn, Reached
<1>2. QED
  BY <1>1, BacktestTypedAlways, PTL

\* One position at a time, and never one that looks ahead: each trade begins
\* after the one before has ended, ends at its beginning or later, and no trade
\* is lost from the result (_run_single_model).
THEOREM TradesFollowOneAnother == Spec => []TradesInSequence
<1>1. BacktestTyped => TradesInSequence
  BY DEF BacktestTyped, Simulated, Consistent, TradesInSequence
<1>2. QED
  BY <1>1, BacktestTypedAlways, PTL

-----------------------------------------------------------------------------
\* What waits for the loop and what holds it: a triggered run waits queued, in
\* one task only, and the run that holds the loop is queued before it begins and
\* running from then on.
Executing == {"select", "model", "walk", "trades", "row", "fail"}
InTurn ==
    /\ \A k \in DOMAIN ready : ~ready[k].job => runs[ready[k].run].status = "queued" /\ ready[k].run # loop.run
    /\ \A j, k \in DOMAIN ready : ~ready[j].job /\ ~ready[k].job /\ ready[j].run = ready[k].run => j = k
    /\ loop.pc = "begin" => runs[loop.run].status = "queued"
    /\ loop.pc \in Executing => runs[loop.run].status = "running"

\* The rows of run x, and of the run that the task l executes: its models are
\* taken one after the other, and have their row when the next one is taken.
Untouched(x) == \A m \in Models : x.rows[m] = NoModelRow /\ x.trades[m] = 0
RowTrue(x, m) ==
    /\ x.rows[m].status = "ran" => x.rows[m].count = x.trades[m]
    /\ x.rows[m].status \in {"no_data", "failed"} => x.rows[m].count = 0
RunTrue(x) ==
    /\ \A j, k \in DOMAIN x.models : x.models[j] = x.models[k] => j = k
    /\ \A m \in Models : RowTrue(x, m)
    /\ x.status = "queued" => Untouched(x)
    /\ x.status = "done" /\ ~x.hurt => \A k \in DOMAIN x.models : x.rows[x.models[k]].status # "none"
Taken(x, l) == Len(x.models) - Len(l.todo)
Current(x, l) ==
    /\ Taken(x, l) \in DOMAIN x.models /\ l.model = x.models[Taken(x, l)]
    /\ x.rows[l.model] = NoModelRow
    /\ l.pc = "walk" => l.status = "ran" /\ l.saved = 0 /\ x.trades[l.model] = 0
    /\ l.pc = "trades" => l.status = "ran" /\ x.trades[l.model] = l.saved /\ l.saved <= l.found
    /\ l.pc = "row" => IF l.status = "ran" THEN x.trades[l.model] = l.found
                       ELSE l.status \in {"no_data", "failed"} /\ l.found = 0
TakenInOrder(x, l) ==
    /\ Taken(x, l) \in Nat
    /\ \A j \in DOMAIN l.todo : l.todo[j] = x.models[Taken(x, l) + j]
    /\ \A k \in DOMAIN x.models :
        IF k > Taken(x, l) THEN x.rows[x.models[k]] = NoModelRow /\ x.trades[x.models[k]] = 0
        ELSE k < Taken(x, l) \/ l.pc = "model" => x.hurt \/ x.rows[x.models[k]].status # "none"
Progressing(x, l) ==
    /\ l.broken => x.hurt
    /\ l.pc \in {"begin", "select"} => Untouched(x)
    /\ l.pc \in {"model", "walk", "trades", "row"} => TakenInOrder(x, l)
    /\ l.pc \in {"walk", "trades", "row"} => Current(x, l)
Accounted ==
    /\ \A r \in DOMAIN runs : RunTrue(runs[r])
    /\ IF loop.run = 0 THEN ~loop.broken ELSE Progressing(runs[loop.run], loop)

BacktestSound == BacktestTyped /\ InTurn /\ Accounted

\* The task goes on with its run, of which it may have changed the row.
LEMMA SoundGoesOn ==
    ASSUME BacktestSound, loop.run \in DOMAIN runs, NEW x \in RunRecord, runs' = [runs EXCEPT ![loop.run] = x],
           RunTrue(x), ready' = ready, loop'.run = loop.run, loop'.pc \in Executing, x.status = "running",
           Progressing(x, loop')
    PROVE  InTurn' /\ Accounted'
<1>1. /\ runs'[loop.run] = x /\ DOMAIN runs' = DOMAIN runs
      /\ \A q \in DOMAIN runs : q # loop.run => runs'[q] = runs[q]
  BY RunReplaced DEF BacktestSound, BacktestTyped
<1>2. \A k \in DOMAIN ready : ~ready[k].job => ready[k].run \in DOMAIN runs
  BY DEF BacktestSound, BacktestTyped, RunsTyped
<1>3. InTurn'
  BY <1>1, <1>2 DEF BacktestSound, InTurn, Executing
<1>4. \A r \in DOMAIN runs : RunTrue(runs[r])
  BY DEF BacktestSound, Accounted
<1>5. \A r \in DOMAIN runs' : RunTrue(runs'[r])
  BY <1>1, <1>4
<1>6. Progressing(runs'[loop'.run], loop') /\ loop'.run # 0
  BY <1>1 DEF BacktestSound, BacktestTyped, RunsTyped
<1>7. QED
  BY <1>3, <1>5, <1>6 DEF Accounted, RunTrue, RowTrue, Untouched, Progressing, TakenInOrder, Current, Taken

\* The task gives the loop back, and may have changed the row of its run.
LEMMA SoundReleased ==
    ASSUME BacktestSound, loop.run \in DOMAIN runs, NEW x \in RunRecord, runs' = [runs EXCEPT ![loop.run] = x],
           RunTrue(x), Release
    PROVE  InTurn' /\ Accounted'
<1>1. /\ runs'[loop.run] = x /\ DOMAIN runs' = DOMAIN runs
      /\ \A q \in DOMAIN runs : q # loop.run => runs'[q] = runs[q]
  BY RunReplaced DEF BacktestSound, BacktestTyped
<1>2. \A k \in DOMAIN ready : ~ready[k].job => ready[k].run \in DOMAIN runs
  BY DEF BacktestSound, BacktestTyped, RunsTyped
<1>3. /\ loop' = IdleLoop /\ DOMAIN ready' = DOMAIN ready
      /\ \A k \in DOMAIN ready : ready'[k].job = ready[k].job /\ ready'[k].run = ready[k].run
  BY ReleaseKeeps DEF BacktestSound, BacktestTyped
<1>4. loop'.run = 0 /\ loop'.pc = "idle" /\ ~loop'.broken /\ 0 \notin DOMAIN runs
  BY <1>3 DEF IdleLoop, BacktestSound, BacktestTyped, RunsTyped
<1>5. InTurn'
  BY <1>1, <1>2, <1>3, <1>4 DEF BacktestSound, InTurn, Executing
<1>6. \A r \in DOMAIN runs' : RunTrue(runs'[r])
  BY <1>1 DEF BacktestSound, Accounted
<1>7. QED
  BY <1>4, <1>5, <1>6 DEF Accounted, RunTrue, RowTrue, Untouched

\* A run of which only the status and the mark of a failed commit differ.
LEMMA SameRows ==
    ASSUME NEW x, NEW y, RunTrue(x), y.models = x.models, y.rows = x.rows, y.trades = x.trades
    PROVE  /\ y.status \notin {"queued", "done"} => RunTrue(y)
           /\ y.status = x.status /\ (x.hurt => y.hurt) => RunTrue(y)
           /\ \A l : (x.hurt => y.hurt) /\ Progressing(x, l) => Progressing(y, l)
<1>1. \A m \in Models : RowTrue(y, m)
  BY DEF RunTrue, RowTrue
<1>2. Untouched(x) => Untouched(y)
  BY DEF Untouched
<1>3. \A l : Taken(y, l) = Taken(x, l)
  BY DEF Taken
<1>4. ASSUME NEW l, x.hurt => y.hurt, Progressing(x, l) PROVE Progressing(y, l)
  <2>1. Current(x, l) => Current(y, l)
    BY <1>3 DEF Current
  <2>2. TakenInOrder(x, l) => TakenInOrder(y, l)
    BY <1>3, <1>4 DEF TakenInOrder
  <2>3. QED
    BY <1>2, <1>4, <2>1, <2>2 DEF Progressing
<1>5. QED
  BY <1>1, <1>2, <1>4 DEF RunTrue

\* A failed commit that leaves the task its run.
LEMMA FaultHurts ==
    ASSUME BacktestSound, loop.run \in DOMAIN runs, Fault
    PROVE  \E x \in RunRecord :
             /\ runs' = [runs EXCEPT ![loop.run] = x] /\ RunTrue(x) /\ x.hurt
             /\ x.status = runs[loop.run].status /\ x.models = runs[loop.run].models
             /\ x.rows = runs[loop.run].rows /\ x.trades = runs[loop.run].trades
             /\ \A l : Progressing(runs[loop.run], l) => Progressing(x, l)
<1>1. PICK x \in RunRecord :
             /\ runs' = [runs EXCEPT ![loop.run] = x]
             /\ x.models = runs[loop.run].models /\ x.rows = runs[loop.run].rows
             /\ x.trades = runs[loop.run].trades
             /\ x.hurt /\ x.status = runs[loop.run].status
  BY CommitTyped DEF BacktestSound, BacktestTyped
<1>2. RunTrue(runs[loop.run])
  BY DEF BacktestSound, Accounted
<1>3. RunTrue(x) /\ \A l : Progressing(runs[loop.run], l) => Progressing(x, l)
  BY <1>1, <1>2, SameRows
<1>4. QED
  BY <1>1, <1>3

\* A status is written.
LEMMA StatusWritten ==
    ASSUME BacktestSound, loop.run \in DOMAIN runs, NEW status \in Statuses, SetStatus(status)
    PROVE  \E x \in RunRecord :
             /\ runs' = [runs EXCEPT ![loop.run] = x] /\ x.status = status /\ x.hurt = runs[loop.run].hurt
             /\ x.models = runs[loop.run].models /\ x.rows = runs[loop.run].rows
             /\ x.trades = runs[loop.run].trades
             /\ status \notin {"queued", "done"} => RunTrue(x)
             /\ \A l : Progressing(runs[loop.run], l) => Progressing(x, l)
<1>1. PICK x \in RunRecord :
             /\ runs' = [runs EXCEPT ![loop.run] = x]
             /\ x.models = runs[loop.run].models /\ x.rows = runs[loop.run].rows
             /\ x.trades = runs[loop.run].trades
             /\ x.hurt = runs[loop.run].hurt /\ x.status = status
  BY CommitTyped DEF BacktestSound, BacktestTyped
<1>2. RunTrue(runs[loop.run])
  BY DEF BacktestSound, Accounted
<1>3. (status \notin {"queued", "done"} => RunTrue(x)) /\ \A l : Progressing(runs[loop.run], l) => Progressing(x, l)
  BY <1>1, <1>2, SameRows
<1>4. QED
  BY <1>1, <1>3

\* The run of the task that holds the loop.
LEMMA RunInHand ==
    ASSUME BacktestSound, loop.pc \in {"begin", "select", "model", "walk", "trades", "row", "fail"}
    PROVE  /\ loop.run \in DOMAIN runs /\ loop.run # 0 /\ loop \in LoopRecord
           /\ runs[loop.run] \in RunRecord /\ RunTrue(runs[loop.run]) /\ Progressing(runs[loop.run], loop)
           /\ loop.pc # "begin" => runs[loop.run].status = "running"
<1>1. loop.run \in DOMAIN runs /\ runs \in Seq(RunRecord) /\ loop \in LoopRecord
  BY DEF BacktestSound, BacktestTyped, RunsTyped
<1>2. loop.run # 0 /\ runs[loop.run] \in RunRecord
  BY <1>1
<1>3. QED
  BY <1>1, <1>2 DEF BacktestSound, Accounted, InTurn, Executing

\* A run is taken up and its models are selected; the run is given up.
LEMMA SoundStatus ==
    ASSUME BacktestSound, Begin \/ Select \/ Fail
    PROVE  InTurn' /\ Accounted'
<1> DEFINE old == runs[loop.run]
<1>1. /\ loop.run \in DOMAIN runs /\ loop.run # 0 /\ loop \in LoopRecord /\ old \in RunRecord
      /\ RunTrue(old) /\ Progressing(old, loop) /\ (loop.pc # "begin" => old.status = "running")
  BY RunInHand DEF Begin, Select, Fail, At
<1>2. CASE Fault /\ Release
  BY <1>1, <1>2, FaultHurts, SoundReleased
<1>3. CASE SetStatus("failed") /\ Release
  <2>1. "failed" \in Statuses
    BY DEF Statuses
  <2>2. PICK x \in RunRecord : runs' = [runs EXCEPT ![loop.run] = x] /\ RunTrue(x)
    BY <1>1, <1>3, <2>1, StatusWritten
  <2>3. QED
    BY <1>1, <1>3, <2>2, SoundReleased
<1>4. CASE Begin /\ SetStatus("running") /\ loop' = [loop EXCEPT !.pc = "select"] /\ ready' = ready
  <2>1. "running" \in Statuses
    BY DEF Statuses
  <2>2. PICK x \in RunRecord :
          /\ runs' = [runs EXCEPT ![loop.run] = x] /\ x.status = "running" /\ RunTrue(x)
          /\ Progressing(old, loop) => Progressing(x, loop)
    BY <1>1, <1>4, <2>1, StatusWritten
  <2>3. loop.pc = "begin"
    BY <1>4 DEF Begin, At
  <2>4. Untouched(x) /\ (loop.broken => x.hurt)
    BY <1>1, <2>2, <2>3 DEF Progressing
  <2>5. loop'.run = loop.run /\ loop'.pc = "select" /\ loop'.broken = loop.broken
    BY <1>1, <1>4 DEF LoopRecord
  <2>6. Progressing(x, loop')
    BY <2>4, <2>5 DEF Progressing
  <2>7. QED
    BY <1>1, <1>4, <2>2, <2>5, <2>6, SoundGoesOn DEF Executing
<1>5. CASE Select
  <2>1. loop.pc = "select" /\ ready' = ready /\ runs' = runs
    BY <1>5 DEF Select, At
  <2>2. Untouched(old) /\ (loop.broken => old.hurt) /\ old.status = "running"
    BY <1>1, <2>1 DEF Progressing
  <2>3. runs' = [runs EXCEPT ![loop.run] = old]
    BY <1>1, <2>1 DEF BacktestSound, BacktestTyped, RunsTyped
  <2>4. CASE loop' = [loop EXCEPT !.pc = "fail"]
    <3>1. loop'.run = loop.run /\ loop'.pc = "fail" /\ loop'.broken = loop.broken
      BY <1>1, <2>4 DEF LoopRecord
    <3>2. Progressing(old, loop')
      BY <2>2, <3>1 DEF Progressing
    <3>3. QED
      BY <1>1, <2>1, <2>2, <2>3, <3>1, <3>2, SoundGoesOn DEF Executing
  <2>5. CASE loop' = [loop EXCEPT !.pc = "model", !.todo = old.models]
    <3>1. loop'.run = loop.run /\ loop'.pc = "model" /\ loop'.broken = loop.broken /\ loop'.todo = old.models
      BY <1>1, <2>5 DEF LoopRecord
    <3>2. old.models \in Seq(Models) /\ Len(old.models) \in Nat
      BY <1>1 DEF RunRecord
    <3>3. Taken(old, loop') = 0
      BY <3>1, <3>2 DEF Taken
    <3>4. ASSUME NEW k \in DOMAIN old.models
          PROVE  k \in Nat /\ k > 0 /\ old.models[k] \in Models
      BY <3>2
    <3>5. TakenInOrder(old, loop')
      BY <2>2, <3>1, <3>3, <3>4 DEF TakenInOrder, Untouched
    <3>6. Progressing(old, loop')
      BY <2>2, <3>1, <3>5 DEF Progressing
    <3>7. QED
      BY <1>1, <2>1, <2>2, <2>3, <3>1, <3>6, SoundGoesOn DEF Executing
  <2>6. QED
    BY <1>5, <2>4, <2>5 DEF Select
<1>6. QED
  BY <1>2, <1>3, <1>4, <1>5 DEF Begin, Fail, Goto

\* The next model is taken.
LEMMA SoundFetches ==
    ASSUME BacktestSound, FetchModel
    PROVE  InTurn' /\ Accounted'
<1> DEFINE old == runs[loop.run]
<1>1. loop.pc = "model" /\ loop.todo # <<>> /\ ready' = ready /\ runs' = runs
  BY DEF FetchModel, At
<1>2. /\ loop.run \in DOMAIN runs /\ loop.run # 0 /\ loop \in LoopRecord /\ old \in RunRecord
      /\ RunTrue(old) /\ Progressing(old, loop) /\ old.status = "running"
  BY <1>1, RunInHand
<1>3. (loop.broken => old.hurt) /\ TakenInOrder(old, loop)
  BY <1>1, <1>2 DEF Progressing
<1>4. runs' = [runs EXCEPT ![loop.run] = old]
  BY <1>1, <1>2 DEF BacktestSound, BacktestTyped, RunsTyped
<1>5. old.models \in Seq(Models) /\ loop.todo \in Seq(Models)
  BY <1>2 DEF RunRecord, LoopRecord
<1> DEFINE n == Taken(old, loop)
<1>6. n \in Nat
  BY <1>1, <1>3 DEF TakenInOrder
<1>6a. n + Len(loop.todo) = Len(old.models) /\ Len(loop.todo) >= 1
  BY <1>1, <1>5 DEF Taken
<1>7. Head(loop.todo) = loop.todo[1] /\ Tail(loop.todo) \in Seq(Models) /\ Len(Tail(loop.todo)) = Len(loop.todo) - 1
      /\ \A j \in DOMAIN Tail(loop.todo) : j + 1 \in DOMAIN loop.todo /\ Tail(loop.todo)[j] = loop.todo[j + 1] /\ j \in Nat
  BY <1>1, <1>5
<1>8. \E pc \in {"walk", "row"} : \E status \in {"ran", "no_data", "failed"} :
        /\ loop' = [loop EXCEPT !.model = Head(loop.todo), !.todo = Tail(loop.todo), !.found = 0, !.saved = 0,
                                !.pc = pc, !.status = status]
        /\ pc = "walk" <=> status = "ran"
  BY DEF FetchModel
<1>9. /\ loop'.run = loop.run /\ loop'.broken = loop.broken
      /\ loop'.model = Head(loop.todo) /\ loop'.todo = Tail(loop.todo) /\ loop'.found = 0 /\ loop'.saved = 0
      /\ loop'.pc \in {"walk", "row"} /\ loop'.status \in {"ran", "no_data", "failed"}
      /\ loop'.pc = "walk" <=> loop'.status = "ran"
  BY <1>2, <1>8 DEF LoopRecord
<1> HIDE DEF n
<1>10. Taken(old, loop') = n + 1
  <2>1. Len(loop'.todo) + 1 = Len(loop.todo) /\ Len(loop'.todo) \in Nat
    BY <1>5, <1>7, <1>9
  <2> DEFINE all == Len(old.models)
             before == Len(loop.todo)
             after == Len(loop'.todo)
  <2>2. all = (n + 1) + after
    <3>1. all \in Nat /\ before \in Nat /\ after \in Nat /\ after + 1 = before /\ n + before = all
      BY <1>5, <1>6a, <2>1
    <3> HIDE DEF all, before, after
    <3>2. QED
      BY <1>6, <3>1
  <2>3. Len(old.models) - Len(loop'.todo) = n + 1
    BY <1>6, <2>1, <2>2
  <2>4. QED
    BY <2>3 DEF Taken
<1>11. n + 1 \in DOMAIN old.models /\ loop'.model = old.models[n + 1]
  <2>1. loop.todo[1] = old.models[n + 1]
    BY SMTT(60), <1>3, <1>5, <1>6, <1>6a DEF TakenInOrder, n
  <2>2. QED
    BY <1>5, <1>6, <1>6a, <1>7, <1>9, <2>1
<1>12. \A k \in DOMAIN old.models :
         /\ k > n => old.rows[old.models[k]] = NoModelRow /\ old.trades[old.models[k]] = 0
         /\ k <= n => old.hurt \/ old.rows[old.models[k]].status # "none"
  BY <1>1, <1>3, <1>5, <1>6, <1>6a DEF TakenInOrder, n
<1>13. TakenInOrder(old, loop')
  <2>1. n + 1 \in Nat /\ \A k \in DOMAIN old.models : k \in Nat
    BY <1>5, <1>6, <1>6a
  <2>2. \A j \in DOMAIN loop'.todo : loop'.todo[j] = old.models[(n + 1) + j]
    <3>1. ASSUME NEW j \in DOMAIN Tail(loop.todo) PROVE Tail(loop.todo)[j] = old.models[(n + 1) + j]
      <4>1. loop.todo[j + 1] = old.models[n + (j + 1)]
        BY <1>3, <1>7 DEF TakenInOrder, n
      <4>2. j \in Nat
        BY <1>7
      <4>3. n + (j + 1) = (n + 1) + j
        BY <1>6, <4>2
      <4>4. QED
        BY <1>7, <4>1, <4>3
    <3>2. QED
      BY <1>9, <3>1
  <2>3. \A k \in DOMAIN old.models :
          /\ k > n + 1 => k > n
          /\ k < n + 1 => k <= n
    BY SMTT(60), <1>6, <1>6a, <2>1
  <2>4. loop'.pc # "model"
    BY <1>9
  <2> HIDE DEF old
  <2>5. QED
    BY <1>9, <1>10, <1>12, <2>1, <2>2, <2>3, <2>4 DEF TakenInOrder
<1>14. n + 1 > n
  BY <1>6, <1>6a
<1>15. Current(old, loop')
  BY <1>8, <1>9, <1>10, <1>11, <1>12, <1>14 DEF Current
<1>16. Progressing(old, loop')
  BY <1>3, <1>8, <1>9, <1>13, <1>15 DEF Progressing
<1>17. QED
  BY <1>1, <1>2, <1>4, <1>8, <1>9, <1>16, SoundGoesOn DEF Executing

\* A task that changes nothing of its run but its own place.
LEMMA SoundMoves ==
    ASSUME BacktestSound, loop.pc \in Executing, ready' = ready, runs' = runs, loop'.run = loop.run,
           loop'.pc \in Executing, Progressing(runs[loop.run], loop')
    PROVE  InTurn' /\ Accounted'
<1> DEFINE old == runs[loop.run]
<1>1. /\ loop.run \in DOMAIN runs /\ old \in RunRecord /\ RunTrue(old) /\ old.status = "running"
  BY RunInHand DEF Executing
<1>2. runs' = [runs EXCEPT ![loop.run] = old]
  BY <1>1 DEF BacktestSound, BacktestTyped, RunsTyped
<1>3. QED
  BY <1>1, <1>2, SoundGoesOn

\* The simulation of a model, and the counting of its trades.
LEMMA SoundWalks ==
    ASSUME BacktestSound, WalkOneBar \/ WalkEnds \/ TradesRecorded
    PROVE  InTurn' /\ Accounted'
<1> DEFINE old == runs[loop.run]
<1>1. loop.pc \in {"walk", "trades"} /\ ready' = ready /\ runs' = runs
  BY DEF WalkOneBar, WalkEnds, TradesRecorded, At
<1>2. /\ loop \in LoopRecord /\ loop.pc \in Executing
      /\ Progressing(old, loop)
  BY <1>1, RunInHand DEF Executing
<1>3. (loop.broken => old.hurt) /\ TakenInOrder(old, loop) /\ Current(old, loop)
  BY <1>1, <1>2 DEF Progressing
<1>4. CASE WalkOneBar
  <2>1. loop' = loop
    BY <1>4 DEF WalkOneBar
  <2>2. QED
    BY <1>1, <1>2, <2>1, SoundMoves
<1>5. CASE WalkEnds \/ TradesRecorded
  <2>1. /\ loop'.run = loop.run /\ loop'.model = loop.model /\ loop'.todo = loop.todo /\ loop'.status = loop.status
        /\ loop'.saved = loop.saved /\ loop'.broken = loop.broken
        /\ (WalkEnds => loop.pc = "walk" /\ loop'.pc = "trades" /\ loop'.found = Len(AtEnd(sim).trades))
        /\ (TradesRecorded => loop.pc = "trades" /\ loop'.pc = "row" /\ loop'.found = loop.found /\ loop.saved = loop.found)
    BY <1>2, <1>5 DEF WalkEnds, TradesRecorded, Goto, At, LoopRecord
  <2>2. WalkEnds => loop'.found \in Nat
    BY <2>1, EndConsistent DEF WalkEnds, BacktestSound, BacktestTyped, Simulated
  <2>3. Taken(old, loop') = Taken(old, loop)
    BY <2>1 DEF Taken
  <2>4. TakenInOrder(old, loop')
    BY <1>1, <1>3, <1>5, <2>1, <2>3 DEF TakenInOrder
  <2>5. Current(old, loop')
    <3>1. CASE WalkEnds
      <4>1. loop.status = "ran" /\ loop.saved = 0 /\ old.trades[loop.model] = 0
        BY <1>3, <2>1, <3>1 DEF Current
      <4>2. 0 <= loop'.found
        BY <2>2, <3>1
      <4>3. QED
        BY <1>3, <2>1, <2>3, <3>1, <4>1, <4>2 DEF Current
    <3>2. CASE TradesRecorded
      BY <1>3, <2>1, <2>3, <3>2 DEF Current
    <3>3. QED
      BY <1>5, <3>1, <3>2
  <2>6. Progressing(old, loop') /\ loop'.pc \in Executing
    BY <1>3, <1>5, <2>1, <2>4, <2>5 DEF Progressing, Executing
  <2>7. QED
    BY <1>1, <1>2, <2>1, <2>6, SoundMoves
<1>6. QED
  BY <1>4, <1>5

\* A trade of the model in progress is saved, or is not.
LEMMA SoundTrade ==
    ASSUME BacktestSound, RecordTrade
    PROVE  InTurn' /\ Accounted'
<1> DEFINE old == runs[loop.run]
<1>1. loop.pc = "trades" /\ ready' = ready /\ loop.saved < loop.found
  BY DEF RecordTrade, At
<1>2. /\ loop.run \in DOMAIN runs /\ loop \in LoopRecord /\ old \in RunRecord
      /\ RunTrue(old) /\ Progressing(old, loop) /\ old.status = "running"
  BY <1>1, RunInHand
<1>3. (loop.broken => old.hurt) /\ TakenInOrder(old, loop) /\ Current(old, loop)
  BY <1>1, <1>2 DEF Progressing
<1>4. loop.model \in Models /\ loop.saved \in Nat /\ loop.found \in Nat
  BY <1>1, <1>2 DEF BacktestSound, BacktestTyped, RunsTyped, LoopRecord
<1>5. CASE runs' = [runs EXCEPT ![loop.run].trades[loop.model] = @ + 1] /\ loop' = [loop EXCEPT !.saved = loop.saved + 1]
  <2>1. PICK x \in RunRecord :
             /\ runs' = [runs EXCEPT ![loop.run] = x]
             /\ x.models = old.models /\ x.rows = old.rows /\ x.hurt = old.hurt /\ x.status = old.status
             /\ x.trades = [old.trades EXCEPT ![loop.model] = old.trades[loop.model] + 1]
    BY <1>2, <1>4, <1>5, OneTradeMore DEF BacktestSound, BacktestTyped
  <2>2. /\ loop'.run = loop.run /\ loop'.pc = "trades" /\ loop'.model = loop.model /\ loop'.todo = loop.todo
        /\ loop'.status = loop.status /\ loop'.saved = loop.saved + 1 /\ loop'.found = loop.found
        /\ loop'.broken = loop.broken
    BY <1>1, <1>2, <1>5 DEF LoopRecord
  <2>3. /\ old.trades \in [Models -> Nat] /\ old.models \in Seq(Models)
        /\ \A m \in Models : m # loop.model => x.trades[m] = old.trades[m]
        /\ x.trades[loop.model] = old.trades[loop.model] + 1
    BY <1>2, <1>4, <2>1 DEF RunRecord
  <2>4. old.rows[loop.model] = NoModelRow /\ NoModelRow.status = "none" /\ old.trades[loop.model] = loop.saved
        /\ loop.status = "ran"
    BY <1>1, <1>3 DEF Current, NoModelRow
  <2>5. RunTrue(x)
    <3>1. \A m \in Models : RowTrue(x, m)
      BY SMTT(60), <1>2, <2>1, <2>3, <2>4 DEF RunTrue, RowTrue
    <3>2. QED
      BY <1>2, <2>1, <3>1 DEF RunTrue
  <2>6. Taken(x, loop') = Taken(old, loop)
    BY SMTT(60), <2>1, <2>2 DEF Taken
  <2>7. Current(x, loop')
    <3>1. loop.saved + 1 <= loop.found
      BY SMTT(60), <1>1, <1>4
    <3>2. QED
      BY <1>1, <1>3, <2>1, <2>2, <2>3, <2>4, <2>6, <3>1 DEF Current
  <2>8. TakenInOrder(x, loop')
    <3>1. ASSUME NEW k \in DOMAIN old.models, k > Taken(old, loop) PROVE x.trades[old.models[k]] = old.trades[old.models[k]]
      <4>1. old.models[k] \in Models /\ k \in Nat
        BY <2>3
      <4>2. Taken(old, loop) \in DOMAIN old.models /\ loop.model = old.models[Taken(old, loop)] /\ Taken(old, loop) \in Nat
        BY <1>3 DEF Current, TakenInOrder
      <4>3. k # Taken(old, loop)
        BY <3>1, <4>1, <4>2
      <4>4. old.models[k] # loop.model
        BY SMTT(60), <1>2, <4>2, <4>3 DEF RunTrue
      <4>5. QED
        BY <2>3, <4>1, <4>4
    <3>2. \A k \in DOMAIN old.models :
            IF k > Taken(old, loop) THEN x.rows[old.models[k]] = NoModelRow /\ x.trades[old.models[k]] = 0
            ELSE k < Taken(old, loop) => x.hurt \/ x.rows[old.models[k]].status # "none"
      BY <1>3, <2>1, <3>1 DEF TakenInOrder
    <3>3. Taken(old, loop) \in Nat /\ \A j \in DOMAIN loop.todo : loop.todo[j] = old.models[Taken(old, loop) + j]
      BY <1>3 DEF TakenInOrder
    <3>4. QED
      BY ZenonT(60), <2>1, <2>2, <2>6, <3>2, <3>3 DEF TakenInOrder
  <2>9. Progressing(x, loop')
    BY <1>3, <2>1, <2>2, <2>7, <2>8 DEF Progressing
  <2>10. QED
    BY <1>1, <1>2, <2>1, <2>2, <2>5, <2>9, SoundGoesOn DEF Executing
<1>6. ASSUME loop'.run = loop.run, loop'.pc = "row", loop'.model = loop.model, loop'.todo = loop.todo,
             loop'.status = "failed", loop'.found = 0,
             NEW x \in RunRecord, runs' = [runs EXCEPT ![loop.run] = x], RunTrue(x), x.hurt, x.status = "running",
             Progressing(x, loop)
      PROVE  InTurn' /\ Accounted'
  <2>1. TakenInOrder(x, loop) /\ Current(x, loop)
    BY <1>1, <1>6 DEF Progressing
  <2>2. Taken(x, loop') = Taken(x, loop)
    BY <1>6 DEF Taken
  <2>3. TakenInOrder(x, loop')
    BY <1>6, <2>1, <2>2 DEF TakenInOrder
  <2>4. Current(x, loop')
    BY <1>6, <2>1, <2>2 DEF Current
  <2>5. Progressing(x, loop')
    BY <1>6, <2>3, <2>4 DEF Progressing
  <2>6. QED
    BY <1>1, <1>2, <1>6, <2>5, SoundGoesOn DEF Executing
<1>7. CASE Fault /\ \E broken \in BOOLEAN : loop' = [loop EXCEPT !.pc = "row", !.status = "failed", !.found = 0, !.broken = broken]
  <2>1. PICK x \in RunRecord :
             /\ runs' = [runs EXCEPT ![loop.run] = x] /\ RunTrue(x) /\ x.hurt /\ x.status = old.status
             /\ \A l : Progressing(old, l) => Progressing(x, l)
    BY <1>2, <1>7, FaultHurts
  <2>2. Progressing(x, loop)
    BY <1>2, <2>1
  <2>3. /\ loop'.run = loop.run /\ loop'.pc = "row" /\ loop'.model = loop.model /\ loop'.todo = loop.todo
        /\ loop'.status = "failed" /\ loop'.found = 0
    BY <1>2, <1>7 DEF LoopRecord
  <2>4. QED
    BY <1>2, <1>6, <2>1, <2>2, <2>3
<1>8. CASE loop.broken /\ runs' = runs /\ loop' = [loop EXCEPT !.pc = "row", !.status = "failed", !.found = 0]
  <2>1. runs' = [runs EXCEPT ![loop.run] = old]
    BY <1>2, <1>8 DEF BacktestSound, BacktestTyped, RunsTyped
  <2>2. /\ loop'.run = loop.run /\ loop'.pc = "row" /\ loop'.model = loop.model /\ loop'.todo = loop.todo
        /\ loop'.status = "failed" /\ loop'.found = 0
    BY <1>2, <1>8 DEF LoopRecord
  <2>3. QED
    BY <1>2, <1>3, <1>6, <1>8, <2>1, <2>2
<1>9. QED
  BY <1>5, <1>7, <1>8 DEF RecordTrade

\* The row of the model in progress is written, or is not.
LEMMA SoundRow ==
    ASSUME BacktestSound, RecordModel
    PROVE  InTurn' /\ Accounted'
<1> DEFINE old == runs[loop.run]
           row == [status |-> loop.status, count |-> loop.found]
<1>1. loop.pc = "row" /\ ready' = ready
  BY DEF RecordModel, At
<1>2. /\ loop.run \in DOMAIN runs /\ loop \in LoopRecord /\ old \in RunRecord
      /\ RunTrue(old) /\ Progressing(old, loop) /\ old.status = "running"
  BY <1>1, RunInHand
<1>3. (loop.broken => old.hurt) /\ TakenInOrder(old, loop) /\ Current(old, loop)
  BY <1>1, <1>2 DEF Progressing
<1>4. loop.model \in Models /\ row \in Row /\ row.status = loop.status /\ row.count = loop.found
  BY <1>1, <1>2 DEF BacktestSound, BacktestTyped, RunsTyped, LoopRecord, Row
<1> HIDE DEF row
<1>5. ASSUME NEW x \in RunRecord, runs' = [runs EXCEPT ![loop.run] = x], RunTrue(x), x.status = "running",
             x.models = old.models, x.trades = old.trades, old.hurt => x.hurt,
             \A k \in DOMAIN old.models : k # Taken(old, loop) => x.rows[old.models[k]] = old.rows[old.models[k]],
             x.hurt \/ x.rows[loop.model].status # "none",
             loop'.run = loop.run, loop'.pc = "model", loop'.todo = loop.todo, loop'.broken => x.hurt
      PROVE  InTurn' /\ Accounted'
  <2>1. Taken(x, loop') = Taken(old, loop)
    BY <1>5 DEF Taken
  <2>2. Taken(old, loop) \in Nat /\ old.models \in Seq(Models) /\ loop.model = old.models[Taken(old, loop)]
    BY <1>2, <1>3 DEF TakenInOrder, Current, RunRecord
  <2>3. ASSUME NEW k \in DOMAIN old.models
        PROVE  IF k > Taken(old, loop) THEN x.rows[old.models[k]] = NoModelRow /\ x.trades[old.models[k]] = 0
               ELSE x.hurt \/ x.rows[old.models[k]].status # "none"
    <3>1. k \in Nat
      BY SMTT(60), <2>2
    <3>2. CASE k = Taken(old, loop)
      BY SMTT(60), <1>5, <2>2, <3>1, <3>2
    <3>3. CASE k > Taken(old, loop)
      <4>1. k # Taken(old, loop)
        BY SMTT(60), <2>2, <3>1, <3>3
      <4>2. QED
        BY <1>3, <1>5, <3>3, <4>1 DEF TakenInOrder
    <3>4. CASE k < Taken(old, loop)
      <4>1. k # Taken(old, loop) /\ ~(k > Taken(old, loop))
        BY SMTT(60), <2>2, <3>1, <3>4
      <4>2. QED
        BY <1>3, <1>5, <3>4, <4>1 DEF TakenInOrder
    <3>5. QED
      BY <2>2, <3>1, <3>2, <3>3, <3>4
  <2>4. TakenInOrder(x, loop')
    BY <1>3, <1>5, <2>1, <2>3 DEF TakenInOrder
  <2>5. Progressing(x, loop')
    BY <1>5, <2>4 DEF Progressing
  <2>6. QED
    BY <1>1, <1>2, <1>5, <2>5, SoundGoesOn DEF Executing
<1>6. CASE runs' = [runs EXCEPT ![loop.run].rows[loop.model] = row] /\ ~loop.broken /\ loop' = [loop EXCEPT !.pc = "model"]
  <2>1. PICK x \in RunRecord :
             /\ runs' = [runs EXCEPT ![loop.run] = x]
             /\ x.models = old.models /\ x.trades = old.trades /\ x.hurt = old.hurt /\ x.status = old.status
             /\ x.rows = [old.rows EXCEPT ![loop.model] = row]
    BY <1>2, <1>4, <1>6, RowWritten DEF BacktestSound, BacktestTyped
  <2>2. /\ old.rows \in [Models -> Row] /\ old.models \in Seq(Models)
        /\ \A m \in Models : m # loop.model => x.rows[m] = old.rows[m]
        /\ x.rows[loop.model] = row
    BY <1>2, <1>4, <2>1 DEF RunRecord
  <2>3. /\ row.status \in {"ran", "no_data", "failed"} /\ (row.status # "ran" => row.count = 0)
        /\ (row.status = "ran" => old.trades[loop.model] = row.count)
    BY <1>1, <1>3, <1>4 DEF Current
  <2>4. RunTrue(x)
    <3>1. \A m \in Models : RowTrue(x, m)
      BY <1>2, <2>1, <2>2, <2>3 DEF RunTrue, RowTrue
    <3>2. QED
      BY <1>2, <2>1, <3>1 DEF RunTrue
  <2>5. ASSUME NEW k \in DOMAIN old.models, k # Taken(old, loop)
        PROVE  x.rows[old.models[k]] = old.rows[old.models[k]]
    <3>1. old.models[k] \in Models
      BY <2>2
    <3>2. Taken(old, loop) \in DOMAIN old.models /\ loop.model = old.models[Taken(old, loop)]
      BY <1>3 DEF Current
    <3>3. old.models[k] # loop.model
      BY <1>2, <2>5, <3>2 DEF RunTrue
    <3>4. QED
      BY <2>2, <3>1, <3>3
  <2>6. loop'.run = loop.run /\ loop'.pc = "model" /\ loop'.todo = loop.todo /\ loop'.broken = loop.broken
    BY <1>2, <1>6 DEF LoopRecord
  <2>7. QED
    BY <1>2, <1>3, <1>5, <2>1, <2>2, <2>3, <2>4, <2>5, <2>6
<1>7. CASE Fault /\ \E broken \in BOOLEAN : loop' = [loop EXCEPT !.pc = "model", !.broken = broken]
  <2>1. PICK x \in RunRecord :
             /\ runs' = [runs EXCEPT ![loop.run] = x] /\ RunTrue(x) /\ x.hurt /\ x.status = old.status
             /\ x.models = old.models /\ x.rows = old.rows /\ x.trades = old.trades
    BY <1>2, <1>7, FaultHurts
  <2>2. loop'.run = loop.run /\ loop'.pc = "model" /\ loop'.todo = loop.todo
    BY <1>2, <1>7 DEF LoopRecord
  <2>3. QED
    BY <1>2, <1>5, <2>1, <2>2
<1>8. CASE loop.broken /\ runs' = runs /\ loop' = [loop EXCEPT !.pc = "model"]
  <2>1. runs' = [runs EXCEPT ![loop.run] = old]
    BY <1>2, <1>8 DEF BacktestSound, BacktestTyped, RunsTyped
  <2>2. loop'.run = loop.run /\ loop'.pc = "model" /\ loop'.todo = loop.todo
    BY <1>2, <1>8 DEF LoopRecord
  <2>3. QED
    BY <1>2, <1>3, <1>5, <1>8, <2>1, <2>2
<1>9. QED
  BY <1>6, <1>7, <1>8 DEF RecordModel, Goto, row

\* All models are through.
LEMMA SoundFinish ==
    ASSUME BacktestSound, Finish
    PROVE  InTurn' /\ Accounted'
<1> DEFINE old == runs[loop.run]
<1>1. loop.pc = "model" /\ loop.todo = <<>>
  BY DEF Finish, At
<1>2. /\ loop.run \in DOMAIN runs /\ loop \in LoopRecord /\ old \in RunRecord
      /\ RunTrue(old) /\ Progressing(old, loop) /\ old.status = "running"
  BY <1>1, RunInHand
<1>3. TakenInOrder(old, loop) /\ (loop.broken => old.hurt)
  BY <1>1, <1>2 DEF Progressing
<1>4. CASE SetStatus("done") /\ Release
  <2>1. "done" \in Statuses
    BY DEF Statuses
  <2>2. PICK x \in RunRecord :
          /\ runs' = [runs EXCEPT ![loop.run] = x] /\ x.status = "done" /\ x.hurt = old.hurt
          /\ x.models = old.models /\ x.rows = old.rows /\ x.trades = old.trades
    BY <1>2, <1>4, <2>1, StatusWritten
  <2>3. old.models \in Seq(Models) /\ Len(old.models) \in Nat /\ Len(loop.todo) = 0
    BY <1>1, <1>2 DEF RunRecord
  <2>4. \A k \in DOMAIN old.models : ~(k > Len(old.models))
    BY <2>3
  <2>5. Taken(old, loop) = Len(old.models)
    BY <2>3 DEF Taken
  <2>6. \A k \in DOMAIN old.models : old.hurt \/ old.rows[old.models[k]].status # "none"
    BY <1>1, <1>3, <2>4, <2>5 DEF TakenInOrder
  <2>7. RunTrue(x)
    BY <1>2, <2>2, <2>6 DEF RunTrue, RowTrue
  <2>8. QED
    BY <1>2, <1>4, <2>2, <2>7, SoundReleased
<1>5. CASE Fault /\ loop' = [loop EXCEPT !.pc = "fail"] /\ ready' = ready
  <2>1. PICK x \in RunRecord :
             /\ runs' = [runs EXCEPT ![loop.run] = x] /\ RunTrue(x) /\ x.hurt /\ x.status = old.status
    BY <1>2, <1>5, FaultHurts
  <2>2. loop'.run = loop.run /\ loop'.pc = "fail"
    BY <1>2, <1>5 DEF LoopRecord
  <2>3. Progressing(x, loop')
    BY <2>1, <2>2 DEF Progressing
  <2>4. QED
    BY <1>2, <1>5, <2>1, <2>2, <2>3, SoundGoesOn DEF Executing
<1>6. QED
  BY <1>4, <1>5 DEF Finish, Goto

\* A run that was created has its models once, and no row.
LEMMA NewRunTrue ==
    ASSUME BacktestSound, NEW models \in Seq(Models), \A j, k \in DOMAIN models : models[j] = models[k] => j = k,
           runs' = Append(runs, NewRun(models))
    PROVE  /\ runs' \in Seq(RunRecord) /\ DOMAIN runs' = DOMAIN runs \cup {Len(runs) + 1}
           /\ Len(runs) + 1 \notin DOMAIN runs /\ Len(runs) + 1 # 0
           /\ \A r \in DOMAIN runs : runs'[r] = runs[r]
           /\ runs'[Len(runs) + 1].status = "queued" /\ Untouched(runs'[Len(runs) + 1])
           /\ \A r \in DOMAIN runs' : RunTrue(runs'[r])
<1> DEFINE x == NewRun(models)
<1>1. /\ x \in RunRecord /\ runs' \in Seq(RunRecord) /\ Len(runs) + 1 \in Nat
      /\ DOMAIN runs' = DOMAIN runs \cup {Len(runs) + 1} /\ runs'[Len(runs) + 1] = x
      /\ (\A r \in DOMAIN runs : runs'[r] = runs[r]) /\ Len(runs) + 1 \notin DOMAIN runs
  BY NewRunTyped DEF BacktestSound, BacktestTyped
<1>2. x.status = "queued" /\ x.models = models /\ \A m \in Models : x.rows[m] = NoModelRow /\ x.trades[m] = 0
  BY DEF NewRun
<1>3. NoModelRow.status = "none"
  BY DEF NoModelRow
<1> HIDE DEF x
<1>4. Untouched(x) /\ RunTrue(x)
  BY <1>2, <1>3 DEF Untouched, RunTrue, RowTrue
<1>5. runs \in Seq(RunRecord)
  BY DEF BacktestSound, BacktestTyped, RunsTyped
<1>6. Len(runs) + 1 # 0
  BY <1>5
<1>7. \A r \in DOMAIN runs' : RunTrue(runs'[r])
  BY <1>1, <1>4 DEF BacktestSound, Accounted
<1>8. QED
  BY <1>1, <1>2, <1>4, <1>6, <1>7

\* A task that waited gets the loop; a job creates its run.
LEMMA SoundStarts ==
    ASSUME BacktestSound, StartTriggered \/ StartJob \/ CreateRun
    PROVE  InTurn' /\ Accounted'
<1>1. /\ ready \in Seq(Task) /\ runs \in Seq(RunRecord) /\ loop \in LoopRecord /\ loop.run = 0 /\ 0 \notin DOMAIN runs
      /\ \A k \in DOMAIN ready : ~ready[k].job => ready[k].run \in DOMAIN runs
  BY DEF StartTriggered, StartJob, CreateRun, LoopFree, At, BacktestSound, BacktestTyped, RunsTyped
<1>2. InTurn /\ \A r \in DOMAIN runs : RunTrue(runs[r])
  BY DEF BacktestSound, Accounted
<1>3. CASE StartTriggered \/ StartJob
  <2>1. ready # <<>> /\ ready' = Tail(ready) /\ runs' = runs
    BY <1>3 DEF StartTriggered, StartJob
  <2>2. /\ 1 \in DOMAIN ready /\ Head(ready) = ready[1]
        /\ \A k \in DOMAIN ready' : k + 1 \in DOMAIN ready /\ ready'[k] = ready[k + 1] /\ k \in Nat /\ k + 1 # 1
    BY <1>1, <2>1
  <2>3. \A j, k \in DOMAIN ready' : j + 1 = k + 1 => j = k
    BY <2>2
  <2>4. CASE StartTriggered
    <3>1. ~ready[1].job /\ loop'.pc = "begin" /\ loop'.run = ready[1].run /\ ~loop'.broken
      BY <2>2, <2>4 DEF StartTriggered, IdleLoop
    <3>2. runs[ready[1].run].status = "queued" /\ ready[1].run \in DOMAIN runs
      BY <1>1, <1>2, <2>2, <3>1 DEF InTurn
    <3>3. \A k \in DOMAIN ready' : ~ready'[k].job => ready'[k].run # ready[1].run /\ runs[ready'[k].run].status = "queued"
      BY <1>2, <2>2, <3>1 DEF InTurn
    <3>4. \A j, k \in DOMAIN ready' : ~ready'[j].job /\ ~ready'[k].job /\ ready'[j].run = ready'[k].run => j = k
      BY <1>2, <2>2, <2>3 DEF InTurn
    <3>5. InTurn'
      BY <2>1, <3>1, <3>2, <3>3, <3>4 DEF InTurn, Executing
    <3>6. Untouched(runs[ready[1].run])
      BY <1>2, <3>2 DEF RunTrue
    <3>7. Progressing(runs'[loop'.run], loop') /\ loop'.run # 0
      BY <1>1, <2>1, <3>1, <3>2, <3>6 DEF Progressing
    <3>8. \A r \in DOMAIN runs' : RunTrue(runs'[r])
      BY <1>2, <2>1
    <3>9. QED
      BY <3>5, <3>7, <3>8 DEF Accounted, RunTrue, RowTrue, Untouched, Progressing, TakenInOrder, Current, Taken
  <2>5. CASE StartJob
    <3>1. loop'.run = 0 /\ loop'.pc \in {"idle", "create"} /\ ~loop'.broken
      BY <1>1, <2>5 DEF StartJob, IdleLoop, LoopFree, BacktestSound, Accounted
    <3>2. \A k \in DOMAIN ready' : ~ready'[k].job => ready'[k].run # 0 /\ runs[ready'[k].run].status = "queued"
      BY <1>1, <1>2, <2>2 DEF InTurn
    <3>3. \A j, k \in DOMAIN ready' : ~ready'[j].job /\ ~ready'[k].job /\ ready'[j].run = ready'[k].run => j = k
      BY <1>2, <2>2, <2>3 DEF InTurn
    <3>4. InTurn'
      BY <2>1, <3>1, <3>2, <3>3 DEF InTurn, Executing
    <3>5. QED
      BY <1>2, <2>1, <3>1, <3>4 DEF Accounted, RunTrue, RowTrue, Untouched
  <2>6. QED
    BY <1>3, <2>4, <2>5
<1>4. CASE CreateRun /\ Fault /\ Release
  <2>1. runs' = runs
    BY <1>1, <1>4 DEF Fault
  <2>2. /\ loop' = IdleLoop /\ DOMAIN ready' = DOMAIN ready
        /\ \A k \in DOMAIN ready : ready'[k].job = ready[k].job /\ ready'[k].run = ready[k].run
    BY <1>4, ReleaseKeeps DEF BacktestSound, BacktestTyped
  <2>3. loop'.run = 0 /\ loop'.pc = "idle" /\ ~loop'.broken
    BY <2>2 DEF IdleLoop
  <2>4. InTurn'
    BY <1>1, <1>2, <2>1, <2>2, <2>3 DEF InTurn, Executing
  <2>5. QED
    BY <1>2, <2>1, <2>3, <2>4 DEF Accounted, RunTrue, RowTrue, Untouched
<1>5. CASE CreateRun /\ runs' = Append(runs, NewRun(<<loop.model>>)) /\ ready' = ready
           /\ loop' = [loop EXCEPT !.pc = "begin", !.run = Len(runs) + 1]
  <2>1. loop.model \in Models /\ loop.pc = "create"
    BY <1>5 DEF CreateRun, At, BacktestSound, BacktestTyped, RunsTyped
  <2>2. <<loop.model>> \in Seq(Models) /\ \A j, k \in DOMAIN <<loop.model>> : <<loop.model>>[j] = <<loop.model>>[k] => j = k
    BY <2>1
  <2> DEFINE models == <<loop.model>>
             r == Len(runs) + 1
  <2> HIDE DEF models
  <2>3. /\ runs' \in Seq(RunRecord) /\ DOMAIN runs' = DOMAIN runs \cup {r} /\ r \notin DOMAIN runs /\ r # 0
        /\ (\A q \in DOMAIN runs : runs'[q] = runs[q]) /\ runs'[r].status = "queued" /\ Untouched(runs'[r])
        /\ \A q \in DOMAIN runs' : RunTrue(runs'[q])
    <3>1. models \in Seq(Models) /\ (\A j, k \in DOMAIN models : models[j] = models[k] => j = k)
          /\ runs' = Append(runs, NewRun(models))
      BY <1>5, <2>2 DEF models
    <3>2. QED
      BY <3>1, NewRunTrue
  <2>4. loop'.run = r /\ loop'.pc = "begin" /\ loop'.broken = loop.broken
    BY <1>1, <1>5 DEF LoopRecord
  <2>5. ~loop.broken
    BY <1>1 DEF BacktestSound, Accounted
  <2>6. Progressing(runs'[loop'.run], loop')
    BY <2>3, <2>4, <2>5 DEF Progressing
  <2> HIDE DEF r
  <2>7. InTurn'
    BY SMTT(60), <1>1, <1>2, <1>5, <2>3, <2>4 DEF InTurn, Executing
  <2>8. QED
    BY <2>3, <2>4, <2>6, <2>7 DEF Accounted, RunTrue, RowTrue, Untouched, Progressing, TakenInOrder, Current, Taken
<1>6. QED
  BY <1>3, <1>4, <1>5 DEF CreateRun

\* Nothing is written.
LEMMA RowsKept ==
    ASSUME Accounted, runs' = runs, loop' = loop
    PROVE  Accounted'
<1>1. (\A r \in DOMAIN runs' : RunTrue(runs'[r])) /\ (IF loop'.run = 0 THEN ~loop'.broken ELSE Progressing(runs'[loop'.run], loop'))
  BY DEF Accounted
<1>2. QED
  BY <1>1 DEF Accounted, RunTrue, RowTrue, Untouched, Progressing, TakenInOrder, Current, Taken

\* Runs are asked for, jobs come to wait, the process ends and starts.
LEMMA SoundAround ==
    ASSUME BacktestSound,
           \/ \E models \in scene.triggers : Trigger(models)
           \/ \E m \in Models : Submit(m)
           \/ ProcessEnds \/ StartUp
    PROVE  InTurn' /\ Accounted'
<1>1. /\ ready \in Seq(Task) /\ runs \in Seq(RunRecord) /\ loop \in LoopRecord
      /\ \A k \in DOMAIN ready : ~ready[k].job => ready[k].run \in DOMAIN runs
  BY DEF BacktestSound, BacktestTyped, RunsTyped
<1>2. InTurn /\ \A r \in DOMAIN runs : RunTrue(runs[r])
  BY DEF BacktestSound, Accounted
<1>3. ASSUME NEW models \in scene.triggers, Trigger(models) PROVE InTurn' /\ Accounted'
  <2>1. models \in Seq(Models) /\ \A j, k \in DOMAIN models : models[j] = models[k] => j = k
    BY BacktestConstants DEF BacktestSound, BacktestTyped
  <2>2. runs' = Append(runs, NewRun(models)) /\ loop' = loop /\ loop.run = 0 /\ loop.pc = "idle" /\ ~loop.broken
    BY <1>3 DEF Trigger, LoopFree, BacktestSound, BacktestTyped, RunsTyped, Accounted
  <2> DEFINE r == Len(runs) + 1
             task == [job |-> FALSE, run |-> r, model |-> "none", late |-> FALSE]
  <2>3. /\ runs' \in Seq(RunRecord) /\ DOMAIN runs' = DOMAIN runs \cup {r} /\ r \notin DOMAIN runs /\ r # 0
        /\ (\A q \in DOMAIN runs : runs'[q] = runs[q]) /\ runs'[r].status = "queued" /\ Untouched(runs'[r])
        /\ \A q \in DOMAIN runs' : RunTrue(runs'[q])
    BY <2>1, <2>2, NewRunTrue
  <2>4. ready' = Append(ready, task)
    BY <1>3 DEF Trigger
  <2> HIDE DEF r
  <2>5. task.run = r /\ ~task.job
    OBVIOUS
  <2> HIDE DEF task
  <2> DEFINE n == Len(ready) + 1
  <2>6. \A k \in DOMAIN ready' : (k \in DOMAIN ready /\ ready'[k] = ready[k]) \/ (k = n /\ ready'[k] = task)
    BY <1>1, <2>4
  <2> HIDE DEF n
  <2>7. \A k \in DOMAIN ready' : ~ready'[k].job => runs'[ready'[k].run].status = "queued" /\ ready'[k].run # 0
    BY <1>1, <1>2, <2>2, <2>3, <2>5, <2>6 DEF InTurn
  <2>8. \A j, k \in DOMAIN ready' : ~ready'[j].job /\ ~ready'[k].job /\ ready'[j].run = ready'[k].run => j = k
    BY <1>1, <1>2, <2>3, <2>5, <2>6 DEF InTurn
  <2>9. InTurn'
    BY <2>2, <2>7, <2>8 DEF InTurn, Executing
  <2>10. QED
    BY <2>2, <2>3, <2>9 DEF Accounted, RunTrue, RowTrue, Untouched
<1>4. ASSUME NEW m \in Models, Submit(m) PROVE InTurn' /\ Accounted'
  <2> DEFINE task == [job |-> TRUE, run |-> 0, model |-> m, late |-> due[m] = "late"]
  <2>1. runs' = runs /\ loop' = loop /\ (ready' = ready \/ ready' = Append(ready, task))
    BY <1>4 DEF Submit
  <2>2. task.job
    OBVIOUS
  <2> HIDE DEF task
  <2>3. \A k \in DOMAIN ready' : (k \in DOMAIN ready /\ ready'[k] = ready[k]) \/ ready'[k].job
    BY <1>1, <2>1, <2>2
  <2>4. InTurn'
    BY <1>2, <2>1, <2>3 DEF InTurn, Executing
  <2>5. Accounted'
    BY <2>1, RowsKept DEF BacktestSound
  <2>6. QED
    BY <2>4, <2>5
<1>5. CASE ProcessEnds
  <2>1. runs' = runs /\ ready' = <<>> /\ DOMAIN ready' = {} /\ loop'.run = 0 /\ loop'.pc = "idle" /\ ~loop'.broken
    BY <1>5 DEF ProcessEnds, IdleLoop
  <2>2. InTurn'
    BY <2>1 DEF InTurn, Executing
  <2>3. QED
    BY <1>2, <2>1, <2>2 DEF Accounted, RunTrue, RowTrue, Untouched
<1>6. CASE StartUp
  <2>1. ~up /\ loop' = loop /\ ready' = ready /\ runs' = ResetInterrupted(runs)
    BY <1>6 DEF StartUp
  <2>2. ready = <<>> /\ DOMAIN ready = {} /\ loop.run = 0 /\ loop.pc = "idle" /\ ~loop.broken
    BY <2>1 DEF BacktestSound, BacktestTyped, RunsTyped, IdleLoop
  <2>3. ASSUME NEW r \in DOMAIN runs PROVE RunTrue(runs'[r])
    <3>1. runs[r] \in RunRecord /\ RunTrue(runs[r])
      BY <1>1, <1>2
    <3>2. runs'[r] = runs[r] \/ runs'[r] = [runs[r] EXCEPT !.status = "failed"]
      BY <2>1 DEF ResetInterrupted
    <3> DEFINE y == [runs[r] EXCEPT !.status = "failed"]
    <3>3. y.status = "failed" /\ y.models = runs[r].models /\ y.rows = runs[r].rows /\ y.trades = runs[r].trades
      BY <3>1 DEF RunRecord
    <3> HIDE DEF y
    <3>4. RunTrue(y)
      BY <3>1, <3>3, SameRows
    <3>5. QED
      BY <3>1, <3>2, <3>4 DEF y
  <2>4. DOMAIN runs' = DOMAIN runs
    BY <2>1 DEF ResetInterrupted
  <2>5. InTurn'
    BY <2>1, <2>2 DEF InTurn, Executing
  <2>6. QED
    BY <2>1, <2>2, <2>3, <2>4, <2>5 DEF Accounted, RunTrue, RowTrue, Untouched
<1>7. QED
  BY <1>3, <1>4, <1>5, <1>6

\* All of it holds throughout.
LEMMA BacktestSoundStep == BacktestSound /\ [Next]_vars => BacktestSound'
<1> SUFFICES ASSUME BacktestSound, [Next]_vars PROVE BacktestSound'
  OBVIOUS
<1>1. BacktestTyped'
  BY BacktestTypedStep DEF BacktestSound
<1>2. ASSUME RunSteps PROVE InTurn' /\ Accounted'
  BY <1>2, SoundStatus, SoundStarts, SoundFetches, SoundWalks, SoundTrade, SoundRow, SoundFinish DEF RunSteps
<1>3. ASSUME (\E models \in scene.triggers : Trigger(models)) \/ (\E m \in Models : Submit(m)) \/ ProcessEnds \/ StartUp
      PROVE  InTurn' /\ Accounted'
  BY <1>3, SoundAround
<1>4. ASSUME UNCHANGED <<runs, ready, loop, sim, up, scene>> PROVE InTurn' /\ Accounted'
  BY <1>4, RowsKept DEF BacktestSound, InTurn, Executing
<1>5. InTurn' /\ Accounted'
  BY <1>2, <1>3, <1>4, EventLoopSteps
<1>6. QED
  BY <1>1, <1>5 DEF BacktestSound

\* The invariant about run rows and trades holds always.
LEMMA BacktestSoundAlways == Spec => []BacktestSound
<1>1. Start => BacktestSound
  <2> SUFFICES ASSUME Start PROVE BacktestSound
    OBVIOUS
  <2>1. runs = <<>> /\ ready = <<>> /\ DOMAIN runs = {} /\ DOMAIN ready = {} /\ loop.run = 0 /\ loop.pc = "idle" /\ ~loop.broken
    BY DEF Start, Init, IdleLoop
  <2>2. QED
    BY <2>1, BacktestTypedInit DEF BacktestSound, InTurn, Executing, Accounted
<1>2. QED
  BY <1>1, BacktestSoundStep, PTL DEF Spec

\* A model's row of a run agrees with the trades saved for it, and a run that is
\* done has the row of each of its models unless a commit failed, in no order of
\* outcomes, failing commits and restarts otherwise (run_backtest, BacktestRepo).
THEOREM RowsAgreeWithTrades == Spec => []RowsTrue
<1>1. BacktestSound => RowsTrue
  BY DEF BacktestSound, Accounted, RunTrue, RowTrue, RowsTrue, RunIds
<1>2. QED
  BY <1>1, BacktestSoundAlways, PTL

\* A run that is done or failed stays so, whatever the tasks that wait for the
\* loop, failing commits and the reset at start-up do (update_status,
\* reset_interrupted).
THEOREM SettledRunsStaySettled == Spec => SettledStaysSettled
<1>1. BacktestSound /\ [Next]_vars => [\A r \in RunIds : Settled(r) => runs'[r].status = runs[r].status]_vars
  <2> SUFFICES ASSUME BacktestSound, [Next]_vars, NEW r \in DOMAIN runs, runs[r].status \in {"done", "failed"}
               PROVE  runs'[r].status = runs[r].status
    BY DEF RunIds, Settled
  <2>1. runs \in Seq(RunRecord) /\ scene \in Scenes
    BY DEF BacktestSound, BacktestTyped, RunsTyped
  <2>2. ASSUME NEW models \in Seq(Models), runs' = Append(runs, NewRun(models)) PROVE runs'[r] = runs[r]
    BY <2>2, NewRunTyped DEF BacktestSound, BacktestTyped
  <2>3. CASE RunSteps
    <3>1. CASE StartTriggered \/ StartJob \/ Select \/ FetchModel \/ WalkOneBar \/ WalkEnds \/ TradesRecorded
      BY <3>1 DEF StartTriggered, StartJob, Select, FetchModel, WalkOneBar, WalkEnds, TradesRecorded
    <3>2. CASE CreateRun
      <4>1. loop.run = 0 /\ <<loop.model>> \in Seq(Models)
        BY <3>2 DEF CreateRun, At, BacktestSound, BacktestTyped, RunsTyped
      <4>2. runs' = runs \/ runs' = Append(runs, NewRun(<<loop.model>>))
        BY <3>2, <4>1 DEF CreateRun, Fault
      <4>3. QED
        BY <2>2, <4>1, <4>2
    <3>3. CASE Begin \/ RecordTrade \/ RecordModel \/ Finish \/ Fail
      <4>1. loop.run # r /\ loop.run # 0
        BY ZenonT(60), <3>3, RunInHand DEF Begin, RecordTrade, RecordModel, Finish, Fail, At, BacktestSound, InTurn
      <4>2. runs' = runs \/ \E x : runs' = [runs EXCEPT ![loop.run] = x]
        BY <3>3, <4>1 DEF Begin, RecordTrade, RecordModel, Finish, Fail, Fault, SetStatus
      <4>3. QED
        BY SMTT(60), <4>1, <4>2
    <3>4. QED
      BY <2>3, <3>1, <3>2, <3>3 DEF RunSteps
  <2>4. CASE \E models \in scene.triggers : Trigger(models)
    BY <2>1, <2>2, <2>4, BacktestConstants DEF Trigger
  <2>5. CASE (\E m \in Models : Submit(m)) \/ ProcessEnds
    BY <2>5 DEF Submit, ProcessEnds
  <2>6. CASE StartUp
    BY <2>6 DEF StartUp, ResetInterrupted
  <2>7. QED
    BY <2>3, <2>4, <2>5, <2>6, EventLoopSteps
<1>2. QED
  BY <1>1, BacktestSoundAlways, PTL DEF Spec, SettledStaysSettled

-----------------------------------------------------------------------------
\* The schedule: the settings, the file, the jobs and the changes in progress.
PatchRecord == [pc : {"idle", "failed", "list", "remove", "add", "persist", "write"}, ask : Change,
                left : SUBSET JobIds, copy : Settings]
ScheduleTyped ==
    /\ settings \in Settings /\ file \in [whole : BOOLEAN, says : Settings]
    /\ jobs \in [JobIds -> Crons \cup {"none", "minutely"}]
    /\ patches \in [Threads -> PatchRecord]

\* One thread at a time has the file, and what it writes, or what stands in the
\* file, is what the settings in memory say.
FileTrue ==
    /\ \A t, u \in Threads : patches[t].pc \in {"persist", "write"} /\ patches[u].pc \in {"persist", "write"} => t = u
    /\ up /\ (\A t \in Threads : patches[t].pc \in {"idle", "write"}) =>
        IF \E t \in Threads : patches[t].pc = "write"
        THEN \A t \in Threads : patches[t].pc = "write" => patches[t].copy = settings
        ELSE file.says = settings
    /\ ~up => \A t \in Threads : patches[t].pc = "idle"

\* Where only thread t changes the schedule: the jobs that the change does not
\* affect are those that the settings ask for, and so are the others when they
\* have been added again.
Affected(ask) == IF ask.model = "global" THEN JobIds ELSE {ask.model}
Rebuilding(p) == p.pc \in {"list", "remove", "add"}
JobsTrue(t) ==
    /\ \A j \in JobIds :
        IF Rebuilding(patches[t]) /\ j \in Affected(patches[t].ask)
        THEN /\ patches[t].pc = "remove" => (jobs[j] # "none" <=> j \in patches[t].left)
             /\ patches[t].pc = "add" => jobs[j] = IF j \in patches[t].left THEN "none" ELSE JobsOf(settings)[j]
        ELSE jobs[j] = JobsOf(settings)[j]
    /\ patches[t].pc \in {"remove", "add"} => patches[t].left \subseteq Affected(patches[t].ask)
    /\ patches[t].pc = "add" =>
        \/ patches[t].left = {}
        \/ settings.on /\ (patches[t].ask.model = "global" \/ patches[t].ask.model \notin settings.disabled)

Scheduled ==
    /\ scene \in Scenes /\ ScheduleTyped /\ FileTrue
    /\ \A t \in Threads : up /\ scene.threads = {t} => JobsTrue(t)

\* The constants of the schedule.
LEMMA ScheduleConstants ==
    /\ "global" \notin Models /\ ExpireJob \notin Models /\ ExpireJob # "global"
    /\ "keep" \notin Crons /\ "none" \notin Crons
    /\ "inherit" \notin Crons /\ "absent" \notin Crons
    /\ DefaultSettings \in Settings /\ NoChange \in Change /\ IdlePatch \in PatchRecord
<1>1. "global" \notin Models /\ ExpireJob \notin Models /\ ExpireJob # "global"
  BY BacktestAssumption DEF ExpireJob
<1>2. /\ "keep" \notin Crons /\ "none" \notin Crons /\ "inherit" \notin Crons /\ "absent" \notin Crons
      /\ \E c : c \in Crons
  BY BacktestAssumption
<1>3. (CHOOSE c \in Crons : TRUE) \in Crons
  BY <1>2
<1>4. DefaultSettings \in Settings
  BY <1>3 DEF DefaultSettings, Settings
<1>5. NoChange \in Change
  BY DEF NoChange, Change, GlobalChange
<1>6. IdlePatch \in PatchRecord
  BY <1>4, <1>5 DEF IdlePatch, PatchRecord
<1>7. QED
  BY <1>1, <1>2, <1>4, <1>5, <1>6

\* What a request may ask for.
LEMMA AskFields ==
    ASSUME NEW ask \in Change
    PROVE  /\ ask.on \in {"yes", "no", "keep"} /\ ask.cron \in Crons \cup {"keep"}
           /\ ask.model = "global" \/ ask.model \in Models
           /\ Affected(ask) \subseteq JobIds
<1>1. CASE ask \in GlobalChange
  BY <1>1 DEF GlobalChange, Affected, JobIds
<1>2. CASE ask \in ModelChange
  BY <1>2 DEF ModelChange, Affected, JobIds
<1>3. QED
  BY <1>1, <1>2 DEF Change

\* The job that the settings ask for.
LEMMA JobWanted ==
    ASSUME NEW s \in Settings, NEW j \in JobIds
    PROVE  /\ s.on \in BOOLEAN /\ s.cron \in Crons /\ s.disabled \subseteq Models /\ s.own \in [Models -> Crons \cup {"inherit", "absent"}]
           /\ JobsOf(s)[j] = IF j = ExpireJob THEN (IF s.on THEN "minutely" ELSE "none")
                             ELSE IF s.on /\ j \notin s.disabled THEN EffectiveCron(s, j) ELSE "none"
           /\ j # ExpireJob => j \in Models /\ EffectiveCron(s, j) \in Crons
           /\ JobsOf(s) \in [JobIds -> Crons \cup {"none", "minutely"}]
<1>1. s.on \in BOOLEAN /\ s.cron \in Crons /\ s.disabled \subseteq Models /\ s.own \in [Models -> Crons \cup {"inherit", "absent"}]
  BY DEF Settings
<1>2. \A m \in Models : EffectiveCron(s, m) \in Crons
  BY <1>1 DEF EffectiveCron
<1>3. JobsOf(s)[j] = IF j = ExpireJob THEN (IF s.on THEN "minutely" ELSE "none")
                     ELSE IF s.on /\ j \notin s.disabled THEN EffectiveCron(s, j) ELSE "none"
  BY DEF JobsOf, Enabled
<1>4. JobsOf(s) \in [JobIds -> Crons \cup {"none", "minutely"}]
  BY <1>2 DEF JobsOf, JobIds
<1>5. QED
  BY <1>1, <1>2, <1>3, <1>4 DEF JobIds

\* A change leaves the jobs alone that it does not affect.
LEMMA ChangeApart ==
    ASSUME NEW s \in Settings, NEW ask \in Change
    PROVE  /\ Changed(s, ask) \in Settings
           /\ \A j \in JobIds : j \notin Affected(ask) => JobsOf(Changed(s, ask))[j] = JobsOf(s)[j]
<1>1. /\ s.on \in BOOLEAN /\ s.cron \in Crons /\ s.disabled \subseteq Models /\ s.own \in [Models -> Crons \cup {"inherit", "absent"}]
  BY DEF Settings
<1>2. /\ ask.on \in {"yes", "no", "keep"} /\ ask.cron \in Crons \cup {"keep"}
      /\ ask.model = "global" \/ ask.model \in Models
  BY AskFields
<1>3. CASE ask.model = "global"
  <2> DEFINE on == IF ask.on = "keep" THEN s.on ELSE ask.on = "yes"
             cron == Or(ask.cron, s.cron)
  <2>1. on \in BOOLEAN
    BY <1>1
  <2>2. cron \in Crons
    BY <1>1, <1>2 DEF Or
  <2>3. Changed(s, ask) = [s EXCEPT !.on = on, !.cron = cron]
    BY <1>3 DEF Changed
  <2> HIDE DEF on, cron
  <2>4. Changed(s, ask) \in Settings
    BY <2>1, <2>2, <2>3 DEF Settings
  <2>5. QED
    BY <1>3, <2>4 DEF Affected
<1>4. CASE ask.model # "global"
  <2> DEFINE off == CASE ask.on = "no" -> s.disabled \cup {ask.model}
                      [] ask.on = "yes" -> s.disabled \ {ask.model}
                      [] OTHER -> s.disabled
             old == IF s.own[ask.model] = "absent" THEN "inherit" ELSE s.own[ask.model]
             own == [s.own EXCEPT ![ask.model] = Or(ask.cron, old)]
  <2>1. ask.model \in Models
    BY <1>2, <1>4
  <2>2. off \subseteq Models /\ \A j : j # ask.model => (j \in off <=> j \in s.disabled)
    BY <1>1, <2>1
  <2>3. own \in [Models -> Crons \cup {"inherit", "absent"}] /\ \A j \in Models : j # ask.model => own[j] = s.own[j]
    BY <1>1, <1>2, <2>1 DEF Or
  <2>4. Changed(s, ask) = [s EXCEPT !.disabled = off, !.own = own]
    BY <1>4 DEF Changed
  <2> HIDE DEF off, own
  <2> DEFINE new == [s EXCEPT !.disabled = off, !.own = own]
  <2>5. new \in Settings /\ new.on = s.on /\ new.cron = s.cron /\ new.disabled = off /\ new.own = own
    BY <2>2, <2>3 DEF Settings
  <2> HIDE DEF new
  <2>6. ASSUME NEW j \in JobIds, j \notin Affected(ask) PROVE JobsOf(new)[j] = JobsOf(s)[j]
    <3>1. j # ask.model
      BY <1>4, <2>6 DEF Affected
    <3>2. j = ExpireJob \/ j \in Models
      BY DEF JobIds
    <3>3. j # ExpireJob => EffectiveCron(new, j) = EffectiveCron(s, j) /\ (j \in new.disabled <=> j \in s.disabled)
      BY <2>2, <2>3, <2>5, <3>1, <3>2 DEF EffectiveCron
    <3>4. QED
      BY <2>5, <3>3, JobWanted
  <2>7. QED
    BY <2>4, <2>5, <2>6 DEF new
<1>5. QED
  BY <1>3, <1>4

\* What changes the schedule.
LEMMA ScheduleSteps ==
    ASSUME [Next]_vars
    PROVE  \/ \E t \in scene.threads : PatchSteps(t)
           \/ \E t \in scene.threads, ask \in scene.changes : PatchArrives(t, ask)
           \/ ProcessEnds \/ StartUp
           \/ UNCHANGED <<settings, file, jobs, patches, up>>
<1>1. RunSteps => UNCHANGED <<settings, file, jobs, patches, up>>
  BY RunStepsKeep
<1>2. ASSUME NEW m, Submit(m) PROVE UNCHANGED <<settings, file, jobs, patches, up>>
  BY <1>2 DEF Submit, scheduleVars
<1>3. ASSUME NEW models, Trigger(models) PROVE UNCHANGED <<settings, file, jobs, patches, up>>
  BY <1>3 DEF Trigger, Kept, scheduleVars
<1>4. ASSUME NEW c, Night(c) PROVE UNCHANGED <<settings, file, jobs, patches, up>>
  BY <1>4 DEF Night, KeptBySchedule
<1>5. CASE UNCHANGED backtestVars
  BY <1>5 DEF backtestVars, databaseVars, scheduleVars, environmentVars
<1>6. QED
  BY <1>1, <1>2, <1>3, <1>4, <1>5 DEF Next, Progress, BacktestProgress, BacktestEvents, TaskProgress, ClockEvents, vars

\* The change of one thread goes on.
LEMMA PatchReplaced ==
    ASSUME ScheduleTyped, NEW t \in Threads, NEW p \in PatchRecord, patches' = [patches EXCEPT ![t] = p]
    PROVE  /\ patches' \in [Threads -> PatchRecord] /\ patches'[t] = p
           /\ \A u \in Threads : u # t => patches'[u] = patches[u]
BY DEF ScheduleTyped

\* The fields of a change.
LEMMA PatchFields ==
    ASSUME ScheduleTyped, NEW t \in Threads
    PROVE  /\ patches[t] \in PatchRecord /\ patches[t].ask \in Change /\ patches[t].left \subseteq JobIds
           /\ patches[t].copy \in Settings
<1>1. patches[t] \in PatchRecord
  BY SMTT(60) DEF ScheduleTyped
<1>2. QED
  BY <1>1 DEF PatchRecord

\* A rebuild takes one job away or adds one at a time.
LEMMA JobsRebuilt ==
    ASSUME NEW t \in Threads, ListJobs(t) \/ RemoveJob(t) \/ Removed(t) \/ AddJob(t) \/ Lock(t)
    PROVE  \/ jobs' = jobs
           \/ \E j \in patches[t].left :
                 \/ jobs' = [jobs EXCEPT ![j] = "none"] \/ jobs' = [jobs EXCEPT ![j] = "minutely"]
                 \/ j # ExpireJob /\ jobs' = [jobs EXCEPT ![j] = EffectiveCron(settings, j)]
<1>1. CASE ListJobs(t) \/ Removed(t) \/ Lock(t)
  BY <1>1 DEF ListJobs, Removed, Lock
<1>2. CASE RemoveJob(t)
  BY <1>2 DEF RemoveJob
<1>3. CASE AddJob(t)
  BY SMTT(60), <1>3 DEF AddJob
<1>4. QED
  BY <1>1, <1>2, <1>3

\* The jobs are listed, removed and added.
LEMMA PatchRebuilds ==
    ASSUME ScheduleTyped, NEW t \in Threads, ListJobs(t) \/ RemoveJob(t) \/ Removed(t) \/ AddJob(t) \/ Lock(t)
    PROVE  /\ up /\ up' = up /\ file' = file /\ settings' = settings
           /\ \/ /\ RemoveJob(t) /\ jobs' = jobs /\ patches' = [patches EXCEPT ![t] = [IdlePatch EXCEPT !.pc = "failed"]]
                 /\ \E j \in patches[t].left : jobs[j] = "none"
              \/ \E pc \in {"remove", "add", "persist"}, left \in SUBSET JobIds :
                    /\ patches' = [patches EXCEPT ![t] = [patches[t] EXCEPT !.pc = pc, !.left = left]]
                    /\ pc = "persist" => \A u \in Threads : patches[u].pc \notin {"persist", "write"}
                    /\ \/ /\ ListJobs(t) /\ pc = "remove" /\ jobs' = jobs
                          /\ left = {j \in JobIds : jobs[j] # "none" /\ Ask(t).model \in {"global", j}}
                       \/ /\ RemoveJob(t) /\ pc = "remove"
                          /\ \E j \in patches[t].left : left = patches[t].left \ {j} /\ jobs' = [jobs EXCEPT ![j] = "none"]
                       \/ /\ Removed(t) /\ pc = "add" /\ jobs' = jobs
                          /\ left = IF ~settings.on THEN {} ELSE IF Ask(t).model = "global" THEN JobIds
                                    ELSE {Ask(t).model} \ settings.disabled
                       \/ /\ AddJob(t) /\ pc = "add"
                          /\ \E j \in patches[t].left :
                               /\ left = patches[t].left \ {j}
                               /\ IF j = ExpireJob THEN jobs' = [jobs EXCEPT ![j] = "minutely"]
                                  ELSE IF j \in settings.disabled /\ Ask(t).model = "global" THEN jobs' = jobs
                                  ELSE jobs' = [jobs EXCEPT ![j] = EffectiveCron(settings, j)]
                       \/ Lock(t) /\ pc = "persist" /\ jobs' = jobs /\ patches[t].left = {}
<1>1. up /\ up' = up /\ file' = file /\ settings' = settings
  BY DEF ListJobs, RemoveJob, Removed, AddJob, Lock, PatchPc, KeptBySchedule
<1>2. /\ patches[t] \in PatchRecord /\ patches[t].ask \in Change /\ patches[t].left \subseteq JobIds
      /\ patches \in [Threads -> PatchRecord]
  BY SMTT(60), PatchFields DEF ScheduleTyped
<1>3. CASE ListJobs(t)
  <2> DEFINE left == {j \in JobIds : jobs[j] # "none" /\ Ask(t).model \in {"global", j}}
  <2>1. left \in SUBSET JobIds
    OBVIOUS
  <2>2. patches' = [patches EXCEPT ![t] = [patches[t] EXCEPT !.pc = "remove", !.left = left]] /\ jobs' = jobs
    BY <1>3 DEF ListJobs
  <2> HIDE DEF left
  <2>3. QED
    BY <1>1, <1>3, <2>1, <2>2 DEF left
<1>4. CASE RemoveJob(t)
  <2>1. PICK j \in patches[t].left :
          IF jobs[j] = "none" THEN Return(t, "failed") /\ UNCHANGED <<jobs, due>>
          ELSE /\ jobs' = [jobs EXCEPT ![j] = "none"] /\ NotDue(j)
               /\ patches' = [patches EXCEPT ![t].left = @ \ {j}]
    BY <1>4 DEF RemoveJob
  <2>2. CASE jobs[j] = "none"
    BY <1>1, <1>4, <2>1, <2>2 DEF Return
  <2>3. CASE jobs[j] # "none"
    <3> DEFINE left == patches[t].left \ {j}
    <3>1. left \in SUBSET JobIds /\ patches[t].pc = "remove"
      BY <1>2, <1>4 DEF RemoveJob, PatchPc
    <3>2. [patches[t] EXCEPT !.left = left] = [patches[t] EXCEPT !.pc = "remove", !.left = left]
      BY <1>2, <3>1 DEF PatchRecord
    <3>3. patches' = [patches EXCEPT ![t] = [patches[t] EXCEPT !.left = left]] /\ jobs' = [jobs EXCEPT ![j] = "none"]
      BY <2>1, <2>3
    <3> HIDE DEF left
    <3>4. QED
      BY <1>1, <1>4, <3>1, <3>2, <3>3 DEF left
  <2>4. QED
    BY <2>2, <2>3
<1>5. CASE Removed(t)
  <2> DEFINE left == IF ~settings.on THEN {} ELSE IF Ask(t).model = "global" THEN JobIds
                     ELSE {Ask(t).model} \ settings.disabled
  <2>1. left \in SUBSET JobIds
    BY <1>2, AskFields DEF Ask, JobIds
  <2>2. patches' = [patches EXCEPT ![t] = [patches[t] EXCEPT !.pc = "add", !.left = left]] /\ jobs' = jobs
    BY <1>5 DEF Removed
  <2> HIDE DEF left
  <2>3. QED
    BY <1>1, <1>5, <2>1, <2>2 DEF left
<1>6. CASE AddJob(t)
  <2>1. PICK j \in patches[t].left :
        /\ patches' = [patches EXCEPT ![t].left = @ \ {j}]
        /\ IF j = ExpireJob THEN jobs' = [jobs EXCEPT ![j] = "minutely"]
           ELSE IF j \in settings.disabled /\ Ask(t).model = "global" THEN jobs' = jobs
           ELSE jobs' = [jobs EXCEPT ![j] = EffectiveCron(settings, j)]
    BY <1>6 DEF AddJob
  <2> DEFINE left == patches[t].left \ {j}
  <2>2. left \in SUBSET JobIds /\ patches[t].pc = "add"
    BY <1>2, <1>6 DEF AddJob, PatchPc
  <2>3. [patches[t] EXCEPT !.left = left] = [patches[t] EXCEPT !.pc = "add", !.left = left]
    BY <1>2, <2>2 DEF PatchRecord
  <2>4. patches' = [patches EXCEPT ![t] = [patches[t] EXCEPT !.left = left]]
    BY <2>1
  <2> HIDE DEF left
  <2>5. QED
    BY <1>1, <1>6, <2>1, <2>2, <2>3, <2>4 DEF left
<1>7. CASE Lock(t)
  <2>1. patches[t].left = {} /\ jobs' = jobs
        /\ patches' = [patches EXCEPT ![t] = [patches[t] EXCEPT !.pc = "persist", !.left = Entries]]
        /\ \A u \in Threads : patches[u].pc \notin {"persist", "write"}
    BY <1>7 DEF Lock
  <2>2. Entries \in SUBSET JobIds
    BY DEF Entries, JobIds
  <2>3. QED
    BY <1>1, <1>7, <2>1, <2>2
<1>8. QED
  BY <1>3, <1>4, <1>5, <1>6, <1>7

\* The file is written.
LEMMA PatchWrites ==
    ASSUME ScheduleTyped, NEW t \in Threads, Truncate(t) \/ Write(t)
    PROVE  /\ up /\ up' = up /\ jobs' = jobs /\ settings' = settings /\ patches[t].pc \in {"persist", "write"}
           /\ \E p \in PatchRecord :
                /\ patches' = [patches EXCEPT ![t] = p]
                /\ \/ p.pc = "failed" /\ file' = file
                   \/ patches[t].pc = "persist" /\ p.pc = "write" /\ p.copy = settings /\ file' = Torn
                   \/ patches[t].pc = "write" /\ p.pc = "idle" /\ file' = File(patches[t].copy)
<1>1. up /\ up' = up /\ jobs' = jobs /\ settings' = settings /\ patches[t].pc \in {"persist", "write"}
  BY DEF Truncate, Write, PatchPc, KeptBySchedule
<1>2. /\ patches[t] \in PatchRecord /\ patches \in [Threads -> PatchRecord] /\ settings \in Settings
  BY PatchFields DEF ScheduleTyped
<1>3. CASE Return(t, "failed") /\ file' = file
  <2> DEFINE p == [IdlePatch EXCEPT !.pc = "failed"]
  <2>1. p \in PatchRecord /\ p.pc = "failed"
    BY ScheduleConstants DEF PatchRecord
  <2>2. patches' = [patches EXCEPT ![t] = p] /\ file' = file
    BY <1>3 DEF Return
  <2> HIDE DEF p
  <2>3. QED
    BY <1>1, <2>1, <2>2
<1>4. CASE /\ patches[t].pc = "persist" /\ file' = Torn
           /\ patches' = [patches EXCEPT ![t].pc = "write", ![t].copy = settings]
  <2> DEFINE p == [patches[t] EXCEPT !.pc = "write", !.copy = settings]
  <2>1. p \in PatchRecord /\ p.pc = "write" /\ p.copy = settings
    BY <1>2 DEF PatchRecord
  <2>2. patches' = [patches EXCEPT ![t] = p] /\ file' = Torn /\ patches[t].pc = "persist"
    BY <1>4
  <2> HIDE DEF p
  <2>3. QED
    BY <1>1, <2>1, <2>2
<1>5. CASE Write(t)
  <2> DEFINE p == [IdlePatch EXCEPT !.pc = "idle"]
  <2>1. p \in PatchRecord /\ p.pc = "idle"
    BY ScheduleConstants DEF PatchRecord
  <2>2. patches' = [patches EXCEPT ![t] = p] /\ file' = File(patches[t].copy) /\ patches[t].pc = "write"
    BY <1>5 DEF Write, Return, PatchPc
  <2> HIDE DEF p
  <2>3. QED
    BY <1>1, <2>1, <2>2
<1>6. QED
  BY <1>3, <1>4, <1>5 DEF Truncate, PatchPc

\* A change arrives.
LEMMA PatchComes ==
    ASSUME ScheduleTyped, NEW t \in Threads, NEW ask \in Change, PatchArrives(t, ask)
    PROVE  /\ up /\ up' = up /\ jobs' = jobs /\ settings' = Changed(settings, ask) /\ file' = file
           /\ patches[t].pc \in {"idle", "failed"}
           /\ \E p \in PatchRecord :
                patches' = [patches EXCEPT ![t] = p] /\ p.pc = "list" /\ p.ask = ask
<1> DEFINE p == [IdlePatch EXCEPT !.pc = "list", !.ask = ask]
<1>1. p \in PatchRecord /\ p.pc = "list" /\ p.ask = ask
  BY ScheduleConstants DEF PatchRecord
<1>2. patches' = [patches EXCEPT ![t] = p]
  BY DEF PatchArrives
<1> HIDE DEF p
<1>3. QED
  BY <1>1, <1>2 DEF PatchArrives, KeptBySchedule

\* The types of the schedule.
LEMMA ScheduleTypedStep ==
    ASSUME scene \in Scenes, ScheduleTyped, [Next]_vars PROVE ScheduleTyped'
<1>1. /\ settings \in Settings /\ file \in [whole : BOOLEAN, says : Settings] /\ file.says \in Settings
      /\ jobs \in [JobIds -> Crons \cup {"none", "minutely"}] /\ patches \in [Threads -> PatchRecord]
      /\ scene.threads \subseteq Threads /\ scene.changes \subseteq Change
  BY BacktestConstants DEF ScheduleTyped
<1>2. \A p \in PatchRecord, t \in Threads : [patches EXCEPT ![t] = p] \in [Threads -> PatchRecord]
  BY <1>1
<1>3. [IdlePatch EXCEPT !.pc = "failed"] \in PatchRecord
  BY ScheduleConstants DEF PatchRecord
<1>4. ASSUME NEW t \in scene.threads, ListJobs(t) \/ RemoveJob(t) \/ Removed(t) \/ AddJob(t) \/ Lock(t) PROVE ScheduleTyped'
  <2>1. t \in Threads
    BY <1>1
  <2>2. file' = file /\ settings' = settings
    BY <1>4, <2>1, PatchRebuilds
  <2>3. patches' \in [Threads -> PatchRecord]
    <3>1. ASSUME NEW pc \in {"remove", "add", "persist"}, NEW left \in SUBSET JobIds,
                 patches' = [patches EXCEPT ![t] = [patches[t] EXCEPT !.pc = pc, !.left = left]]
          PROVE  patches' \in [Threads -> PatchRecord]
      <4> DEFINE p == [patches[t] EXCEPT !.pc = pc, !.left = left]
      <4>1. patches[t] \in PatchRecord
        BY <2>1, PatchFields
      <4>2. p \in PatchRecord
        BY <4>1 DEF PatchRecord
      <4> HIDE DEF p
      <4>3. patches' = [patches EXCEPT ![t] = p]
        BY <3>1 DEF p
      <4>4. QED
        BY <1>2, <2>1, <4>2, <4>3
    <3>2. [patches EXCEPT ![t] = [IdlePatch EXCEPT !.pc = "failed"]] \in [Threads -> PatchRecord]
      BY <1>2, <1>3, <2>1
    <3>3. \/ patches' = [patches EXCEPT ![t] = [IdlePatch EXCEPT !.pc = "failed"]]
          \/ \E pc \in {"remove", "add", "persist"}, left \in SUBSET JobIds :
               patches' = [patches EXCEPT ![t] = [patches[t] EXCEPT !.pc = pc, !.left = left]]
      BY ZenonT(60), <1>4, <2>1, PatchRebuilds
    <3>4. QED
      BY <3>1, <3>2, <3>3
  <2>4. \A j \in patches[t].left : j # ExpireJob => EffectiveCron(settings, j) \in Crons
    BY <1>1, <2>1, PatchFields, JobWanted
  <2>5. \/ jobs' = jobs
        \/ \E j \in patches[t].left :
              \/ jobs' = [jobs EXCEPT ![j] = "none"] \/ jobs' = [jobs EXCEPT ![j] = "minutely"]
              \/ j # ExpireJob /\ jobs' = [jobs EXCEPT ![j] = EffectiveCron(settings, j)]
    BY <1>4, <2>1, JobsRebuilt
  <2>6. \A j \in JobIds, c \in Crons \cup {"none", "minutely"} :
           [jobs EXCEPT ![j] = c] \in [JobIds -> Crons \cup {"none", "minutely"}]
    BY <1>1
  <2>7. patches[t].left \subseteq JobIds
    BY <2>1, PatchFields
  <2>8. jobs' \in [JobIds -> Crons \cup {"none", "minutely"}]
    BY <1>1, <2>4, <2>5, <2>6, <2>7
  <2>9. QED
    BY <1>1, <2>2, <2>3, <2>8 DEF ScheduleTyped
<1>5. ASSUME NEW t \in scene.threads, Truncate(t) \/ Write(t) PROVE ScheduleTyped'
  <2>1. t \in Threads /\ patches[t].copy \in Settings
    BY <1>1, PatchFields
  <2>2. Torn \in [whole : BOOLEAN, says : Settings] /\ File(patches[t].copy) \in [whole : BOOLEAN, says : Settings]
    BY <2>1, ScheduleConstants DEF Torn, File
  <2>3. jobs' = jobs /\ settings' = settings /\ patches' \in [Threads -> PatchRecord]
        /\ file' \in [whole : BOOLEAN, says : Settings]
    BY <1>1, <1>2, <1>5, <2>1, <2>2, PatchWrites
  <2>4. QED
    BY <1>1, <2>3 DEF ScheduleTyped
<1>6. ASSUME NEW t \in scene.threads, NEW ask \in scene.changes, PatchArrives(t, ask) PROVE ScheduleTyped'
  <2>1. t \in Threads /\ ask \in Change
    BY <1>1
  <2>2. Changed(settings, ask) \in Settings
    BY <1>1, <2>1, ChangeApart
  <2>3. jobs' = jobs /\ settings' \in Settings /\ file' = file /\ patches' \in [Threads -> PatchRecord]
    BY <1>2, <1>6, <2>1, <2>2, PatchComes
  <2>4. QED
    BY <1>1, <2>3 DEF ScheduleTyped
<1>7. [t \in Threads |-> IdlePatch] \in [Threads -> PatchRecord]
  BY ScheduleConstants
<1>8. CASE ProcessEnds
  BY <1>1, <1>7, <1>8 DEF ProcessEnds, ScheduleTyped
<1>9. CASE StartUp
  <2>1. settings' \in Settings /\ jobs' = JobsOf(settings') /\ file' = file /\ patches' = patches
    BY <1>1, <1>9 DEF StartUp
  <2>2. ExpireJob \in JobIds
    BY DEF JobIds
  <2>3. \A s \in Settings : JobsOf(s) \in [JobIds -> Crons \cup {"none", "minutely"}]
    BY <2>2, JobWanted
  <2>4. QED
    BY <1>1, <2>1, <2>3 DEF ScheduleTyped
<1>10. CASE UNCHANGED <<settings, file, jobs, patches, up>>
  BY <1>10 DEF ScheduleTyped
<1>11. QED
  BY <1>4, <1>5, <1>6, <1>8, <1>9, <1>10, ScheduleSteps DEF PatchSteps

\* The file follows the settings.
LEMMA FileTrueStep ==
    ASSUME scene \in Scenes, ScheduleTyped, FileTrue, [Next]_vars PROVE FileTrue'
<1>1. scene.threads \subseteq Threads /\ scene.changes \subseteq Change
  BY BacktestConstants
<1>2. ASSUME NEW t \in Threads, NEW p \in PatchRecord, patches' = [patches EXCEPT ![t] = p], up, up' = up,
             p.pc \notin {"idle", "write"},
             p.pc = "persist" => \A u \in Threads : patches[u].pc \notin {"persist", "write"}
      PROVE  FileTrue'
  <2>1. patches'[t] = p /\ \A u \in Threads : u # t => patches'[u] = patches[u]
    BY <1>2, PatchReplaced
  <2>2. QED
    BY <1>2, <2>1 DEF FileTrue
<1>3. ASSUME NEW t \in Threads, ListJobs(t) \/ RemoveJob(t) \/ Removed(t) \/ AddJob(t) \/ Lock(t) PROVE FileTrue'
  <2>1. CASE patches' = [patches EXCEPT ![t] = [IdlePatch EXCEPT !.pc = "failed"]]
    <3>1. [IdlePatch EXCEPT !.pc = "failed"] \in PatchRecord /\ [IdlePatch EXCEPT !.pc = "failed"].pc = "failed"
      BY ScheduleConstants DEF PatchRecord
    <3>2. QED
      BY <1>2, <1>3, <2>1, <3>1, PatchRebuilds
  <2>2. ASSUME NEW pc \in {"remove", "add", "persist"}, NEW left \in SUBSET JobIds,
               patches' = [patches EXCEPT ![t] = [patches[t] EXCEPT !.pc = pc, !.left = left]],
               pc = "persist" => \A u \in Threads : patches[u].pc \notin {"persist", "write"}
        PROVE  FileTrue'
    <3> DEFINE p == [patches[t] EXCEPT !.pc = pc, !.left = left]
    <3>1. p \in PatchRecord /\ p.pc = pc
      <4>1. patches[t] \in PatchRecord
        BY PatchFields
      <4>2. QED
        BY <4>1 DEF PatchRecord
    <3> HIDE DEF p
    <3>2. patches' = [patches EXCEPT ![t] = p] /\ up /\ up' = up
      BY <1>3, <2>2, PatchRebuilds DEF p
    <3>3. QED
      BY <1>2, <2>2, <3>1, <3>2
  <2>3. QED
    BY <1>3, <2>1, <2>2, PatchRebuilds
<1>4. ASSUME NEW t \in Threads, Truncate(t) \/ Write(t) PROVE FileTrue'
  <2>1. /\ up /\ up' = up /\ settings' = settings /\ patches[t].pc \in {"persist", "write"}
        /\ \A u \in Threads : u # t => patches[u].pc \notin {"persist", "write"}
    BY <1>4, PatchWrites DEF FileTrue
  <2>2. PICK p \in PatchRecord :
                /\ patches' = [patches EXCEPT ![t] = p]
                /\ \/ p.pc = "failed" /\ file' = file
                   \/ patches[t].pc = "persist" /\ p.pc = "write" /\ p.copy = settings /\ file' = Torn
                   \/ patches[t].pc = "write" /\ p.pc = "idle" /\ file' = File(patches[t].copy)
    BY <1>4, PatchWrites
  <2>3. patches'[t] = p /\ \A u \in Threads : u # t => patches'[u] = patches[u]
    BY <2>2, PatchReplaced
  <2>4. CASE p.pc = "failed"
    BY <1>2, <2>1, <2>2, <2>4
  <2>5. CASE patches[t].pc = "persist" /\ p.pc = "write" /\ p.copy = settings
    BY <2>1, <2>3, <2>5 DEF FileTrue
  <2>6. CASE patches[t].pc = "write" /\ p.pc = "idle" /\ file' = File(patches[t].copy)
    <3>1. (\A u \in Threads : patches'[u].pc \in {"idle", "write"}) => patches[t].copy = settings
      BY <2>1, <2>3, <2>6 DEF FileTrue
    <3>2. file'.says = patches[t].copy
      BY <2>6 DEF File
    <3>3. QED
      BY <2>1, <2>3, <2>6, <3>1, <3>2 DEF FileTrue
  <2>7. QED
    BY <2>2, <2>4, <2>5, <2>6
<1>5. ASSUME NEW t \in Threads, NEW ask \in Change, PatchArrives(t, ask) PROVE FileTrue'
  <2>1. PICK p \in PatchRecord : patches' = [patches EXCEPT ![t] = p] /\ p.pc = "list"
    BY <1>5, PatchComes
  <2>2. up /\ up' = up
    BY <1>5, PatchComes
  <2>3. QED
    BY <1>2, <2>1, <2>2
<1>6. CASE ProcessEnds
  BY <1>6 DEF ProcessEnds, FileTrue, IdlePatch
<1>7. CASE StartUp
  BY <1>7 DEF StartUp, FileTrue
<1>8. CASE UNCHANGED <<settings, file, jobs, patches, up>>
  BY <1>8 DEF FileTrue
<1>9. QED
  BY <1>1, <1>3, <1>4, <1>5, <1>6, <1>7, <1>8, ScheduleSteps DEF PatchSteps

\* The jobs follow the settings, where one thread changes the schedule.
LEMMA JobsTrueStep ==
    ASSUME Scheduled, [Next]_vars, NEW t \in Threads, up', scene.threads = {t}
    PROVE  JobsTrue(t)'
<1>1. /\ scene \in Scenes /\ scene.changes \subseteq Change /\ ScheduleTyped /\ FileTrue /\ (up => JobsTrue(t))
      /\ settings \in Settings /\ jobs \in [JobIds -> Crons \cup {"none", "minutely"}]
      /\ patches[t] \in PatchRecord /\ patches[t].ask \in Change /\ patches[t].left \subseteq JobIds
  BY BacktestConstants, PatchFields DEF Scheduled, ScheduleTyped
<1>2. Affected(patches[t].ask) \subseteq JobIds
  BY <1>1, AskFields
<1>3. CASE ListJobs(t)
  <2>1. PICK left \in SUBSET JobIds :
          /\ patches' = [patches EXCEPT ![t] = [patches[t] EXCEPT !.pc = "remove", !.left = left]] /\ jobs' = jobs
          /\ left = {j \in JobIds : jobs[j] # "none" /\ Ask(t).model \in {"global", j}}
    BY <1>1, <1>3 DEF ListJobs
  <2> DEFINE p == [patches[t] EXCEPT !.pc = "remove", !.left = left]
  <2>2. p \in PatchRecord /\ p.pc = "remove" /\ p.left = left /\ p.ask = patches[t].ask
    BY <1>1 DEF PatchRecord
  <2> HIDE DEF p
  <2>3. patches'[t] = p
    BY <1>1, <2>1, <2>2, PatchReplaced DEF p
  <2>4. settings' = settings /\ up /\ patches[t].pc = "list"
    BY <1>3 DEF ListJobs, PatchPc
  <2>5. \A j \in JobIds : j \in Affected(patches[t].ask) <=> Ask(t).model \in {"global", j}
    BY DEF Affected, Ask
  <2>6. left \subseteq Affected(patches[t].ask) /\ \A j \in Affected(patches[t].ask) : jobs[j] # "none" <=> j \in left
    BY <1>2, <2>1, <2>5
  <2>7. QED
    BY <1>1, <2>1, <2>2, <2>3, <2>4, <2>6 DEF JobsTrue, Rebuilding
<1>4. CASE RemoveJob(t)
  <2>1. patches[t].pc = "remove" /\ up /\ settings' = settings /\ patches[t].left \subseteq Affected(patches[t].ask)
        /\ \A j \in Affected(patches[t].ask) : jobs[j] # "none" <=> j \in patches[t].left
    BY <1>1, <1>2, <1>4 DEF RemoveJob, PatchPc, JobsTrue, Rebuilding
  <2>2. PICK i \in patches[t].left : patches' = [patches EXCEPT ![t].left = @ \ {i}] /\ jobs' = [jobs EXCEPT ![i] = "none"]
    BY <1>4, <2>1 DEF RemoveJob
  <2> DEFINE left == patches[t].left \ {i}
             p == [patches[t] EXCEPT !.left = left]
  <2>3. p \in PatchRecord /\ p.pc = "remove" /\ p.left = left /\ p.ask = patches[t].ask
    <3>1. left \subseteq JobIds
      BY <1>1
    <3> HIDE DEF left
    <3>2. QED
      BY <1>1, <2>1, <3>1 DEF PatchRecord
  <2> HIDE DEF p
  <2>4. patches'[t] = p
    BY <1>1, <2>2, <2>3, PatchReplaced DEF p
  <2>5. jobs'[i] = "none" /\ i \in Affected(patches[t].ask) /\ \A j \in JobIds : j # i => jobs'[j] = jobs[j]
    BY <1>1, <2>1, <2>2
  <2>6. QED
    BY <1>1, <2>1, <2>2, <2>3, <2>4, <2>5 DEF JobsTrue, Rebuilding
<1>5. CASE Removed(t)
  <2>1. PICK left \in SUBSET JobIds :
          /\ patches' = [patches EXCEPT ![t] = [patches[t] EXCEPT !.pc = "add", !.left = left]] /\ jobs' = jobs
          /\ left = IF ~settings.on THEN {} ELSE IF Ask(t).model = "global" THEN JobIds
                    ELSE {Ask(t).model} \ settings.disabled
    <3>1. /\ patches' = [patches EXCEPT ![t] = [patches[t] EXCEPT !.pc = "add",
                !.left = IF ~settings.on THEN {} ELSE IF Ask(t).model = "global" THEN JobIds
                         ELSE {Ask(t).model} \ settings.disabled]]
          /\ jobs' = jobs
      BY <1>5 DEF Removed
    <3>2. (IF ~settings.on THEN {} ELSE IF Ask(t).model = "global" THEN JobIds
             ELSE {Ask(t).model} \ settings.disabled) \in SUBSET JobIds
      BY <1>1, AskFields DEF Ask, JobIds
    <3>3. QED
      BY <3>1, <3>2
  <2> DEFINE p == [patches[t] EXCEPT !.pc = "add", !.left = left]
  <2>2. p \in PatchRecord /\ p.pc = "add" /\ p.left = left /\ p.ask = patches[t].ask
    BY <1>1 DEF PatchRecord
  <2> HIDE DEF p
  <2>3. patches'[t] = p
    BY <1>1, <2>1, <2>2, PatchReplaced DEF p
  <2>4. settings' = settings /\ up /\ patches[t].pc = "remove" /\ patches[t].left = {}
    BY <1>5 DEF Removed, PatchPc
  <2>5. \A j \in Affected(patches[t].ask) : jobs[j] = "none"
    BY <1>1, <1>2, <2>4 DEF JobsTrue, Rebuilding
  <2>6. left \subseteq Affected(patches[t].ask)
        /\ (left = {} \/ (settings.on /\ (Ask(t).model = "global" \/ Ask(t).model \notin settings.disabled)))
    BY <2>1 DEF Affected, Ask
  <2>7. ASSUME NEW j \in Affected(patches[t].ask), j \notin left PROVE JobsOf(settings)[j] = "none"
    <3>1. j \in JobIds /\ settings.on \in BOOLEAN
      BY <1>1, <1>2, JobWanted
    <3>2. ~settings.on \/ (j \in settings.disabled /\ j # ExpireJob)
      <4>1. settings.disabled \subseteq Models
        BY <1>1, <3>1, JobWanted
      <4>2. settings.on => j = Ask(t).model /\ j \in settings.disabled
        BY <2>1, <2>7, <3>1 DEF Affected, Ask
      <4>3. QED
        BY <4>1, <4>2, ScheduleConstants
    <3>3. QED
      BY <1>1, <3>1, <3>2, JobWanted
  <2>8. QED
    BY <1>1, <1>2, <2>1, <2>2, <2>3, <2>4, <2>5, <2>6, <2>7 DEF JobsTrue, Rebuilding, Ask
<1>6. CASE AddJob(t)
  <2>1. /\ patches[t].pc = "add" /\ up /\ settings' = settings /\ patches[t].left \subseteq Affected(patches[t].ask)
        /\ \A j \in Affected(patches[t].ask) :
             jobs[j] = IF j \in patches[t].left THEN "none" ELSE JobsOf(settings)[j]
        /\ patches[t].left = {} \/ (settings.on /\ (patches[t].ask.model = "global" \/ patches[t].ask.model \notin settings.disabled))
    BY <1>1, <1>2, <1>6 DEF AddJob, PatchPc, JobsTrue, Rebuilding
  <2>2. PICK i \in patches[t].left :
        /\ patches' = [patches EXCEPT ![t].left = @ \ {i}]
        /\ IF i = ExpireJob THEN jobs' = [jobs EXCEPT ![i] = "minutely"]
           ELSE IF i \in settings.disabled /\ Ask(t).model = "global" THEN jobs' = jobs
           ELSE jobs' = [jobs EXCEPT ![i] = EffectiveCron(settings, i)]
    BY <1>6 DEF AddJob
  <2> DEFINE left == patches[t].left \ {i}
             p == [patches[t] EXCEPT !.left = left]
  <2>3. p \in PatchRecord /\ p.pc = "add" /\ p.left = left /\ p.ask = patches[t].ask
    <3>1. left \subseteq JobIds
      BY <1>1
    <3> HIDE DEF left
    <3>2. QED
      BY <1>1, <2>1, <3>1 DEF PatchRecord
  <2>4. patches' = [patches EXCEPT ![t] = p]
    BY <2>2
  <2> HIDE DEF p
  <2>5. patches'[t] = p
    BY <1>1, <2>3, <2>4, PatchReplaced
  <2>6. i \in JobIds /\ i \in Affected(patches[t].ask) /\ settings.on /\ jobs[i] = "none"
        /\ (patches[t].ask.model = "global" \/ (i = patches[t].ask.model /\ i \notin settings.disabled))
    BY <1>1, <1>2, <2>1, <2>2 DEF Affected
  <2>7. jobs'[i] = JobsOf(settings)[i]
    <3>1. CASE i = ExpireJob
      BY <1>1, <2>2, <2>6, <3>1, JobWanted
    <3>2. CASE i # ExpireJob /\ i \in settings.disabled
      BY <1>1, <2>2, <2>6, <3>2, JobWanted DEF Ask
    <3>3. CASE i # ExpireJob /\ i \notin settings.disabled
      BY <1>1, <2>2, <2>6, <3>3, JobWanted
    <3>4. QED
      BY <3>1, <3>2, <3>3
  <2>8. \A j \in JobIds : j # i => jobs'[j] = jobs[j]
    BY <1>1, <2>2, <2>6
  <2>9. QED
    BY <1>1, <1>2, <2>1, <2>3, <2>5, <2>6, <2>7, <2>8 DEF JobsTrue, Rebuilding
<1>7. ASSUME patches[t].pc \in {"persist", "write", "idle", "failed"} \/ (patches[t].pc = "add" /\ patches[t].left = {}),
             up, ~Rebuilding(patches'[t]), jobs' = jobs, settings' = settings
      PROVE  JobsTrue(t)'
  <2>1. \A j \in JobIds : jobs[j] = JobsOf(settings)[j]
    BY <1>1, <1>2, <1>7 DEF JobsTrue, Rebuilding
  <2>2. QED
    BY <1>7, <2>1 DEF JobsTrue, Rebuilding
<1>8. CASE Lock(t)
  <2>1. up /\ patches[t].pc = "add" /\ patches[t].left = {} /\ patches'[t].pc = "persist" /\ jobs' = jobs /\ settings' = settings
    BY <1>1, <1>8 DEF Lock, PatchPc, ScheduleTyped, PatchRecord
  <2>2. QED
    BY <1>7, <2>1 DEF Rebuilding
<1>9. CASE Truncate(t) \/ Write(t)
  <2>1. PICK p \in PatchRecord : patches' = [patches EXCEPT ![t] = p] /\ p.pc \in {"failed", "write", "idle"}
    BY <1>1, <1>9, PatchWrites
  <2>2. patches'[t] = p /\ up /\ jobs' = jobs /\ settings' = settings /\ patches[t].pc \in {"persist", "write"}
    BY <1>1, <1>9, <2>1, PatchWrites, PatchReplaced
  <2>3. QED
    BY <1>7, <2>1, <2>2 DEF Rebuilding
<1>10. ASSUME NEW ask \in Change, PatchArrives(t, ask) PROVE JobsTrue(t)'
  <2>1. PICK p \in PatchRecord : patches' = [patches EXCEPT ![t] = p] /\ p.pc = "list" /\ p.ask = ask
    BY <1>1, <1>10, PatchComes
  <2>2. patches'[t] = p /\ up /\ jobs' = jobs /\ settings' = Changed(settings, ask) /\ patches[t].pc \in {"idle", "failed"}
    BY ZenonT(60), <1>1, <1>10, <2>1, PatchComes, PatchReplaced
  <2>3. \A j \in JobIds : jobs[j] = JobsOf(settings)[j]
    BY <1>1, <2>2 DEF JobsTrue, Rebuilding
  <2>4. \A j \in JobIds : j \notin Affected(ask) => jobs[j] = JobsOf(settings')[j]
    BY <1>1, <2>2, <2>3, ChangeApart
  <2>5. QED
    BY <2>1, <2>2, <2>4 DEF JobsTrue, Rebuilding, Affected, JobsOf, Enabled, EffectiveCron
<1>11. CASE StartUp
  <2>1. jobs' = JobsOf(settings') /\ patches' = patches /\ patches[t].pc = "idle"
    BY <1>1, <1>11 DEF StartUp, FileTrue
  <2>2. QED
    BY <2>1 DEF JobsTrue, Rebuilding
<1>12. CASE UNCHANGED <<settings, file, jobs, patches, up>>
  BY <1>1, <1>12 DEF JobsTrue, Rebuilding, Affected, JobsOf, Enabled, EffectiveCron
<1>13. QED
  BY <1>1, <1>3, <1>4, <1>5, <1>6, <1>8, <1>9, <1>10, <1>11, <1>12, ScheduleSteps DEF PatchSteps, ProcessEnds

\* All of it holds throughout.
LEMMA ScheduledAlways == Spec => []Scheduled
<1>1. Start => Scheduled
  <2> SUFFICES ASSUME Start PROVE Scheduled
    OBVIOUS
  <2>1. /\ scene \in Scenes /\ file = File(DefaultSettings) /\ settings = DefaultSettings /\ ~up
        /\ jobs = [j \in JobIds |-> "none"] /\ patches = [t \in Threads |-> IdlePatch]
    BY DEF Start, Init
  <2>2. File(DefaultSettings) \in [whole : BOOLEAN, says : Settings]
    BY ScheduleConstants DEF File
  <2>3. ScheduleTyped
    BY <2>1, <2>2, ScheduleConstants DEF ScheduleTyped
  <2>4. FileTrue
    BY <2>1 DEF FileTrue, IdlePatch
  <2>5. QED
    BY <2>1, <2>3, <2>4 DEF Scheduled
<1>2. Scheduled /\ [Next]_vars => Scheduled'
  <2> SUFFICES ASSUME Scheduled, [Next]_vars PROVE Scheduled'
    OBVIOUS
  <2>1. scene' = scene /\ scene \in Scenes
    BY EventLoopScene DEF Scheduled
  <2>2. ScheduleTyped' /\ FileTrue'
    BY ScheduleTypedStep, FileTrueStep DEF Scheduled
  <2>3. \A t \in Threads : up' /\ scene.threads = {t} => JobsTrue(t)'
    BY JobsTrueStep
  <2>4. QED
    BY <2>1, <2>2, <2>3 DEF Scheduled
<1>3. QED
  BY <1>1, <1>2, PTL DEF Spec

\* A PATCH that has been answered is in force and in the file: with nothing in
\* progress and no request failed, the file says what the settings in memory
\* say, however the requests interleaved and wherever the process ended, and the
\* jobs are those that the settings ask for where one thread changes them
\* (update_global, update_model, _persist_overrides; docs/api-handover.md:94).
THEOREM ScheduleIsInForce == Spec => []ScheduleFollowsSettings
<1>1. Scheduled => ScheduleFollowsSettings
  <2> SUFFICES ASSUME Scheduled PROVE ScheduleFollowsSettings
    OBVIOUS
  <2>1. FileFollowsSettings
    BY DEF Scheduled, FileTrue, FileFollowsSettings
  <2>2. ASSUME up, Cardinality(scene.threads) = 1, \A t \in Threads : patches[t].pc \in {"idle", "failed"}
        PROVE  jobs = JobsOf(settings)
    <3>1. scene.threads \subseteq Threads /\ IsFiniteSet(Threads)
      BY BacktestAssumption, BacktestConstants DEF Scheduled
    <3>2. IsFiniteSet(scene.threads)
      BY <3>1, FS_Subset
    <3>3. PICK t : scene.threads = {t}
      BY <2>2, <3>2, FS_Singleton
    <3>4. t \in Threads /\ JobsTrue(t)
      BY <2>2, <3>1, <3>3 DEF Scheduled
    <3>5. \A j \in JobIds : jobs[j] = JobsOf(settings)[j]
      BY <2>2, <3>4 DEF JobsTrue, Rebuilding
    <3>6. jobs = [j \in JobIds |-> jobs[j]] /\ JobsOf(settings) = [j \in JobIds |-> JobsOf(settings)[j]]
      BY DEF Scheduled, ScheduleTyped, JobsOf
    <3>7. QED
      BY <3>5, <3>6
  <2>3. QED
    BY <2>1, <2>2 DEF ScheduleFollowsSettings, JobsFollowSettings
<1>2. QED
  BY <1>1, ScheduledAlways, PTL

=============================================================================
