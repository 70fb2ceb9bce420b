------------------------------- MODULE BarClose -------------------------------
(***************************************************************************)
(* The bar-close scheduler (alphaTrade/scheduler/bar_close.py): one task   *)
(* per interval that computes the next close, sleeps until a margin after  *)
(* it and calls the tick.  Time is a whole number of units; a task's timer *)
(* fires in its unit unless something holds the event loop.                *)
(***************************************************************************)
EXTENDS Integers, FiniteSets

CONSTANTS
    Period,         \* length of an intraday bar
    Margin,         \* _SAFETY_MARGIN
    Day,            \* length of a day
    MarketOpen, MarketClose,    \* hours of a session, within a day
    Sessions,       \* the days with a session
    Fridays,        \* those of them that are Fridays
    Horizon         \* bound: when time ends

ASSUME BarCloseAssumption ==
    /\ Period \in Nat \ {0} /\ Margin \in 0..(Period - 1) /\ Day \in Nat /\ Period <= Day
    /\ MarketOpen \in Nat /\ MarketClose \in (MarketOpen + 1)..Day
    /\ Sessions \subseteq Nat /\ Fridays \subseteq Sessions /\ Horizon \in Nat

VARIABLES
    now,
    hours,      \* "regular", "extended" (defaults.extended_hours), or "unknown": the
                \* calendar of the exchange cannot be had
    sleeper,    \* sleeper[i]: the task of an interval
    stopping,   \* stop_event
    lastTick,   \* lastTick[i]: the last close that a tick was called for
    answered    \* answered[i]: the closes that a tick was called for, those that were
                \* skipped because the market was closed when the task woke up, and
                \* those at which the tick before had not returned or the task was
                \* kept from waking up

clockVars == <<now, hours, sleeper, stopping, lastTick, answered>>

BarIntervals == {"intraday", "daily", "weekly"}
MarketIsOpen(t) ==
    \/ hours = "unknown"       \* fails open
    \/ t \div Day \in Sessions /\ t % Day >= MarketOpen /\ t % Day < MarketClose

-----------------------------------------------------------------------------
\* Mutant: the margin counts as part of the next bar
NextIntradayRounded(t) == ((t + Margin) \div Period + 1) * Period

\* The close after t; the wait adds the margin
NextIntradayClose(t) == (t \div Period + 1) * Period

Closes(days) == {d * Day + MarketClose : d \in days}
First(S) == CHOOSE c \in S : \A d \in S : c <= d

\* Mutant: a close may be found again at the very end of its margin
NextSessionAgain(days, reach, length, t) == First({c \in Closes(days) : c + Margin >= t})

\* The first close of these days, from today on and within reach, that with its
\* margin lies after t; without one, the end of a bar of this length
NextSessionClose(days, reach, length, t) ==
    LET ahead == {c \in Closes(days) : /\ c + Margin > t
                                       /\ c \div Day \in (t \div Day)..(t \div Day + reach - 1)} IN
    IF hours = "unknown" \/ ahead = {} THEN (t \div length + 1) * length ELSE First(ahead)

NextClose(i, t) ==
    CASE i = "intraday" -> NextIntradayClose(t)
      [] i = "daily" -> NextSessionClose(Sessions, 10, Day, t)
      [] i = "weekly" -> NextSessionClose(Fridays, 14, 7 * Day, t)

\* The closes that an interval ought to see
ClosesOf(i) ==
    LET multiples(n) == {k * n : k \in 0..Horizon} IN
    CASE i = "intraday" -> multiples(Period)
      [] i = "daily" -> IF hours = "unknown" THEN multiples(Day) ELSE Closes(Sessions)
      [] i = "weekly" -> IF hours = "unknown" THEN multiples(7 * Day) ELSE Closes(Fridays)

-----------------------------------------------------------------------------
ClockInit ==
    /\ now \in 0..(Period - 1) /\ hours \in {"regular", "extended", "unknown"}
    /\ sleeper = [i \in BarIntervals |-> [pc |-> "top", close |-> 0]]
    /\ stopping = FALSE
    /\ lastTick = [i \in BarIntervals |-> 0]
    /\ answered = [i \in BarIntervals |-> {}]

Put(i, pc, close) == sleeper' = [sleeper EXCEPT ![i] = [pc |-> pc, close |-> close]]

\* The top of the loop: stop, or find the next close and sleep
GoToSleep(i) ==
    /\ sleeper[i].pc = "top"
    /\ IF stopping THEN Put(i, "done", 0) ELSE Put(i, "sleep", NextClose(i, now))
    /\ UNCHANGED <<now, hours, stopping, lastTick, answered>>

\* Has the wait of the task timed out?
Overdue(i) == sleeper[i].pc = "sleep" /\ now >= sleeper[i].close + Margin

StopsAsleep(i) ==
    /\ sleeper[i].pc = "sleep" /\ stopping
    /\ Put(i, "done", 0)
    /\ UNCHANGED <<now, hours, stopping, lastTick, answered>>

\* The wait is over: outside market hours an intraday tick is skipped,
\* unless it is asked for
Wake(i) ==
    /\ Overdue(i)
    /\ IF i = "intraday" /\ hours # "extended" /\ ~MarketIsOpen(now)
       THEN Put(i, "top", 0) /\ lastTick' = lastTick
       ELSE Put(i, "tick", sleeper[i].close) /\ lastTick' = [lastTick EXCEPT ![i] = sleeper[i].close]
    /\ answered' = [answered EXCEPT ![i] = @ \cup {sleeper[i].close}]
    /\ UNCHANGED <<now, hours, stopping>>

\* The tick returns whenever it likes
TickReturns(i) ==
    /\ sleeper[i].pc = "tick"
    /\ Put(i, "top", 0)
    /\ UNCHANGED <<now, hours, stopping, lastTick, answered>>

\* SIGTERM: run() ends when every task has returned
SignalStop ==
    /\ ~stopping
    /\ stopping' = TRUE
    /\ UNCHANGED <<now, hours, sleeper, lastTick, answered>>

TaskSteps(i) == GoToSleep(i) \/ StopsAsleep(i) \/ Wake(i) \/ TickReturns(i)

\* One unit passes; while the loop is free no task that could go on is left
\* behind, only ticks take time
TimePasses(free) ==
    /\ now < Horizon
    /\ free => \A i \in BarIntervals : sleeper[i].pc # "top" /\ ~Overdue(i)
    /\ now' = now + 1
    /\ answered' = [i \in BarIntervals |->
           IF now + 1 \in ClosesOf(i) /\ (sleeper[i].pc # "sleep" \/ Overdue(i))
           THEN answered[i] \cup {now + 1} ELSE answered[i]]
    /\ UNCHANGED <<hours, sleeper, stopping, lastTick>>
=============================================================================
