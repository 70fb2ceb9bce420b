------------------------------- MODULE EventLoop -------------------------------
(***************************************************************************)
(* The backtests, their scheduler and the bar-close tasks on the one event *)
(* loop of the process, with the worker threads of the API beside it, and  *)
(* what must hold of them.                                                 *)
(***************************************************************************)
EXTENDS BacktestSchedule, BarClose

backtestVars == <<databaseVars, scheduleVars, loopVars, environmentVars>>
vars == <<backtestVars, clockVars>>

\* What happens of itself: a backtest comes to its end, what waits for the loop
\* gets it, threads are served, a process that ended is started again
BacktestProgress ==
    \/ RunSteps
    \/ \E t \in scene.threads : PatchSteps(t)
    \/ \E m \in Models : Submit(m)
    \/ StartUp

\* What is asked for, or befalls the process
BacktestEvents ==
    \/ \E models \in scene.triggers : Trigger(models)
    \/ \E t \in scene.threads, ask \in scene.changes : PatchArrives(t, ask)
    \/ \E c \in Crons : Night(c)
    \/ ProcessEnds

\* Tasks of the intervals: they wake up, ticks return
TaskProgress == scene.clock # {} /\ LoopFree /\ \E i \in BarIntervals : TaskSteps(i)

ClockEvents == scene.clock # {} /\ up /\ ((LoopFree /\ SignalStop) \/ TimePasses(LoopFree))

Progress ==
    \/ BacktestProgress /\ UNCHANGED clockVars
    \/ TaskProgress /\ UNCHANGED backtestVars

Next ==
    \/ Progress
    \/ BacktestEvents /\ UNCHANGED clockVars
    \/ ClockEvents /\ UNCHANGED backtestVars

\* Nothing is said of which step comes next: that one of them comes is enough
Fairness == WF_vars(Progress)

\* The phase of the clock matters only where the clock takes part
Start == Init /\ ClockInit /\ (IF scene.clock = {} THEN now = 0 /\ hours = "regular" ELSE hours \in scene.clock)

Spec == Start /\ [][Next]_vars /\ Fairness

-----------------------------------------------------------------------------
RunIds == DOMAIN runs
Statuses == {"queued", "running", "done", "failed"}
Settled(r) == r \in RunIds /\ runs[r].status \in {"done", "failed"}

\* Every variable has its type
TypeOK ==
    /\ \A r \in RunIds : /\ runs[r].status \in Statuses /\ runs[r].trades \in [Models -> Nat]
                         /\ \A m \in Models : runs[r].rows[m].count \in Nat
    /\ settings \in Settings /\ file \in [whole : BOOLEAN, says : Settings]
    /\ jobs \in [JobIds -> Crons \cup {"none", "minutely"}]
    /\ due \in [Models -> {"no", "now", "late"}]
    /\ loop.run \in 0..Len(runs) /\ (loop.status = "ran" => loop.saved <= loop.found)
    /\ sim.i \in 0..(Len(sim.bars) + 1)
    /\ \A k \in DOMAIN ready : ready[k].job => ready[k].model \in Models
    /\ now \in 0..Horizon /\ hours \in {"regular", "extended", "unknown"} /\ stopping \in BOOLEAN
    /\ \A i \in BarIntervals : lastTick[i] \in 0..Horizon /\ answered[i] \subseteq 0..Horizon

\* The plain answer of the levels on bar b
Reached(p, b) == CheckSlTp(p, sim.bars[b].high, sim.bars[b].low)
PositionOf(t) == [side |-> t.side, price |-> t.price, bar |-> t.entry]

\* A position does not survive a bar whose range reaches its stop or its target,
\* and is closed at a level only by a bar that reaches it, at the stop when the
\* bar reaches both; the delay of the bracket is the only exception
\* (_check_sl_tp, _check_sl_tp_with_lag and the order of the steps of the loop).
LevelsHonoured ==
    LET survived(p, last) == \A b \in p.bar..last : b \in sim.delayed \/ Reached(p, b) = "NONE" IN
    /\ \A k \in DOMAIN sim.trades :
        LET t == sim.trades[k]
            p == PositionOf(t) IN
        /\ survived(p, t.exit - 1)
        /\ t.reason \in {"SL", "TP"} =>
            \/ Reached(p, t.exit) = t.reason
            \/ t.exit \in sim.delayed /\ Reached(p, t.exit) # "NONE"
    /\ sim.position # Flat => survived(sim.position, sim.i - 1)

\* One position at a time, and never one that looks ahead: each trade begins
\* after the one before has ended, ends at its beginning or later, and no trade
\* is lost from the result (_run_single_model).
TradesInSequence ==
    /\ \A k \in DOMAIN sim.trades :
        /\ sim.trades[k].entry <= sim.trades[k].exit /\ sim.trades[k].exit <= Len(sim.bars)
        /\ k > 1 => sim.trades[k - 1].exit < sim.trades[k].entry
    /\ sim.position # Flat =>
        \A k \in DOMAIN sim.trades : sim.trades[k].exit < sim.position.bar

\* A model's row of a run agrees with the trades saved for it, and a run that is
\* done has the row of each of its models unless a commit failed: in no order of
\* outcomes of the models, failures and restarts does a run look complete that is
\* not (run_backtest, BacktestRepo).
RowsTrue ==
    \A r \in RunIds :
        /\ \A m \in Models :
            LET row == runs[r].rows[m] IN
            /\ row.status = "ran" => row.count = runs[r].trades[m]
            /\ row.status \in {"no_data", "failed"} => row.count = 0
        /\ runs[r].status = "done" /\ ~runs[r].hurt =>
            \A k \in DOMAIN runs[r].models : runs[r].rows[runs[r].models[k]].status # "none"

\* A run that is done or failed stays so, whatever the tasks that wait for the
\* loop, failing commits and the reset at start-up do (update_status,
\* reset_interrupted)
SettledStaysSettled ==
    [][\A r \in RunIds : Settled(r) => runs'[r].status = runs[r].status]_vars

\* Every run that is asked for ends done or failed, across restarts, provided
\* that the database takes the commits
AllSettled == \A r \in RunIds : Settled(r)
EveryRunSettles == (scene.faults = 0 /\ ~AllSettled) ~> AllSettled

JobsFollowSettings ==
    up /\ Cardinality(scene.threads) = 1 /\ (\A t \in Threads : patches[t].pc \in {"idle", "failed"}) =>
        jobs = JobsOf(settings)

FileFollowsSettings ==
    up /\ (\A t \in Threads : patches[t].pc = "idle") =>
        file.says = settings

\* A PATCH that has been answered is in force and in the file: with nothing in
\* progress and no request failed, the file says what the settings in memory
\* say, however the requests interleaved and wherever the process ended (a file
\* left empty stands for the defaults), and the jobs are those that they ask for;
\* concurrent changes are left out of the latter (update_global, update_model,
\* _persist_overrides; docs/api-handover.md:94).
ScheduleFollowsSettings == FileFollowsSettings /\ JobsFollowSettings

-----------------------------------------------------------------------------
\* Since its task first slept, every close of an interval got its tick, unless
\* the tick before was still running, something held the event loop past the
\* margin, or the market was closed when the task woke up.  No close is lost to
\* the arithmetic of closes and margins, at any phase (next_bar_close,
\* schedule_bar_close).
EveryCloseServed ==
    up => \A i \in BarIntervals :
        \A c \in ClosesOf(i) :
            c > Period /\ c + Margin < now /\ sleeper[i].pc # "done" =>
                c \in answered[i] \/ (Overdue(i) /\ sleeper[i].close = c)

\* No close is served twice, and none after a later one
OnlyLaterCloses ==
    [][\A i \in BarIntervals : sleeper[i].pc # "tick" /\ sleeper'[i].pc = "tick" =>
        lastTick[i] < sleeper'[i].close]_vars
=============================================================================
