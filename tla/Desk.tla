--------------------------------- MODULE Desk ---------------------------------
(***************************************************************************)
(* What the ticks, the API and the closing trades do to the settings, the  *)
(* models and the alerts: the parts of a tick before and around its orders *)
(* (make_tick), which TradingCore leaves out, composed with the settings,  *)
(* the retirement of models, the registry of models and the alert manager. *)
(***************************************************************************)
EXTENDS Retirement, Alerting

CONSTANTS
    Intervals,
    IntervalOf, \* IntervalOf[m]: the interval of model m
    Short,      \* intervals that may tick again within the 60 s of a refresh
    Scenes      \* what is examined together, see Scene

\* The bounds and the inputs of a scene
Scene == [
    rows : SUBSET [Fields -> Values],   \* the row of bot_settings at first
    ticking : SUBSET Intervals,
    asks : SUBSET (Fields \X Values),   \* what a PATCH of the settings asks for
    switches : SUBSET (Models \X {0, 1, None}), \* PUT and DELETE of a model's override
    pnls : SUBSET Int,                  \* outcomes of trades
    losses : SUBSET Nat,                \* losses since the day's open, in thousandths
    patches : Nat, trades : Nat, unretires : Nat, flips : Nat, moves : Nat,
    faults : Nat, misses : Nat, crashes : Nat, stops : Nat]

ASSUME DeskAssumption ==
    /\ IsFiniteSet(Models) /\ "none" \notin Models /\ "loop" \notin Threads
    /\ MinTrades \in Nat \ {0} /\ QueueMax \in Nat \ {0}
    /\ IntervalOf \in [Models -> Intervals] /\ Short \subseteq Intervals
    /\ Yaml \in [Fields -> Values] /\ \A f \in Fields : Yaml[f] # None
    /\ Own \in [Models -> [{"enabled", "lookback"} -> Values]]
    /\ Scenes \subseteq Scene

VARIABLES
    phase,      \* "down", "run" or "closing"; how it ended last: "clean" or "forced"
    ending,
    own,        \* own[m]: is m enabled? by the row of model_override, None without
    loaded,     \* the models in the registry
    ticks,      \* ticks[i]: the tick of interval i and what its closure keeps
    halted,     \* the kill switch
    loss,       \* the loss since the day's open
    opened,     \* has the day an equity row?
    heard,      \* heard[i]: the changes of the loss level that the ticks of i saw
    told,       \* told[i]: the alerts about it that they raised
    overdue,    \* overdue[m]: how many ticks in a row used m after it was retired or disabled
    budget,     \* how often each bounded event may still happen
    scene       \* never changes

marketVars == <<halted, loss, opened>>
tickVars == <<own, loaded, ticks, heard, told, overdue>>
processVars == <<phase, ending, scene>>
vars == <<settingsVars, retirementVars, alerts, marketVars, tickVars, processVars, budget>>

NewTick == [pc |-> "idle", fresh |-> FALSE, kill |-> FALSE, warn |-> FALSE, halt |-> FALSE]

LoopFree == phase = "run" /\ Serving("loop", "idle") /\ Closing("none")
Spend(what) == budget[what] > 0 /\ budget' = [budget EXCEPT ![what] = @ - 1]

-----------------------------------------------------------------------------
\* _merge_overrides: the row over the file, in which every model is enabled
Enabled(m) == own[m] # 0
Retired(m) == perf[m].retired

\* Mutant: the registry does not ask for retirement
RefreshedFully(unread) == {m \in Models : Enabled(m)}

\* A question for retirement that fails counts as no
Refreshed(unread) == {m \in Models : Enabled(m) /\ (~Retired(m) \/ m \in unread)}

\* ModelRegistry.refresh; a scan of the directory that fails keeps the registry
Rescan ==
    \/ loaded' = Refreshed({}) /\ UNCHANGED budget
    \/ Spend("faults") /\ loaded' \in {loaded} \cup {Refreshed(unread) : unread \in SUBSET Models}

\* The first part of a tick: the settings of the row, the registry unless it was
\* refreshed less than a minute ago, the models of the interval, the kill
\* switch.  A refresh counts as one even if its scan failed; a read of the
\* overrides that fails ends the tick.

TickTakes(i, taking, fresh) ==
    /\ ticks' = [ticks EXCEPT ![i].fresh = fresh,
                              ![i].pc = IF taking = {} THEN "idle" ELSE "equity",
                              ![i].kill = IF taking = {} THEN @ ELSE halted]
    /\ alerts' = IF taking # {} /\ halted /\ ~ticks[i].kill
                 THEN Notified(alerts, "kill", CRITICAL) ELSE alerts
    /\ overdue' = [m \in Models |->
           IF IntervalOf[m] # i THEN overdue[m]
           ELSE IF m \in taking /\ (Retired(m) \/ ~Enabled(m)) THEN overdue[m] + 1 ELSE 0]

TickStarts(i) ==
    /\ LoopFree /\ i \in scene.ticking /\ ticks[i].pc = "idle"
    /\ settings' = Applied(row, settings) /\ UNCHANGED <<row, requests>>
    /\ IF ~Configured THEN UNCHANGED <<ticks, alerts, overdue, loaded, budget>>
       ELSE \/ Rescan /\ TickTakes(i, {m \in loaded' : IntervalOf[m] = i}, TRUE)
            \/ Spend("faults") /\ UNCHANGED <<ticks, alerts, overdue, loaded>>
            \/ /\ i \in Short /\ ticks[i].fresh /\ UNCHANGED <<loaded, budget>>
               /\ TickTakes(i, {m \in loaded : IntervalOf[m] = i}, FALSE)
    /\ UNCHANGED <<retirementVars, marketVars, own, heard, told, processVars>>

\* The second part, with the equity: the first row of a day is its open
Level(l) == CASE l >= settings["loss"] -> "halt"
              [] l * 10 >= settings["loss"] * 8 /\ l < settings["loss"] -> "warn"
              [] OTHER -> "none"

Heard(h, level) ==
    IF level = (IF h = <<>> THEN "none" ELSE h[Len(h)]) THEN h ELSE Append(h, level)

\* Alerts are raised at the edges that the closure remembers
Alarm(i, level) == level # "none" /\ ~ticks[i][level]
\* Mutant: an alert is remembered for good
RememberedForGood(i, level) ==
    [ticks EXCEPT ![i].pc = "idle", ![i].halt = @ \/ level = "halt", ![i].warn = level = "warn"]

Remembered(i, level) ==
    [ticks EXCEPT ![i].pc = "idle", ![i].halt = level = "halt", ![i].warn = level = "warn"]

TickEnds(i) ==
    LET level == Level(IF opened THEN loss ELSE 0) IN
    /\ ticks[i].pc = "equity" /\ opened' = TRUE /\ loss' = IF opened THEN loss ELSE 0
    /\ ticks' = Remembered(i, level)
    /\ alerts' = IF Alarm(i, level) THEN Notified(alerts, level, WARNING) ELSE alerts
    /\ told' = IF Alarm(i, level) THEN [told EXCEPT ![i] = Append(@, level)] ELSE told
    /\ heard' = [heard EXCEPT ![i] = Heard(@, level)]
    /\ UNCHANGED <<halted, budget>>

EquityFails(i) ==
    /\ ticks[i].pc = "equity" /\ Spend("faults")
    /\ ticks' = [ticks EXCEPT ![i].pc = "idle"]
    /\ UNCHANGED <<alerts, marketVars, told, heard>>

TickResumes(i) ==
    /\ LoopFree
    /\ UNCHANGED <<settingsVars, retirementVars, own, loaded, overdue, processVars>>
    /\ TickEnds(i) \/ EquityFails(i)

-----------------------------------------------------------------------------
\* Requests and trades; the loop serves one thing at a time
AtWork == phase = "run"
Elsewhere == UNCHANGED <<marketVars, tickVars, processVars>>

PatchSettings ==
    \/ \E e \in Executors, ask \in scene.asks :
        /\ (IF e = "loop" THEN LoopFree ELSE AtWork) /\ Spend("patches")
        /\ PatchArrives(e, ask[1], ask[2])
    \/ AtWork /\ UNCHANGED budget /\ \E e \in Executors : PatchSteps(e)

\* PUT and DELETE of the overrides of a model, one commit each
SwitchModel ==
    /\ AtWork /\ Spend("flips")
    /\ \E s \in scene.switches : own[s[1]] # s[2] /\ own' = [own EXCEPT ![s[1]] = s[2]]
    /\ UNCHANGED <<loaded, ticks, heard, told, overdue>>

\* _on_promote: the registry is refreshed after a promotion of the sync daemon
Promoted ==
    /\ LoopFree /\ scene.ticking # {} \* without ticks nobody looks at the registry
    /\ Rescan
    /\ UNCHANGED <<own, ticks, heard, told, overdue>>

\* The fill callback tells of a retirement; a monitor posts to the webhook only
TellRetirement ==
    /\ Closing("tell") /\ ClosingDone
    /\ alerts' = IF closing.how = "sale" THEN Notified(alerts, "retired", WARNING) ELSE alerts
    /\ UNCHANGED <<perf, held, resets, since, excused>>

Trades ==
    \/ LoopFree /\ Spend("trades") /\ \E m \in Models : Opens(m)
    \/ /\ LoopFree /\ UNCHANGED budget
       /\ \E m \in Models, how \in {"sale", "leg"}, pnl \in scene.pnls : Closes(m, how, pnl)
    \/ AtWork /\ Spend("misses") /\ RecordFails
    \/ AtWork /\ UNCHANGED budget /\ (RecordSteps \/ \E m \in Models : Ages(m))

Unretire ==
    \/ AtWork /\ Spend("unretires") /\ \E t \in Threads, m \in Models : UnretireArrives(t, m)
    \/ AtWork /\ UNCHANGED budget /\ \E t \in Threads : UnretireCommits(t)

\* The world: prices move, a day begins, the kill switch is set or released
Market ==
    /\ AtWork /\ Spend("moves")
    /\ \/ opened /\ loss' \in scene.losses \ {loss} /\ UNCHANGED <<halted, opened>>
       \/ opened /\ opened' = FALSE /\ UNCHANGED <<halted, loss>>
       \/ halted' = ~halted /\ UNCHANGED <<loss, opened>>

-----------------------------------------------------------------------------
\* run: the kill switch is engaged, the settings are applied, the registry is
\* filled with what the file enables; nothing is in it after a scan that fails
StartUp ==
    /\ phase = "down" /\ phase' = "run" /\ ending' = "none"
    /\ halted' = TRUE
    /\ SettingsStart /\ Rewatch
    /\ \/ loaded' = {m \in Models : ~Retired(m)} /\ UNCHANGED budget
       \/ Spend("faults") /\ loaded' \in {{}} \cup
              {{m \in Models : ~Retired(m) \/ m \in unread} : unread \in SUBSET Models}
    /\ alerts' = NewManager
    /\ ticks' = [i \in Intervals |-> NewTick]
    /\ heard' = [i \in Intervals |-> <<>>] /\ told' = heard'
    /\ overdue' = [m \in Models |-> 0]
    /\ UNCHANGED <<loss, opened, own, scene>>

\* A stop is asked for; the tasks end, and the alert manager is shut down last
StopAsked ==
    /\ LoopFree /\ Spend("stops") /\ \A i \in Intervals : ticks[i].pc = "idle"
    /\ phase' = "closing" /\ PutSentinel
    /\ UNCHANGED <<settingsVars, retirementVars, marketVars, tickVars, ending, scene>>

EndProcess(how) ==
    /\ phase' = "down" /\ ending' = how
    /\ SettingsEnd /\ RetirementEnd
    /\ UNCHANGED <<alerts, marketVars, tickVars, scene>>

\* join() returns when the worker has ended, or after five seconds
JoinReturns ==
    /\ phase = "closing" /\ UNCHANGED budget
    /\ EndProcess(IF alerts.ended THEN "clean" ELSE "forced")

Crash == phase # "down" /\ Spend("crashes") /\ EndProcess("forced")

-----------------------------------------------------------------------------
Init ==
    /\ scene \in Scenes
    /\ SettingsInit(scene.rows) /\ RetirementInit
    /\ alerts = NewManager
    /\ phase = "down" /\ ending = "none"
    /\ own = [m \in Models |-> None] /\ loaded = {}
    /\ ticks = [i \in Intervals |-> NewTick]
    /\ halted = TRUE /\ loss = 0 /\ opened = FALSE
    /\ heard = [i \in Intervals |-> <<>>] /\ told = heard
    /\ overdue = [m \in Models |-> 0]
    /\ budget = [patches |-> scene.patches, trades |-> scene.trades, unretires |-> scene.unretires,
                 flips |-> scene.flips, moves |-> scene.moves, faults |-> scene.faults,
                 misses |-> scene.misses, crashes |-> scene.crashes, stops |-> scene.stops]

WorkerSteps == phase # "down" /\ Worker
               /\ UNCHANGED <<retirementVars, marketVars, tickVars, processVars, budget>>

Next ==
    \/ \E i \in Intervals : TickStarts(i) \/ TickResumes(i)
    \/ PatchSettings /\ UNCHANGED <<retirementVars, alerts>> /\ Elsewhere
    \/ (SwitchModel \/ Promoted) /\ UNCHANGED <<settingsVars, retirementVars, alerts, marketVars, processVars>>
    \/ (Trades \/ Unretire) /\ UNCHANGED <<settingsVars, alerts>> /\ Elsewhere
    \/ UNCHANGED <<settingsVars, budget>> /\ Elsewhere /\ TellRetirement
    \/ Market /\ UNCHANGED <<settingsVars, retirementVars, alerts, tickVars, processVars>>
    \/ WorkerSteps
    \/ StartUp
    \/ StopAsked
    \/ JoinReturns
    \/ Crash

\* The worker goes on as long as it lives, but a mail server may keep it waiting
Fairness == WF_vars(WorkerSteps /\ ~alerts.mailing)

Spec == Init /\ [][Next]_vars /\ Fairness

-----------------------------------------------------------------------------
\* A change of one setting never undoes a change of another: whatever PATCHes
\* overlap, a commit changes the one field it was asked to change.  Left out are
\* the requests that found no row: the first two of all may undo each other
\* (BotSettingsRepo.upsert).
NoLostSetting ==
    [][\A f \in Fields : row # NoRow /\ row'[f] # row[f] =>
        \E e \in Executors : /\ Serving(e, "commit")
                             /\ requests[e].field = f \/ requests[e].seen = NoRow]_vars

\* A model that was retired or disabled takes part in at most one more tick of
\* its interval, and only if that follows within a minute of a refresh.  A scan
\* of the models or a question for retirement that fails costs two more: the
\* failed refresh counts as one, so the next tick may go without
\* (make_tick's throttled refresh, ModelRegistry.refresh, _on_promote).
VotesEnd == \A m \in Models : overdue[m] <= 1 + 2 * (scene.faults - budget.faults)

EndOf(w, s) == \E k \in 0..Len(s) : w = SubSeq(s, k + 1, Len(s))

\* The performance row of a model is that of its journal: the window is the end
\* of what was journalled since the last unretire, the counters count all of it.
\* Trades whose record a failed commit, a crash or an invalid config prevented
\* are missing from both, and from nothing else: those before and after them
\* count.  Left out are models whose unretire overlapped with another write of
\* their row, until they are unretired again: a trade that was being recorded
\* writes the old counters back, by the code as written (record_trade, its
\* callers' except, unretire_model).
WindowIsJournal ==
    \A m \in Models \ excused :
        closing.model # m =>
            /\ EndOf(perf[m].window, since[m]) /\ (since[m] # <<>> => perf[m].window # <<>>)
            /\ perf[m].count = Len(since[m]) /\ perf[m].wins = Wins(since[m])

\* A model is retired for what its row shows after the retirement: a window that
\* loses too often or too much, of a model that is old enough or has traded
\* enough.  Left out is a model that is unretired at the same time
\* (check_retirement).
RetiredForCause ==
    [][\A m \in Models \ excused' :
        perf'[m].retired /\ ~perf[m].retired =>
            /\ perf'[m].first = "old" \/ perf'[m].count >= MinTrades
            /\ \/ 2 * Wins(perf'[m].window) < Len(perf'[m].window)
               \/ Sum(perf'[m].window) < MinPnl]_vars

\* Every interval raises one alert for each time its ticks see the loss enter the
\* warning band or pass the halt threshold, whatever moves and settings, failed
\* ticks and other intervals come between (the edge triggers of make_tick).
EpisodesTold ==
    \A i \in Intervals :
        LET episodes(k) == {j \in 1..k : heard[i][j] # "none"} IN
        /\ Len(told[i]) = Cardinality(episodes(Len(heard[i])))
        /\ \A k \in episodes(Len(heard[i])) : told[i][Cardinality(episodes(k))] = heard[i][k]

\* What the alert manager accepts it dispatches, in order, unless the process is
\* killed, the shutdown gives up waiting or a mail server does not answer; a
\* shutdown that does not give up leaves nothing behind (notify, _worker, shutdown).
AlertsGoOut ==
    /\ [](phase = "down" /\ ending = "clean" => alerts.dispatched = alerts.accepted)
    /\ (alerts.dispatched # alerts.accepted) ~>
           (alerts.dispatched = alerts.accepted \/ ending = "forced" \/ alerts.mailing)
=============================================================================
