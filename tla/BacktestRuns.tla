---------------------------- MODULE BacktestRuns ----------------------------
(***************************************************************************)
(* A backtest run: requested by the API or created by a job, executed on   *)
(* the event loop without a single await (_execute_backtest, run_backtest, *)
(* BacktestRepo).  Only the threads of the API and the end of the process  *)
(* come between its steps.  Every step that writes is one commit.          *)
(***************************************************************************)
EXTENDS BacktestState

At(pc) == up /\ loop.pc = pc
Goto(pc) == loop' = [loop EXCEPT !.pc = pc]

SetStatus(status) == runs' = [runs EXCEPT ![loop.run].status = status]

\* A commit fails: the database is locked or gone
Fault ==
    /\ budget.faults > 0
    /\ budget' = [budget EXCEPT !.faults = @ - 1]
    /\ runs' = IF loop.run = 0 THEN runs ELSE [runs EXCEPT ![loop.run].hurt = TRUE]
NoFault == budget' = budget

\* The task ends and the others get their turn.  A long one leaves jobs that
\* are due or submitted behind by more than the second that a job may be late.
Release ==
    /\ loop' = IdleLoop /\ sim' = NoSim
    /\ \E long \in BOOLEAN :
        /\ due' = [m \in Models |-> IF long /\ due[m] = "now" THEN "late" ELSE due[m]]
        /\ ready' = [k \in DOMAIN ready |->
               IF long /\ ready[k].job THEN [ready[k] EXCEPT !.late = TRUE] ELSE ready[k]]

Kept == UNCHANGED <<file, scheduleVars, up, scene>>

-----------------------------------------------------------------------------
\* POST /backtest/trigger: the row is created and a task started for it
Trigger(models) ==
    /\ LoopFree /\ budget.requests > 0
    /\ budget' = [budget EXCEPT !.requests = @ - 1]
    /\ runs' = Append(runs, NewRun(models))
    /\ ready' = Append(ready, [job |-> FALSE, run |-> Len(runs) + 1, model |-> "none",
                               late |-> FALSE])
    /\ UNCHANGED <<due, loop, sim>> /\ Kept

\* The task of a triggered run gets the loop
StartTriggered ==
    /\ LoopFree /\ ready # <<>> /\ ~Head(ready).job
    /\ ready' = Tail(ready)
    /\ loop' = [IdleLoop EXCEPT !.pc = "begin", !.run = Head(ready).run]
    /\ NoFault
    /\ UNCHANGED <<runs, due, sim>> /\ Kept

\* The task of a job gets the loop.  APScheduler gives up a job that is more
\* than its default grace time of one second late.
StartJob ==
    /\ LoopFree /\ ready # <<>> /\ Head(ready).job
    /\ ready' = Tail(ready)
    /\ loop' = IF Head(ready).late THEN loop
               ELSE [IdleLoop EXCEPT !.pc = "create", !.model = Head(ready).model]
    /\ NoFault
    /\ UNCHANGED <<runs, due, sim>> /\ Kept

\* A job creates its run, of its own model
CreateRun ==
    /\ At("create")
    /\ \/ /\ NoFault
          /\ runs' = Append(runs, NewRun(<<loop.model>>))
          /\ loop' = [loop EXCEPT !.pc = "begin", !.run = Len(runs) + 1]
          /\ UNCHANGED <<due, ready, sim>>
       \/ Fault /\ Release
    /\ Kept

\* Marked running.  This commit is outside of the try: when it fails the task
\* ends and the run stays queued.
Begin ==
    /\ At("begin")
    /\ \/ /\ NoFault /\ SetStatus("running")
          /\ loop' = [loop EXCEPT !.pc = "select"]
          /\ UNCHANGED <<due, ready, sim>>
       \/ Fault /\ Release
    /\ Kept

\* The provider is built and the models are scanned; without one there is an
\* exception
Select ==
    /\ At("select")
    /\ loop' = IF runs[loop.run].models = <<>> THEN [loop EXCEPT !.pc = "fail"]
               ELSE [loop EXCEPT !.pc = "model", !.todo = runs[loop.run].models]
    /\ NoFault
    /\ UNCHANGED <<runs, due, ready, sim>> /\ Kept

-----------------------------------------------------------------------------
\* Only a run of several models simulates the delay of the brackets
LagUsed == IF Len(runs[loop.run].models) > 1 THEN scene.lag ELSE 0

\* The next model: its history is fetched, is too short, or the fetch raises
FetchModel ==
    /\ At("model") /\ loop.todo # <<>>
    /\ LET next == [loop EXCEPT !.model = Head(loop.todo), !.todo = Tail(loop.todo),
                                !.found = 0, !.saved = 0] IN
       \/ \E bars \in scene.histories :
            /\ loop' = [next EXCEPT !.pc = "walk", !.status = "ran"]
            /\ sim' = NewSim(bars, LagUsed)
       \/ \E status \in {"no_data", "failed"} :
            /\ loop' = [next EXCEPT !.pc = "row", !.status = status]
            /\ sim' = NoSim
    /\ NoFault
    /\ UNCHANGED <<runs, due, ready>> /\ Kept

\* Each other model may have bought on this bar before this one
WalkOneBar ==
    /\ At("walk")
    /\ \E signal \in {"BUY", "SELL", "HOLD"} :
       \E ahead \in IF sim.lag > 0 THEN 0..(Len(runs[loop.run].models) - 1) ELSE {0} :
            WalkBar(signal, ahead)
    /\ NoFault
    /\ UNCHANGED <<runs, due, ready, loop>> /\ Kept

\* The simulation returns its trades
WalkEnds ==
    /\ At("walk") /\ ~BarsLeft(sim)
    /\ sim' = AtEnd(sim)
    /\ loop' = [loop EXCEPT !.pc = "trades", !.found = Len(AtEnd(sim).trades)]
    /\ NoFault
    /\ UNCHANGED <<runs, due, ready>> /\ Kept

\* Every trade is committed by itself.  A commit that fails while it flushes
\* leaves the session of the whole run unusable; one that fails later does not.
RecordTrade ==
    /\ At("trades") /\ loop.saved < loop.found
    /\ \/ /\ NoFault /\ ~loop.broken
          /\ runs' = [runs EXCEPT ![loop.run].trades[loop.model] = @ + 1]
          /\ loop' = [loop EXCEPT !.saved = @ + 1]
       \/ /\ Fault /\ ~loop.broken
          /\ \E broken \in BOOLEAN :
               loop' = [loop EXCEPT !.pc = "row", !.status = "failed", !.found = 0, !.broken = broken]
       \/ /\ loop.broken /\ NoFault /\ runs' = runs
          /\ loop' = [loop EXCEPT !.pc = "row", !.status = "failed", !.found = 0]
    /\ UNCHANGED <<due, ready, sim>> /\ Kept

TradesRecorded ==
    /\ At("trades") /\ loop.saved = loop.found
    /\ Goto("row")
    /\ NoFault
    /\ UNCHANGED <<runs, due, ready, sim>> /\ Kept

\* Mutant: the row counts the trades that were saved
RecordModelAsFound ==
    /\ At("row")
    /\ runs' = [runs EXCEPT ![loop.run].rows[loop.model] = [status |-> "ran", count |-> loop.found]]
    /\ Goto("model") /\ NoFault
    /\ UNCHANGED <<due, ready, sim>> /\ Kept

\* The row of the model; a failure is logged and the next model follows
RecordModel ==
    /\ At("row")
    /\ \/ /\ NoFault /\ ~loop.broken
          /\ runs' = [runs EXCEPT ![loop.run].rows[loop.model] =
                         [status |-> loop.status, count |-> loop.found]]
          /\ Goto("model")
       \/ /\ Fault /\ ~loop.broken
          /\ \E broken \in BOOLEAN : loop' = [loop EXCEPT !.pc = "model", !.broken = broken]
       \/ loop.broken /\ NoFault /\ runs' = runs /\ Goto("model")
    /\ UNCHANGED <<due, ready, sim>> /\ Kept

\* All models are through: done.  A failure of that commit is caught, and the
\* run is marked failed like one that could not start its models.
Finish ==
    /\ At("model") /\ loop.todo = <<>>
    /\ \/ NoFault /\ SetStatus("done") /\ Release
       \/ Fault /\ Goto("fail") /\ UNCHANGED <<due, ready, sim>>
    /\ Kept

\* Marked failed; when this commit fails too the run stays running
Fail ==
    /\ At("fail")
    /\ \/ NoFault /\ SetStatus("failed")
       \/ Fault
    /\ Release
    /\ Kept

RunSteps ==
    \/ StartTriggered \/ StartJob \/ CreateRun \/ Begin \/ Select \/ FetchModel
    \/ WalkOneBar \/ WalkEnds \/ RecordTrade \/ TradesRecorded \/ RecordModel \/ Finish \/ Fail

\* Mutant: only the runs that were executing
ResetRunning(rs) ==
    [r \in DOMAIN rs |-> IF rs[r].status = "running"
                         THEN [rs[r] EXCEPT !.status = "failed"] ELSE rs[r]]

\* Mutant: every run
ResetEverything(rs) == [r \in DOMAIN rs |-> [rs[r] EXCEPT !.status = "failed"]]

\* At start-up the runs that the last process left behind are marked failed
ResetInterrupted(rs) ==
    [r \in DOMAIN rs |-> IF rs[r].status \in {"queued", "running"}
                         THEN [rs[r] EXCEPT !.status = "failed"] ELSE rs[r]]
=============================================================================
