--------------------------- MODULE BacktestSchedule ---------------------------
(***************************************************************************)
(* The scheduler of the backtests (alphaTrade/scheduler/backtest_scheduler): *)
(* one job per model, rebuilt when the schedule is changed by PATCH        *)
(* requests, which run in worker threads and write the settings back to    *)
(* overrides.yaml; nights come due; the process ends and starts again.     *)
(***************************************************************************)
EXTENDS BacktestRuns

PatchPc(t, pc) == up /\ patches[t].pc = pc
Return(t, pc) == patches' = [patches EXCEPT ![t] = [IdlePatch EXCEPT !.pc = pc]]
Ask(t) == patches[t].ask
KeptBySchedule == UNCHANGED <<runs, ready, loop, sim, up, scene>>

Or(wish, old) == IF wish = "keep" THEN old ELSE wish

\* The job a model should have
EffectiveCron(s, m) == IF s.own[m] \in {"inherit", "absent"} THEN s.cron ELSE s.own[m]
Enabled(s, m) == s.on /\ m \notin s.disabled

-----------------------------------------------------------------------------
\* The fields of the request that are not None; a model without an entry gets one
Changed(s, ask) ==
    IF ask.model = "global"
    THEN [s EXCEPT !.on = IF ask.on = "keep" THEN @ ELSE ask.on = "yes",
                   !.cron = Or(ask.cron, @)]
    ELSE [s EXCEPT !.disabled = CASE ask.on = "no" -> @ \cup {ask.model}
                                  [] ask.on = "yes" -> @ \ {ask.model}
                                  [] OTHER -> @,
                   !.own[ask.model] = Or(ask.cron, IF @ = "absent" THEN "inherit" ELSE @)]

\* The models that have an entry in model_overrides
Entries == {m \in Models : settings.own[m] # "absent"}

\* A PATCH arrives: the settings in memory change at once
PatchArrives(t, ask) ==
    /\ up /\ patches[t].pc \in {"idle", "failed"} /\ budget.patches > 0
    /\ budget' = [budget EXCEPT !.patches = @ - 1]
    /\ settings' = Changed(settings, ask)
    /\ patches' = [patches EXCEPT ![t] = [IdlePatch EXCEPT !.pc = "list", !.ask = ask]]
    /\ UNCHANGED <<jobs, due, file>> /\ KeptBySchedule

\* get_jobs(), or get_job() of the one model
ListJobs(t) ==
    /\ PatchPc(t, "list")
    /\ patches' = [patches EXCEPT ![t].pc = "remove",
           ![t].left = {j \in JobIds : jobs[j] # "none" /\ Ask(t).model \in {"global", j}}]
    /\ UNCHANGED <<jobs, due, file, settings, budget>> /\ KeptBySchedule

NotDue(j) == due' = [m \in Models |-> IF m = j THEN "no" ELSE due[m]]

\* remove_job raises when another thread has removed the job: the request ends
\* with an error, halfway
RemoveJob(t) ==
    /\ PatchPc(t, "remove")
    /\ \E j \in patches[t].left :
       IF jobs[j] = "none" THEN Return(t, "failed") /\ UNCHANGED <<jobs, due>>
       ELSE /\ jobs' = [jobs EXCEPT ![j] = "none"] /\ NotDue(j)
            /\ patches' = [patches EXCEPT ![t].left = @ \ {j}]
    /\ UNCHANGED <<file, settings, budget>> /\ KeptBySchedule

\* Mutant: the job of a model that is disabled is added again
RemovedAll(t) ==
    /\ PatchPc(t, "remove") /\ patches[t].left = {}
    /\ patches' = [patches EXCEPT ![t].pc = "add",
           ![t].left = IF ~settings.on THEN {}
                       ELSE IF Ask(t).model = "global" THEN JobIds ELSE {Ask(t).model}]
    /\ UNCHANGED <<jobs, due, file, settings, budget>> /\ KeptBySchedule

\* schedule_enabled is read once, before the jobs are added
Removed(t) ==
    /\ PatchPc(t, "remove") /\ patches[t].left = {}
    /\ patches' = [patches EXCEPT ![t].pc = "add",
           ![t].left = IF ~settings.on THEN {}
                       ELSE IF Ask(t).model = "global" THEN JobIds
                       ELSE {Ask(t).model} \ settings.disabled]
    /\ UNCHANGED <<jobs, due, file, settings, budget>> /\ KeptBySchedule

\* One job after the other, each with the settings of that moment
AddJob(t) ==
    /\ PatchPc(t, "add")
    /\ \E j \in patches[t].left :
        /\ patches' = [patches EXCEPT ![t].left = @ \ {j}]
        /\ IF j = ExpireJob THEN jobs' = [jobs EXCEPT ![j] = "minutely"] /\ due' = due
           ELSE IF j \in settings.disabled /\ Ask(t).model = "global" THEN UNCHANGED <<jobs, due>>
           ELSE jobs' = [jobs EXCEPT ![j] = EffectiveCron(settings, j)] /\ NotDue(j)
    /\ UNCHANGED <<file, settings, budget>> /\ KeptBySchedule

\* _persist_lock; from now on the entries are gone over
Lock(t) ==
    /\ PatchPc(t, "add") /\ patches[t].left = {}
    /\ \A u \in Threads : patches[u].pc \notin {"persist", "write"}
    /\ patches' = [patches EXCEPT ![t].pc = "persist", ![t].left = Entries]
    /\ UNCHANGED <<jobs, due, file, settings, budget>> /\ KeptBySchedule

\* Mutant: the overrides of the models are not written
TruncateForGlobals(t) ==
    /\ PatchPc(t, "persist")
    /\ patches' = [patches EXCEPT ![t].pc = "write",
           ![t].copy = [file.says EXCEPT !.on = settings.on, !.cron = settings.cron]]
    /\ file' = Torn
    /\ UNCHANGED <<jobs, due, settings, budget>> /\ KeptBySchedule

\* The file is read, changed and opened for writing, which empties it.  The
\* request ends with an error when the file is empty, or when another request
\* has added an entry while this one went over them.
Truncate(t) ==
    /\ PatchPc(t, "persist")
    /\ \/ /\ file.whole /\ file' = Torn
          /\ patches' = [patches EXCEPT ![t].pc = "write", ![t].copy = settings]
       \/ ~file.whole /\ Return(t, "failed") /\ file' = file
       \/ patches[t].left # Entries /\ Return(t, "failed") /\ file' = file
    /\ UNCHANGED <<jobs, due, settings, budget>> /\ KeptBySchedule

Write(t) ==
    /\ PatchPc(t, "write")
    /\ file' = File(patches[t].copy)
    /\ Return(t, "idle")
    /\ UNCHANGED <<jobs, due, settings, budget>> /\ KeptBySchedule

PatchSteps(t) ==
    \/ ListJobs(t) \/ RemoveJob(t) \/ Removed(t) \/ AddJob(t) \/ Lock(t) \/ Truncate(t) \/ Write(t)

-----------------------------------------------------------------------------
\* A cron expression comes due
Night(c) ==
    /\ up /\ budget.nights > 0
    /\ budget' = [budget EXCEPT !.nights = @ - 1]
    /\ due' = [m \in Models |-> IF jobs[m] = c THEN "now" ELSE due[m]]
    /\ UNCHANGED <<jobs, file, settings, patches>> /\ KeptBySchedule

\* The timer of the scheduler: what is due becomes a task, unless the job's
\* last task has not ended
Submit(m) ==
    /\ LoopFree /\ due[m] # "no"
    /\ due' = [due EXCEPT ![m] = "no"]
    /\ ready' = IF \E k \in DOMAIN ready : ready[k].job /\ ready[k].model = m THEN ready
                ELSE Append(ready, [job |-> TRUE, run |-> 0, model |-> m, late |-> due[m] = "late"])
    /\ UNCHANGED <<runs, loop, sim, file, scheduleVars, budget, up, scene>>

-----------------------------------------------------------------------------
\* The process ends, at a point where nothing is saved
ProcessEnds ==
    /\ up /\ budget.crashes > 0
    /\ budget' = [budget EXCEPT !.crashes = @ - 1]
    /\ up' = FALSE
    /\ jobs' = [j \in JobIds |-> "none"]
    /\ due' = NothingDue /\ ready' = <<>> /\ loop' = IdleLoop /\ sim' = NoSim
    /\ patches' = [t \in Threads |-> IdlePatch]
    /\ UNCHANGED <<runs, file, settings, scene>>

\* The jobs that start() adds
JobsOf(s) ==
    [j \in JobIds |->
        IF j = ExpireJob THEN IF s.on THEN "minutely" ELSE "none"
        ELSE IF Enabled(s, j) THEN EffectiveCron(s, j) ELSE "none"]

\* Start-up: the settings are loaded, an empty file gives the defaults; runs of
\* the last process are reset; the scheduler starts.  apply_bot_settings would
\* also put the columns backtest_schedule_enabled, backtest_cron and
\* backtest_lookback_days of the row of bot_settings over the settings, here and
\* in each tick; no request of the API fills them, and they are taken to be None.
StartUp ==
    /\ ~up
    /\ up' = TRUE
    /\ settings' = file.says
    /\ runs' = ResetInterrupted(runs)
    /\ jobs' = JobsOf(settings')
    /\ UNCHANGED <<file, due, ready, loop, sim, patches, budget, scene>>
=============================================================================
