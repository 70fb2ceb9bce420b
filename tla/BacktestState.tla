---------------------------- MODULE BacktestState ----------------------------
(***************************************************************************)
(* What the backtests share: the rows of the database, the file            *)
(* overrides.yaml, and in the process the settings, the jobs of the        *)
(* scheduler, the event loop with the tasks that wait for it, and the      *)
(* threads in which the schedule is changed.  BacktestRuns adds the run of *)
(* a backtest, BacktestSchedule the scheduler, EventLoop composes them.    *)
(***************************************************************************)
EXTENDS BacktestEngine, FiniteSets

CONSTANTS
    Models,     \* the names of the models that exist
    Crons,      \* cron expressions; a look-back is changed in the same way
    Threads,    \* worker threads that serve the requests for schedule changes
    Scenes      \* what is examined together, see Scene

\* What a PATCH of the schedule asks for.  "keep" leaves a field as it is.
GlobalChange == [model : {"global"}, on : {"yes", "no", "keep"}, cron : Crons \cup {"keep"}]
ModelChange == [model : Models, on : {"yes", "no", "keep"}, cron : Crons \cup {"keep"}]
Change == GlobalChange \cup ModelChange

Scene == [
    lag : Nat,                  \* simulate_oco_lag with its gaps
    triggers : SUBSET Seq(Models),  \* the selections of models that the API asks for
    requests : Nat,             \* bound: how many runs the API asks for
    histories : SUBSET Seq(Bar),    \* the bars that a provider may return
    threads : SUBSET Threads,
    changes : SUBSET Change,    \* the schedule changes that are asked for
    patches : Nat,              \* bound: how many of them
    nights : Nat,               \* bound: how often a cron expression comes due
    faults : Nat,               \* bound: commits that fail
    crashes : Nat,              \* bound: ends of the process
    clock : SUBSET STRING]      \* the hours with which BarClose takes part, if it does

ExpireJob == "expire_stale_deployments"

\* The kinds of requests and jobs can be told apart, a selection names no model
\* twice, and the range of a bar contains its opening price
ASSUME BacktestAssumption ==
    /\ IsFiniteSet(Models) /\ {"global", ExpireJob} \cap Models = {} /\ IsFiniteSet(Threads)
    /\ Crons # {} /\ {"keep", "inherit", "absent", "none"} \cap Crons = {}
    /\ Scenes \subseteq Scene
    /\ \A s \in Scenes :
        /\ \A q \in s.triggers : \A j, k \in DOMAIN q : q[j] = q[k] => j = k
        /\ \A h \in s.histories : \A k \in DOMAIN h : h[k].open \in h[k].low..h[k].high

VARIABLES
    \* the database and the file
    runs,       \* the rows of backtest_run with what belongs to them
    file,       \* overrides.yaml
    \* the process
    up,
    settings,   \* settings.backtest and settings.model_overrides
    jobs,       \* jobs[j]: the cron expression of the job, "none" without one
    due,        \* due[m]: the job of m has come due "now", or too long ago: "late"
    ready,      \* tasks that wait for the event loop, in their order
    loop,       \* the backtest that holds the event loop
    patches,    \* patches[t]: the schedule change that thread t executes
    \* the environment
    budget,     \* how often each bounded event may still happen
    scene       \* never changes

databaseVars == <<runs, file>>
scheduleVars == <<settings, jobs, patches>>
loopVars == <<due, ready, loop, sim>>
environmentVars == <<up, budget, scene>>

-----------------------------------------------------------------------------
JobIds == Models \cup {ExpireJob}

\* own[m]: the cron expression of model m's entry in model_overrides; the entry may
\* have none, and m may have no entry
Settings == [on : BOOLEAN, cron : Crons, disabled : SUBSET Models,
             own : [Models -> Crons \cup {"inherit", "absent"}]]
DefaultSettings ==
    [on |-> TRUE, cron |-> CHOOSE c \in Crons : TRUE, disabled |-> {},
     own |-> [m \in Models |-> "absent"]]
\* The file overrides.yaml; while it is empty it is read as the defaults
File(s) == [whole |-> TRUE, says |-> s]
Torn == [whole |-> FALSE, says |-> DefaultSettings]

NoModelRow == [status |-> "none", count |-> 0]
NewRun(models) ==
    [status |-> "queued", models |-> models, hurt |-> FALSE,
     rows |-> [m \in Models |-> NoModelRow], trades |-> [m \in Models |-> 0]]

IdleLoop == [pc |-> "idle", run |-> 0, model |-> "none", todo |-> <<>>, found |-> 0,
             saved |-> 0, status |-> "none", broken |-> FALSE]
NoChange == [model |-> "global", on |-> "keep", cron |-> "keep"]
IdlePatch == [pc |-> "idle", ask |-> NoChange, left |-> {}, copy |-> DefaultSettings]
NothingDue == [m \in Models |-> "no"]

LoopFree == up /\ loop.pc = "idle"

Init ==
    /\ scene \in Scenes
    /\ runs = <<>> /\ file = File(DefaultSettings)
    /\ up = FALSE
    /\ settings = DefaultSettings
    /\ jobs = [j \in JobIds |-> "none"]
    /\ due = NothingDue /\ ready = <<>> /\ loop = IdleLoop /\ sim = NoSim
    /\ patches = [t \in Threads |-> IdlePatch]
    /\ budget = [requests |-> scene.requests, nights |-> scene.nights, faults |-> scene.faults,
                 crashes |-> scene.crashes, patches |-> scene.patches]
=============================================================================
