----------------------------- MODULE MCEventLoop -----------------------------
EXTENDS EventLoop

B(o, h, l, c) == [open |-> o, high |-> h, low |-> l, close |-> c]

\* Stop and target lie 4 and 6 ticks from the entry, the slippage is 0: the
\* range of a bar reaches none of them, one, both, or one only when it is whole
Shapes == {B(20, 20, 20, 20), B(20, 24, 16, 20), B(20, 32, 20, 24), B(16, 20, 8, 12)}
Flats(n) == [1..n -> {B(20, 20, 20, 20)}]

None == [lag |-> 0, triggers |-> {}, requests |-> 0, histories |-> {<<>>},
         threads |-> {}, changes |-> {}, patches |-> 0, nights |-> 0, faults |-> 0,
         crashes |-> 0, clock |-> {}]

MCModels == {"a", "b"}
MCCrons == {"at2", "at6"}
G(on, cron) == [model |-> "global", on |-> on, cron |-> cron]
P(m, on, cron) == [model |-> m, on |-> on, cron |-> cron]
Changes == {G("no", "keep"), G("yes", "at6"), P("a", "no", "keep"), P("a", "yes", "at6"),
            P("b", "keep", "at6")}

MCScenes == {
    \* the engine, without and with the delay of the brackets
    [None EXCEPT !.triggers = {<<"a">>}, !.requests = 1, !.histories = [1..4 -> Shapes]],
    [None EXCEPT !.triggers = {<<"a", "b">>}, !.requests = 1, !.lag = 1,
                 !.histories = [1..3 -> Shapes]],
    [None EXCEPT !.triggers = {<<"a", "b">>}, !.requests = 1, !.lag = 2,
                 !.histories = [1..3 -> {B(20, 24, 16, 20)}]],
    \* runs of several models, failing commits and restarts
    [None EXCEPT !.triggers = {<<"a", "b">>, <<>>}, !.requests = 1, !.faults = 2, !.crashes = 1,
                 !.histories = [1..3 -> {B(20, 24, 16, 20)}]],
    [None EXCEPT !.triggers = {<<"a">>}, !.requests = 2, !.faults = 1, !.crashes = 1],
    [None EXCEPT !.triggers = {<<"a">>, <<>>}, !.requests = 2, !.crashes = 2, !.histories = Flats(2)],
    \* two nights, and a run at that time
    [None EXCEPT !.triggers = {<<"a">>}, !.requests = 1, !.nights = 2],
    \* changes by one thread, a night, restarts
    [None EXCEPT !.threads = {"t1"}, !.changes = Changes, !.patches = 2, !.nights = 1],
    [None EXCEPT !.threads = {"t1"}, !.changes = Changes, !.patches = 3, !.crashes = 2],
    \* changes by two threads
    [None EXCEPT !.threads = {"t1", "t2"}, !.changes = Changes, !.patches = 2, !.crashes = 1],
    \* bar closes, alone and beside a backtest
    [None EXCEPT !.clock = {"regular", "extended", "unknown"}],
    [None EXCEPT !.triggers = {<<"a">>}, !.requests = 1, !.clock = {"regular"}]}
=============================================================================
