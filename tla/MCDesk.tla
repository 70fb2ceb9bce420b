-------------------------------- MODULE MCDesk --------------------------------
EXTENDS Desk

MCMinPnl == -1
MCYaml == [key |-> 1, loss |-> 20, slack |-> 1, email |-> 0, enabled |-> 1, lookback |-> 2]
MCOwn == [m \in Models |-> [enabled |-> None, lookback |-> None]]
MCMinLevel == [c \in Channels |-> IF c = "slack" THEN WARNING ELSE CRITICAL]
MCIntervalOf == [m \in Models |-> IF m = "a" THEN "1m" ELSE "1d"]

ARow == [NewRow EXCEPT !.key = 1, !.slack = 1]

Quiet == [rows |-> {NoRow}, ticking |-> {}, asks |-> {}, switches |-> {}, pnls |-> {},
          losses |-> {}, patches |-> 0, trades |-> 0, unretires |-> 0, flips |-> 0, moves |-> 0,
          faults |-> 0, misses |-> 0, crashes |-> 0, stops |-> 0]

MCScenes == {
    \* PATCHes of a row by two threads and the loop, with ticks
    [Quiet EXCEPT !.rows = {ARow}, !.ticking = {"1m"}, !.patches = 3,
        !.asks = {<<"key", 0>>, <<"loss", 20>>, <<"enabled", 0>>, <<"lookback", 1>>}],
    \* the first PATCHes of all, and a restart
    [Quiet EXCEPT !.ticking = {"1m"}, !.patches = 2, !.crashes = 1,
        !.asks = {<<"key", 1>>, <<"loss", 0>>, <<"enabled", 0>>, <<"enabled", None>>}],
    \* trades and overlapping unretires; trades, failures and restarts; trades and PATCHes
    [Quiet EXCEPT !.trades = 2, !.pnls = {1, -3}, !.unretires = 2, !.misses = 1],
    [Quiet EXCEPT !.trades = 3, !.pnls = {1, -3}, !.misses = 1, !.crashes = 1],
    [Quiet EXCEPT !.rows = {ARow}, !.trades = 2, !.pnls = {1, -3}, !.patches = 1,
        !.asks = {<<"lookback", 1>>, <<"lookback", 0>>, <<"enabled", None>>}],
    \* models that are retired and disabled while ticks go on
    [Quiet EXCEPT !.ticking = {"1m"}, !.trades = 1, !.pnls = {-3}, !.unretires = 1, !.faults = 1],
    [Quiet EXCEPT !.ticking = {"1m", "1d"}, !.trades = 1, !.pnls = {-3},
        !.switches = {<<"a", 0>>, <<"a", None>>}, !.flips = 2, !.faults = 1],
    \* losses, alerts and shutdown; the same with PATCHes; two intervals
    [Quiet EXCEPT !.ticking = {"1m"}, !.losses = {0, 17, 30}, !.moves = 3, !.stops = 1,
        !.crashes = 1, !.faults = 1],
    [Quiet EXCEPT !.rows = {ARow}, !.ticking = {"1m"}, !.losses = {0, 17, 45, 60}, !.moves = 2,
        !.stops = 1, !.patches = 1, !.asks = {<<"loss", 20>>, <<"slack", 0>>, <<"email", 1>>}],
    [Quiet EXCEPT !.ticking = {"1m", "1d"}, !.losses = {0, 17, 30}, !.moves = 2]}
=============================================================================
