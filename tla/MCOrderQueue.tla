---------------------------- MODULE MCOrderQueue ----------------------------
(* Small instances of OrderQueue for TLC. *)
EXTENDS OrderQueue

CONSTANTS AAPL, TSLA

\* Two tickers on one bar: each may be sold, or bought by a 1m and by a 1d
\* model; the two BUYs of a ticker share a deduplication key.
MCRequests ==
    [ticker : {AAPL, TSLA}, side : {"BUY"}, bar : {1}, interval : {0, 5}]
        \cup [ticker : {AAPL, TSLA}, side : {"SELL"}, bar : {1}, interval : {5}]
=============================================================================
