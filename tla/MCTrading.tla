------------------------------ MODULE MCTrading ------------------------------
(* Small instances of the trading loop for TLC. *)
EXTENDS TradingSafety

CONSTANTS AAPL, TSLA

\* One ticker, an exchange that answers, no crash
Calm == [tickers |-> {AAPL}, safe |-> TRUE, overlap |-> FALSE, faults |-> {},
         orders |-> 3, crashes |-> 0]

\* Two tickers
Two == [Calm EXCEPT !.tickers = {AAPL, TSLA}]

\* Refused calls and legs that die
Rough == [Calm EXCEPT !.faults = {"refused", "bounced", "revoked"}]

\* Orders that are accepted and then rejected
Rejecting == [Calm EXCEPT !.faults = {"refused", "rejected"}]

\* A crash anywhere, also between the calls for one order
Crashing == [Calm EXCEPT !.crashes = 1, !.faults = {"stale"}]

\* Pyramiding
Pyramid == [Calm EXCEPT !.safe = FALSE]

\* Pyramiding, lost replies, stuck legs, a crash, a start-up without the
\* account's positions, and ticks that overtake everything; two orders
Stormy == [Pyramid EXCEPT !.overlap = TRUE, !.orders = 2, !.crashes = 1,
           !.faults = {"lost", "uncancelled", "offline"}]

TradingScenes == {Two, Rough, Rejecting, Crashing, Pyramid, Stormy}
TwoOnly == {Two}
CalmOnly == {Calm}
CrashOnly == {[Calm EXCEPT !.orders = 1, !.crashes = 1]}
=============================================================================
