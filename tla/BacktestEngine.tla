---------------------------- MODULE BacktestEngine ----------------------------
(***************************************************************************)
(* The bar-by-bar simulation of one model (alphaTrade/backtest/engine.py): *)
(* _run_single_model and its variant with the delay of the bracket orders, *)
(* _run_single_model_with_lag.                                             *)
(*                                                                         *)
(* Bars count from the first one after the warm-up.  Prices are whole      *)
(* ticks; the percentages of the configuration are distances in ticks, and *)
(* a level that is not configured is a distance that no bar reaches.  One  *)
(* share is traded: the size only scales the result.  What the network     *)
(* says of a bar is any signal.                                            *)
(***************************************************************************)
EXTENDS Integers, Sequences

CONSTANTS
    StopDistance, TargetDistance,   \* sl_pct, tp_pct
    Slippage,                       \* slippage_bps
    Commission,                     \* commission_per_trade
    BarUnits                        \* the length of a bar

ASSUME EngineAssumption ==
    /\ StopDistance \in Nat \ {0} /\ TargetDistance \in Nat \ {0}
    /\ Slippage \in Nat /\ Commission \in Nat
    /\ BarUnits \in Nat \ {0}

VARIABLE
    sim     \* the simulation in progress

Bar == [open : Int, high : Int, low : Int, close : Int]

Flat == [side |-> "NONE", price |-> 0, bar |-> 0]
Direction(side) == IF side = "BUY" THEN 1 ELSE -1

\* lag: what each earlier order in the queue costs of a bar, 0 when the delay is
\* not simulated; delayed: the bars whose range was cut because the bracket came late
NoSim == [bars |-> <<>>, lag |-> 0, i |-> 0, position |-> Flat, trades |-> <<>>,
          equity |-> 0, delayed |-> {}]
NewSim(bars, lag) == [NoSim EXCEPT !.bars = bars, !.lag = lag, !.i = 1]

-----------------------------------------------------------------------------
Fill(side, open) == open + Direction(side) * Slippage

StopPrice(p) == p.price - Direction(p.side) * StopDistance
TargetPrice(p) == p.price + Direction(p.side) * TargetDistance

StopReached(p, high, low) ==
    \/ p.side = "BUY" /\ low <= StopPrice(p)
    \/ p.side = "SELL" /\ high >= StopPrice(p)
TargetReached(p, high, low) ==
    \/ p.side = "BUY" /\ high >= TargetPrice(p)
    \/ p.side = "SELL" /\ low <= TargetPrice(p)

\* When a bar reaches both levels, the stop counts
CheckSlTp(p, high, low) ==
    IF StopReached(p, high, low) THEN "SL" ELSE IF TargetReached(p, high, low) THEN "TP" ELSE "NONE"

\* The share of a bar that is left when `ahead` brackets have been placed before
Protected(ahead, lag) == IF ahead * lag >= BarUnits THEN 0 ELSE BarUnits - ahead * lag

\* The range of the bar is cut around its opening price
CheckWithLag(p, bar, share) ==
    IF share >= BarUnits THEN CheckSlTp(p, bar.high, bar.low)
    ELSE IF share <= 0 THEN "NONE"
    ELSE CheckSlTp(p, bar.open + ((bar.high - bar.open) * share) \div BarUnits,
                      bar.open - ((bar.open - bar.low) * share) \div BarUnits)

-----------------------------------------------------------------------------
Pnl(p, exit) == Direction(p.side) * (exit - p.price) - Commission

Trade(p, exit, bar, reason) ==
    [side |-> p.side, entry |-> p.bar, exit |-> bar, price |-> p.price, reason |-> reason,
     pnl |-> Pnl(p, exit)]

Closed(s, exit, bar, reason) ==
    [s EXCEPT !.position = Flat,
              !.trades = Append(@, Trade(s.position, exit, bar, reason)),
              !.equity = @ + Pnl(s.position, exit)]

\* Mutant: a level is never looked at on the bar of the entry
AfterLevelsLate(s, ahead) ==
    LET hit == IF s.position.bar < s.i THEN CheckSlTp(s.position, s.bars[s.i].high, s.bars[s.i].low)
               ELSE "NONE" IN
    IF hit = "NONE" THEN s
    ELSE Closed(s, IF hit = "SL" THEN StopPrice(s.position) ELSE TargetPrice(s.position), s.i, hit)

\* The levels of the open position against bar i
AfterLevels(s, ahead) ==
    LET p == s.position
        bar == s.bars[s.i]
        share == Protected(ahead, s.lag)
        hit == IF p = Flat THEN "NONE" ELSE CheckWithLag(p, bar, share)
        cut == IF p # Flat /\ share < BarUnits
               THEN [s EXCEPT !.delayed = @ \cup {s.i}] ELSE s IN
    IF hit = "NONE" THEN cut
    ELSE Closed(cut, IF hit = "SL" THEN StopPrice(p) ELSE TargetPrice(p), s.i, hit)

\* Mutant: an opposing signal turns the position around
AfterSignalReversing(s, signal) ==
    LET fill == Fill(signal, s.bars[s.i + 1].open)
        new == [side |-> signal, price |-> fill, bar |-> s.i + 1] IN
    IF signal = "HOLD" \/ signal = s.position.side THEN s
    ELSE IF s.position = Flat THEN [s EXCEPT !.position = new]
    ELSE [Closed(s, fill, s.i + 1, "SIGNAL") EXCEPT !.position = new]

\* The signal of bar i acts at the opening of the next one: it enters when no
\* position is open, and an opposing signal closes the position
AfterSignal(s, signal) ==
    LET fill == Fill(signal, s.bars[s.i + 1].open) IN
    IF signal = "HOLD" \/ signal = s.position.side THEN s
    ELSE IF s.position = Flat
         THEN [s EXCEPT !.position = [side |-> signal, price |-> fill, bar |-> s.i + 1]]
         ELSE Closed(s, fill, s.i + 1, "SIGNAL")

\* One turn of the loop over the bars; the last bar is only a place to fill
BarsLeft(s) == s.i < Len(s.bars)
WalkBar(signal, ahead) ==
    /\ BarsLeft(sim)
    /\ sim' = [AfterSignal(AfterLevels(sim, ahead), signal) EXCEPT !.i = @ + 1]

\* What is still open is closed at the last close
AtEnd(s) ==
    IF s.position = Flat THEN s
    ELSE Closed(s, s.bars[Len(s.bars)].close, Len(s.bars), "END_OF_DATA")
=============================================================================
