------------------------------ MODULE Positions ------------------------------
(***************************************************************************)
(* What the trading loop promises about a position: the database follows   *)
(* the account.  A position is bought only when nothing is held and its    *)
(* row is up to date; the row changes only because the account has, one    *)
(* change at a time and in the same order.  What the account sells while   *)
(* the process is down is noticed at the next start, unless the row did    *)
(* not even know of the purchase.  No orders, legs, monitors or calls.     *)
(***************************************************************************)
EXTENDS Naturals

CONSTANT Tickers

VARIABLES position, running

\* held: what the account holds; known: what the row says; news: how many
\* changes of the account the row has yet to follow
Position == [held : 0..1, known : 0..1, news : 0..2]
At(h, k, n) == [held |-> h, known |-> k, news |-> n]
Flat == At(0, 0, 0)

Init == position = [t \in Tickers |-> Flat] /\ running = TRUE

\* From p to q: the account buys, or sells what it holds
Buys(p, q) == running /\ p.held = 0 /\ p.news = 0 /\ q = At(1, p.known, 1)
Sells(p, q) == p.held = 1 /\ q = At(0, p.known, p.news + 1)

\* The row follows one change
Follows(p, q) == running /\ p.news > 0 /\ q = At(p.held, 1 - p.known, p.news - 1)

\* A purchase that no row knows of is sold, and the process that would have
\* recorded both is down, or goes down
Misses(p, q) == ~running' /\ p.known = 0 /\ p.news > 0 /\ q = Flat

Moves(p, q) == Buys(p, q) \/ Sells(p, q) \/ Follows(p, q) \/ Misses(p, q) \/ q = p

\* The process may end and start at any time, and a start brings several rows
\* up to date
Next ==
    /\ position' \in [Tickers -> Position]
    /\ running' \in BOOLEAN
    /\ \A t \in Tickers : Moves(position[t], position'[t])

positionVars == <<position, running>>
Spec == Init /\ [][Next]_positionVars
=============================================================================
