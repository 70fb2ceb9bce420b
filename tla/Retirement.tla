------------------------------ MODULE Retirement ------------------------------
(***************************************************************************)
(* The rolling performance of the models and their retirement              *)
(* (alphaTrade/risk/performance).  The fill callback and the monitors      *)
(* record each closed trade on the event loop, in three commits (journal,  *)
(* record_trade, check_retirement); POST /models/{name}/unretire resets a  *)
(* model from a worker thread, between any two of them.                    *)
(***************************************************************************)
EXTENDS BotSettings, FiniteSets

CONSTANTS
    Models,
    MinTrades,  \* min_trades_before_evaluation
    MinPnl,     \* min_rolling_pnl; min_win_rate is one half
    Own         \* retirement overrides of the models in overrides.yaml

VARIABLES
    perf,       \* perf[m]: the row of model_performance
    held,       \* held[m]: m's position, whether a monitor watches it, and with which config
    closing,    \* the closed trade that the event loop is recording
    resets,     \* resets[t]: the unretire that thread t serves
    since,      \* since[m]: the outcomes journalled since m was last unretired, but for
                \* those whose record failed
    excused     \* models that were unretired while something else wrote their row

retirementVars == <<perf, held, closing, resets, since, excused>>

Config == [enabled : {0, 1}, lookback : Nat]
\* ModelRetirementConfig()
DefaultConfig == [enabled |-> 0, lookback |-> 20]

Unborn == [exists |-> FALSE, window |-> <<>>, count |-> 0, wins |-> 0,
           first |-> "none", retired |-> FALSE]
Reset(p) == [Unborn EXCEPT !.exists = p.exists]

NoPosition == [open |-> FALSE, watched |-> FALSE, config |-> DefaultConfig]
NoClosing == [pc |-> "none", model |-> "none", how |-> "sale", pnl |-> 0,
              config |-> DefaultConfig, seen |-> Unborn]
NoReset == [pc |-> "idle", model |-> "none", seen |-> Unborn]

-----------------------------------------------------------------------------
\* _effective_config: the file over the global settings; overrides in the
\* database are not asked.  A None that is left does not validate.
Effective(m) ==
    [f \in {"enabled", "lookback"} |-> IF Own[m][f] # None THEN Own[m][f] ELSE settings[f]]
Validates(m) == \A f \in {"enabled", "lookback"} : Effective(m)[f] # None

\* trades[-n:] of more than n trades; of 0 it is the whole list
Last(w, n) == IF n > 0 /\ Len(w) > n THEN SubSeq(w, Len(w) - n + 1, Len(w)) ELSE w

Sum(w) == LET s[k \in 0..Len(w)] == IF k = 0 THEN 0 ELSE s[k - 1] + w[k] IN s[Len(w)]
Wins(w) == Cardinality({k \in DOMAIN w : w[k] > 0})

\* Mutant: the counters follow the window
RecordedLate(p, pnl, config) ==
    LET w == Last(Append(p.window, pnl), config.lookback) IN
    [p EXCEPT !.window = w, !.count = Len(w), !.wins = Wins(w),
              !.first = IF p.count = 0 THEN "young" ELSE @]

\* record_trade on a row as it was read
Recorded(p, pnl, config) ==
    [p EXCEPT !.window = Last(Append(@, pnl), config.lookback),
              !.count = @ + 1,
              !.wins = IF pnl > 0 THEN @ + 1 ELSE @,
              !.first = IF p.count = 0 THEN "young" ELSE @]

\* Mutant: a model is judged before its time
DueAtOnce(p) == TRUE

Due(p) == p.first = "old" \/ p.count >= MinTrades
Unfit(w) == 2 * Wins(w) < Len(w) \/ Sum(w) < MinPnl \/ w = <<>>

-----------------------------------------------------------------------------
Closing(pc) == closing.pc = pc
ClosingDone == closing' = NoClosing

\* A BUY of m is filled; with a config that does not validate the callback ends
\* before it starts the monitor
Opens(m) ==
    /\ ~held[m].open
    /\ held' = [held EXCEPT ![m] =
           [open |-> TRUE, watched |-> Validates(m),
            config |-> IF Validates(m) THEN Effective(m) ELSE DefaultConfig]]
    /\ UNCHANGED <<perf, closing, resets, since, excused>>

\* The position is closed and journalled, by a SELL of the bot or by its
\* monitor, which uses the config it was started with.  A config that does not
\* validate ends the callback here, and nothing records the trade.
Closes(m, how, pnl) ==
    LET counted == how = "leg" \/ Validates(m) IN
    /\ held[m].open /\ (how = "leg" => held[m].watched)
    /\ held' = [held EXCEPT ![m] = NoPosition]
    /\ since' = IF counted THEN [since EXCEPT ![m] = Append(@, pnl)] ELSE since
    /\ closing' = IF counted
                  THEN [NoClosing EXCEPT !.pc = "read", !.model = m, !.how = how, !.pnl = pnl,
                            !.config = IF how = "leg" THEN held[m].config ELSE Effective(m)]
                  ELSE NoClosing
    /\ UNCHANGED <<perf, resets, excused>>

Kept == UNCHANGED <<held, resets, since, excused>>

\* get_or_create commits a new row at once
ReadRow ==
    LET m == closing.model IN
    /\ Closing("read")
    /\ perf' = [perf EXCEPT ![m].exists = TRUE]
    /\ closing' = [closing EXCEPT !.pc = "record", !.seen = perf'[m]]
    /\ Kept

RecordTrade ==
    LET m == closing.model IN
    /\ Closing("record")
    /\ perf' = [perf EXCEPT ![m] =
           Update(@, closing.seen, Recorded(closing.seen, closing.pnl, closing.config))]
    /\ closing' = [closing EXCEPT !.pc = "check"]
    /\ Kept

\* check_retirement up to its decision; "told" when the model is already retired
CheckRetirement ==
    LET p == perf[closing.model] IN
    /\ Closing("check")
    /\ closing' = CASE closing.config.enabled # 1 -> NoClosing
                    [] closing.config.enabled = 1 /\ p.retired -> [closing EXCEPT !.pc = "tell"]
                    [] OTHER -> IF Due(p) /\ Unfit(p.window)
                                THEN [closing EXCEPT !.pc = "retire", !.seen = p] ELSE NoClosing
    /\ UNCHANGED perf /\ Kept

Retire ==
    LET m == closing.model IN
    /\ Closing("retire")
    /\ perf' = [perf EXCEPT ![m] = Update(@, closing.seen, [closing.seen EXCEPT !.retired = TRUE])]
    /\ closing' = [closing EXCEPT !.pc = "tell"]
    /\ Kept

\* The outcomes that count when the record of a trade ends where it is
LeftOut ==
    [m \in Models |->
        IF m = closing.model /\ closing.pc \in {"read", "record"} /\ since[m] # <<>>
        THEN SubSeq(since[m], 1, Len(since[m]) - 1) ELSE since[m]]

\* An exception of record_trade or check_retirement is caught and logged: the
\* trade stays in the journal, what is committed stays in the row
RecordFails ==
    /\ closing.pc \in {"read", "record", "check", "retire"} /\ ClosingDone
    /\ since' = LeftOut
    /\ UNCHANGED <<perf, held, resets, excused>>

RecordSteps == ReadRow \/ RecordTrade \/ CheckRetirement \/ Retire

\* The evaluation period of m has passed
Ages(m) ==
    /\ perf[m].first = "young"
    /\ perf' = [perf EXCEPT ![m].first = "old"]
    /\ UNCHANGED closing /\ Kept

-----------------------------------------------------------------------------
\* unretire: 404 without a row
UnretireArrives(t, m) ==
    /\ resets[t].pc = "idle" /\ perf[m].exists
    /\ resets' = [resets EXCEPT ![t] = [pc |-> "commit", model |-> m, seen |-> perf[m]]]
    /\ UNCHANGED <<perf, held, closing, since, excused>>

\* It is clean when nothing has changed since the row was read and no trade of
\* the model is being recorded
UnretireCommits(t) ==
    LET m == resets[t].model
        seen == resets[t].seen
        clean == [perf[m] EXCEPT !.first = seen.first] = seen /\ closing.model # m IN
    /\ resets[t].pc = "commit"
    /\ perf' = [perf EXCEPT ![m] = Update(@, seen, Reset(seen))]
    /\ since' = [since EXCEPT ![m] = <<>>]
    /\ excused' = IF clean THEN excused \ {m} ELSE excused \cup {m}
    /\ resets' = [resets EXCEPT ![t] = NoReset]
    /\ UNCHANGED <<held, closing>>

RetirementInit ==
    /\ perf = [m \in Models |-> Unborn] /\ held = [m \in Models |-> NoPosition]
    /\ closing = NoClosing /\ resets = [t \in Threads |-> NoReset]
    /\ since = [m \in Models |-> <<>>] /\ excused = {}

\* The process ends; a trade that is journalled and not recorded stays so
RetirementEnd ==
    /\ closing' = NoClosing /\ resets' = [t \in Threads |-> NoReset]
    /\ since' = LeftOut
    /\ UNCHANGED <<perf, held, excused>>

\* Start-up watches every position again, without the config of its models
Rewatch ==
    /\ held' = [m \in Models |-> IF held[m].open THEN [NoPosition EXCEPT !.open = TRUE, !.watched = TRUE]
                                 ELSE NoPosition]
    /\ UNCHANGED <<perf, closing, resets, since, excused>>
=============================================================================
