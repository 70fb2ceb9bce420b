----------------------------- MODULE BotSettings -----------------------------
(***************************************************************************)
(* The settings of the bot: what overrides.yaml and the environment say at *)
(* the start, the row of bot_settings in the database, and the object in   *)
(* memory that everything reads.  PATCH /settings is served on the event   *)
(* loop, PATCH /retirement/config in a worker thread; both change the row  *)
(* through a session of their own, and every tick and start-up copy the    *)
(* row over the object in memory.                                          *)
(*                                                                         *)
(* A field stands for all that are treated alike:                          *)
(*   key, loss          copied when not zero or empty (daily_loss_halt_pct, *)
(*                      size_pct, max_positions, the credentials, ...)     *)
(*   enabled, lookback  copied when not None (retirement_*, safe_mode, ...) *)
(*   slack, email       always copied (slack_enabled, extended_hours, ...)  *)
(***************************************************************************)
EXTENDS Integers, Sequences

CONSTANTS
    Yaml,       \* the settings before any row exists
    Threads     \* worker threads of the API server

None == -1
Fields == {"key", "loss", "slack", "email", "enabled", "lookback"}
Values == Nat \cup {None}

VARIABLES
    row,        \* the row of bot_settings
    settings,   \* the object in memory
    requests    \* requests[e]: the PATCH that thread e, or the event loop, serves

settingsVars == <<row, settings, requests>>

Executors == Threads \cup {"loop"}

NoRow == [f \in Fields |-> None]
\* The defaults of the columns
NewRow == [f \in Fields |->
    CASE f = "loss" -> 50 [] f \in {"enabled", "lookback"} -> None [] OTHER -> 0]

Idle == [pc |-> "idle", field |-> "key", value |-> 0, seen |-> NoRow, base |-> NoRow]

\* Mutant: the whole row is written
UpdateAll(database, seen, new) == new

\* An UPDATE names the columns that differ from what the session has read; the
\* others keep what the database has by now
Update(database, seen, new) ==
    [c \in DOMAIN database |-> IF new[c] = seen[c] THEN database[c] ELSE new[c]]

-----------------------------------------------------------------------------
Honoured(f, v) ==
    CASE f \in {"key", "loss"} -> v > 0
      [] f \in {"enabled", "lookback"} -> v # None
      [] OTHER -> TRUE

\* apply_bot_settings; without a row nothing is applied
Applied(r, s) ==
    IF r = NoRow THEN s ELSE [f \in Fields |-> IF Honoured(f, r[f]) THEN r[f] ELSE s[f]]

\* The credentials of a row take the place of those of the environment even
\* when the row has none
Configured == row # NoRow => row["key"] > 0

Serving(e, pc) == requests[e].pc = pc
Advance(e, pc) == requests' = [requests EXCEPT ![e].pc = pc]

\* A PATCH of one field has read the row.  Only PATCH /retirement/config knows
\* null, and it changes the object in memory before the row.
PatchArrives(e, f, v) ==
    /\ Serving(e, "idle")
    /\ e = "loop" <=> f \notin {"enabled", "lookback"}
    /\ e = "loop" => v # None
    /\ requests' = [requests EXCEPT ![e] =
           [pc |-> "get", field |-> f, value |-> v, seen |-> row, base |-> NoRow]]
    /\ settings' = IF e = "loop" THEN settings ELSE [settings EXCEPT ![f] = v]
    /\ UNCHANGED row

\* upsert asks for the row again: the session gives the one it has, and asks the
\* database only when it has none
GetAgain(e) ==
    /\ Serving(e, "get")
    /\ requests' = [requests EXCEPT ![e].pc = "commit",
           ![e].base = IF requests[e].seen = NoRow THEN row ELSE requests[e].seen]
    /\ UNCHANGED <<row, settings>>

Wanted(q) ==
    [IF q.seen = NoRow THEN NewRow ELSE q.seen EXCEPT ![q.field] = q.value]

\* The commit.  A row that appears between the two questions is overwritten by
\* the defaults; one that appears after them makes the INSERT fail.
CommitRow(e) ==
    LET q == requests[e]
        inserts == q.base = NoRow
        fails == inserts /\ row # NoRow IN
    /\ Serving(e, "commit")
    /\ row' = CASE fails -> row
                [] inserts /\ ~fails -> Wanted(q)
                [] OTHER -> Update(row, q.base, Wanted(q))
    /\ requests' = [requests EXCEPT ![e] =
           IF e = "loop" /\ ~fails THEN [q EXCEPT !.pc = "apply"] ELSE Idle]
    /\ UNCHANGED settings

ApplyPatch(e) ==
    /\ Serving(e, "apply")
    /\ settings' = Applied(row, settings)
    /\ requests' = [requests EXCEPT ![e] = Idle]
    /\ UNCHANGED row

PatchSteps(e) == GetAgain(e) \/ CommitRow(e) \/ ApplyPatch(e)

SettingsInit(rows) ==
    /\ row \in rows /\ settings = Yaml /\ requests = [e \in Executors |-> Idle]

\* The process starts: first the file and the environment, then the row
SettingsStart == settings' = Applied(row, Yaml) /\ UNCHANGED <<row, requests>>

\* The process ends
SettingsEnd == requests' = [e \in Executors |-> Idle] /\ UNCHANGED <<row, settings>>
=============================================================================
