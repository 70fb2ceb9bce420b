------------------------------- MODULE Alerting -------------------------------
(***************************************************************************)
(* AlertManager (alphaTrade/notify/alerting): a bounded queue between the  *)
(* event loop and a worker thread that posts to Slack and to e-mail.  It   *)
(* holds the settings object that PATCH /settings changes.                 *)
(***************************************************************************)
EXTENDS BotSettings

CONSTANTS
    QueueMax,   \* _QUEUE_MAX
    MinLevel    \* MinLevel[c]: the least level that channel c takes

VARIABLE alerts     \* the alert manager

WARNING == 20
CRITICAL == 40

Channels == {"slack", "email"}
Nothing == [what |-> "nothing", level |-> 0]
Sentinel == [what |-> "sentinel", level |-> 0]

NewManager == [queue |-> <<>>, hand |-> Nothing, mailing |-> FALSE, ended |-> FALSE,
               accepted |-> <<>>, dispatched |-> <<>>]

\* _any_enabled, and the same question again in _dispatch
Listening(level) == {c \in Channels : settings'[c] = 1 /\ level >= MinLevel[c]}

Enqueued(a, item) == [a EXCEPT !.queue = Append(@, item)]
HasRoom(a) == Len(a.queue) < QueueMax

\* notify: the manager after it, with what has been accepted so far
Notified(a, what, level) ==
    LET item == [what |-> what, level |-> level] IN
    IF Listening(level) # {} /\ HasRoom(a)
    THEN [Enqueued(a, item) EXCEPT !.accepted = Append(@, item)]
    ELSE a

Waiting == alerts.hand = Nothing /\ ~alerts.ended
TakeHead ==
    LET item == Head(alerts.queue) IN
    /\ Waiting /\ alerts.queue # <<>>
    /\ alerts' = [alerts EXCEPT !.queue = Tail(@),
                                !.hand = IF item = Sentinel THEN @ ELSE item,
                                !.ended = item = Sentinel]

HandedOut == [alerts EXCEPT !.hand = Nothing, !.mailing = FALSE,
                            !.dispatched = Append(@, alerts.hand)]

\* Mutant: a post that fails ends the worker
DispatchOrEnd ==
    /\ alerts.hand # Nothing /\ ~alerts.mailing
    /\ \/ alerts' = HandedOut
       \/ alerts' = [alerts EXCEPT !.hand = Nothing, !.ended = TRUE]

\* _dispatch asks again which channels listen.  A post to Slack takes ten seconds
\* at most and its failure is logged; e-mail has no timeout.
Dispatch ==
    /\ alerts.hand # Nothing /\ ~alerts.mailing
    /\ alerts' = IF "email" \in Listening(alerts.hand.level)
                 THEN [alerts EXCEPT !.mailing = TRUE] ELSE HandedOut

MailSent == alerts.mailing /\ alerts' = HandedOut

Worker == UNCHANGED settingsVars /\ (TakeHead \/ Dispatch \/ MailSent)

\* shutdown: the sentinel is left out when there is no room for it
PutSentinel == alerts' = IF HasRoom(alerts) THEN Enqueued(alerts, Sentinel) ELSE alerts
=============================================================================
