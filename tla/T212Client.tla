------------------------------ MODULE T212Client ------------------------------
(***************************************************************************)
(* The retry loops of T212Client (alphaTrade/broker/t212_client.py: _get,  *)
(* _post, _delete, _handle_429) against a server and a network that fail.  *)
(*                                                                         *)
(* Calls run in worker threads, several at a time.  A POST places an order *)
(* at the server each time it takes effect.  Every DELETE here cancels the *)
(* same leg, as the OCO monitor and the SELL callback may both do.         *)
(***************************************************************************)
EXTENDS Integers, FiniteSets

CONSTANTS
    Calls,
    MaxRetries      \* _MAX_RETRIES

ASSUME ClientAssumption == MaxRetries \in Nat \ {0}

Kinds == {"get", "post", "delete"}

\* What one attempt sees: a readable success, a success whose body is no JSON,
\* status 429, status 401 or 403, another HTTP error status, or a transport
\* error (timeouts and lost connections)
Answers == {"ok", "garbled", "429", "denied", "error", "transport"}

VARIABLES
    pc,         \* pc[c]: "idle", "trying", "returned" or "raised"
    kind,
    attempt,    \* attempt[c]: the number of the attempt in progress
    last,       \* last[c]: what the latest attempt saw
    placed,     \* placed[c]: how many orders the server has placed for POST c
    leg,        \* the leg that the DELETEs cancel: "open" or "gone"
    unsure      \* history: unsure[c] of c's answers leave open whether it took effect

vars == <<pc, kind, attempt, last, placed, leg, unsure>>

Init ==
    /\ pc = [c \in Calls |-> "idle"]
    /\ kind \in [Calls -> Kinds]
    /\ attempt = [c \in Calls |-> 1]
    /\ last = [c \in Calls |-> "none"]
    /\ placed = [c \in Calls |-> 0]
    /\ leg = "open"
    /\ unsure = [c \in Calls |-> 0]

Start(c) ==
    /\ pc[c] = "idle"
    /\ pc' = [pc EXCEPT ![c] = "trying"]
    /\ UNCHANGED <<kind, attempt, last, placed, leg, unsure>>

\* May the server act on the request although, or because, c sees this answer?
\* (external)  A leg that is gone cannot be cancelled again.
MayTakeEffect(c, answer) ==
    /\ answer \in {"ok", "garbled", "error", "transport"}
    /\ kind[c] = "delete" => leg = "open"

MayHaveNoEffect(c, answer) == kind[c] = "get" \/ answer \notin {"ok", "garbled"}

\* What the server does then (external)
Effect(c) ==
    CASE kind[c] = "post" -> placed' = [placed EXCEPT ![c] = @ + 1] /\ UNCHANGED leg
      [] kind[c] = "delete" -> leg' = "gone" /\ UNCHANGED placed
      [] kind[c] = "get" -> UNCHANGED <<placed, leg>>

Succeeds(c, answer) == answer = "ok" \/ (answer = "garbled" /\ kind[c] = "delete")

\* Mutant: success is assumed after the last attempt
ResolveHopeful(c, answer) ==
    IF Succeeds(c, answer) \/ attempt[c] = MaxRetries THEN "returned"
    ELSE IF answer \in {"garbled", "denied"} THEN "raised"
    ELSE "trying"

\* Mutant: a body that cannot be read is an error like others
ResolveRepeating(c, answer) ==
    IF Succeeds(c, answer) THEN "returned"
    ELSE IF answer = "denied" \/ attempt[c] = MaxRetries THEN "raised"
    ELSE "trying"

\* How the attempt ends the call, or not.  r.json() is outside the handlers:
\* a body that is no JSON raises at once.  _delete reads no body.
Resolve(c, answer) ==
    IF Succeeds(c, answer) THEN "returned"
    ELSE IF answer \in {"garbled", "denied"} \/ attempt[c] = MaxRetries THEN "raised"
    ELSE "trying"

\* One pass of the loop, with the sleep before the next one
Try(c) ==
    /\ pc[c] = "trying"
    /\ \E answer \in Answers :
        /\ \/ MayTakeEffect(c, answer) /\ Effect(c)
           \/ MayHaveNoEffect(c, answer) /\ UNCHANGED <<placed, leg>>
        /\ last' = [last EXCEPT ![c] = answer]
        /\ pc' = [pc EXCEPT ![c] = Resolve(c, answer)]
        /\ attempt' = [attempt EXCEPT ![c] = IF Resolve(c, answer) = "trying" THEN @ + 1 ELSE @]
        /\ unsure' = [unsure EXCEPT ![c] = IF answer \in {"error", "transport"} THEN @ + 1 ELSE @]
    /\ UNCHANGED kind

Next == \E c \in Calls : Start(c) \/ Try(c)

Spec == Init /\ [][Next]_vars

-----------------------------------------------------------------------------
TypeOK ==
    /\ pc \in [Calls -> {"idle", "trying", "returned", "raised"}]
    /\ kind \in [Calls -> Kinds]
    /\ attempt \in [Calls -> 1..MaxRetries]
    /\ last \in [Calls -> Answers \cup {"none"}]
    /\ placed \in [Calls -> 0..MaxRetries]
    /\ leg \in {"open", "gone"}
    /\ unsure \in [Calls -> Nat]

\* A call that returns did what it was asked to: a POST that returns has
\* placed an order, a DELETE that returns has found its leg cancelled.
ReturnIsTrue ==
    \A c \in Calls : pc[c] = "returned" =>
        /\ kind[c] = "post" => placed[c] > 0
        /\ kind[c] = "delete" => leg = "gone"

\* Refused credentials (401, 403) end the call at the first answer that says
\* so: no attempt follows it.
DeniedIsFinal == \A c \in Calls : last[c] = "denied" => pc[c] = "raised"

\* place_market_order places at most one order however often it is tried.
PlacedOnce == \A c \in Calls : placed[c] <= 1

\* A POST repeats only what may have had no effect: it places no more orders
\* than its answers explain, one for each that leaves open whether it did, and
\* one for an answer that says so, after which nothing is sent again (_post).
OrdersExplained ==
    \A c \in Calls :
        placed[c] <= unsure[c] + IF last[c] \in {"ok", "garbled"} THEN 1 ELSE 0
=============================================================================
