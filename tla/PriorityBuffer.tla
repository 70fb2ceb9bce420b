---------------------------- MODULE PriorityBuffer ----------------------------
(***************************************************************************)
(* What AsyncBroker's queue promises its callers: a buffer of at most      *)
(* Capacity orders, counting the one being served, that hands out the most *)
(* urgent order first, keeps one outstanding order per key, and when full  *)
(* gives a place to a more urgent newcomer by dropping the least urgent    *)
(* order.  No heap, no marks, no event, no counters.                       *)
(***************************************************************************)
EXTENDS Orders, FiniteSets

CONSTANT Capacity

VARIABLES
    waiting,    \* orders accepted and not yet served
    serving,    \* {the order being served}, or {}
    answered,   \* its result is known and its key is free again
    issued,     \* the next sequence number
    closed      \* the server has stopped for good

bufferVars == <<waiting, serving, answered, issued, closed>>

Taken == {Key(i.req) : i \in waiting \cup (IF answered THEN {} ELSE serving)}
Full == Cardinality(waiting) + Cardinality(serving) >= Capacity

Init == waiting = {} /\ serving = {} /\ answered = FALSE /\ issued = 0 /\ closed = FALSE

Submit(r) ==
    /\ ~closed
    /\ Key(r) \notin Taken
    /\ issued' = issued + 1
    /\ LET item == [seq |-> issued, req |-> r] IN
       \/ ~Full /\ waiting' = waiting \cup {item}
       \/ /\ Full
          /\ \A w \in waiting : Priority(w.req) <= Priority(r)
          /\ waiting' = waiting
       \/ /\ Full
          /\ \E w \in waiting :
              /\ Priority(w.req) > Priority(r)
              /\ \A v \in waiting : Priority(v.req) <= Priority(w.req)
              /\ waiting' = (waiting \ {w}) \cup {item}
    /\ UNCHANGED <<serving, answered, closed>>

Serve ==
    /\ ~closed /\ serving = {}
    /\ \E i \in waiting :
        /\ \A j \in waiting \ {i} : Before(i, j)
        /\ waiting' = waiting \ {i}
        /\ serving' = {i}
    /\ UNCHANGED <<answered, issued, closed>>

Answer ==
    /\ serving # {} /\ ~answered
    /\ answered' = TRUE
    /\ UNCHANGED <<waiting, serving, issued, closed>>

\* The last release, or the cancellation of the server, may close the buffer
Release ==
    /\ ~closed
    /\ serving' = {} /\ answered' = FALSE
    /\ closed' \in {closed, TRUE}
    /\ UNCHANGED <<waiting, issued>>

Next == (\E r \in Requests : Submit(r)) \/ Serve \/ Answer \/ Release

Spec == Init /\ [][Next]_bufferVars
=============================================================================
