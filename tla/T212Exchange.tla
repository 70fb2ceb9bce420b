----------------------------- MODULE T212Exchange -----------------------------
(***************************************************************************)
(* Trading 212, as the code uses it through T212Client (external).  The    *)
(* account never goes short: a sale of more than is held is refused, and a *)
(* leg cannot fill then.                                                   *)
(***************************************************************************)
EXTENDS TradingState

\* The market order n is executed
Execute(n) ==
    /\ executed' = executed \cup {n}
    /\ held' = [held EXCEPT ![orders[n].ticker] =
                    IF orders[n].side = "BUY" THEN @ + orders[n].qty ELSE @ - orders[n].qty]

CanExecute(n) == orders[n].side = "BUY" \/ held[orders[n].ticker] >= orders[n].qty

\* DELETE of a leg: an open leg is cancelled unless the call fails; any other
\* leg is left as it is and the call fails
Cancel(n, k) ==
    \/ legs' = [legs EXCEPT ![n][k] = IF @ = "open" THEN "dead" ELSE @]
    \/ "uncancelled" \in scene.faults /\ legs' = legs

\* A leg triggers while the account still holds its shares, and sells them
LegFills(n, k) ==
    /\ legs[n][k] = "open"
    /\ held[orders[n].ticker] >= orders[n].qty
    /\ legs' = [legs EXCEPT ![n][k] = "filled"]
    /\ held' = [held EXCEPT ![orders[n].ticker] = @ - orders[n].qty]
    /\ UNCHANGED <<executed, dbVars, taskVars, envVars>>

\* The exchange gives up a leg whose shares are gone
LegBounces(n, k) ==
    /\ "bounced" \in scene.faults
    /\ legs[n][k] = "open"
    /\ held[orders[n].ticker] < orders[n].qty
    /\ legs' = [legs EXCEPT ![n][k] = "dead"]
    /\ UNCHANGED <<held, executed, dbVars, taskVars, envVars>>

\* A leg is cancelled from outside the bot
LegRevoked(n, k) ==
    /\ "revoked" \in scene.faults
    /\ legs[n][k] = "open"
    /\ legs' = [legs EXCEPT ![n][k] = "dead"]
    /\ UNCHANGED <<held, executed, dbVars, taskVars, envVars>>

Exchange == \E n \in Ids, k \in LegKinds : 
    LegFills(n, k) \/ LegBounces(n, k) \/ LegRevoked(n, k)
=============================================================================
