------------------------------ MODULE OcoMonitor ------------------------------
(***************************************************************************)
(* monitor_oco (alphaTrade/broker/oco_monitor.py): one asyncio task per    *)
(* bracket.  Each call to the exchange is an await, so the two legs are    *)
(* read at two different times and the decision uses both readings.        *)
(* A poll that fails is repeated: to the rest of the system it is a slow   *)
(* poll.                                                                   *)
(***************************************************************************)
EXTENDS T212Exchange

ReadStop(n) ==
    /\ up = "up" /\ monitors[n].pc = "poll"
    /\ monitors' = [monitors EXCEPT ![n].pc = "read", ![n].seen = legs[n]["stop"]]
    /\ UNCHANGED <<exchangeVars, dbVars, queue, drain, taskOf, tick, envVars>>

\* _close_position: the row and, if the monitor knows its model, the journal
ClosePosition(n) ==
    /\ CloseRow(orders[n].ticker)
    /\ journal' = IF monitors[n].model
                  THEN journal \cup {JournalEntry("OCO", n, monitors[n].qty, TRUE)}
                  ELSE journal
    /\ UNCHANGED orders

\* Mutants: any final status counts as a fill; the limit leg's fill is missed
DecisionOnTerminal(stop, limit) ==
    CASE stop \in {"filled", "dead"} -> [close |-> TRUE, pc |-> "cancelLimit"]
      [] stop = "open" /\ limit \in {"filled", "dead"} -> [close |-> TRUE, pc |-> "cancelStop"]
      [] OTHER -> [close |-> FALSE, pc |-> "poll"]

DecisionOnStop(stop, limit) ==
    CASE stop = "filled" -> [close |-> TRUE, pc |-> "cancelLimit"]
      [] stop = "dead"   -> [close |-> FALSE, pc |-> "cancelLimit"]
      [] OTHER -> [close |-> FALSE, pc |-> "poll"]

\* What the monitor does next, given the two statuses it read
Decision(stop, limit) ==
    CASE stop = "filled"  -> [close |-> TRUE,  pc |-> "cancelLimit"]
      [] stop # "filled" /\ limit = "filled" -> [close |-> TRUE, pc |-> "cancelStop"]
      [] stop = "dead" /\ limit # "filled"  -> [close |-> FALSE, pc |-> "cancelLimit"]
      [] stop = "open" /\ limit = "dead"    -> [close |-> FALSE, pc |-> "cancelStop"]
      [] OTHER -> [close |-> FALSE, pc |-> "poll"]

ReadLimit(n) ==
    /\ up = "up" /\ monitors[n].pc = "read"
    /\ LET d == Decision(monitors[n].seen, legs[n]["limit"]) IN
       /\ IF d.close THEN ClosePosition(n) ELSE UNCHANGED dbVars
       /\ monitors' = [monitors EXCEPT ![n].pc = d.pc, ![n].seen = "none"]
    /\ UNCHANGED <<exchangeVars, queue, drain, taskOf, tick, envVars>>

\* Mutant: the other leg is left alone
CancelOtherSkipped(n) ==
    /\ up = "up" /\ monitors[n].pc \in {"cancelStop", "cancelLimit"}
    /\ EndMonitor(n)
    /\ UNCHANGED <<exchangeVars, dbVars, queue, drain, tick, envVars>>

\* _cancel_leg: a failure is logged; the task ends either way
CancelOther(n) ==
    /\ up = "up" /\ monitors[n].pc \in {"cancelStop", "cancelLimit"}
    /\ Cancel(n, IF monitors[n].pc = "cancelStop" THEN "stop" ELSE "limit")
    /\ EndMonitor(n)
    /\ UNCHANGED <<held, executed, dbVars, queue, drain, tick, envVars>>

Monitor(n) == ReadStop(n) \/ ReadLimit(n) \/ CancelOther(n)
=============================================================================
