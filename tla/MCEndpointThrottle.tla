-------------------------- MODULE MCEndpointThrottle --------------------------
(* Small instances of EndpointThrottle for TLC. *)
EXTENDS EndpointThrottle

CONSTANTS drain, tick1, tick2

\* The gaps keep the order of the defaults: orders_cancel 1.2 s, orders_stop
\* 2 s, account_cash 5 s; "free" is an endpoint without a gap
MCGap == [e \in Endpoints |->
    CASE e = "orders_stop" -> 2 [] e = "account_cash" -> 3
      [] e = "orders_cancel" -> 1 [] OTHER -> 0]
=============================================================================
