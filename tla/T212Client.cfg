\* Two concurrent calls of any kind, three attempts each.
SPECIFICATION Spec
CONSTANTS
    Calls = {c1, c2}
    MaxRetries = 3
INVARIANTS
    ReturnIsTrue
    OrdersExplained
CHECK_DEADLOCK FALSE
