\* A lost reply: the retry places the order again.
SPECIFICATION Spec
CONSTANTS
    Calls = {c1}
    MaxRetries = 3
INVARIANTS
    PlacedOnce
CHECK_DEADLOCK FALSE
