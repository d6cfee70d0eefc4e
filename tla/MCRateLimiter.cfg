CONSTANTS
    Workers = {w1, w2}
    bytes_per_sec = 2
    maxdebt = 4
    Sizes = {0, 3, 6}
    Word = 9
    RealtimeMaxdelta = 100
    MaxTime = 5
    MaxRequests = 3
    MaxFaults = 1
SPECIFICATION Spec
INVARIANTS DebtRight RetryAfterHonoured
PROPERTY ExpiryIrrelevant
CHECK_DEADLOCK FALSE
