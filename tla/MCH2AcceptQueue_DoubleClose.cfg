\* h2Listener (also http2 and h2cProxy): unlocked Close, two concurrent Close calls.
CONSTANTS
    Requests = {r1, r2, r3}
    Closers = {c1, c2}
    Backlog = 2
    Kind = "h2"
SPECIFICATION Spec
INVARIANT CloseNeverPanics
\* Once the listener is closed and the accept loop has stopped the system rests.
CHECK_DEADLOCK FALSE
