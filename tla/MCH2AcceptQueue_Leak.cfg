\* h2Listener (also http2 and h2cProxy): unlocked Close, one Close call.
CONSTANTS
    Requests = {r1, r2, r3}
    Closers = {c1}
    Backlog = 2
    Kind = "h2"
SPECIFICATION Spec
PROPERTY HandlerEventuallyReturns
\* Once the listener is closed and the accept loop has stopped the system rests.
CHECK_DEADLOCK FALSE
