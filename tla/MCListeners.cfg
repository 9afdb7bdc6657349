\* h2 with one Close call and http3 with two, three requests each against a
\* backlog of 2: the queue fills, a request is dropped and conns are still
\* queued when Close runs.  The listen-loop listeners: each of the five
\* kinds, two sessions, three streams and a backlog of 1.
CONSTANTS
    H2Requests = {r1, r2, r3}
    H3Requests = {r1, r2, r3}
    H2Closers = {c1}
    H3Closers = {c1, c2}
    HttpBacklog = 2
    LoopKinds = {"kcp", "ssh", "icmp", "grpc", "ws"}
    Sessions = {x1, x2}
    Streams = {s1, s2, s3}
    LoopBacklog = 1
SPECIFICATION Spec
PROPERTY AcceptUnblocksAfterClose
\* A closed listener whose accept loop has ended rests.
CHECK_DEADLOCK FALSE
