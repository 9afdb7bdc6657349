\* ssh and sshd: one address, two router goroutines, three physical conns.
\* quic and icmp: two addresses, the same two goroutines, three sessions.
CONSTANTS
    SKinds = {"ssh", "sshd"}
    Addrs = {"a1"}
    MaxConns = 3
    NoSession = NoSession
    NoConn = NoConn
    Kinds = {"quic", "icmp"}
    QAddrs = {a1, a2}
    Sessions = {s1, s2, s3}
    NoCaller = NoCaller
SPECIFICATION Spec
INVARIANTS CacheHoldsNoDialerClosedConn
PROPERTIES  ImplementsSessionCache
