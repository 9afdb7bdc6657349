CONSTANTS
    Kinds = {"ssh", "sshd"}
    Addrs <- MCAddrs
    Callers <- MCCallers
    MaxConns = 3
    NoSession = NoSession
    NoConn = NoConn
SPECIFICATION Spec
PROPERTY InitOncePerConn
