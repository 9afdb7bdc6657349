\* TAP server bridge: two peers, two MACs, one pooled buffer, three frames.
\* TAP loop: both sides, two iterations that end without an exit signal.
\* TUN: one network failure and two packets per device, three devices, one
\* Close call.  sshd and SOCKS5: two peer connections.  relay connector:
\* two data frames each way, every network, address and mode.  http2: one
\* address, three Dials, three clients.  ws: a keepalive period of two
\* ticks, a handshake timeout of two ticks, pongs back within one tick.
\* TUN keepalive: a period of two ticks, answers back within one tick.
CONSTANTS
    Peers = {u1, u2}
    MACs = {m1, m2}
    Buffers = {b1}
    MaxFrames = 3
    BCAST = BCAST
    NoPeer = NoPeer
    NoMAC = NoMAC
    Sides = {"client", "server"}
    MaxFails = 2
    TunMaxFails = 1
    MaxPkts = 2
    MaxTries = 3
    Closers = {c1}
    Conns = {q1, q2}
    MaxData = 2
    H2Addrs = {a1}
    Calls = {k1, k2, k3}
    Clients = {l1, l2, l3}
    NoClient = NoClient
    NoCall = NoCall
    WsK = 2
    WsH = 2
    WsLat = 1
    TunK = 2
    TunLat = 1
SPECIFICATION Spec
INVARIANTS TypeOK OneLiveDevice
           ForwardOnlyAfterReply ExactlyOneReply
           OneRequestFirst NoHeaderAsData LivePeerNeverTimesOut
           LiveServerNeverTimesOut
PROPERTIES TapErrorEndsLoop TunErrorEndsLoop DeviceReplaced SshEndTearsDown
           AssociationEndsOnEOF MuxSessionEndTearsDown
           NoClientOverwritten FailedClientNotReused KeepAliveStopsAfterClose
           SilentServerDetected
\* Every part comes to rest: the TAP bridge at its bound on frames, the
\* TAP loop when handleLoop returns (Handle defers os.Exit), the TUN
\* listener once closed or out of devices, a forward handler once it has
\* returned and the client has gone, the relay connector once Connect
\* failed or both sides have sent their data, the http2 dialer once every
\* Dial has returned and its conn is closed, the ws dialer once its conn
\* is closed and the keepalive goroutine has returned, the TUN keepalive
\* once the iteration has ended and keepAlive returned.
CHECK_DEADLOCK FALSE
