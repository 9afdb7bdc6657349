------------------------------ MODULE MCHandlers ------------------------------
(***************************************************************************)
(* The packet and forward handlers, one at a time: the TAP server's frame *)
(* bridge (TapBridge), the TAP handler's loop on either side (TapLoop),  *)
(* the TUN listener with the TUN client handlers it feeds (MCTun), the    *)
(* sshd forward handler (SshdForward) and the SOCKS5 UDP and MUX-BIND     *)
(* commands (Socks5Handler), the relay connector (RelayConnector), and   *)
(* the http2 dialer with the http2 connector (Http2Dialer), and the     *)
(* websocket dialer's handshake and keepalive (WsDialer), and the TUN    *)
(* client's keepalive during one iteration (TunKeepAlive).               *)
(* These share no state: which one runs is fixed in the initial state,   *)
(* the others keep their initial state and take no step, and only the   *)
(* chosen one is scheduled fairly.                                        *)
(* Variables and constants are renamed where the components' names meet. *)
(***************************************************************************)
EXTENDS Naturals

CONSTANTS
    Peers, MACs, Buffers, MaxFrames, BCAST, NoPeer, NoMAC,   \* TapBridge
    Sides, MaxFails,                                         \* TapLoop
    TunMaxFails, MaxPkts, MaxTries, Closers,                 \* MCTun
    Conns,                                                   \* sshd, SOCKS5
    MaxData,                                                 \* relay
    H2Addrs, Calls, Clients, NoClient, NoCall,               \* http2
    WsK, WsH, WsLat,                                         \* ws
    TunK, TunLat                                             \* tun keepalive

VARIABLES
    active,
    routes, buf, nextId, fanouts, udpOut, origin,
    side, it, main, pc, errc, tr, ur, exitSig, devOk, fails,
    nIt, nMain, nConn, nErrc, nTr, nUr, nDevOk, nFails, pkts, lost,
    loop, try, dev, ctxDone, closed, accept, held, closer,
    req, h, conn, cc, ln, replies, acc, peer, sshDone,
    cmd, enabled, sh, sreplies, scc, up, relay, sln, session, sacc, speer, clientGone,
    network, address, noDelay, st, wbuf, hdr, rup, down, srv, got, sent,
    h2clients, h2lock, h2pc, h2addr, h2client, h2born, h2broken, h2failed,
    wKeepAlive, wHsTimeout, wst, wrdl, wkpc, wticker, wpong, wpeer, wTimedOut,
    ka, tst, kst, trdl, tticker, treply, tserver, tTimedOut, pingErr

bvars == <<routes, buf, nextId, fanouts, udpOut, origin>>
lvars == <<side, it, main, pc, errc, tr, ur, exitSig, devOk, fails>>
nvars == <<nIt, nMain, nConn, nErrc, nTr, nUr, nDevOk, nFails, pkts, lost,
           loop, try, dev, ctxDone, closed, accept, held, closer>>
dvars == <<req, h, conn, cc, ln, replies, acc, peer, sshDone>>
svars == <<cmd, enabled, sh, sreplies, scc, up, relay, sln, session, sacc, speer, clientGone>>
rvars == <<network, address, noDelay, st, wbuf, hdr, rup, down, srv, got, sent>>
hvars == <<h2clients, h2lock, h2pc, h2addr, h2client, h2born, h2broken, h2failed>>
wvars == <<wKeepAlive, wHsTimeout, wst, wrdl, wkpc, wticker, wpong, wpeer, wTimedOut>>
kvars == <<ka, tst, kst, trdl, tticker, treply, tserver, tTimedOut, pingErr>>
vars == <<active, bvars, lvars, nvars, dvars, svars, rvars, hvars, wvars, kvars>>

B == INSTANCE TapBridge
L == INSTANCE TapLoop
N == INSTANCE MCTun WITH MaxFails <- TunMaxFails,
        it <- nIt, main <- nMain, conn <- nConn, errc <- nErrc, tr <- nTr,
        ur <- nUr, devOk <- nDevOk, fails <- nFails
D == INSTANCE SshdForward WITH Peers <- Conns
S == INSTANCE Socks5Handler WITH Peers <- Conns, h <- sh, replies <- sreplies,
        cc <- scc, ln <- sln, peer <- speer
R == INSTANCE RelayConnector WITH up <- rup
H == INSTANCE Http2Dialer WITH Addrs <- H2Addrs, clients <- h2clients, lock <- h2lock,
        pc <- h2pc, addr <- h2addr, client <- h2client, born <- h2born,
        broken <- h2broken, failed <- h2failed
W == INSTANCE WsDialer WITH Period <- WsK, HsTimeout <- WsH, Lat <- WsLat,
        keepAlive <- wKeepAlive, hsTimeout <- wHsTimeout, st <- wst, rdl <- wrdl,
        kpc <- wkpc, ticker <- wticker, pong <- wpong, peer <- wpeer, timedOut <- wTimedOut
K == INSTANCE TunKeepAlive WITH Period <- TunK, Lat <- TunLat, st <- tst, rdl <- trdl,
        ticker <- tticker, reply <- treply, server <- tserver, timedOut <- tTimedOut

Parts == {"bridge", "loop", "tun", "sshd", "socks", "relay", "http2", "ws", "tunka"}

(* A part that does not run keeps one initial state of its own. *)
Init ==
    /\ active \in Parts
    /\ B!Init /\ L!Init /\ N!Init /\ D!Init /\ S!Init /\ R!Init /\ H!Init /\ W!Init /\ K!Init
    /\ active # "loop" => side = "server"
    /\ active # "sshd" => req = "direct"
    /\ active # "socks" => cmd = "udp" /\ ~enabled
    /\ active # "relay" => network = "tcp" /\ address = "" /\ ~noDelay
    /\ active # "ws" => wKeepAlive = 0 /\ wHsTimeout = 0
    /\ active # "tunka" => ka = 0

Next ==
    /\ \/ active = "bridge" /\ B!Next /\ UNCHANGED <<lvars, nvars, dvars, svars, rvars, hvars, wvars, kvars>>
       \/ active = "loop" /\ L!Next /\ UNCHANGED <<bvars, nvars, dvars, svars, rvars, hvars, wvars, kvars>>
       \/ active = "tun" /\ N!Next /\ UNCHANGED <<bvars, lvars, dvars, svars, rvars, hvars, wvars, kvars>>
       \/ active = "sshd" /\ D!Next /\ UNCHANGED <<bvars, lvars, nvars, svars, rvars, hvars, wvars, kvars>>
       \/ active = "socks" /\ S!Next /\ UNCHANGED <<bvars, lvars, nvars, dvars, rvars, hvars, wvars, kvars>>
       \/ active = "relay" /\ R!Next /\ UNCHANGED <<bvars, lvars, nvars, dvars, svars, hvars, wvars, kvars>>
       \/ active = "http2" /\ H!Next /\ UNCHANGED <<bvars, lvars, nvars, dvars, svars, rvars, wvars, kvars>>
       \/ active = "ws" /\ W!Next /\ UNCHANGED <<bvars, lvars, nvars, dvars, svars, rvars, hvars, kvars>>
       \/ active = "tunka" /\ K!Next /\ UNCHANGED <<bvars, lvars, nvars, dvars, svars, rvars, hvars, wvars>>
    /\ UNCHANGED active

(* A step of part p, taken only when p is the chosen part. *)
Run(p, A) == active = p /\ A

ncvars == <<nIt, nMain, nConn, nErrc, nTr, nUr, nDevOk, nFails, pkts, lost>>
nlvars == <<loop, try, dev, ctxDone, closed, accept, held, closer>>

(* Each part's own fairness (see its module), restated for the chosen   *)
(* part: since active never changes, WF(Run(p, A)) is WF(A) when p runs  *)
(* and holds trivially otherwise.  Each condition keeps the subscript of *)
(* the component that takes the step.                                     *)
Fairness ==
    /\ WF_bvars(Run("bridge", \E g \in fanouts, k \in MACs : B!FanoutVisit(g, k)))
    /\ WF_lvars(Run("loop", L!Handle))
    /\ WF_lvars(Run("loop", L!OpenPc)) /\ WF_lvars(Run("loop", L!TransportReturns))
    /\ WF_lvars(Run("loop", L!CheckExit))
    /\ \A i \in L!Iters :
        /\ WF_lvars(Run("loop", L!TapReadFails(i) /\ ~devOk))
        /\ WF_lvars(Run("loop", L!UdpReadFails(i) /\ pc[i] = "closed"))
        /\ WF_lvars(Run("loop", L!SendErr("tr", i))) /\ WF_lvars(Run("loop", L!SendErr("ur", i)))
    /\ WF_ncvars(Run("tun", N!C!Dial)) /\ WF_ncvars(Run("tun", N!C!TransportReturns))
    /\ \A i \in N!C!Iters :
        /\ WF_ncvars(Run("tun", N!C!SendErr("tr", i))) /\ WF_ncvars(Run("tun", N!C!SendErr("ur", i)))
        /\ WF_ncvars(Run("tun", N!C!UdpRead(i) /\ (nConn[i] = "closed" \/ ~nDevOk)))
        /\ WF_ncvars(Run("tun", N!C!TunRead(i) /\ ~nDevOk))
    /\ WF_nlvars(Run("tun", N!L!CreateTun)) /\ WF_nlvars(Run("tun", N!L!Handover))
    /\ WF_nlvars(Run("tun", N!L!AcceptClosed)) /\ WF_nlvars(Run("tun", N!L!Wake))
    /\ WF_nlvars(Run("tun", N!L!Sleep)) /\ \A c \in Closers : WF_nlvars(Run("tun", N!L!CloseChan(c)))
    /\ WF_nvars(Run("tun", N!Handover)) /\ \A t \in N!L!Tries : WF_nvars(Run("tun", N!HandlerDone(t)))
    /\ WF_dvars(Run("sshd", D!DirectDial)) /\ WF_dvars(Run("sshd", D!ParsePayload))
    /\ WF_dvars(Run("sshd", D!Listen)) /\ WF_dvars(Run("sshd", D!Reply))
    /\ WF_dvars(Run("sshd", D!Serve)) /\ WF_dvars(Run("sshd", D!AcceptFails))
    /\ WF_dvars(Run("sshd", D!DirectRelayEnds /\ sshDone))
    /\ \A p \in Conns : WF_dvars(Run("sshd", D!OpenChannel(p)))
                      /\ WF_dvars(Run("sshd", D!PeerRelayEnds(p) /\ sshDone))
    /\ WF_svars(Run("socks", S!Disabled)) /\ WF_svars(Run("socks", S!ListenUDP))
    /\ WF_svars(Run("socks", S!UdpReply)) /\ WF_svars(Run("socks", S!UdpDial))
    /\ WF_svars(Run("socks", S!UdpCopyEnds)) /\ WF_svars(Run("socks", S!RelayEnds))
    /\ WF_svars(Run("socks", S!MbindListen)) /\ WF_svars(Run("socks", S!MbindReply))
    /\ WF_svars(Run("socks", S!ClientSession)) /\ WF_svars(Run("socks", S!LnAcceptFails))
    /\ WF_svars(Run("socks", S!SessionAcceptFails)) /\ WF_svars(Run("socks", S!SessionEnds))
    /\ \A p \in Conns : WF_svars(Run("socks", S!PeerGetConn(p)))
                      /\ WF_svars(Run("socks", S!PeerRelayEnds(p) /\ session = "closed"))
    /\ WF_wvars(Run("ws", W!Tick)) /\ WF_wvars(Run("ws", W!KeepAliveTick))
    /\ WF_wvars(Run("ws", W!PongArrives)) /\ WF_wvars(Run("ws", W!ReadTimesOut))
    /\ WF_kvars(Run("tunka", K!Tick)) /\ WF_kvars(Run("tunka", K!Handshake))
    /\ WF_kvars(Run("tunka", K!KeepAliveTick)) /\ WF_kvars(Run("tunka", K!CtxDone))
    /\ WF_kvars(Run("tunka", K!ReplyArrives)) /\ WF_kvars(Run("tunka", K!ReadTimesOut))

Spec == Init /\ [][Next]_vars /\ Fairness

(* Type invariant of every part. *)
TypeOK == B!TypeOK /\ L!TypeOK /\ N!TypeOK /\ D!TypeOK /\ S!TypeOK /\ R!TypeOK /\ H!TypeOK /\ W!TypeOK
    /\ K!TypeOK

(* Once the tap device fails, the TAP handleLoop returns. *)
TapErrorEndsLoop == L!TapErrorEndsLoop

(* No two TUN handlers hold open tun conns at once. *)
OneLiveDevice == N!OneLiveDevice

(* ErrTun ends the TUN handleClient. *)
TunErrorEndsLoop == N!TunErrorEndsLoop

(* A failed TUN device is replaced by the listener for a new handler. *)
DeviceReplaced == N!DeviceReplaced

(* sshd: a forwarded-tcpip channel is opened only after the one reply to *)
(* the tcpip-forward request.                                            *)
ForwardOnlyAfterReply == D!ForwardOnlyAfterReply

(* sshd: once the SSH connection is done, everything is torn down. *)
SshEndTearsDown == D!SshEndTearsDown

(* SOCKS5: exactly one reply frame per request, Succeeded before relaying. *)
ExactlyOneReply == S!ExactlyOneReply

(* SOCKS5 UDP ASSOCIATE: EOF on the control conn ends the association. *)
AssociationEndsOnEOF == S!AssociationEndsOnEOF

(* SOCKS5 MUX-BIND: the end of the mux session tears everything down. *)
MuxSessionEndTearsDown == S!MuxSessionEndTearsDown

(* relay connector: one request, in front of all of the caller's data. *)
OneRequestFirst == R!OneRequestFirst

(* relay connector: the response header is never read as data. *)
NoHeaderAsData == R!NoHeaderAsData
(* http2: a cached client is replaced only after it was deleted. *)
NoClientOverwritten == H!NoClientOverwritten

(* http2: no Dial hands out a client a Connect has seen fail. *)
FailedClientNotReused == H!FailedClientNotReused

(* ws: a peer that answers every ping never makes a read time out. *)
LivePeerNeverTimesOut == W!LivePeerNeverTimesOut

(* ws: the keepalive goroutine returns once its conn is closed. *)
KeepAliveStopsAfterClose == W!KeepAliveStopsAfterClose

(* TUN client: while the server answers every keepalive and every        *)
(* keepalive write succeeds, the udp read never fails on its deadline.   *)
LiveServerNeverTimesOut == K!LiveServerNeverTimesOut

(* TUN client: once the read deadline is armed, a silent server ends the *)
(* iteration, since only the server's keepalive moves the deadline.      *)
SilentServerDetected == K!SilentServerDetected
=============================================================================
