---------------------------- MODULE Socks5Handler ----------------------------
(***************************************************************************)
(* Two commands of the SOCKS5 handler (src/handler/socks/v5): UDP         *)
(* ASSOCIATE (udp.go) and MUX-BIND (mbind.go), for one request whose      *)
(* greeting and command have been read.                                    *)
(*                                                                         *)
(* UDP: reply NotAllowed when disabled; ListenUDP (Failure reply on       *)
(* error); reply Succeeded; router.Dial("udp"); start the relay goroutine; *)
(* drain the control conn until EOF; the deferred closes end the relay.  *)
(* MUX-BIND: reply NotAllowed when disabled; net.Listen (Failure reply on *)
(* error); reply Succeeded; upgrade the control conn to a mux session; a  *)
(* goroutine accepts (and drops) streams from the session and closes the  *)
(* listener when the session ends; the handler accepts peers on the      *)
(* listener, each relayed over a new stream of the session, until the     *)
(* listener fails.  The control conn itself is closed by the caller,      *)
(* which is not under src/.                                               *)
(***************************************************************************)
EXTENDS Naturals, Sequences

CONSTANTS
    Peers   \* connections that may arrive at the MUX-BIND listener

Codes == {"NotAllowed", "Failure", "Succeeded"}
Res == {"none", "open", "closed"}

VARIABLES
    cmd,         \* "udp" | "mbind"
    enabled,     \* enableUDP / enableBind
    h,           \* the handler's program counter
    replies,     \* reply frames written on the control conn
    cc,          \* UDP: the client-side UDP listener
    up,          \* UDP: the upstream conn from router.Dial
    relay,       \* UDP: the relay goroutine "none" | "run" | "exit"
    ln,          \* MUX-BIND: the listener
    session,     \* MUX-BIND: the mux session over the control conn
    sacc,        \* MUX-BIND: the session-accept goroutine "none" | "run" | "exit"
    peer,        \* MUX-BIND: peer -> "none" | "new" | "relay" | "closed"
    clientGone   \* the client closed the control conn

vars == <<cmd, enabled, h, replies, cc, up, relay, ln, session, sacc, peer, clientGone>>

Write(code) == replies' = Append(replies, code)

-----------------------------------------------------------------------------
(* handleUDP / handleMuxBind: the command is disabled. *)
Disabled ==
    /\ h = "start" /\ ~enabled
    /\ Write("NotAllowed") /\ h' = "done"
    /\ UNCHANGED <<cmd, enabled, cc, up, relay, ln, session, sacc, peer, clientGone>>

(* net.ListenUDP("udp", nil); an error is answered Failure. *)
ListenUDP ==
    /\ cmd = "udp" /\ h = "start" /\ enabled
    /\ \/ cc' = "open" /\ h' = "reply" /\ UNCHANGED replies
       \/ Write("Failure") /\ h' = "done" /\ UNCHANGED cc
    /\ UNCHANGED <<cmd, enabled, up, relay, ln, session, sacc, peer, clientGone>>

(* The Succeeded reply with the listener's port; if the write fails the *)
(* error is returned and the deferred cc.Close() runs.                   *)
UdpReply ==
    /\ cmd = "udp" /\ h = "reply"
    /\ Write("Succeeded")
    /\ \/ h' = "dial" /\ UNCHANGED cc
       \/ h' = "done" /\ cc' = "closed"
    /\ UNCHANGED <<cmd, enabled, up, relay, ln, session, sacc, peer, clientGone>>

(* Variant: a failed dial after the reply is answered Failure as well. *)
UdpDialReplyOnError ==
    /\ h = "dial"
    /\ \/ /\ h' = "copy" /\ up' = "open" /\ relay' = "run"
          /\ UNCHANGED <<cc, replies>>
       \/ /\ Write("Failure")
          /\ h' = "done" /\ cc' = "closed"
          /\ UNCHANGED <<up, relay>>
    /\ UNCHANGED <<cmd, enabled, ln, session, sacc, peer, clientGone>>

(* router.Dial(ctx, "udp", ""): an error, or a conn that is not a       *)
(* PacketConn (closed by its defer), returns and cc is closed; else the *)
(* relay goroutine starts and the handler drains the control conn.      *)
UdpDial ==
    /\ h = "dial"
    /\ \/ /\ h' = "copy" /\ up' = "open" /\ relay' = "run"
          /\ UNCHANGED cc
       \/ /\ h' = "done" /\ cc' = "closed"
          /\ up' \in {"none", "closed"}
          /\ UNCHANGED relay
    /\ UNCHANGED <<cmd, enabled, replies, ln, session, sacc, peer, clientGone>>

(* Variant: the UDP listener is not closed when the handler returns. *)
UdpCopyEndsNoCcClose ==
    /\ h = "copy" /\ clientGone
    /\ h' = "done" /\ up' = "closed"
    /\ UNCHANGED <<cmd, enabled, replies, cc, relay, ln, session, sacc, peer, clientGone>>

(* io.Copy(ioutil.Discard, conn) returns at EOF; the deferred c.Close() *)
(* and cc.Close() run.                                                   *)
UdpCopyEnds ==
    /\ h = "copy" /\ clientGone
    /\ h' = "done" /\ up' = "closed" /\ cc' = "closed"
    /\ UNCHANGED <<cmd, enabled, replies, relay, ln, session, sacc, peer, clientGone>>

(* r.Run() returns once a conn it reads from is closed. *)
RelayEnds ==
    /\ relay = "run" /\ (cc = "closed" \/ up = "closed")
    /\ relay' = "exit"
    /\ UNCHANGED <<cmd, enabled, h, replies, cc, up, ln, session, sacc, peer, clientGone>>

(* muxBindLocal: net.Listen (strict: the port must be free); an error is *)
(* answered Failure.                                                      *)
MbindListen ==
    /\ cmd = "mbind" /\ h = "start" /\ enabled
    /\ \/ ln' = "open" /\ h' = "reply" /\ UNCHANGED replies
       \/ Write("Failure") /\ h' = "done" /\ UNCHANGED ln
    /\ UNCHANGED <<cmd, enabled, cc, up, relay, session, sacc, peer, clientGone>>

(* The Succeeded reply with the bound address; if the write fails the   *)
(* listener is closed and the error returned.                            *)
MbindReply ==
    /\ cmd = "mbind" /\ h = "reply"
    /\ Write("Succeeded")
    /\ \/ h' = "upgrade" /\ UNCHANGED ln
       \/ h' = "done" /\ ln' = "closed"
    /\ UNCHANGED <<cmd, enabled, cc, up, relay, session, sacc, peer, clientGone>>

(* serveMuxBind: mux.ClientSession(conn); an error is returned at once. *)
(* On success the session-accept goroutine starts.                       *)
ClientSession ==
    /\ h = "upgrade"
    /\ \/ /\ session' = "open" /\ sacc' = "run" /\ h' = "serve"
       \/ /\ h' = "done"
          /\ UNCHANGED <<session, sacc>>
    /\ UNCHANGED <<cmd, enabled, replies, cc, up, relay, ln, peer, clientGone>>

(* ln.Accept() returns a peer, which gets a goroutine of its own. *)
LnAccept(p) ==
    /\ h = "serve" /\ ln = "open" /\ peer[p] = "none"
    /\ peer' = [peer EXCEPT ![p] = "new"]
    /\ UNCHANGED <<cmd, enabled, h, replies, cc, up, relay, ln, session, sacc, clientGone>>

(* ln.Accept() fails once the listener is closed: serveMuxBind returns  *)
(* and its deferred session.Close() runs.                                *)
LnAcceptFails ==
    /\ h = "serve" /\ ln = "closed"
    /\ h' = "done" /\ session' = "closed"
    /\ UNCHANGED <<cmd, enabled, replies, cc, up, relay, ln, sacc, peer, clientGone>>

(* Variant: the session-accept goroutine does not close the listener. *)
SessionAcceptFailsNoLnClose ==
    /\ sacc = "run" /\ session = "closed"
    /\ sacc' = "exit"
    /\ UNCHANGED <<cmd, enabled, h, replies, cc, up, relay, ln, session, peer, clientGone>>

(* session.Accept() fails once the session is closed: the goroutine     *)
(* returns and its deferred ln.Close() runs.                             *)
SessionAcceptFails ==
    /\ sacc = "run" /\ session = "closed"
    /\ sacc' = "exit" /\ ln' = "closed"
    /\ UNCHANGED <<cmd, enabled, h, replies, cc, up, relay, session, peer, clientGone>>

(* A peer's goroutine: session.GetConn() fails on a closed session; the *)
(* Succeeded reply to the client on the new stream may fail; either way  *)
(* the peer is closed.  Otherwise relay.                                 *)
PeerGetConn(p) ==
    /\ peer[p] = "new"
    /\ \/ session = "closed" /\ peer' = [peer EXCEPT ![p] = "closed"]
       \/ session = "open" /\ peer' \in {[peer EXCEPT ![p] = "relay"], [peer EXCEPT ![p] = "closed"]}
    /\ UNCHANGED <<cmd, enabled, h, replies, cc, up, relay, ln, session, sacc, clientGone>>

(* netpkg.Transport(sc, c) returns when either side ends; sc and c are  *)
(* closed by their defers.                                               *)
PeerRelayEnds(p) ==
    /\ peer[p] = "relay"
    /\ peer' = [peer EXCEPT ![p] = "closed"]
    /\ UNCHANGED <<cmd, enabled, h, replies, cc, up, relay, ln, session, sacc, clientGone>>

(* The client closes the control conn. *)
ClientCloses ==
    /\ ~clientGone
    /\ clientGone' = TRUE
    /\ UNCHANGED <<cmd, enabled, h, replies, cc, up, relay, ln, session, sacc, peer>>

(* The mux session's reader sees the control conn end. *)
SessionEnds ==
    /\ session = "open" /\ clientGone
    /\ session' = "closed"
    /\ UNCHANGED <<cmd, enabled, h, replies, cc, up, relay, ln, sacc, peer, clientGone>>

-----------------------------------------------------------------------------
Init ==
    /\ cmd \in {"udp", "mbind"}
    /\ enabled \in BOOLEAN
    /\ h = "start"
    /\ replies = << >>
    /\ cc = "none" /\ up = "none" /\ relay = "none"
    /\ ln = "none" /\ session = "none" /\ sacc = "none"
    /\ peer = [p \in Peers |-> "none"]
    /\ clientGone = FALSE

Next ==
    \/ Disabled \/ ListenUDP \/ UdpReply \/ UdpDial \/ UdpCopyEnds \/ RelayEnds
    \/ MbindListen \/ MbindReply \/ ClientSession \/ LnAcceptFails
    \/ SessionAcceptFails \/ ClientCloses \/ SessionEnds
    \/ \E p \in Peers : LnAccept(p) \/ PeerGetConn(p) \/ PeerRelayEnds(p)

(* The handler and its goroutines run when they can.  io.Copy on the     *)
(* control conn returns only once the client closes it, which the client *)
(* need not do; a relay is forced to end only once a conn it uses is     *)
(* closed; peers need not arrive.                                         *)
Fairness ==
    /\ WF_vars(Disabled) /\ WF_vars(ListenUDP) /\ WF_vars(UdpReply)
    /\ WF_vars(UdpDial) /\ WF_vars(UdpCopyEnds) /\ WF_vars(RelayEnds)
    /\ WF_vars(MbindListen) /\ WF_vars(MbindReply) /\ WF_vars(ClientSession)
    /\ WF_vars(LnAcceptFails) /\ WF_vars(SessionAcceptFails) /\ WF_vars(SessionEnds)
    /\ \A p \in Peers : WF_vars(PeerGetConn(p)) /\ WF_vars(PeerRelayEnds(p) /\ session = "closed")

Spec == Init /\ [][Next]_vars /\ Fairness

-----------------------------------------------------------------------------
(* Type invariant. *)
TypeOK ==
    /\ cmd \in {"udp", "mbind"}
    /\ enabled \in BOOLEAN
    /\ h \in {"start", "reply", "dial", "copy", "upgrade", "serve", "done"}
    /\ replies \in Seq(Codes)
    /\ {cc, up, ln, session} \subseteq Res
    /\ {relay, sacc} \subseteq {"none", "run", "exit"}
    /\ peer \in [Peers -> {"none", "new", "relay", "closed"}]
    /\ clientGone \in BOOLEAN

(* Spec 5: for every SOCKS5 request exactly one reply frame is written on *)
(* the control conn before the relay begins or the connection is closed: *)
(* never two (a failure after the Succeeded reply, in router.Dial or in   *)
(* mux.ClientSession, is not answered again), one on every return, and   *)
(* a relay or a mux session only after a Succeeded reply.                 *)
ExactlyOneReply ==
    /\ Len(replies) <= 1
    /\ h = "done" => Len(replies) = 1
    /\ (relay # "none" \/ session # "none") => replies = <<"Succeeded">>

(* Spec 4.3, UDP ASSOCIATE: EOF on the control conn terminates the        *)
(* association: the handler returns, the client UDP listener and the     *)
(* upstream conn are closed and the relay goroutine ends.                 *)
AssociationEndsOnEOF ==
    clientGone ~> (h = "done" /\ cc # "open" /\ up # "open" /\ relay # "run")

(* Spec 3, Teardown: once the mux session ends, the handler returns, the *)
(* bound listener is closed (by the session-accept goroutine), that      *)
(* goroutine ends, and every peer is closed.                              *)
MuxSessionEndTearsDown ==
    session = "closed" ~>
        (h = "done" /\ ln # "open" /\ sacc # "run"
         /\ \A p \in Peers : peer[p] \in {"none", "closed"})

(* Spec 3, Teardown: every exit path of the handler closes the listener *)
(* it bound.                                                              *)
ListenerClosedOnReturn == h = "done" ~> ln # "open"
=============================================================================
