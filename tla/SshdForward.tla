----------------------------- MODULE SshdForward -----------------------------
(***************************************************************************)
(* The sshd forward handler (src/handler/sshd/handler.go) for one client  *)
(* request, which is a direct-tcpip channel or a tcpip-forward request.   *)
(*                                                                         *)
(* direct-tcpip: unless the target is bypassed, dial it through the       *)
(* router and relay until either side ends.  tcpip-forward: parse the     *)
(* payload, listen, reply; an accept goroutine opens a forwarded-tcpip     *)
(* channel on the client's SSH connection for each peer and relays; the   *)
(* handler waits for the SSH connection to be done and returns, and its   *)
(* deferred ln.Close() ends the accept goroutine.  Handle's deferred      *)
(* conn.Close() closes the client's conn on every path.                   *)
(***************************************************************************)
EXTENDS Naturals

CONSTANTS
    Peers   \* connections that may arrive at the forward listener

VARIABLES
    req,      \* "direct" | "remote": the kind of conn Handle was given
    h,        \* the handler: "start" | "listen" | "reply" | "relay" | "serve" | "done"
    conn,     \* the client conn: "open" | "closed"
    cc,       \* direct-tcpip: the upstream conn "none" | "open" | "closed"
    ln,       \* tcpip-forward: the listener "none" | "open" | "closed"
    replies,  \* tcpip-forward: the number of req.Reply calls made
    acc,      \* the accept goroutine: "none" | "run" | "exit"
    peer,     \* peer -> "none" | "new" | "relay" | "closed"
    sshDone   \* the client's SSH connection is done

vars == <<req, h, conn, cc, ln, replies, acc, peer, sshDone>>

(* Handle returns; its deferred conn.Close() runs. *)
Finish == h' = "done" /\ conn' = "closed"

-----------------------------------------------------------------------------
(* Handle's rate limit or a bypassed target returns at once; a failed  *)
(* router.Dial returns its error; otherwise relay.                       *)
DirectDial ==
    /\ req = "direct" /\ h = "start"
    /\ \/ Finish /\ UNCHANGED cc
       \/ h' = "relay" /\ cc' = "open" /\ UNCHANGED conn
    /\ UNCHANGED <<req, ln, replies, acc, peer, sshDone>>

(* netpkg.Transport(conn, cc) returns when either side ends; the        *)
(* deferred cc.Close() runs, then Handle's conn.Close().                 *)
DirectRelayEnds ==
    /\ h = "relay"
    /\ cc' = "closed"
    /\ Finish
    /\ UNCHANGED <<req, ln, replies, acc, peer, sshDone>>

(* Handle's rate limit, then handleRemoteForward: ssh.Unmarshal of the   *)
(* tcpip-forward payload; either failing returns without a reply.        *)
ParsePayload ==
    /\ req = "remote" /\ h = "start"
    /\ \/ h' = "listen" /\ UNCHANGED conn
       \/ Finish
    /\ UNCHANGED <<req, cc, ln, replies, acc, peer, sshDone>>

(* Variant: the accept goroutine is started as soon as the listener is *)
(* bound, before the reply.                                              *)
ListenAcceptFirst ==
    /\ h = "listen"
    /\ \/ /\ ln' = "open" /\ h' = "reply" /\ acc' = "run"
          /\ UNCHANGED <<conn, replies>>
       \/ /\ replies' = replies + 1
          /\ Finish
          /\ UNCHANGED <<ln, acc>>
    /\ UNCHANGED <<req, cc, peer, sshDone>>

(* net.Listen; an error is answered req.Reply(false) and returned. *)
Listen ==
    /\ h = "listen"
    /\ \/ /\ ln' = "open" /\ h' = "reply"
          /\ UNCHANGED <<conn, replies>>
       \/ /\ replies' = replies + 1
          /\ Finish
          /\ UNCHANGED ln
    /\ UNCHANGED <<req, cc, acc, peer, sshDone>>

(* Variant: a failed reply is followed by req.Reply(false). *)
ReplyFalseOnError ==
    /\ h = "reply"
    /\ \/ /\ replies' = replies + 1
          /\ h' = "serve" /\ acc' = "run"
          /\ UNCHANGED <<conn, ln>>
       \/ /\ replies' \in {replies + 1, replies + 2}
          /\ ln' = "closed"
          /\ Finish
          /\ UNCHANGED acc
    /\ UNCHANGED <<req, cc, peer, sshDone>>

(* req.Reply(true, port) (or empty); on an error (the reply, or reading *)
(* the port back from ln.Addr) the error is returned and the deferred   *)
(* ln.Close() runs.  Otherwise the accept goroutine starts.             *)
Reply ==
    /\ h = "reply"
    /\ \/ /\ replies' = replies + 1
          /\ h' = "serve" /\ acc' = "run"
          /\ UNCHANGED <<conn, ln>>
       \/ /\ replies' \in {replies, replies + 1}
          /\ ln' = "closed"
          /\ Finish
          /\ UNCHANGED acc
    /\ UNCHANGED <<req, cc, peer, sshDone>>

(* Variant: the listener is not closed when the handler returns. *)
ServeNoLnClose ==
    /\ h = "serve" /\ sshDone
    /\ Finish
    /\ UNCHANGED <<req, cc, ln, replies, acc, peer, sshDone>>

(* <-conn.Done(), then return: the deferred ln.Close() and conn.Close(). *)
Serve ==
    /\ h = "serve" /\ sshDone
    /\ ln' = "closed"
    /\ Finish
    /\ UNCHANGED <<req, cc, replies, acc, peer, sshDone>>

(* ln.Accept() returns a peer, which gets a goroutine of its own. *)
Accept(p) ==
    /\ acc = "run" /\ ln = "open" /\ peer[p] = "none"
    /\ peer' = [peer EXCEPT ![p] = "new"]
    /\ UNCHANGED <<req, h, conn, cc, ln, replies, acc, sshDone>>

(* ln.Accept() fails once the listener is closed: the goroutine returns. *)
AcceptFails ==
    /\ acc = "run" /\ ln = "closed"
    /\ acc' = "exit"
    /\ UNCHANGED <<req, h, conn, cc, ln, replies, peer, sshDone>>

(* The peer's goroutine: getHostPortFromAddr of the peer's address, then *)
(* sshConn.OpenChannel(forwarded-tcpip), which fails once the SSH        *)
(* connection is done and may be rejected by the client; on an error the *)
(* peer is closed, otherwise relay.                                       *)
OpenChannel(p) ==
    /\ peer[p] = "new"
    /\ \/ peer' = [peer EXCEPT ![p] = "closed"]
       \/ ~sshDone /\ peer' = [peer EXCEPT ![p] = "relay"]
    /\ UNCHANGED <<req, h, conn, cc, ln, replies, acc, sshDone>>

(* netpkg.Transport(ch, conn) returns when either side ends; the         *)
(* deferred ch.Close() and conn.Close() run.                              *)
PeerRelayEnds(p) ==
    /\ peer[p] = "relay"
    /\ peer' = [peer EXCEPT ![p] = "closed"]
    /\ UNCHANGED <<req, h, conn, cc, ln, replies, acc, sshDone>>

(* The client's SSH connection ends. *)
SshEnds ==
    /\ ~sshDone
    /\ sshDone' = TRUE
    /\ UNCHANGED <<req, h, conn, cc, ln, replies, acc, peer>>

-----------------------------------------------------------------------------
Init ==
    /\ req \in {"direct", "remote"}
    /\ h = "start"
    /\ conn = "open"
    /\ cc = "none"
    /\ ln = "none"
    /\ replies = 0
    /\ acc = "none"
    /\ peer = [p \in Peers |-> "none"]
    /\ sshDone = FALSE

Next ==
    \/ DirectDial \/ DirectRelayEnds \/ ParsePayload \/ Listen \/ Reply
    \/ Serve \/ AcceptFails \/ SshEnds
    \/ \E p \in Peers : Accept(p) \/ OpenChannel(p) \/ PeerRelayEnds(p)

(* The handler and its goroutines run when they can.  A relay is forced *)
(* to end only once the SSH connection is done, which closes its         *)
(* channel; peers need not arrive and the client need not disconnect.    *)
Fairness ==
    /\ WF_vars(DirectDial) /\ WF_vars(ParsePayload) /\ WF_vars(Listen)
    /\ WF_vars(Reply) /\ WF_vars(Serve) /\ WF_vars(AcceptFails)
    /\ WF_vars(DirectRelayEnds /\ sshDone)
    /\ \A p \in Peers : WF_vars(OpenChannel(p)) /\ WF_vars(PeerRelayEnds(p) /\ sshDone)

Spec == Init /\ [][Next]_vars /\ Fairness

-----------------------------------------------------------------------------
(* Type invariant. *)
TypeOK ==
    /\ req \in {"direct", "remote"}
    /\ h \in {"start", "listen", "reply", "relay", "serve", "done"}
    /\ conn \in {"open", "closed"}
    /\ cc \in {"none", "open", "closed"}
    /\ ln \in {"none", "open", "closed"}
    /\ replies \in 0..1
    /\ acc \in {"none", "run", "exit"}
    /\ peer \in [Peers -> {"none", "new", "relay", "closed"}]
    /\ sshDone \in BOOLEAN

(* Spec 4.4.2 and RFC 4254 7.1: a forwarded-tcpip channel is opened to   *)
(* the client only after the tcpip-forward request was answered, and     *)
(* answered exactly once.                                                 *)
ForwardOnlyAfterReply ==
    (\E p \in Peers : peer[p] # "none") => replies = 1

(* Spec 3, Teardown: once the client's SSH connection is done, the       *)
(* handler returns, the forward listener is closed, the accept goroutine *)
(* ends, and every peer and upstream conn is closed.                      *)
TornDown ==
    /\ h = "done" /\ conn = "closed"
    /\ ln # "open" /\ cc # "open" /\ acc # "run"
    /\ \A p \in Peers : peer[p] \in {"none", "closed"}

SshEndTearsDown == sshDone ~> TornDown
=============================================================================
