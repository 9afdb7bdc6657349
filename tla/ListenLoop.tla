----------------------------- MODULE ListenLoop -----------------------------
(***************************************************************************)
(* The listeners that feed Accept from a goroutine of their own through   *)
(* cqueue (capacity backlog) and errChan (capacity 1):                     *)
(*  - kcp, ssh and icmp run listenLoop, which accepts sessions (a KCP conn *)
(*    with smux, an SSH server conn, a QUIC session) and starts a          *)
(*    goroutine per session that offers each new stream or channel to      *)
(*    cqueue; the first accept error is sent on errChan, errChan is closed *)
(*    and the loop returns;                                                *)
(*  - grpc and ws run the server's Serve in a goroutine; each tunnel call  *)
(*    or websocket upgrade offers its conn to cqueue; when Serve returns,  *)
(*    a non-nil error is sent on errChan and errChan is closed.            *)
(* Accept selects on cqueue and errChan and turns a closed errChan into    *)
(* ErrClosed.  The listener's kind is fixed when it is created.            *)
(***************************************************************************)
EXTENDS Naturals, Sequences

CONSTANTS
    Kinds,     \* listener kinds considered, a subset of AllKinds
    Sessions,  \* sessions listenLoop may accept
    Streams,   \* streams or conns offered to cqueue
    Backlog    \* capacity of cqueue

AllKinds == {"kcp", "ssh", "icmp", "grpc", "ws"}
LoopKinds == {"kcp", "ssh", "icmp"}

ASSUME Kinds \subseteq AllKinds /\ Backlog \in Nat \ {0}

VARIABLES
    kind,     \* which listener this is
    lnOpen,   \* the underlying listener or server still accepts
    loop,     \* listenLoop or the Serve goroutine: "run" | "exit"
    errChan,  \* [buf : sequence of errors, closed : BOOLEAN]
    sess,     \* per session: "none" | "open" | "dead"
    st,       \* per stream: "none" | "new" | "queued" | "delivered" | "closed"
    owner,    \* per stream: the session it belongs to (kcp, ssh, icmp)
    cqueue,   \* l.cqueue
    service   \* the service's accept loop: "accepting" | "exit"

vars == <<kind, lnOpen, loop, errChan, sess, st, owner, cqueue, service>>

NoSession == "nosession"

-----------------------------------------------------------------------------
(* listenLoop: a session is accepted and its goroutine started (go       *)
(* l.mux / go l.serveConn).  Setting the session up (smux.Server, the SSH *)
(* handshake) may fail, which closes it.                                 *)
LoopAccept(x) ==
    /\ kind \in LoopKinds
    /\ loop = "run"
    /\ lnOpen
    /\ sess[x] = "none"
    /\ sess' \in {[sess EXCEPT ![x] = "open"], [sess EXCEPT ![x] = "dead"]}
    /\ UNCHANGED <<kind, lnOpen, loop, errChan, st, owner, cqueue, service>>

(* listenLoop: Accept fails, always once the listener is closed and     *)
(* possibly before; l.errChan <- err; close(l.errChan); return.         *)
LoopFails ==
    /\ kind \in LoopKinds
    /\ loop = "run"
    /\ errChan' = [buf |-> Append(errChan.buf, "err"), closed |-> TRUE]
    /\ loop' = "exit"
    /\ UNCHANGED <<kind, lnOpen, sess, st, owner, cqueue, service>>

(* Variant: close(l.errChan) only when Serve returned an error. *)
ServeReturnsNoCloseOnNil ==
    /\ kind \in {"grpc", "ws"}
    /\ loop = "run"
    /\ errChan' = IF kind = "grpc" /\ ~lnOpen
                  THEN errChan
                  ELSE [buf |-> Append(errChan.buf, "err"), closed |-> TRUE]
    /\ loop' = "exit"
    /\ UNCHANGED <<kind, lnOpen, sess, st, owner, cqueue, service>>

(* The Serve goroutine of grpc and ws: Serve returns, always once the   *)
(* server was stopped and possibly before.  grpc's Serve returns nil     *)
(* after Stop; http.Server.Serve returns ErrServerClosed.  A non-nil     *)
(* error is sent; errChan is closed either way.                          *)
ServeReturns ==
    /\ kind \in {"grpc", "ws"}
    /\ loop = "run"
    /\ errChan' = [buf |-> IF kind = "grpc" /\ ~lnOpen
                           THEN errChan.buf
                           ELSE Append(errChan.buf, "err"),
                   closed |-> TRUE]
    /\ loop' = "exit"
    /\ UNCHANGED <<kind, lnOpen, sess, st, owner, cqueue, service>>

(* A session's goroutine gets a new stream (mux.AcceptStream, session.  *)
(* AcceptStream, a gost-ssh-tunnel-request channel accepted).            *)
StreamArrives(i, x) ==
    /\ kind \in LoopKinds
    /\ sess[x] = "open"
    /\ st[i] = "none"
    /\ st' = [st EXCEPT ![i] = "new"]
    /\ owner' = [owner EXCEPT ![i] = x]
    /\ UNCHANGED <<kind, lnOpen, loop, errChan, sess, cqueue, service>>

(* The HTTP or gRPC server runs a handler for a new request: the ws      *)
(* upgrade or the grpc tunnel call.                                      *)
RequestArrives(i) ==
    /\ kind \in {"grpc", "ws"}
    /\ lnOpen
    /\ st[i] = "none"
    /\ st' = [st EXCEPT ![i] = "new"]
    /\ UNCHANGED <<kind, lnOpen, loop, errChan, sess, owner, cqueue, service>>

(* kcp and icmp: select { case l.cqueue <- stream: case <-die: close;   *)
(* default: close }.  Either ready case may be taken.                    *)
OfferWithDie(i) ==
    /\ kind \in {"kcp", "icmp"}
    /\ st[i] = "new"
    /\ \/ /\ Len(cqueue) < Backlog
          /\ cqueue' = Append(cqueue, i)
          /\ st' = [st EXCEPT ![i] = "queued"]
       \/ /\ sess[owner[i]] = "dead" \/ Len(cqueue) >= Backlog
          /\ st' = [st EXCEPT ![i] = "closed"]
          /\ UNCHANGED cqueue
    /\ UNCHANGED <<kind, lnOpen, loop, errChan, sess, owner, service>>

(* ssh, ws and grpc: select { case l.cqueue <- cc: default: reject or  *)
(* close }.                                                              *)
Offer(i) ==
    /\ kind \in {"ssh", "grpc", "ws"}
    /\ st[i] = "new"
    /\ IF Len(cqueue) < Backlog
       THEN /\ cqueue' = Append(cqueue, i)
            /\ st' = [st EXCEPT ![i] = "queued"]
       ELSE /\ st' = [st EXCEPT ![i] = "closed"]
            /\ UNCHANGED cqueue
    /\ UNCHANGED <<kind, lnOpen, loop, errChan, sess, owner, service>>

(* The peer of a session goes away. *)
SessionDies(x) ==
    /\ sess[x] = "open"
    /\ sess' = [sess EXCEPT ![x] = "dead"]
    /\ UNCHANGED <<kind, lnOpen, loop, errChan, st, owner, cqueue, service>>

(* Close: kcp closes the UDP conn its sessions share and the listener;  *)
(* icmp and ssh close the listener; grpc stops the server; ws closes the *)
(* HTTP server, which leaves hijacked websocket conns alone.  Sessions   *)
(* other than kcp's live on until their peer goes.                      *)
Close ==
    /\ lnOpen
    /\ lnOpen' = FALSE
    /\ sess' = IF kind = "kcp"
               THEN [x \in Sessions |-> IF sess[x] = "open" THEN "dead" ELSE sess[x]]
               ELSE sess
    /\ UNCHANGED <<kind, loop, errChan, st, owner, cqueue, service>>

(* Accept: case conn = <-l.cqueue. *)
AcceptConn ==
    /\ service = "accepting"
    /\ cqueue # << >>
    /\ st' = [st EXCEPT ![Head(cqueue)] = "delivered"]
    /\ cqueue' = Tail(cqueue)
    /\ UNCHANGED <<kind, lnOpen, loop, errChan, sess, owner, service>>

(* Accept: case err, ok = <-l.errChan; a closed, drained errChan gives  *)
(* ok false and ErrClosed.  The service's loop ends on the error.        *)
AcceptErr ==
    /\ service = "accepting"
    /\ errChan.buf # << >> \/ errChan.closed
    /\ errChan' = [errChan EXCEPT !.buf = IF @ = << >> THEN @ ELSE Tail(@)]
    /\ service' = "exit"
    /\ UNCHANGED <<kind, lnOpen, loop, sess, st, owner, cqueue>>

-----------------------------------------------------------------------------
Init ==
    /\ kind \in Kinds
    /\ lnOpen = TRUE
    /\ loop = "run"
    /\ errChan = [buf |-> << >>, closed |-> FALSE]
    /\ sess = [x \in Sessions |-> "none"]
    /\ st = [i \in Streams |-> "none"]
    /\ owner = [i \in Streams |-> NoSession]
    /\ cqueue = << >>
    /\ service = "accepting"

Next ==
    \/ LoopFails \/ ServeReturns \/ Close \/ AcceptConn \/ AcceptErr
    \/ \E x \in Sessions : LoopAccept(x) \/ SessionDies(x)
    \/ \E i \in Streams : \/ RequestArrives(i) \/ OfferWithDie(i) \/ Offer(i)
                         \/ \E x \in Sessions : StreamArrives(i, x)

(* The accept goroutine fails once the listener is closed; the goroutine *)
(* offering a stream and the service's accept loop run when they can.   *)
(* Nothing forces Close, new sessions, new streams or a peer to go.      *)
Fairness ==
    /\ WF_vars(LoopFails /\ ~lnOpen) /\ WF_vars(ServeReturns /\ ~lnOpen)
    /\ WF_vars(AcceptConn \/ AcceptErr)
    /\ \A i \in Streams : WF_vars(OfferWithDie(i)) /\ WF_vars(Offer(i))

Spec == Init /\ [][Next]_vars /\ Fairness

-----------------------------------------------------------------------------
(* Type invariant. *)
TypeOK ==
    /\ kind \in Kinds
    /\ lnOpen \in BOOLEAN
    /\ loop \in {"run", "exit"}
    /\ errChan \in [buf : Seq({"err"}), closed : BOOLEAN] /\ Len(errChan.buf) <= 1
    /\ sess \in [Sessions -> {"none", "open", "dead"}]
    /\ st \in [Streams -> {"none", "new", "queued", "delivered", "closed"}]
    /\ owner \in [Streams -> Sessions \cup {NoSession}]
    /\ cqueue \in Seq(Streams) /\ Len(cqueue) <= Backlog
    /\ service \in {"accepting", "exit"}

(* Spec 3 (Teardown): once the listener is closed, the service's accept *)
(* loop gets an error from Accept and ends.                              *)
AcceptUnblocksAfterClose == ~lnOpen ~> (service # "accepting")

(* Spec 3 (ByteStream lifetime): a stream put in cqueue is eventually    *)
(* accepted or closed.                                                   *)
QueuedStreamResolved == \A i \in Streams : st[i] = "queued" ~> st[i] \in {"delivered", "closed"}
=============================================================================
