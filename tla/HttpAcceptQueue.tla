--------------------------- MODULE HttpAcceptQueue ---------------------------
(***************************************************************************)
(* The accept queue of the HTTP-served listeners: h2/h2c                   *)
(* (src/listener/http2/h2/listener.go), http2                              *)
(* (src/listener/http2/listener.go), h2cProxy and http3                    *)
(* (src/listener/http3/listener.go).                                       *)
(*                                                                         *)
(* The http server runs handleFunc in one goroutine per request: h2 and  *)
(* h2cProxy first upgrade the request, and may reject it; the conn is     *)
(* offered to the bounded channel l.cqueue (capacity backlog) without     *)
(* blocking, discarded when the queue is full, and then waited for until  *)
(* it is closed.  The owning service                                       *)
(* calls Accept in a loop; Accept selects between l.cqueue and l.errChan   *)
(* (capacity 1).  Close checks errChan, closes the server, sends the       *)
(* result of server.Close on errChan and closes errChan.  In h2, http2 and *)
(* h2cProxy Close takes no lock, so its four steps interleave with another *)
(* Close; http3 runs Close under l.mu.  On a full queue h2 and h2cProxy   *)
(* close the conn and wait for it, http2 and http3 return from handleFunc  *)
(* at once.  CONSTANT Kind selects the listener.                           *)
(***************************************************************************)
EXTENDS Naturals, Sequences

CONSTANTS
    Requests,     \* upgraded HTTP requests (one handleFunc goroutine each)
    Closers,      \* goroutines that call l.Close()
    Backlog,      \* capacity of l.cqueue
    Kind          \* "h2", "h2cProxy", "http2" or "http3"

ASSUME Backlog \in Nat \ {0} /\ Kind \in {"h2", "h2cProxy", "http2", "http3"}

(* Values carried by errChan: the result of server.Close(). *)
ErrValues == {"nil", "err"}

VARIABLES
    cqueue,     \* l.cqueue: sequence of requests' conns
    errChan,    \* l.errChan: [buf : buffered values, closed : BOOLEAN]
    serving,    \* the http server still serves requests
    conn,       \* per request: "none" | "queued" | "accepted" | "closed"
    handler,    \* per request: handleFunc goroutine "idle" | "wait" | "returned"
    closer,     \* per closer: pc of its Close call
    closeErr,   \* per closer: the value server.Close() returned to it
    service     \* the accept loop: "accepting" | "stopped" | "nilconn"

vars == <<cqueue, errChan, serving, conn, handler, closer, closeErr, service>>

-----------------------------------------------------------------------------
(* select { case l.cqueue <- conn: default: }: the conn is queued, or   *)
(* discarded (h2 and h2cProxy close it) when l.cqueue is full.           *)
Offer(r) ==
    IF Len(cqueue) < Backlog
    THEN cqueue' = Append(cqueue, r) /\ conn' = [conn EXCEPT ![r] = "queued"]
    ELSE conn' = [conn EXCEPT ![r] = "closed"] /\ UNCHANGED cqueue

(* Variant: the capacity check is off by one. *)
HandleFuncOffByOne(r) ==
    /\ serving /\ Kind \in {"h2", "h2cProxy"}
    /\ handler[r] = "idle"
    /\ IF Len(cqueue) <= Backlog
       THEN cqueue' = Append(cqueue, r) /\ conn' = [conn EXCEPT ![r] = "queued"]
       ELSE conn' = [conn EXCEPT ![r] = "closed"] /\ UNCHANGED cqueue
    /\ handler' = [handler EXCEPT ![r] = "wait"]
    /\ UNCHANGED <<errChan, serving, closer, closeErr, service>>

(* handleFunc of h2 and h2cProxy, for a request that upgrade accepts:    *)
(* the conn is offered to l.cqueue, and handleFunc then waits for        *)
(* <-conn.closed, also for a conn it closed because the queue was full.  *)
HandleFunc(r) ==
    /\ serving /\ Kind \in {"h2", "h2cProxy"}
    /\ handler[r] = "idle"
    /\ Offer(r)
    /\ handler' = [handler EXCEPT ![r] = "wait"]
    /\ UNCHANGED <<errChan, serving, closer, closeErr, service>>

(* handleFunc of h2 and h2cProxy, for a request that yields no conn:     *)
(* h2cProxy hands /proxy requests to a reverse proxy, and upgrade        *)
(* rejects a request that is not a CONNECT (no path configured) or not   *)
(* for the configured path; handleFunc returns.                          *)
RejectRequest(r) ==
    /\ serving /\ Kind \in {"h2", "h2cProxy"}
    /\ handler[r] = "idle"
    /\ handler' = [handler EXCEPT ![r] = "returned"]
    /\ UNCHANGED <<cqueue, errChan, serving, conn, closer, closeErr, service>>

(* handleFunc of http2 and http3: every request becomes a conn, which is *)
(* offered to l.cqueue; on a full queue handleFunc returns at once,      *)
(* otherwise it waits for <-conn.Done().                                  *)
HandleFuncNoUpgrade(r) ==
    /\ serving /\ Kind \in {"http2", "http3"}
    /\ handler[r] = "idle"
    /\ Offer(r)
    /\ handler' = [handler EXCEPT ![r] = IF Len(cqueue) < Backlog THEN "wait" ELSE "returned"]
    /\ UNCHANGED <<errChan, serving, closer, closeErr, service>>

(* <-conn.closed returns once the conn is closed; handleFunc returns. *)
HandlerReturns(r) ==
    /\ handler[r] = "wait"
    /\ conn[r] = "closed"
    /\ handler' = [handler EXCEPT ![r] = "returned"]
    /\ UNCHANGED <<cqueue, errChan, serving, conn, closer, closeErr, service>>

(* Accept, case conn = <-l.cqueue: the service hands the conn to a      *)
(* handler goroutine of its own.                                         *)
AcceptConn ==
    /\ service = "accepting"
    /\ cqueue # << >>
    /\ conn' = [conn EXCEPT ![Head(cqueue)] = "accepted"]
    /\ cqueue' = Tail(cqueue)
    /\ UNCHANGED <<errChan, serving, handler, closer, closeErr, service>>

(* Accept, case err, ok = <-l.errChan.  A buffered value is returned as  *)
(* the error, the nil one included; a closed, empty channel gives        *)
(* listener.ErrClosed.  A nil error with a nil conn reaches the service  *)
(* as a connection.                                                      *)
AcceptErr ==
    /\ service = "accepting"
    /\ errChan.buf # << >> \/ errChan.closed
    /\ IF errChan.buf # << >>
       THEN /\ errChan' = [errChan EXCEPT !.buf = Tail(@)]
            /\ service' = IF Head(errChan.buf) = "nil" THEN "nilconn" ELSE "stopped"
       ELSE /\ service' = "stopped"
            /\ UNCHANGED errChan
    /\ UNCHANGED <<cqueue, serving, conn, handler, closer, closeErr>>

(* The service's handler for an accepted conn ends and closes it. *)
ServiceCloses(r) ==
    /\ conn[r] = "accepted"
    /\ conn' = [conn EXCEPT ![r] = "closed"]
    /\ UNCHANGED <<cqueue, errChan, serving, handler, closer, closeErr, service>>

-----------------------------------------------------------------------------
(* Close without a lock (h2, http2, h2cProxy), one step per statement.  *)
(* 1. select { case <-l.errChan: return; default: }                      *)
CloseCheck(c) ==
    /\ Kind # "http3"
    /\ closer[c] = "start"
    /\ IF errChan.buf # << >>
       THEN /\ errChan' = [errChan EXCEPT !.buf = Tail(@)]
            /\ closer' = [closer EXCEPT ![c] = "done"]
       ELSE /\ closer' = [closer EXCEPT ![c] = IF errChan.closed THEN "done" ELSE "server"]
            /\ UNCHANGED errChan
    /\ UNCHANGED <<cqueue, serving, conn, handler, closeErr, service>>

(* Variant: Close returns the server.Close() error before signalling. *)
CloseServerReturnOnErr(c) ==
    /\ closer[c] = "server"
    /\ serving' = FALSE
    /\ \E e \in ErrValues :
          /\ closeErr' = [closeErr EXCEPT ![c] = e]
          /\ closer' = [closer EXCEPT ![c] = IF e = "err" THEN "done" ELSE "send"]
    /\ UNCHANGED <<cqueue, errChan, conn, handler, service>>

(* 2. err = l.server.Close(): the server stops serving requests. *)
CloseServer(c) ==
    /\ closer[c] = "server"
    /\ serving' = FALSE
    /\ \E e \in ErrValues : closeErr' = [closeErr EXCEPT ![c] = e]
    /\ closer' = [closer EXCEPT ![c] = "send"]
    /\ UNCHANGED <<cqueue, errChan, conn, handler, service>>

(* 3. l.errChan <- err: panics on a closed channel, blocks on a full one. *)
CloseSend(c) ==
    /\ closer[c] = "send"
    /\ errChan.closed \/ errChan.buf = << >>
    /\ IF errChan.closed
       THEN /\ closer' = [closer EXCEPT ![c] = "panic"]
            /\ UNCHANGED errChan
       ELSE /\ errChan' = [errChan EXCEPT !.buf = Append(@, closeErr[c])]
            /\ closer' = [closer EXCEPT ![c] = "closechan"]
    /\ UNCHANGED <<cqueue, serving, conn, handler, closeErr, service>>

(* 4. close(l.errChan): panics when already closed. *)
CloseChan(c) ==
    /\ closer[c] = "closechan"
    /\ IF errChan.closed
       THEN /\ closer' = [closer EXCEPT ![c] = "panic"]
            /\ UNCHANGED errChan
       ELSE /\ errChan' = [errChan EXCEPT !.closed = TRUE]
            /\ closer' = [closer EXCEPT ![c] = "done"]
    /\ UNCHANGED <<cqueue, serving, conn, handler, closeErr, service>>

(* Close under l.mu (http3): the same statements as one critical        *)
(* section; the send cannot block because only Close sends.              *)
CloseUnderLock(c) ==
    /\ Kind = "http3"
    /\ closer[c] = "start"
    /\ IF errChan.buf # << >> \/ errChan.closed
       THEN /\ errChan' = [errChan EXCEPT !.buf = IF @ = << >> THEN @ ELSE Tail(@)]
            /\ UNCHANGED <<serving, closeErr>>
       ELSE /\ serving' = FALSE
            /\ \E e \in ErrValues :
                  /\ closeErr' = [closeErr EXCEPT ![c] = e]
                  /\ errChan' = [buf |-> <<e>>, closed |-> TRUE]
    /\ closer' = [closer EXCEPT ![c] = "done"]
    /\ UNCHANGED <<cqueue, conn, handler, service>>

(* The goroutine Init starts, go l.server.Serve(ln) (http3:            *)
(* ListenAndServe), returns an error while no Close has run: the listen *)
(* socket fails, or http3 cannot bind.  The error is only logged:       *)
(* nothing is sent on errChan.                                          *)
ServeFails ==
    /\ serving
    /\ \A c \in Closers : closer[c] = "start"
    /\ serving' = FALSE
    /\ UNCHANGED <<cqueue, errChan, conn, handler, closer, closeErr, service>>

-----------------------------------------------------------------------------
Init ==
    /\ cqueue = << >>
    /\ errChan = [buf |-> << >>, closed |-> FALSE]
    /\ serving = TRUE
    /\ conn = [r \in Requests |-> "none"]
    /\ handler = [r \in Requests |-> "idle"]
    /\ closer = [c \in Closers |-> "start"]
    /\ closeErr = [c \in Closers |-> "nil"]
    /\ service = "accepting"

Next ==
    \/ \E r \in Requests : \/ HandleFunc(r) \/ RejectRequest(r) \/ HandleFuncNoUpgrade(r)
                          \/ HandlerReturns(r) \/ ServiceCloses(r)
    \/ AcceptConn
    \/ AcceptErr
    \/ ServeFails
    \/ \E c \in Closers :
          \/ CloseCheck(c) \/ CloseServer(c) \/ CloseSend(c) \/ CloseChan(c)
          \/ CloseUnderLock(c)

(* Goroutines that are runnable are eventually scheduled: the service's  *)
(* accept loop, the closers and the handlers' own goroutines.            *)
Fairness ==
    /\ WF_vars(AcceptConn \/ AcceptErr)
    /\ \A r \in Requests : WF_vars(HandlerReturns(r)) /\ WF_vars(ServiceCloses(r))
    /\ \A c \in Closers : WF_vars(CloseCheck(c) \/ CloseServer(c) \/ CloseSend(c)
                                  \/ CloseChan(c) \/ CloseUnderLock(c))

Spec == Init /\ [][Next]_vars /\ Fairness

-----------------------------------------------------------------------------
(* Type invariant. *)
TypeOK ==
    /\ cqueue \in Seq(Requests) /\ Len(cqueue) <= Backlog
    /\ errChan \in [buf : Seq(ErrValues), closed : BOOLEAN] /\ Len(errChan.buf) <= 1
    /\ serving \in BOOLEAN
    /\ conn \in [Requests -> {"none", "queued", "accepted", "closed"}]
    /\ handler \in [Requests -> {"idle", "wait", "returned"}]
    /\ closer \in [Closers -> {"start", "server", "send", "closechan", "done", "panic"}]
    /\ closeErr \in [Closers -> ErrValues]
    /\ service \in {"accepting", "stopped", "nilconn"}

(* Listener contract (spec 4.1): Accept returns a ByteStream or an       *)
(* error.  After Close, the value Close sent on errChan is the result of *)
(* server.Close(), nil when the server closed cleanly, and Accept passes *)
(* it on with a nil conn: the service receives (nil, nil).               *)
AcceptNeverNilNil == service # "nilconn"

(* Closing the listener never panics, however many goroutines call       *)
(* Close: the "already closed?" select and the send/close on errChan     *)
(* must not interleave with another Close.                               *)
CloseNeverPanics == \A c \in Closers : closer[c] # "panic"

(* Once every Close call has returned, the accept loop does not stay     *)
(* blocked in Accept: errChan is closed, so a select on it is ready.     *)
AcceptUnblocksAfterClose ==
    (\A c \in Closers : closer[c] = "done") ~> (service # "accepting")

(* Every handleFunc goroutine eventually returns: the conn it queued is  *)
(* eventually accepted and closed by the service (spec: a ByteStream is  *)
(* closed on every exit path), also when the listener is closed with     *)
(* conns still in l.cqueue.                                              *)
HandlerEventuallyReturns ==
    \A r \in Requests : handler[r] = "wait" ~> handler[r] = "returned"

(* Spec 7: listener errors are propagated to Accept and surface to the  *)
(* owner, so the accept loop ends once the server has failed.  When     *)
(*  the Serve goroutine fails before any     *)
(* Close, Accept still waits: only Close sends on errChan, so a service *)
(* whose listener died keeps waiting until someone closes it.  Not      *)
(* checked by a run: see the hazard at src/listener/http2/listener.go:85. *)
AcceptLearnsServerStopped ==
    (~serving /\ \A c \in Closers : closer[c] = "start") ~> service # "accepting"
=============================================================================
