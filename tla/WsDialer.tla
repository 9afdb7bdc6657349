------------------------------ MODULE WsDialer ------------------------------
(***************************************************************************)
(* The websocket dialer (src/dialer/ws/dialer.go): Dial, then Handshake    *)
(* with its read deadlines, the pong handler and the keepalive goroutine.  *)
(*                                                                         *)
(* Time is discrete.  Every timer is a countdown (the read deadline, the  *)
(* ticker, the peer's pending pong) and Tick lowers them all by one, so    *)
(* the state space stays finite without a bound on the clock.  A timer at *)
(* zero is due: Tick waits until its action has run.  The caller reads the *)
(* conn all the time (the relay does), so a pong is handled when it       *)
(* arrives and an expired deadline fails the read, after which the caller *)
(* closes the conn.  The peer answers each ping within Lat ticks until it  *)
(* goes silent.                                                            *)
(***************************************************************************)
EXTENDS Integers

CONSTANTS
    Period,      \* md.keepAlive in ticks, when keepalive is on
    HsTimeout,   \* md.handshakeTimeout in ticks, when it is set
    Lat          \* the most ticks a pong takes to come back

ASSUME Period \in Nat \ {0} /\ HsTimeout \in Nat \ {0} /\ Lat \in 0..Period - 1

NoDeadline == -1     \* time.Time{}: no deadline; also "no timer pending"

VARIABLES
    keepAlive,   \* d.md.keepAlive: 0 or Period
    hsTimeout,   \* d.md.handshakeTimeout: 0 or HsTimeout
    st,          \* the conn: "idle" | "dialed" | "open" | "closed" | "err"
    rdl,         \* ticks left to the conn's read deadline, or NoDeadline
    kpc,         \* the keepAlive goroutine: "none" | "run" | "exit"
    ticker,      \* ticks left to the ticker's next fire
    pong,        \* ticks left until the peer's pong arrives, or NoDeadline
    peer,        \* "live" (answers pings) | "silent"
    timedOut     \* a read of the conn failed on its deadline

vars == <<keepAlive, hsTimeout, st, rdl, kpc, ticker, pong, peer, timedOut>>

Dec(t) == IF t > 0 THEN t - 1 ELSE t

-----------------------------------------------------------------------------
(* options.NetDialer.Dial(ctx, "tcp", addr): a raw TCP conn or an error. *)
Dial ==
    /\ st = "idle"
    /\ st' \in {"dialed", "err"}
    /\ UNCHANGED <<keepAlive, hsTimeout, rdl, kpc, ticker, pong, peer, timedOut>>

(* dialer.DialContext fails (including a handshake timeout): Handshake    *)
(* returns the error; its deferred SetReadDeadline(time.Time{}) runs.      *)
HandshakeFails ==
    /\ st = "dialed"
    /\ st' = "err"
    /\ UNCHANGED <<keepAlive, hsTimeout, rdl, kpc, ticker, pong, peer, timedOut>>

(* Variant: the deferred reset is made before the keepalive deadline.    *)
HandshakeOkResetFirst ==
    /\ st = "dialed"
    /\ st' = "open"
    /\ rdl' = IF keepAlive > 0 THEN 2 * keepAlive ELSE NoDeadline
    /\ kpc' = IF keepAlive > 0 THEN "run" ELSE "none"
    /\ ticker' = keepAlive
    /\ UNCHANGED <<keepAlive, hsTimeout, pong, peer, timedOut>>

(* The upgrade succeeds.  With keepalive: c.SetReadDeadline(now + 2P),    *)
(* the pong handler installed, go d.keepAlive(cc).  Then Handshake        *)
(* returns, and the SetReadDeadline(time.Time{}) deferred when            *)
(* handshakeTimeout > 0 clears the deadline just set: it is the same      *)
(* socket.                                                                 *)
HandshakeOk ==
    /\ st = "dialed"
    /\ st' = "open"
    /\ rdl' = IF hsTimeout > 0 THEN NoDeadline
              ELSE IF keepAlive > 0 THEN 2 * keepAlive ELSE NoDeadline
    /\ kpc' = IF keepAlive > 0 THEN "run" ELSE "none"
    /\ ticker' = keepAlive
    /\ UNCHANGED <<keepAlive, hsTimeout, pong, peer, timedOut>>

(* Variant: a ping write error does not end the goroutine. *)
KeepAliveTickIgnoreErr ==
    /\ kpc = "run" /\ ticker = 0
    /\ ticker' = keepAlive
    /\ pong' = IF st = "open" /\ peer = "live" THEN Lat ELSE pong
    /\ UNCHANGED <<keepAlive, hsTimeout, st, rdl, kpc, peer, timedOut>>

(* The ticker fires: WriteMessage(PingMessage).  On a closed conn the     *)
(* write fails and the goroutine returns; otherwise a live peer will     *)
(* answer within Lat ticks.                                               *)
KeepAliveTick ==
    /\ kpc = "run" /\ ticker = 0
    /\ IF st = "closed"
       THEN kpc' = "exit" /\ UNCHANGED <<ticker, pong>>
       ELSE /\ ticker' = keepAlive
            /\ pong' \in IF peer = "live" THEN 0..Lat ELSE {NoDeadline}
            /\ UNCHANGED kpc
    /\ UNCHANGED <<keepAlive, hsTimeout, st, rdl, peer, timedOut>>

(* Variant: the pong handler extends the deadline by one period. *)
PongArrivesOnePeriod ==
    /\ pong = 0
    /\ pong' = NoDeadline
    /\ rdl' = IF st = "open" THEN keepAlive ELSE rdl
    /\ UNCHANGED <<keepAlive, hsTimeout, st, kpc, ticker, peer, timedOut>>

(* The reader gets the pong: the pong handler runs                       *)
(* c.SetReadDeadline(now + 2P).                                           *)
PongArrives ==
    /\ pong = 0
    /\ pong' = NoDeadline
    /\ rdl' = IF st = "open" THEN 2 * keepAlive ELSE rdl
    /\ UNCHANGED <<keepAlive, hsTimeout, st, kpc, ticker, peer, timedOut>>

(* The read deadline passes: the caller's read fails and it closes cc. *)
ReadTimesOut ==
    /\ st = "open" /\ rdl = 0
    /\ st' = "closed" /\ timedOut' = TRUE
    /\ UNCHANGED <<keepAlive, hsTimeout, rdl, kpc, ticker, pong, peer>>

(* The caller closes cc when it is done with it. *)
OwnerClose ==
    /\ st = "open"
    /\ st' = "closed"
    /\ UNCHANGED <<keepAlive, hsTimeout, rdl, kpc, ticker, pong, peer, timedOut>>

(* The peer, or the path to it, stops answering. *)
PeerGoesSilent ==
    /\ peer = "live"
    /\ peer' = "silent"
    /\ UNCHANGED <<keepAlive, hsTimeout, st, rdl, kpc, ticker, pong, timedOut>>

(* One tick passes, once no due timer is waiting for its action. *)
Tick ==
    /\ \/ kpc = "run" \/ pong > 0 \/ (st = "open" /\ rdl > 0)
    /\ ~(kpc = "run" /\ ticker = 0) /\ pong # 0 /\ ~(st = "open" /\ rdl = 0)
    /\ ticker' = IF kpc = "run" THEN Dec(ticker) ELSE ticker
    /\ pong' = Dec(pong)
    /\ rdl' = IF st = "open" THEN Dec(rdl) ELSE rdl
    /\ UNCHANGED <<keepAlive, hsTimeout, st, kpc, peer, timedOut>>

-----------------------------------------------------------------------------
Init ==
    /\ keepAlive \in {0, Period}
    /\ hsTimeout \in {0, HsTimeout}
    /\ st = "idle"
    /\ rdl = NoDeadline
    /\ kpc = "none"
    /\ ticker = 0
    /\ pong = NoDeadline
    /\ peer = "live"
    /\ timedOut = FALSE

Next ==
    \/ Dial \/ HandshakeFails \/ HandshakeOk
    \/ KeepAliveTick \/ PongArrives \/ ReadTimesOut
    \/ OwnerClose \/ PeerGoesSilent \/ Tick

(* Time passes and the keepalive goroutine runs when its ticker fires;  *)
(* the caller's read returns once its deadline passes.  Nothing forces  *)
(* the caller to close, the peer to go silent, or the handshake along.  *)
Fairness ==
    /\ WF_vars(Tick) /\ WF_vars(KeepAliveTick)
    /\ WF_vars(PongArrives) /\ WF_vars(ReadTimesOut)

Spec == Init /\ [][Next]_vars /\ Fairness

-----------------------------------------------------------------------------
(* Type invariant. *)
TypeOK ==
    /\ keepAlive \in {0, Period} /\ hsTimeout \in {0, HsTimeout}
    /\ st \in {"idle", "dialed", "open", "closed", "err"}
    /\ rdl \in {NoDeadline} \cup 0..2 * Period
    /\ kpc \in {"none", "run", "exit"}
    /\ ticker \in 0..Period
    /\ pong \in {NoDeadline} \cup 0..Lat
    /\ peer \in {"live", "silent"}
    /\ timedOut \in BOOLEAN

(* Spec 2.1, WebSocket keepalive: a pong extends the read deadline to   *)
(* 2P.  A conn whose peer answers every ping never fails a read on its  *)
(* deadline: a ping goes out every P and the pong handler pushes the    *)
(* deadline 2P ahead before it passes.                                  *)
LivePeerNeverTimesOut == timedOut => peer = "silent"

(* The keepalive goroutine does not outlive its conn: once the conn is  *)
(* closed, the next ping write fails and keepAlive returns, stopping    *)
(* its ticker.                                                          *)
KeepAliveStopsAfterClose == (kpc = "run" /\ st = "closed") ~> kpc = "exit"

(* Spec 2.1, WebSocket keepalive: "if neither pong nor data arrive      *)
(* within 2P, close".  A conn with keepalive whose peer has gone silent *)
(* is eventually closed.  Handshake's deferred                          *)
(* SetReadDeadline(time.Time{}) clears the 2P deadline when a handshake *)
(* timeout is set, so no read ever fails.  Not checked by a run: see    *)
(* the hazard at dialer.go:76.                                          *)
SilentPeerClosed ==
    (keepAlive > 0 /\ st = "open" /\ peer = "silent") ~> st = "closed"
=============================================================================
