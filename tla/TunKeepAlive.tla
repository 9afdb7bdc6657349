---------------------------- MODULE TunKeepAlive ----------------------------
(***************************************************************************)
(* The TUN client's keepalive (src/handler/tun/client.go) during one       *)
(* iteration of handleClient: the keepAlive goroutine (the handshake write, *)
(* the 3P read deadline, a write every P) and the udp reader extending the *)
(* deadline when the server's keepalive comes back.                        *)
(*                                                                         *)
(* Time is discrete and every timer a countdown, as in WsDialer: the read *)
(* deadline, the ticker and the server's pending keepalive.  Tick lowers   *)
(* them all and waits while one is due.  The udp reader is always reading *)
(* (transportClient's second goroutine), so a keepalive is handled when it *)
(* arrives and an expired deadline fails the read, which ends the          *)
(* iteration: errc, the closure's deferred cancel() and cc.Close().  A     *)
(* live server answers each keepalive within Lat ticks (the server side is *)
(* not under src/; spec 4.5: the client treats it as a liveness token).    *)
(***************************************************************************)
EXTENDS Integers

CONSTANTS
    Period,      \* h.md.keepAlivePeriod in ticks, when it is set
    Lat          \* the most ticks the server's keepalive takes to come back

ASSUME Period \in Nat \ {0} /\ Lat \in 0..Period - 1

NoDeadline == -1     \* time.Time{}: no deadline; also "nothing pending"

VARIABLES
    ka,          \* h.md.keepAlivePeriod: 0 or Period
    st,          \* the iteration: "run" | "ended" (cancel() and cc.Close() done)
    kst,         \* the keepAlive goroutine: "hs" | "loop" | "exit"
    rdl,         \* ticks left to cc's read deadline, or NoDeadline
    ticker,      \* ticks left to the ticker's next fire
    reply,       \* ticks until the server's keepalive arrives, or NoDeadline
    server,      \* "live" (answers keepalives) | "silent"
    timedOut,    \* the udp read failed on its deadline
    pingErr      \* a keepalive write failed while the iteration ran

vars == <<ka, st, kst, rdl, ticker, reply, server, timedOut, pingErr>>

Dec(t) == IF t > 0 THEN t - 1 ELSE t

(* The server's answer to a keepalive written now. *)
Answer == IF server = "live" THEN 0..Lat ELSE {NoDeadline}

-----------------------------------------------------------------------------
(* keepAlive's handshake: conn.Write(keepAliveData).  An error returns at *)
(* once, before any read deadline is set; a write on the closed cc always *)
(* fails.  Then keepAlivePeriod <= 0 returns; else SetReadDeadline(3P)     *)
(* and the ticker starts.                                                  *)
Handshake ==
    /\ kst = "hs"
    /\ \/ /\ kst' = "exit"
          /\ pingErr' = (st = "run")
          /\ UNCHANGED <<rdl, ticker, reply>>
       \/ /\ st = "run"
          /\ reply' \in Answer
          /\ kst' = IF ka > 0 THEN "loop" ELSE "exit"
          /\ rdl' = IF ka > 0 THEN 3 * ka ELSE rdl
          /\ ticker' = ka
          /\ UNCHANGED pingErr
    /\ UNCHANGED <<ka, st, server, timedOut>>

(* Variant: the deadline is extended whenever a keepalive is written. *)
KeepAliveTickExtends ==
    /\ kst = "loop" /\ ticker = 0
    /\ \/ /\ kst' = "exit"
          /\ pingErr' = (st = "run")
          /\ UNCHANGED <<rdl, ticker, reply>>
       \/ /\ st = "run"
          /\ ticker' = ka /\ reply' \in Answer /\ rdl' = 3 * ka
          /\ UNCHANGED <<kst, pingErr>>
    /\ UNCHANGED <<ka, st, server, timedOut>>

(* case <-ticker.C: conn.Write(keepAliveData); an error returns. *)
KeepAliveTick ==
    /\ kst = "loop" /\ ticker = 0
    /\ \/ /\ kst' = "exit"
          /\ pingErr' = (st = "run")
          /\ UNCHANGED <<ticker, reply>>
       \/ /\ st = "run"
          /\ ticker' = ka /\ reply' \in Answer
          /\ UNCHANGED <<kst, pingErr>>
    /\ UNCHANGED <<ka, st, rdl, server, timedOut>>

(* case <-ctx.Done(): the closure's deferred cancel() has run. *)
CtxDone ==
    /\ kst = "loop" /\ st = "ended"
    /\ kst' = "exit"
    /\ UNCHANGED <<ka, st, rdl, ticker, reply, server, timedOut, pingErr>>

(* Variant: a keepalive extends the deadline by one period only. *)
ReplyArrivesOnePeriod ==
    /\ reply = 0
    /\ reply' = NoDeadline
    /\ rdl' = IF st = "run" /\ ka > 0 THEN ka ELSE rdl
    /\ UNCHANGED <<ka, st, kst, ticker, server, timedOut, pingErr>>

(* The udp reader reads a keepalive (n == 20, magic "GOST"): with          *)
(* keepAlivePeriod > 0 it sets the read deadline 3P ahead.  After cc is   *)
(* closed nobody reads it.                                                 *)
ReplyArrives ==
    /\ reply = 0
    /\ reply' = NoDeadline
    /\ rdl' = IF st = "run" /\ ka > 0 THEN 3 * ka ELSE rdl
    /\ UNCHANGED <<ka, st, kst, ticker, server, timedOut, pingErr>>

(* conn.Read fails on the deadline: the error goes to errc,               *)
(* transportClient returns it and the closure's defers cancel the context *)
(* and close cc.                                                           *)
ReadTimesOut ==
    /\ st = "run" /\ rdl = 0
    /\ st' = "ended" /\ timedOut' = TRUE
    /\ UNCHANGED <<ka, kst, rdl, ticker, reply, server, pingErr>>

(* Any other error ends transportClient (ErrTun, a write to cc). *)
OtherError ==
    /\ st = "run"
    /\ st' = "ended"
    /\ UNCHANGED <<ka, kst, rdl, ticker, reply, server, timedOut, pingErr>>

(* The server, or the path to it, stops answering. *)
ServerGoesSilent ==
    /\ server = "live"
    /\ server' = "silent"
    /\ UNCHANGED <<ka, st, kst, rdl, ticker, reply, timedOut, pingErr>>

(* One tick passes, once no due timer is waiting for its action. *)
Tick ==
    /\ \/ kst = "loop" \/ reply > 0 \/ (st = "run" /\ rdl > 0)
    /\ ~(kst = "loop" /\ ticker = 0) /\ reply # 0 /\ ~(st = "run" /\ rdl = 0)
    /\ ticker' = IF kst = "loop" THEN Dec(ticker) ELSE ticker
    /\ reply' = Dec(reply)
    /\ rdl' = IF st = "run" THEN Dec(rdl) ELSE rdl
    /\ UNCHANGED <<ka, st, kst, server, timedOut, pingErr>>

-----------------------------------------------------------------------------
(* router.Dial succeeded; go h.keepAlive(ctx, cc, ips) has started. *)
Init ==
    /\ ka \in {0, Period}
    /\ st = "run"
    /\ kst = "hs"
    /\ rdl = NoDeadline
    /\ ticker = 0
    /\ reply = NoDeadline
    /\ server = "live"
    /\ timedOut = FALSE
    /\ pingErr = FALSE

Next ==
    \/ Handshake \/ KeepAliveTick \/ CtxDone \/ ReplyArrives
    \/ ReadTimesOut \/ OtherError \/ ServerGoesSilent \/ Tick

(* The goroutines run when they can: the keepAlive goroutine, its select  *)
(* once the ticker fires or the context is done, the reader once a reply  *)
(* is in or the deadline passed, and time passes.  Nothing forces another *)
(* error or the server to go silent.                                      *)
Fairness ==
    /\ WF_vars(Tick) /\ WF_vars(Handshake) /\ WF_vars(KeepAliveTick)
    /\ WF_vars(CtxDone) /\ WF_vars(ReplyArrives) /\ WF_vars(ReadTimesOut)

Spec == Init /\ [][Next]_vars /\ Fairness

-----------------------------------------------------------------------------
(* Type invariant. *)
TypeOK ==
    /\ ka \in {0, Period}
    /\ st \in {"run", "ended"}
    /\ kst \in {"hs", "loop", "exit"}
    /\ rdl \in {NoDeadline} \cup 0..3 * Period
    /\ ticker \in 0..Period
    /\ reply \in {NoDeadline} \cup 0..Lat
    /\ server \in {"live", "silent"}
    /\ timedOut \in BOOLEAN /\ pingErr \in BOOLEAN

(* Spec 4.5: a keepalive extends the read deadline to 3P.  While the       *)
(* server answers every keepalive and every write of keepAlive succeeds,   *)
(* the udp read never fails on its deadline: a keepalive goes out every P *)
(* and its answer pushes the deadline 3P ahead before it passes.          *)
LiveServerNeverTimesOut == timedOut => (server = "silent" \/ pingErr)

(* Once a read deadline is armed, a server that has gone silent ends the  *)
(* iteration (so handleClient dials again): only the server's keepalive  *)
(* moves the deadline, the client's own writes do not.                    *)
SilentServerDetected ==
    (st = "run" /\ rdl # NoDeadline /\ server = "silent") ~> st = "ended"

(* Spec 4.5: the client takes the server's keepalive as its liveness      *)
(* token.  With keepalive on, a silent server ends the iteration.  When   *)
(* the handshake write fails, keepAlive returns before SetReadDeadline,   *)
(* the read has no deadline and the iteration never ends.  Not checked by *)
(* a run: see the hazard at client.go:72.                                 *)
DeadServerDetected ==
    (ka > 0 /\ st = "run" /\ server = "silent") ~> st = "ended"
=============================================================================
