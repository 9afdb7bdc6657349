-------------------------------- MODULE MCTun --------------------------------
(***************************************************************************)
(* The TUN listener and the TUN client handler together: each device the  *)
(* listener hands over is the tun device of a fresh handleClient; when     *)
(* handleClient returns, the handler returns and its conn is closed, which *)
(* cancels the listener's context and lets listenLoop create the next     *)
(* device.  The readers of an earlier handleClient are blocked on the old, *)
(* closed device and play no further part.                                *)
(***************************************************************************)
EXTENDS Naturals

CONSTANTS MaxFails, MaxPkts, MaxTries, Closers

VARIABLES
    it, main, conn, errc, tr, ur, devOk, fails, pkts, lost,
    loop, try, dev, ctxDone, closed, accept, held, closer

cvars == <<it, main, conn, errc, tr, ur, devOk, fails, pkts, lost>>
lvars == <<loop, try, dev, ctxDone, closed, accept, held, closer>>

C == INSTANCE TunClient
L == INSTANCE TunListener

(* The client's variables before any handler has started: handleClient's *)
(* initial values, but nothing is running.                              *)
C0 == INSTANCE TunClient WITH main <- "retry"

Init == L!Init /\ C0!Init /\ main = "done"

(* A new handler calls handleClient: its variables start from          *)
(* TunClient's Init.                                                     *)
ClientStart ==
    /\ it' = 0 /\ main' = "retry" /\ devOk' = TRUE
    /\ conn' = [i \in C!Iters |-> "none"] /\ errc' = [i \in C!Iters |-> << >>]
    /\ tr' = [i \in C!Iters |-> C!Idle] /\ ur' = [i \in C!Iters |-> C!Idle]
    /\ fails' = 0 /\ pkts' = 0 /\ lost' = {}

(* Accept hands the device to the service, whose handler starts          *)
(* handleClient on it.                                                   *)
Handover == L!Handover /\ ClientStart

(* The handler has returned (handleClient ended with ErrTun) and the     *)
(* service closes the conn.                                              *)
HandlerDone(t) == main = "done" /\ L!ConnClose(t) /\ UNCHANGED cvars

Next ==
    \/ \/ C!Dial \/ C!TransportReturns
       \/ \E i \in C!Iters : \/ C!TunRead(i) \/ C!UdpRead(i)
                            \/ C!SendErr("tr", i) \/ C!SendErr("ur", i)
       /\ UNCHANGED lvars
    \/ held # {} /\ C!DeviceFails /\ UNCHANGED lvars
    \/ Handover
    \/ \E t \in L!Tries : HandlerDone(t)
    \/ (L!CreateTun \/ L!AcceptClosed \/ L!Wake \/ L!Sleep
          \/ \E c \in Closers : L!CloseCheck(c) \/ L!CloseChan(c))
       /\ UNCHANGED cvars

vars == <<cvars, lvars>>

(* Both components' fairness; the service starts a handler on every     *)
(* device it is handed and closes the conn once that handler returns.   *)
Fairness ==
    /\ C!Fairness /\ L!Fairness
    /\ WF_vars(Handover) /\ \A t \in L!Tries : WF_vars(HandlerDone(t))

Spec == Init /\ [][Next]_vars /\ Fairness

(* Type invariant of both components. *)
TypeOK == C!TypeOK /\ L!TypeOK

(* Spec 2 (TAP/TUN listener yields one stream): no two handlers hold    *)
(* open tun conns at once.                                              *)
OneLiveDevice == L!OneLiveDevice

(* Spec 4.4.4: ErrTun ends handleClient. *)
TunErrorEndsLoop == C!TunErrorEndsLoop

(* Spec 4.4.4 and 2: after the device a handler uses fails, ErrTun ends  *)
(* handleClient, the conn is closed and listenLoop eventually hands a    *)
(* working device to a new handler, unless the listener was closed or    *)
(* the model's bound on devices is reached.                             *)
DeviceReplaced == ~devOk ~> (devOk \/ closed \/ L!OutOfTries)
=============================================================================
