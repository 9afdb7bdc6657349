------------------------------ MODULE TunClient ------------------------------
(***************************************************************************)
(* The client side of the TUN handler (src/handler/tun/client.go).         *)
(*                                                                         *)
(* handleClient loops: dial a UDP conn through the router, start the       *)
(* keepalive goroutine and run transportClient, which starts a tun->udp    *)
(* and a udp->tun goroutine and returns the first error either sends on    *)
(* errc (capacity 1).  On return the conn is closed (defer cc.Close) and   *)
(* the iteration's context cancelled; ErrTun ends handleClient, any other  *)
(* error sleeps one second and retries.  Neither reader goroutine is told *)
(* to stop: the tun reader of a finished iteration stays blocked in        *)
(* tun.Read and, when it gets a packet, writes it to its closed conn.      *)
(*                                                                         *)
(* Data is abstracted to packet numbers; keepalives and read deadlines    *)
(* are the environment's choice of when the UDP side fails (a timeout is  *)
(* one more UDP read error).                                              *)
(***************************************************************************)
EXTENDS Naturals, Sequences

CONSTANTS
    MaxFails,  \* bound on failures of the network (router.Dial and UDP reads)
    MaxPkts    \* bound on packets read from the tun device

ASSUME MaxFails \in Nat /\ MaxPkts \in Nat

Iters == 1..MaxFails + 1
Errors == {"tun", "net"}   \* ErrTun and any other error
NoErr == "none"

VARIABLES
    it,       \* the current iteration of handleClient's loop (0 before the first)
    main,     \* handleClient: "retry" | "wait" (in <-errc) | "done"
    conn,     \* per iteration: the dialed UDP conn "none" | "open" | "closed"
    errc,     \* per iteration: errc's buffer
    tr,       \* per iteration: tun->udp goroutine [pc, err]
    ur,       \* per iteration: udp->tun goroutine [pc, err]
    devOk,    \* the tun device still reads and writes
    fails,    \* network failures so far
    pkts,     \* packets read from the tun device so far
    lost      \* packets written to a closed conn while a newer tunnel was up

vars == <<it, main, conn, errc, tr, ur, devOk, fails, pkts, lost>>

Idle == [pc |-> "none", err |-> NoErr]
Running == [pc |-> "run", err |-> NoErr]
Failing(e) == [pc |-> "send", err |-> e]

-----------------------------------------------------------------------------
(* The loop body: cc, err := h.router.Dial(ctx, "udp", raddr).  A failed *)
(* dial returns the error and the loop sleeps and retries; otherwise the *)
(* keepalive goroutine and transportClient's two goroutines start.       *)
Dial ==
    /\ main = "retry"
    /\ it + 1 \in Iters
    /\ it' = it + 1
    /\ \/ /\ fails < MaxFails
          /\ fails' = fails + 1
          /\ UNCHANGED <<main, conn, tr, ur>>
       \/ /\ conn' = [conn EXCEPT ![it + 1] = "open"]
          /\ tr' = [tr EXCEPT ![it + 1] = Running]
          /\ ur' = [ur EXCEPT ![it + 1] = Running]
          /\ main' = "wait"
          /\ UNCHANGED fails
    /\ UNCHANGED <<errc, devOk, pkts, lost>>

(* tun->udp, one iteration: tun.Read then conn.Write.  A read error is  *)
(* ErrTun; a write to the closed conn of a finished iteration fails and *)
(* the packet is lost.                                                   *)
TunRead(i) ==
    /\ tr[i].pc = "run"
    /\ IF devOk
       THEN /\ pkts < MaxPkts
            /\ pkts' = pkts + 1
            /\ IF conn[i] = "open"
               THEN UNCHANGED <<tr, lost>>
               ELSE /\ lost' = IF main = "wait" THEN lost \cup {pkts + 1} ELSE lost
                    /\ tr' = [tr EXCEPT ![i] = Failing("net")]
       ELSE /\ tr' = [tr EXCEPT ![i] = Failing("tun")]
            /\ UNCHANGED <<pkts, lost>>
    /\ UNCHANGED <<it, main, conn, errc, ur, devOk, fails>>

(* udp->tun: conn.Read fails (timeout for want of a keepalive, refused,  *)
(* or the conn closed by handleClient), or a packet read is written to   *)
(* the device and tun.Write fails with ErrTun.                            *)
UdpRead(i) ==
    /\ ur[i].pc = "run"
    /\ \/ /\ conn[i] = "closed"
          /\ ur' = [ur EXCEPT ![i] = Failing("net")]
          /\ UNCHANGED fails
       \/ /\ conn[i] = "open"
          /\ fails < MaxFails
          /\ fails' = fails + 1
          /\ ur' = [ur EXCEPT ![i] = Failing("net")]
       \/ /\ conn[i] = "open"
          /\ ~devOk
          /\ ur' = [ur EXCEPT ![i] = Failing("tun")]
          /\ UNCHANGED fails
    /\ UNCHANGED <<it, main, conn, errc, tr, devOk, pkts, lost>>

(* Variant: errc is made with capacity 2. *)
SendErrCapTwo(g, i) ==
    LET gr == IF g = "tr" THEN tr ELSE ur
    IN  /\ gr[i].pc = "send"
        /\ Len(errc[i]) < 2
        /\ errc' = [errc EXCEPT ![i] = Append(@, gr[i].err)]
        /\ IF g = "tr"
           THEN /\ tr' = [tr EXCEPT ![i] = [pc |-> "exit", err |-> NoErr]]
                /\ UNCHANGED ur
           ELSE /\ ur' = [ur EXCEPT ![i] = [pc |-> "exit", err |-> NoErr]]
                /\ UNCHANGED tr
        /\ UNCHANGED <<it, main, conn, devOk, fails, pkts, lost>>

(* errc <- err; return: blocks while errc holds a value. *)
SendErr(g, i) ==
    LET gr == IF g = "tr" THEN tr ELSE ur
    IN  /\ gr[i].pc = "send"
        /\ errc[i] = << >>
        /\ errc' = [errc EXCEPT ![i] = <<gr[i].err>>]
        /\ IF g = "tr"
           THEN /\ tr' = [tr EXCEPT ![i] = [pc |-> "exit", err |-> NoErr]]
                /\ UNCHANGED ur
           ELSE /\ ur' = [ur EXCEPT ![i] = [pc |-> "exit", err |-> NoErr]]
                /\ UNCHANGED tr
        /\ UNCHANGED <<it, main, conn, devOk, fails, pkts, lost>>

(* Variant: the ErrTun check after the loop body is left out. *)
TransportReturnsNoErrTunCheck ==
    /\ main = "wait"
    /\ errc[it] # << >>
    /\ errc' = [errc EXCEPT ![it] = << >>]
    /\ conn' = [conn EXCEPT ![it] = "closed"]
    /\ main' = "retry"
    /\ UNCHANGED <<it, tr, ur, devOk, fails, pkts, lost>>

(* err := <-errc; transportClient returns; the deferred cancel() and    *)
(* cc.Close() run; ErrTun returns from handleClient, any other error    *)
(* sleeps and retries.                                                  *)
TransportReturns ==
    /\ main = "wait"
    /\ errc[it] # << >>
    /\ errc' = [errc EXCEPT ![it] = << >>]
    /\ conn' = [conn EXCEPT ![it] = "closed"]
    /\ main' = IF Head(errc[it]) = "tun" THEN "done" ELSE "retry"
    /\ UNCHANGED <<it, tr, ur, devOk, fails, pkts, lost>>

(* The tun device fails: reads and writes on it return errors. *)
DeviceFails ==
    /\ devOk
    /\ devOk' = FALSE
    /\ UNCHANGED <<it, main, conn, errc, tr, ur, fails, pkts, lost>>

-----------------------------------------------------------------------------
Init ==
    /\ it = 0
    /\ main = "retry"
    /\ conn = [i \in Iters |-> "none"]
    /\ errc = [i \in Iters |-> << >>]
    /\ tr = [i \in Iters |-> Idle]
    /\ ur = [i \in Iters |-> Idle]
    /\ devOk = TRUE
    /\ fails = 0
    /\ pkts = 0
    /\ lost = {}

Next ==
    \/ Dial
    \/ \E i \in Iters : TunRead(i) \/ UdpRead(i) \/ SendErr("tr", i) \/ SendErr("ur", i)
    \/ TransportReturns
    \/ DeviceFails

(* Runnable goroutines are scheduled: handleClient, and each reader      *)
(* that has an error to report or a closed conn to notice.  Reading a   *)
(* packet from the device is not forced: the device may stay idle.      *)
Fairness ==
    /\ WF_vars(Dial) /\ WF_vars(TransportReturns)
    /\ \A i \in Iters :
          /\ WF_vars(SendErr("tr", i)) /\ WF_vars(SendErr("ur", i))
          /\ WF_vars(UdpRead(i) /\ (conn[i] = "closed" \/ ~devOk))
          /\ WF_vars(TunRead(i) /\ ~devOk)

Spec == Init /\ [][Next]_vars /\ Fairness

-----------------------------------------------------------------------------
(* Type invariant. *)
TypeOK ==
    /\ it \in 0..MaxFails + 1
    /\ main \in {"retry", "wait", "done"}
    /\ conn \in [Iters -> {"none", "open", "closed"}]
    /\ \A i \in Iters : errc[i] \in Seq(Errors) /\ Len(errc[i]) <= 1
    /\ tr \in [Iters -> [pc : {"none", "run", "send", "exit"}, err : Errors \cup {NoErr}]]
    /\ ur \in [Iters -> [pc : {"none", "run", "send", "exit"}, err : Errors \cup {NoErr}]]
    /\ devOk \in BOOLEAN
    /\ fails \in 0..MaxFails
    /\ pkts \in 0..MaxPkts
    /\ lost \subseteq 1..MaxPkts

(* Spec 4.4.4: ErrTun on tun-side I/O aborts without retry.  Once the    *)
(* device has failed, handleClient eventually returns, whatever the     *)
(* goroutines of earlier iterations still do and whichever error wins   *)
(* errc first.                                                          *)
TunErrorEndsLoop == ~devOk ~> (main = "done")

(* While a tunnel is up, every packet read from the tun device is written *)
(* to it: no tun reader left over from a failed iteration takes the     *)
(* packet and writes it to its own, closed, conn.                        *)
PacketsReachLiveConn == lost = {}
=============================================================================
