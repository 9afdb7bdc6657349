------------------------------- MODULE TapLoop -------------------------------
(***************************************************************************)
(* The control of the TAP handler (src/handler/tap/handler.go): Handle,    *)
(* handleLoop and the error paths of transport.                            *)
(*                                                                         *)
(* Handle checks the conn type and, when a forwarding hop gives a target, *)
(* resolves its UDP address (the client side); either failing returns at *)
(* once.  Otherwise it runs handleLoop.  Whichever way Handle returns,    *)
(* its deferred conn.Close() and then os.Exit(0) run.                     *)
(*                                                                         *)
(* handleLoop repeats: open the UDP side (client: router.Dial to the hop;  *)
(* server: ListenUDP); run transport, whose tap->udp and udp->tap          *)
(* goroutines send their first error on errc (capacity 1) and whose       *)
(* caller takes one error and returns (io.EOF, from tap.Read, as nil);  *)
(* close the UDP side (deferred pc.Close); return if h.exit holds a signal, else back   *)
(* off and retry.  h.exit (capacity 1) is signalled, without blocking, on *)
(* a tap.Read error and, on the server side only, on a tap.Write error.   *)
(* Neither goroutine is stopped when transport returns: the tap reader   *)
(* stays in tap.Read, the UDP reader gets an error from the closed pc.    *)
(*                                                                         *)
(* Frames that are read and forwarded without error change no state here  *)
(* and are left out; TapBridge models what the server does with them.    *)
(* Backoff durations are left out.                                         *)
(***************************************************************************)
EXTENDS Naturals, Sequences

CONSTANTS
    Sides,     \* subset of {"client", "server"}: whether a hop address is set
    MaxFails   \* bound on the iterations that end in an error that does
               \* not signal h.exit (network errors; client tap.Write)

ASSUME Sides \subseteq {"client", "server"} /\ MaxFails \in Nat

Iters == 1..MaxFails + 1
Errors == {"tap", "net"}
NoErr == "none"

VARIABLES
    side,     \* "client" (raddr != nil) or "server"
    it,       \* handleLoop's iteration (0 before the first)
    main,     \* "handle" | handleLoop: "open" | "transport" | "check" |
              \* "exit" (handleLoop returned) | "abort" (Handle returned early)
    pc,       \* per iteration: its PacketConn "none" | "open" | "closed"
    errc,     \* per iteration: transport's errc
    tr,       \* per iteration: tap->udp goroutine [pc, err]
    ur,       \* per iteration: udp->tap goroutine [pc, err]
    exitSig,  \* h.exit holds a signal
    devOk,    \* the tap device still reads and writes
    fails     \* iterations ended by such errors so far

vars == <<side, it, main, pc, errc, tr, ur, exitSig, devOk, fails>>

Idle == [pc |-> "none", err |-> NoErr]
Running == [pc |-> "run", err |-> NoErr]
Failing(e) == [pc |-> "send", err |-> e]
Done == [pc |-> "exit", err |-> NoErr]

-----------------------------------------------------------------------------
(* Handle: conn.(md.Metadatable) fails for a conn of the wrong type; the *)
(* client side (a target selected from the hop) resolves its address,    *)
(* which may fail.  Each error returns; else handleLoop starts.          *)
Handle ==
    /\ main = "handle"
    /\ \/ main' = "abort"
       \/ main' = "open"
    /\ UNCHANGED <<side, it, pc, errc, tr, ur, exitSig, devOk, fails>>

(* The closure's first half: the client dials the hop through the       *)
(* router, the server listens on the local UDP address; an error returns *)
(* before any pc exists.  Otherwise transport starts its two goroutines. *)
OpenPc ==
    /\ main = "open"
    /\ it + 1 \in Iters
    /\ it' = it + 1
    /\ \/ /\ fails < MaxFails
          /\ fails' = fails + 1
          /\ main' = "check"
          /\ UNCHANGED <<pc, tr, ur>>
       \/ /\ pc' = [pc EXCEPT ![it + 1] = "open"]
          /\ tr' = [tr EXCEPT ![it + 1] = Running]
          /\ ur' = [ur EXCEPT ![it + 1] = Running]
          /\ main' = "transport"
          /\ UNCHANGED fails
    /\ UNCHANGED <<side, errc, exitSig, devOk>>

(* Variant: a tap.Read error does not signal h.exit. *)
TapReadFailsNoExit(i) ==
    /\ tr[i].pc = "run"
    /\ \/ /\ ~devOk
          /\ tr' = [tr EXCEPT ![i] = Failing("tap")]
       \/ /\ devOk /\ pc[i] = "closed"
          /\ tr' = [tr EXCEPT ![i] = Failing("net")]
    /\ UNCHANGED <<side, it, main, pc, errc, ur, exitSig, devOk, fails>>

(* tap->udp, an iteration that ends in an error: tap.Read fails, which   *)
(* signals h.exit without blocking; or a frame is read and WriteTo on a  *)
(* closed pc fails (a reader left over from an earlier transport).       *)
TapReadFails(i) ==
    /\ tr[i].pc = "run"
    /\ \/ /\ ~devOk
          /\ tr' = [tr EXCEPT ![i] = Failing("tap")]
          /\ exitSig' = TRUE
       \/ /\ devOk /\ pc[i] = "closed"
          /\ tr' = [tr EXCEPT ![i] = Failing("net")]
          /\ UNCHANGED exitSig
    /\ UNCHANGED <<side, it, main, pc, errc, ur, devOk, fails>>

(* udp->tap, an iteration that ends in an error: ReadFrom fails (the pc  *)
(* was closed, or the network failed); or a frame is read and tap.Write  *)
(* fails, which signals h.exit on the server side only.                  *)
UdpReadFails(i) ==
    /\ ur[i].pc = "run"
    /\ \/ /\ pc[i] = "closed"
          /\ ur' = [ur EXCEPT ![i] = Failing("net")]
          /\ UNCHANGED <<exitSig, fails>>
       \/ /\ pc[i] = "open" /\ fails < MaxFails
          /\ fails' = fails + 1
          /\ ur' = [ur EXCEPT ![i] = Failing("net")]
          /\ UNCHANGED exitSig
       \/ /\ pc[i] = "open" /\ ~devOk /\ side = "server"
          /\ ur' = [ur EXCEPT ![i] = Failing("tap")]
          /\ exitSig' = TRUE
          /\ UNCHANGED fails
       \/ /\ pc[i] = "open" /\ ~devOk /\ side = "client" /\ fails < MaxFails
          /\ fails' = fails + 1
          /\ ur' = [ur EXCEPT ![i] = Failing("tap")]
          /\ UNCHANGED exitSig
    /\ UNCHANGED <<side, it, main, pc, errc, tr, devOk>>

(* Variant: errc made with capacity 2. *)
SendErrCapTwo(g, i) ==
    LET gr == IF g = "tr" THEN tr ELSE ur
    IN  /\ gr[i].pc = "send"
        /\ Len(errc[i]) < 2
        /\ errc' = [errc EXCEPT ![i] = Append(@, gr[i].err)]
        /\ IF g = "tr" THEN tr' = [tr EXCEPT ![i] = Done] /\ UNCHANGED ur
                       ELSE ur' = [ur EXCEPT ![i] = Done] /\ UNCHANGED tr
        /\ UNCHANGED <<side, it, main, pc, exitSig, devOk, fails>>

(* errc <- err; return: blocks while errc holds a value. *)
SendErr(g, i) ==
    LET gr == IF g = "tr" THEN tr ELSE ur
    IN  /\ gr[i].pc = "send"
        /\ errc[i] = << >>
        /\ errc' = [errc EXCEPT ![i] = <<gr[i].err>>]
        /\ IF g = "tr" THEN tr' = [tr EXCEPT ![i] = Done] /\ UNCHANGED ur
                       ELSE ur' = [ur EXCEPT ![i] = Done] /\ UNCHANGED tr
        /\ UNCHANGED <<side, it, main, pc, exitSig, devOk, fails>>

(* err := <-errc; transport returns; the deferred pc.Close() runs. *)
TransportReturns ==
    /\ main = "transport"
    /\ errc[it] # << >>
    /\ errc' = [errc EXCEPT ![it] = Tail(@)]
    /\ pc' = [pc EXCEPT ![it] = "closed"]
    /\ main' = "check"
    /\ UNCHANGED <<side, it, tr, ur, exitSig, devOk, fails>>

(* select { case <-h.exit: return; default: }, then back off (after an  *)
(* error) or go straight on (after io.EOF) to the next iteration.       *)
CheckExit ==
    /\ main = "check"
    /\ IF exitSig
       THEN main' = "exit" /\ exitSig' = FALSE
       ELSE main' = "open" /\ UNCHANGED exitSig
    /\ UNCHANGED <<side, it, pc, errc, tr, ur, devOk, fails>>

(* The tap device fails: reads and writes on it return errors. *)
DeviceFails ==
    /\ devOk
    /\ devOk' = FALSE
    /\ UNCHANGED <<side, it, main, pc, errc, tr, ur, exitSig, fails>>

-----------------------------------------------------------------------------
Init ==
    /\ side \in Sides
    /\ it = 0
    /\ main = "handle"
    /\ pc = [i \in Iters |-> "none"]
    /\ errc = [i \in Iters |-> << >>]
    /\ tr = [i \in Iters |-> Idle]
    /\ ur = [i \in Iters |-> Idle]
    /\ exitSig = FALSE
    /\ devOk = TRUE
    /\ fails = 0

Next ==
    \/ Handle \/ OpenPc \/ TransportReturns \/ CheckExit \/ DeviceFails
    \/ \E i \in Iters : \/ TapReadFails(i) \/ UdpReadFails(i)
                        \/ SendErr("tr", i) \/ SendErr("ur", i)

(* handleLoop and both goroutines of every transport run when they can. *)
(* A read on a failed tap device and a ReadFrom on a closed pc return   *)
(* at once; a reader on a live device or pc waits for traffic, which    *)
(* nobody is forced to send.                                             *)
Fairness ==
    /\ WF_vars(Handle) /\ WF_vars(OpenPc) /\ WF_vars(TransportReturns) /\ WF_vars(CheckExit)
    /\ \A i \in Iters :
        /\ WF_vars(TapReadFails(i) /\ ~devOk)
        /\ WF_vars(UdpReadFails(i) /\ pc[i] = "closed")
        /\ WF_vars(SendErr("tr", i)) /\ WF_vars(SendErr("ur", i))

Spec == Init /\ [][Next]_vars /\ Fairness

-----------------------------------------------------------------------------
(* Type invariant. *)
TypeOK ==
    /\ side \in Sides
    /\ it \in 0..MaxFails + 1
    /\ main \in {"handle", "open", "transport", "check", "exit", "abort"}
    /\ pc \in [Iters -> {"none", "open", "closed"}]
    /\ errc \in [Iters -> {<< >>} \cup {<<e>> : e \in Errors}]
    /\ tr \in [Iters -> {Idle, Running, Done} \cup {Failing(e) : e \in Errors}]
    /\ ur \in [Iters -> {Idle, Running, Done} \cup {Failing(e) : e \in Errors}]
    /\ exitSig \in BOOLEAN
    /\ devOk \in BOOLEAN
    /\ fails \in 0..MaxFails

(* Spec 4.4: once the tap device fails, Handle returns, on the client    *)
(* side too, where a tap.Write error does not signal h.exit and only    *)
(* the tap reader's error does.                                          *)
TapErrorEndsLoop == ~devOk ~> main \in {"exit", "abort"}
=============================================================================
