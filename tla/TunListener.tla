----------------------------- MODULE TunListener -----------------------------
(***************************************************************************)
(* The TUN listener (src/listener/tun/listener.go).                        *)
(*                                                                         *)
(* listenLoop repeats: create the tun device and look its interface up;   *)
(* on success wrap it in a conn carrying the iteration's cancel and hand  *)
(* it over on the unbuffered cqueue; on error cancel the context.  Then   *)
(* wait for the context (cancelled when the conn is closed) or for        *)
(* l.closed, sleep a second and start over.  Accept selects on cqueue and *)
(* l.closed; Close closes l.closed unless the select finds it closed.     *)
(* The service accept loop hands each conn to a handler, which closes it  *)
(* when it is done.                                                        *)
(***************************************************************************)
EXTENDS Naturals

CONSTANTS
    MaxTries,  \* bound on the devices listenLoop creates
    Closers    \* goroutines calling Close

ASSUME MaxTries \in Nat \ {0}

Tries == 1..MaxTries

VARIABLES
    loop,     \* listenLoop: "create" | "send" | "wait" | "sleep" | "exit"
    try,      \* the iteration listenLoop is in (0 before the first)
    dev,      \* per iteration: its tun device "none" | "open" | "closed"
    ctxDone,  \* per iteration: the context has been cancelled
    closed,   \* l.closed has been closed
    accept,   \* the service loop: "accepting" | "exit"
    held,     \* iterations whose conn a handler holds and has not closed
    closer    \* per Close call: "start" | "closing" | "done" | "panic"

vars == <<loop, try, dev, ctxDone, closed, accept, held, closer>>

-----------------------------------------------------------------------------
(* Variant: an error does not cancel the context. *)
CreateTunNoCancel ==
    /\ loop = "create"
    /\ try + 1 \in Tries
    /\ try' = try + 1
    /\ \/ /\ dev' = [dev EXCEPT ![try + 1] = "open"]
          /\ loop' = "send"
       \/ /\ dev' = [dev EXCEPT ![try + 1] = "closed"]
          /\ loop' = "wait"
       \/ /\ dev' = [dev EXCEPT ![try + 1] = "open"]
          /\ loop' = "wait"
    /\ UNCHANGED <<ctxDone, closed, accept, held, closer>>

(* One attempt of the closure in listenLoop: createTun; on an error the  *)
(* device, when there is one, is closed; InterfaceByName failing returns *)
(* the error without closing the device.  Either error cancels the       *)
(* context.                                                              *)
CreateTun ==
    /\ loop = "create"
    /\ try + 1 \in Tries
    /\ try' = try + 1
    /\ \/ /\ dev' = [dev EXCEPT ![try + 1] = "open"]
          /\ loop' = "send"
          /\ UNCHANGED ctxDone
       \/ /\ dev' = [dev EXCEPT ![try + 1] = "closed"]
          /\ ctxDone' = [ctxDone EXCEPT ![try + 1] = TRUE]
          /\ loop' = "wait"
       \/ /\ dev' = [dev EXCEPT ![try + 1] = "open"]
          /\ ctxDone' = [ctxDone EXCEPT ![try + 1] = TRUE]
          /\ loop' = "wait"
    /\ UNCHANGED <<closed, accept, held, closer>>

(* l.cqueue <- c meets Accept's receive: the service gets the conn and   *)
(* hands it to a handler.  Accept's select picks either ready case, so   *)
(* the conn may be taken after Close.                                    *)
Handover ==
    /\ loop = "send"
    /\ accept = "accepting"
    /\ held' = held \cup {try}
    /\ loop' = "wait"
    /\ UNCHANGED <<try, dev, ctxDone, closed, accept, closer>>

(* Accept's select takes <-l.closed and returns ErrClosed; the service   *)
(* loop ends.                                                            *)
AcceptClosed ==
    /\ accept = "accepting"
    /\ closed
    /\ accept' = "exit"
    /\ UNCHANGED <<loop, try, dev, ctxDone, closed, held, closer>>

(* The handler closes the conn: the device is closed and conn.Close      *)
(* calls the iteration's cancel.                                         *)
ConnClose(t) ==
    /\ t \in held
    /\ held' = held \ {t}
    /\ dev' = [dev EXCEPT ![t] = "closed"]
    /\ ctxDone' = [ctxDone EXCEPT ![t] = TRUE]
    /\ UNCHANGED <<loop, try, closed, accept, closer>>

(* Variant: the loop starts over without waiting for its context. *)
WakeNoCtxWait ==
    /\ loop = "wait"
    /\ loop' = IF closed THEN "exit" ELSE "sleep"
    /\ UNCHANGED <<try, dev, ctxDone, closed, accept, held, closer>>

(* select { case <-ctx.Done(): case <-l.closed: return }: either ready  *)
(* case may be taken.                                                    *)
Wake ==
    /\ loop = "wait"
    /\ \/ ctxDone[try] /\ loop' = "sleep"
       \/ closed /\ loop' = "exit"
    /\ UNCHANGED <<try, dev, ctxDone, closed, accept, held, closer>>

(* time.Sleep(time.Second), then the next iteration. *)
Sleep ==
    /\ loop = "sleep"
    /\ loop' = "create"
    /\ UNCHANGED <<try, dev, ctxDone, closed, accept, held, closer>>

(* Close: select { case <-l.closed: return ErrClosed; default: }, then   *)
(* close(l.closed), two steps with no lock between them; closing a      *)
(* closed channel panics.                                               *)
CloseCheck(c) ==
    /\ closer[c] = "start"
    /\ closer' = [closer EXCEPT ![c] = IF closed THEN "done" ELSE "closing"]
    /\ UNCHANGED <<loop, try, dev, ctxDone, closed, accept, held>>

CloseChan(c) ==
    /\ closer[c] = "closing"
    /\ closed' = TRUE
    /\ closer' = [closer EXCEPT ![c] = IF closed THEN "panic" ELSE "done"]
    /\ UNCHANGED <<loop, try, dev, ctxDone, accept, held>>

-----------------------------------------------------------------------------
Init ==
    /\ loop = "create"
    /\ try = 0
    /\ dev = [t \in Tries |-> "none"]
    /\ ctxDone = [t \in Tries |-> FALSE]
    /\ closed = FALSE
    /\ accept = "accepting"
    /\ held = {}
    /\ closer = [c \in Closers |-> "start"]

Next ==
    \/ CreateTun \/ Handover \/ AcceptClosed \/ Wake \/ Sleep
    \/ \E t \in Tries : ConnClose(t)
    \/ \E c \in Closers : CloseCheck(c) \/ CloseChan(c)

(* listenLoop, the service loop and a Close call once begun are          *)
(* goroutines that run when they can.  Nobody is forced to call Close,   *)
(* and a handler is not forced to close its conn.                        *)
Fairness ==
    /\ WF_vars(CreateTun) /\ WF_vars(Handover) /\ WF_vars(AcceptClosed)
    /\ WF_vars(Wake) /\ WF_vars(Sleep)
    /\ \A c \in Closers : WF_vars(CloseChan(c))

Spec == Init /\ [][Next]_vars /\ Fairness

-----------------------------------------------------------------------------
(* Type invariant. *)
TypeOK ==
    /\ loop \in {"create", "send", "wait", "sleep", "exit"}
    /\ try \in 0..MaxTries
    /\ dev \in [Tries -> {"none", "open", "closed"}]
    /\ ctxDone \in [Tries -> BOOLEAN]
    /\ closed \in BOOLEAN
    /\ accept \in {"accepting", "exit"}
    /\ held \subseteq Tries
    /\ closer \in [Closers -> {"start", "closing", "done", "panic"}]

(* Spec 2 (TAP/TUN listener): the listener yields one stream at a time. *)
(* listenLoop creates the next device only once the context of the      *)
(* last one is done, which for a handed-over device means its conn was  *)
(* closed: no two handlers ever hold open tun conns at once.             *)
OneLiveDevice == \A t1, t2 \in held : t1 = t2

(* Every device listenLoop opened is closed unless it is the one the    *)
(* loop is working with or a handler holds it.                          *)
NoStrayDevice == \A t \in Tries : dev[t] = "open" => t = try \/ t \in held

(* The loop has created all the devices the model allows and is about  *)
(* to create another.                                                   *)
OutOfTries == loop = "create" /\ try = MaxTries

(* Spec 5 (cancellation of long-running loops): once the listener is    *)
(* closed, listenLoop eventually returns.                               *)
LoopExitsAfterClose == closed ~> (loop = "exit" \/ OutOfTries)
=============================================================================
