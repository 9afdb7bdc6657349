----------------------------- MODULE MCListeners -----------------------------
(***************************************************************************)
(* The shutdown protocol of the queue-fed listeners, one listener at a    *)
(* time: an h2 listener (unlocked Close, one Close call), an http3        *)
(* listener (Close under l.mu, two concurrent Close calls), or one of the *)
(* kcp, ssh, icmp, grpc and ws listeners.  Which one is fixed in the      *)
(* initial state; the others keep their initial state and take no step,  *)
(* and only the chosen one's fairness applies.                           *)
(***************************************************************************)
EXTENDS Naturals

CONSTANTS H2Requests, H3Requests, H2Closers, H3Closers, HttpBacklog,
          LoopKinds, Sessions, Streams, LoopBacklog

VARIABLES
    active,
    h2cqueue, h2errChan, h2serving, h2conn, h2handler, h2closer, h2closeErr, h2service,
    h3cqueue, h3errChan, h3serving, h3conn, h3handler, h3closer, h3closeErr, h3service,
    kind, lnOpen, loop, llerrChan, sess, st, owner, llcqueue, llservice

h2vars == <<h2cqueue, h2errChan, h2serving, h2conn, h2handler, h2closer, h2closeErr, h2service>>
h3vars == <<h3cqueue, h3errChan, h3serving, h3conn, h3handler, h3closer, h3closeErr, h3service>>
llvars == <<kind, lnOpen, loop, llerrChan, sess, st, owner, llcqueue, llservice>>
vars == <<active, h2vars, h3vars, llvars>>

H2 == INSTANCE HttpAcceptQueue
      WITH Requests <- H2Requests, Closers <- H2Closers, Kind <- "h2", Backlog <- HttpBacklog,
           cqueue <- h2cqueue, errChan <- h2errChan, serving <- h2serving,
           conn <- h2conn, handler <- h2handler, closer <- h2closer,
           closeErr <- h2closeErr, service <- h2service

H3 == INSTANCE HttpAcceptQueue
      WITH Requests <- H3Requests, Closers <- H3Closers, Kind <- "http3", Backlog <- HttpBacklog,
           cqueue <- h3cqueue, errChan <- h3errChan, serving <- h3serving,
           conn <- h3conn, handler <- h3handler, closer <- h3closer,
           closeErr <- h3closeErr, service <- h3service

LL == INSTANCE ListenLoop
      WITH Kinds <- LoopKinds, Backlog <- LoopBacklog,
           errChan <- llerrChan, cqueue <- llcqueue, service <- llservice

(* A listen-loop listener that does not run keeps one initial kind. *)
Init ==
    /\ active \in {"h2", "http3", "loop"} /\ H2!Init /\ H3!Init /\ LL!Init
    /\ active # "loop" => kind = "kcp"

Next ==
    /\ \/ active = "h2" /\ H2!Next /\ UNCHANGED <<h3vars, llvars>>
       \/ active = "http3" /\ H3!Next /\ UNCHANGED <<h2vars, llvars>>
       \/ active = "loop" /\ LL!Next /\ UNCHANGED <<h2vars, h3vars>>
    /\ UNCHANGED active

Spec ==
    /\ Init /\ [][Next]_vars
    /\ active = "h2" => H2!Fairness
    /\ active = "http3" => H3!Fairness
    /\ active = "loop" => LL!Fairness

(* Type invariant of each listener. *)
TypeOK == H2!TypeOK /\ H3!TypeOK /\ LL!TypeOK

(* Every listener: once it is closed, the accept loop leaves Accept. *)
AcceptUnblocksAfterClose ==
    /\ H2!AcceptUnblocksAfterClose
    /\ H3!AcceptUnblocksAfterClose
    /\ LL!AcceptUnblocksAfterClose
=============================================================================
