------------------------------ MODULE MCDialers ------------------------------
(***************************************************************************)
(* The session caches of the multiplexing dialers, one dialer at a time:  *)
(* the ssh or sshd dialer (lookup and initSession in separate critical    *)
(* sections) or the quic or icmp dialer (the whole Dial under the mutex).  *)
(* Which one is fixed in the initial state; the other keeps its initial   *)
(* state and takes no step, and only the chosen one's fairness applies.   *)
(***************************************************************************)
EXTENDS Naturals

CONSTANTS
    SKinds, Addrs, MaxConns, NoSession, NoConn,
    Kinds, QAddrs, Sessions, NoCaller

VARIABLES
    active,
    skind, sessions, connState, clients, dead, inits, caller, closedByDialer,
    kind, qsessions, lock, pc, addr, sess, closed, born, got

svars == <<skind, sessions, connState, clients, dead, inits, caller, closedByDialer>>
qvars == <<kind, qsessions, lock, pc, addr, sess, closed, born, got>>
vars == <<active, svars, qvars>>

MCCallers == {"p1", "p2"}

S == INSTANCE SshDialer WITH Callers <- MCCallers, Kinds <- SKinds, kind <- skind
Q == INSTANCE QuicDialer WITH Callers <- MCCallers, Addrs <- QAddrs, sessions <- qsessions

Init ==
    /\ active \in {"ssh", "quic"} /\ S!Init /\ Q!Init
    /\ active # "ssh" => skind = "ssh"

Next ==
    /\ \/ active = "ssh" /\ S!Next /\ UNCHANGED qvars
       \/ active = "quic" /\ Q!Next /\ UNCHANGED svars
    /\ UNCHANGED active

(* ssh's fairness (its wait goroutines), for the chosen part only: since *)
(* active never changes, this is S!Fairness when ssh runs.               *)
Fairness ==
    \A c \in S!Conns, i \in S!ClientIds : WF_svars(active = "ssh" /\ S!Wait(c, i))

Spec == Init /\ [][Next]_vars /\ Fairness

(* Type invariant of both dialers. *)
TypeOK == S!TypeOK /\ Q!TypeOK

(* ssh: the cache never holds a conn the dialer itself closed. *)
CacheHoldsNoDialerClosedConn == S!CacheHoldsNoDialerClosedConn

ImplementsSessionCache == Q!ImplementsSessionCache
=============================================================================
