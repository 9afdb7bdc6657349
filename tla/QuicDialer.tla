----------------------------- MODULE QuicDialer -----------------------------
(***************************************************************************)
(* The session cache of the quic dialer (src/dialer/quic/dialer.go) and   *)
(* of the icmp dialer (src/dialer/icmp/dialer.go), whose Dial differs     *)
(* only in how it gets the packet conn: the whole Dial, from the lookup   *)
(* through initSession to GetConn, runs under d.sessionMutex, one step    *)
(* per call that can fail.  Sessions die on their own at any time.        *)
(* quicSession (GetConn, Close) is not under src/: GetConn fails exactly  *)
(* when the session is closed (spec 2, Session).                          *)
(***************************************************************************)
EXTENDS Naturals

CONSTANTS
    Kinds,      \* subset of {"quic", "icmp"}
    Addrs,      \* addresses dialled
    Callers,    \* router goroutines calling Dial
    Sessions,   \* session identities; bounds the sessions created
    NoSession,
    NoCaller

VARIABLES
    kind,      \* which dialer
    sessions,  \* d.sessions: address -> session or NoSession
    lock,      \* holder of d.sessionMutex, or NoCaller
    pc,        \* caller -> "idle" | "lookup" | "dial" | "init" | "getconn"
    addr,      \* caller -> the address it dials
    sess,      \* caller -> Dial's local session
    closed,    \* sessions that are closed
    born,      \* sessions initSession has created
    got        \* caller -> the session of the last conn Dial returned

vars == <<kind, sessions, lock, pc, addr, sess, closed, born, got>>

Fresh == CHOOSE s \in Sessions : s \notin born

(* Dial returns: the mutex is released (deferred Unlock). *)
Return(c) == pc' = [pc EXCEPT ![c] = "idle"] /\ lock' = NoCaller

-----------------------------------------------------------------------------
(* Variant: Dial looks the address up without taking the mutex. *)
LockNoMutex(c, a) ==
    /\ pc[c] = "idle"
    /\ pc' = [pc EXCEPT ![c] = "lookup"]
    /\ addr' = [addr EXCEPT ![c] = a]
    /\ UNCHANGED <<kind, sessions, lock, sess, closed, born, got>>

(* d.sessionMutex.Lock(), after the address is resolved. *)
Lock(c, a) ==
    /\ pc[c] = "idle"
    /\ lock = NoCaller
    /\ lock' = c
    /\ pc' = [pc EXCEPT ![c] = "lookup"]
    /\ addr' = [addr EXCEPT ![c] = a]
    /\ UNCHANGED <<kind, sessions, sess, closed, born, got>>

(* session, ok := d.sessions[addr]: a hit goes to GetConn, a miss dials. *)
Lookup(c) ==
    /\ pc[c] = "lookup"
    /\ IF sessions[addr[c]] # NoSession
       THEN /\ sess' = [sess EXCEPT ![c] = sessions[addr[c]]]
            /\ pc' = [pc EXCEPT ![c] = "getconn"]
       ELSE /\ pc' = [pc EXCEPT ![c] = "dial"]
            /\ UNCHANGED sess
    /\ UNCHANGED <<kind, sessions, lock, addr, closed, born, got>>

(* quic: options.NetDialer.Dial("udp"); an error, or a conn that is not  *)
(* a PacketConn (closed first), returns the error.                        *)
NetDial(c) ==
    /\ kind = "quic"
    /\ pc[c] = "dial"
    /\ \/ pc' = [pc EXCEPT ![c] = "init"] /\ UNCHANGED lock
       \/ Return(c)
    /\ UNCHANGED <<kind, sessions, addr, sess, closed, born, got>>

(* icmp: icmp.ListenPacket, then the echo id (the port, or a random one *)
(* when it is 0); an error returns it.                                  *)
ListenPacket(c) ==
    /\ kind = "icmp"
    /\ pc[c] = "dial"
    /\ \/ pc' = [pc EXCEPT ![c] = "init"] /\ UNCHANGED lock
       \/ Return(c)
    /\ UNCHANGED <<kind, sessions, addr, sess, closed, born, got>>

(* initSession (the QUIC handshake over the packet conn): on an error   *)
(* the packet conn is closed and the error returned; on success the     *)
(* session is stored in d.sessions[addr].                                *)
InitSession(c) ==
    /\ pc[c] = "init"
    /\ \/ /\ born # Sessions
          /\ born' = born \cup {Fresh}
          /\ sessions' = [sessions EXCEPT ![addr[c]] = Fresh]
          /\ sess' = [sess EXCEPT ![c] = Fresh]
          /\ pc' = [pc EXCEPT ![c] = "getconn"]
          /\ UNCHANGED lock
       \/ /\ Return(c)
          /\ UNCHANGED <<sessions, sess, born>>
    /\ UNCHANGED <<kind, addr, closed, got>>

(* Variant: the result of GetConn is not checked. *)
GetConnNoCheck(c) ==
    /\ pc[c] = "getconn"
    /\ got' = [got EXCEPT ![c] = sess[c]]
    /\ Return(c)
    /\ UNCHANGED <<kind, sessions, addr, sess, closed, born>>

(* session.GetConn(): a stream of an open session is returned; on an    *)
(* error the session is closed and deleted from d.sessions.             *)
GetConn(c) ==
    /\ pc[c] = "getconn"
    /\ IF sess[c] \notin closed
       THEN /\ got' = [got EXCEPT ![c] = sess[c]]
            /\ UNCHANGED sessions
       ELSE /\ sessions' = [sessions EXCEPT ![addr[c]] = NoSession]
            /\ UNCHANGED got
    /\ Return(c)
    /\ UNCHANGED <<kind, addr, sess, closed, born>>

(* The session dies: the peer closes it or it idles out. *)
SessionDies(s) ==
    /\ s \in born \ closed
    /\ closed' = closed \cup {s}
    /\ UNCHANGED <<kind, sessions, lock, pc, addr, sess, born, got>>

-----------------------------------------------------------------------------
Init ==
    /\ kind \in Kinds
    /\ sessions = [a \in Addrs |-> NoSession]
    /\ lock = NoCaller
    /\ pc = [c \in Callers |-> "idle"]
    /\ addr = [c \in Callers |-> CHOOSE a \in Addrs : TRUE]
    /\ sess = [c \in Callers |-> NoSession]
    /\ closed = {}
    /\ born = {}
    /\ got = [c \in Callers |-> NoSession]

Next ==
    \/ \E c \in Callers :
          \/ \E a \in Addrs : Lock(c, a)
          \/ Lookup(c) \/ NetDial(c) \/ ListenPacket(c)
          \/ InitSession(c) \/ GetConn(c)
    \/ \E s \in Sessions : SessionDies(s)

Spec == Init /\ [][Next]_vars

-----------------------------------------------------------------------------
(* Type invariant. *)
TypeOK ==
    /\ kind \in Kinds
    /\ sessions \in [Addrs -> Sessions \cup {NoSession}]
    /\ lock \in Callers \cup {NoCaller}
    /\ pc \in [Callers -> {"idle", "lookup", "dial", "init", "getconn"}]
    /\ addr \in [Callers -> Addrs]
    /\ sess \in [Callers -> Sessions \cup {NoSession}]
    /\ closed \subseteq born /\ born \subseteq Sessions
    /\ got \in [Callers -> Sessions \cup {NoSession}]

(* The dialer's cache is the abstract session cache. *)
SC == INSTANCE SessionCache WITH cache <- sessions

(* Spec 4.2: Dial implements the session cache.  Under the mutex each   *)
(* Dial is atomic with respect to the others, so storing a new session  *)
(* is a Create on a miss, a conn from GetConn is an Open of the cached   *)
(* open session, and deleting after a GetConn error is an Evict of a    *)
(* closed session; every other step changes nothing the cache shows.     *)
ImplementsSessionCache == SC!Spec
=============================================================================
