------------------------------ MODULE SshDialer ------------------------------
(***************************************************************************)
(* The per-address session cache of the ssh dialer                         *)
(* (src/dialer/ssh/dialer.go) and of the sshd dialer                      *)
(* (src/dialer/sshd/dialer.go), which is the same code up to the last step *)
(* of Handshake: ssh opens a tunnel channel on the session's client, sshd *)
(* wraps the session's conn and client without opening anything.  The     *)
(* variable kind, fixed at the start, is which dialer runs.                *)
(*                                                                         *)
(* A router goroutine reaching an ssh hop calls Dial(addr) and then        *)
(* Handshake(conn, addr).  Both run entirely under d.sessionMutex, so each *)
(* is one atomic step here; the interesting behaviour is what other        *)
(* callers, the peer and the session's wait() goroutine do BETWEEN a       *)
(* caller's Dial and its Handshake.                                        *)
(*                                                                         *)
(* A session record is [conn |-> c, client |-> i]: the physical conn c and *)
(* the i-th ssh client built on c by initSession (0 is the nil client of   *)
(* the placeholder session Dial stores).  IsClosed and wait belong to the  *)
(* sshSession type, whose file is not part of the repository: they are     *)
(* modelled from the spec (a session is closed once the client's wait()    *)
(* has returned; a session with a nil client is never closed).             *)
(***************************************************************************)
EXTENDS Naturals, FiniteSets

CONSTANTS
    Kinds,      \* subset of {"ssh", "sshd"}
    Addrs,      \* upstream addresses reached through this dialer
    Callers,    \* router goroutines dialling concurrently
    MaxConns,   \* bound: physical TCP connections the net dialer may open
    NoSession,  \* model value: no entry in d.sessions
    NoConn      \* model value: a caller holds no connection

ASSUME MaxConns \in Nat \ {0}

Conns == 1..MaxConns
\* Client ids on one conn: each handshake on a conn needs the entry of an
\* earlier one deleted by a caller holding another conn, so a conn sees
\* at most MaxConns of them.
ClientIds == 1..MaxConns
Session == [conn : Conns, client : 0..MaxConns]

VARIABLES
    kind,           \* which dialer: "ssh" or "sshd"
    sessions,       \* d.sessions
    connState,      \* "unused" | "open" | "closed" for each physical conn
    clients,        \* <<c, i>>: the i-th ssh client created on conn c
    dead,           \* clients whose wait() returned: s.closed is closed
    inits,          \* ssh.NewClientConn handshakes run on each conn
    caller,         \* [pc, addr, conn, res] of each router goroutine
    closedByDialer  \* history: conns the dialer itself closed

vars == <<kind, sessions, connState, clients, dead, inits, caller, closedByDialer>>

-----------------------------------------------------------------------------
(* sshSession.IsClosed: the client's wait() has returned.  A session     *)
(* without a client has nil channels and is never closed.                *)
IsClosed(s) == s.client # 0 /\ <<s.conn, s.client>> \in dead

(* delete(d.sessions, addr) *)
Evict(a) == sessions' = [sessions EXCEPT ![a] = NoSession]

(* conn.Close(): idempotent; remembered as a close done by the dialer. *)
CloseConn(c) ==
    /\ connState' = [connState EXCEPT ![c] = "closed"]
    /\ closedByDialer' = closedByDialer \cup {c}

Become(p, pc, a, c) == caller' = [caller EXCEPT ![p] = [pc |-> pc, addr |-> a, conn |-> c, res |-> caller[p].res]]
(* The dial of the route returns: "err" when Dial or Handshake failed,  *)
(* "ok" when the tunnel it produced has been used and closed.           *)
Finish(p, r) == caller' = [caller EXCEPT ![p] = [pc |-> "idle", addr |-> caller[p].addr, conn |-> NoConn, res |-> r]]
Return(p) == Finish(p, "err")

(* The net dialer opens the lowest-numbered conn not used yet. *)
FreshConn == CHOOSE c \in Conns :
                 /\ connState[c] = "unused"
                 /\ \A d \in Conns : connState[d] = "unused" => c <= d
CanOpenConn == \E c \in Conns : connState[c] = "unused"

(* Handshake's `!ok || session.client == nil` for the caller's conn. *)
NeedsInit(a, c) == sessions[a] \in {NoSession, [conn |-> c, client |-> 0]}

-----------------------------------------------------------------------------
(* Dial: lock; a live cached session is reused and its physical conn     *)
(* returned; a dead one is deleted and, like a miss, replaced by a fresh *)
(* TCP connection stored with a nil client.  A failed net dial returns   *)
(* the error with the dead entry already deleted.                        *)
Dial(p, a) ==
    LET s == sessions[a]
    IN  /\ caller[p].pc = "idle"
        /\ IF s # NoSession /\ ~IsClosed(s)
           THEN /\ Become(p, "dialed", a, s.conn)
                /\ UNCHANGED <<sessions, connState>>
           ELSE \/ /\ Evict(a)
                   /\ Return(p)
                   /\ UNCHANGED connState
                \/ /\ CanOpenConn
                   /\ connState' = [connState EXCEPT ![FreshConn] = "open"]
                   /\ sessions' = [sessions EXCEPT ![a] = [conn |-> FreshConn, client |-> 0]]
                   /\ Become(p, "dialed", a, FreshConn)
        /\ UNCHANGED <<clients, dead, inits, closedByDialer>>

(* Handshake, first check: the cached session for addr is built on a     *)
(* different conn than the caller's.  The caller's conn is closed AND   *)
(* the cached entry, which belongs to someone else, is deleted.          *)
HandshakeUnrecognized(p) ==
    LET a == caller[p].addr
        c == caller[p].conn
    IN  /\ caller[p].pc = "dialed"
        /\ sessions[a] # NoSession
        /\ sessions[a].conn # c
        /\ CloseConn(c)
        /\ Evict(a)
        /\ Return(p)
        /\ UNCHANGED <<clients, dead, inits>>

(* Fault variant of the failure branch that forgets the delete. *)
HandshakeInitFailsKeepEntry(p) ==
    LET c == caller[p].conn
    IN  /\ caller[p].pc = "dialed"
        /\ NeedsInit(caller[p].addr, c)
        /\ inits' = [inits EXCEPT ![c] = @ + 1]
        /\ CloseConn(c)
        /\ Return(p)
        /\ UNCHANGED <<sessions, clients, dead>>

(* Handshake, no entry or an entry without a client: initSession runs an *)
(* ssh client handshake on the caller's conn.  On error the conn is      *)
(* closed and the entry deleted.                                         *)
HandshakeInitFails(p) ==
    LET a == caller[p].addr
        c == caller[p].conn
    IN  /\ caller[p].pc = "dialed"
        /\ NeedsInit(a, c)
        /\ inits' = [inits EXCEPT ![c] = @ + 1]
        /\ CloseConn(c)
        /\ Evict(a)
        /\ Return(p)
        /\ UNCHANGED <<clients, dead>>

(* The last step of Handshake on a session that is not closed: ssh opens *)
(* a tunnel channel, which fails on a closed conn and then returns the   *)
(* error without eviction; sshd returns NewClientConn(session.conn,      *)
(* session.client), which cannot fail.                                   *)
OpenTunnel(p, a, c) ==
    \/ (kind = "sshd" \/ connState[c] = "open") /\ Become(p, "tunnel", a, c)
    \/ kind = "ssh" /\ Return(p)

InitClientId(c) == inits[c] + 1

HandshakeInitOk(p) ==
    LET a == caller[p].addr
        c == caller[p].conn
        i == InitClientId(c)
    IN  /\ caller[p].pc = "dialed"
        /\ NeedsInit(a, c)
        /\ connState[c] = "open"
        /\ inits' = [inits EXCEPT ![c] = @ + 1]
        /\ clients' = clients \cup {<<c, i>>}
        /\ sessions' = [sessions EXCEPT ![a] = [conn |-> c, client |-> i]]
        /\ OpenTunnel(p, a, c)
        /\ UNCHANGED <<connState, dead, closedByDialer>>

(* Handshake on the caller's own cached session with a client: if it is  *)
(* closed the entry is deleted (ErrSessionDead, conn left alone);        *)
(* otherwise the tunnel is opened (OpenTunnel).                          *)
HandshakeReuse(p) ==
    LET a == caller[p].addr
        c == caller[p].conn
        s == sessions[a]
    IN  /\ caller[p].pc = "dialed"
        /\ s # NoSession
        /\ s.conn = c
        /\ s.client # 0
        /\ IF IsClosed(s)
           THEN /\ Evict(a)
                /\ Return(p)
           ELSE /\ OpenTunnel(p, a, c)
                /\ UNCHANGED sessions
        /\ UNCHANGED <<connState, clients, dead, inits, closedByDialer>>

(* The caller closes its tunnel: only the ssh channel is closed. *)
CloseTunnel(p) ==
    /\ caller[p].pc = "tunnel"
    /\ Finish(p, "ok")
    /\ UNCHANGED <<sessions, connState, clients, dead, inits, closedByDialer>>

(* The peer or the network ends a physical connection. *)
RemoteClose(c) ==
    /\ connState[c] = "open"
    /\ connState' = [connState EXCEPT ![c] = "closed"]
    /\ UNCHANGED <<sessions, clients, dead, inits, caller, closedByDialer>>

(* The goroutine started by Handshake runs s.wait(): client.Wait returns *)
(* once the transport is gone and s.closed is closed.                    *)
Wait(c, i) ==
    /\ <<c, i>> \in clients \ dead
    /\ connState[c] = "closed"
    /\ dead' = dead \cup {<<c, i>>}
    /\ UNCHANGED <<kind, sessions, connState, clients, inits, caller, closedByDialer>>

-----------------------------------------------------------------------------
Init ==
    /\ kind \in Kinds
    /\ sessions = [a \in Addrs |-> NoSession]
    /\ connState = [c \in Conns |-> "unused"]
    /\ clients = {}
    /\ dead = {}
    /\ inits = [c \in Conns |-> 0]
    /\ caller = [p \in Callers |-> [pc |-> "idle", addr |-> CHOOSE a \in Addrs : TRUE, conn |-> NoConn, res |-> "none"]]
    /\ closedByDialer = {}

(* Handshake, whole: its first check, initSession, then the reuse check. *)
Handshake(p) ==
    \/ HandshakeUnrecognized(p)
    \/ HandshakeInitFails(p)
    \/ HandshakeInitOk(p)
    \/ HandshakeReuse(p)

Next ==
    /\ \/ \E p \in Callers, a \in Addrs : Dial(p, a)
       \/ \E p \in Callers : Handshake(p) \/ CloseTunnel(p)
       \/ \E c \in Conns : RemoteClose(c)
       \/ \E c \in Conns, i \in ClientIds : Wait(c, i)
    /\ UNCHANGED kind

(* The wait goroutine is always scheduled eventually. *)
Fairness == \A c \in Conns, i \in ClientIds : WF_vars(Wait(c, i))

Spec == Init /\ [][Next]_vars /\ Fairness

-----------------------------------------------------------------------------
(* Type invariant. *)
TypeOK ==
    /\ kind \in Kinds
    /\ sessions \in [Addrs -> Session \cup {NoSession}]
    /\ connState \in [Conns -> {"unused", "open", "closed"}]
    /\ clients \subseteq Conns \X ClientIds
    /\ dead \subseteq clients
    /\ inits \in [Conns -> 0..MaxConns]
    /\ caller \in [Callers -> [pc : {"idle", "dialed", "tunnel"}, addr : Addrs,
                               conn : Conns \cup {NoConn}, res : {"none", "ok", "err"}]]
    /\ closedByDialer \subseteq Conns

(* Spec 4.2: "exactly one initSession per (address, lifetime)".  An ssh  *)
(* client handshake (initSession) is never started on a conn that       *)
(* already carries a live ssh client: it would be spoken over a stream  *)
(* whose bytes that client's transport is reading.  Handshake's        *)
(* unrecognized-connection branch deletes the entry of a session it does *)
(* not own, so a later Handshake on that session's conn takes the miss   *)
(* branch and runs initSession again.                                    *)
InitOncePerConn ==
    [][\A c \in Conns : inits'[c] > inits[c] => ~\E i \in ClientIds : <<c, i>> \in clients \ dead]_vars

(* The cache never keeps an entry on a conn the dialer closed itself.    *)
(* Every failure path of Handshake closes a conn and deletes the entry,  *)
(* and a placeholder (nil client) entry is never IsClosed, so a stale    *)
(* one would make Dial hand out the dead conn for ever.                  *)
CacheHoldsNoDialerClosedConn ==
    \A a \in Addrs : sessions[a] # NoSession => sessions[a].conn \notin closedByDialer

=============================================================================
